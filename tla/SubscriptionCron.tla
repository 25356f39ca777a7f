-------------------------- MODULE SubscriptionCron --------------------------
(***************************************************************************)
(* PaymentService.disableSubscription, the midnight job that ends expired  *)
(* subscriptions: read every expired live row, cancel the suspended PayPal *)
(* ones at PayPal, write all the rows as read in one transaction, and only *)
(* then tell the gateway: what fails or restarts in between leaves rows    *)
(* ended and nobody told.  Nothing awaits the job; it runs beside handlers. *)
(***************************************************************************)
EXTENDS PaymentsState, Integers

\* getPSTDate: the hour in UTC-8, at a local hour of the server.
PSTHour(hour) == (hour - 8) % 24

\* Mutant: the cut-off is taken for an hour after midnight, Pacific time.
CancelTooLate(r, date, hour) == r.end < date /\ PSTHour(hour) > 16

\* The job runs at hour 0, so the wait for PayPal's own cut-off never applies.
shouldCancelPayPalSubscription(r, date, hour) == r.end < date /\ PSTHour(hour) > 6

Midnight == 0

CronRead ==
  LET batch == getActiveSubscriptionsByDate(now)
      ended == {s \in batch : System[s] = "PayPal" =>
                  shouldCancelPayPalSubscription(row[s], now, Midnight)}
      suspended == {s \in ended : System[s] = "PayPal" /\ row[s].status = "Suspended"}
  IN
  /\ cron.pc = "idle" /\ batch # {}
  /\ cron' = [pc |-> IF suspended = {} THEN "write" ELSE "revoke",
              batch |-> batch,
              rows |-> [s \in Subs |-> IF s \in ended THEN cancelSubscription(row[s])
                                                      ELSE row[s]],
              revoked |-> suspended, todo |-> suspended]
  /\ clash' = clash \cup InFlight
  /\ UNCHANGED <<row, remote, hooks, job, txns, charged, told, now, faults, moves>>

\* Mutant: the first call that returns is enough.
CronRevokeOne(s) ==
  /\ cron.pc = "revoke" /\ s \in cron.todo
  /\ CancelRemote(s)
  /\ cron' = [cron EXCEPT !.todo = @ \ {s}, !.pc = "write"]
  /\ UNCHANGED <<row, job, txns, charged, told, now, faults, moves, clash>>

\* One of the concurrent calls of cancelManySubscription succeeds.
CronRevoke(s) ==
  /\ cron.pc = "revoke" /\ s \in cron.todo
  /\ CancelRemote(s)
  /\ cron' = [cron EXCEPT !.todo = @ \ {s},
                          !.pc = IF cron.todo = {s} THEN "write" ELSE "revoke"]
  /\ UNCHANGED <<row, job, txns, charged, told, now, faults, moves, clash>>

\* One call fails and the job gives up with no row written; the calls already
\* under way still take effect.
CronGiveUp ==
  /\ cron.pc = "revoke"
  /\ \/ (\E s \in cron.todo : ~Cancellable(s)) /\ UNCHANGED faults
     \/ faults < MaxFaults /\ faults' = faults + 1
  /\ \E more \in SUBSET {s \in cron.todo : Cancellable(s)} :
       /\ remote' = [s \in Subs |-> IF s \in more THEN "cancelled" ELSE remote[s]]
       /\ hooks' = hooks \cup {Cancellation(s) : s \in more}
  /\ cron' = IdleCron
  /\ UNCHANGED <<row, job, txns, charged, told, now, moves, clash>>

\* updateManySub, all the rows in one transaction.
CronWrite ==
  /\ cron.pc = "write"
  /\ row' = [s \in Subs |-> IF s \in cron.batch THEN cron.rows[s] ELSE row[s]]
  /\ cron' = [cron EXCEPT !.pc = "tell"]
  /\ UNCHANGED <<remote, hooks, job, txns, charged, told, now, faults, moves, clash>>

\* gatewayData: the rows of the batch that were ended, whether PayPal's or not.
gatewayData == {s \in cron.batch : cron.rows[s].status = "Canceled"}

\* sendSubscriptionsInfo: the end dates of the ended rows in one message, where
\* the last one about a user counts.
CronTell ==
  LET of(u) == {s \in gatewayData : Owner[s] = u} IN
  /\ cron.pc = "tell"
  /\ \E last \in [Users -> Subs] :
       /\ \A u \in Users : of(u) # {} => last[u] \in of(u)
       /\ told' = [u \in Users |-> IF of(u) = {} THEN told[u] ELSE cron.rows[last[u]].end]
  /\ cron' = IdleCron
  /\ UNCHANGED <<row, remote, hooks, job, txns, charged, now, faults, moves, clash>>

\* The transaction rejects, before its commit or after: the catch logs it.
CronFail ==
  /\ cron.pc \in {"write", "tell"} /\ faults < MaxFaults
  /\ faults' = faults + 1
  /\ cron' = IdleCron
  /\ UNCHANGED <<row, remote, hooks, job, txns, charged, told, now, moves, clash>>

Cron ==
  \/ CronRead \/ (\E s \in Subs : CronRevoke(s)) \/ CronGiveUp
  \/ CronWrite \/ CronTell \/ CronFail
=============================================================================
