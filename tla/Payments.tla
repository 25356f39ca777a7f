------------------------------- MODULE Payments -------------------------------
(***************************************************************************)
(* The payments service: webhook handlers, commands and the midnight job   *)
(* running interleaved over one Subscription table, against providers that *)
(* act on their own and deliver webhooks late, again or in any order.      *)
(***************************************************************************)
EXTENDS PayPalWebhooks, StripeWebhooks, SubscriptionCommands, SubscriptionCron,
        PaymentProvider

Tick ==
  /\ now < MaxTime
  /\ now' = now + 1
  /\ UNCHANGED <<row, remote, hooks, job, cron, txns, charged, told, faults, moves, clash>>

Handler(h) ==
  \/ PayPalWebhook(h) \/ StripeWebhook(h) \/ Command(h)
  \/ HandlerStep(h) \/ SwitchRemote(h) \/ Fail(h)

Next ==
  \/ \E h \in Slots : Handler(h)
  \/ \E s \in Subs : CreatePayment(s)
  \/ Cron \/ Crash \/ Provider \/ Tick

Spec == Init /\ [][Next]_vars

(***************************************************************************)
(* Safety.                                                                 *)
(***************************************************************************)

\* A row that counts as an active subscription carries the provider's id, so
\* that whoever retires it or switches its renewal can name it to the provider
\* (PaymentService.handleActiveSubscription, the autoRenewal commands).  The
\* Stripe id is written by one handler and overwritten by stale rows of others.
LiveRowsAreLinked == \A s \in Subs : Live(row[s]) => row[s].linked

\* handleActiveSubscription writes a PayPal rival's row as Canceled only when
\* PayPal has already cancelled it, whatever the user, PayPal and the other
\* handlers did between its awaits: no retired row goes on being charged.
RivalRevokedFirst ==
  \A h \in Slots :
    job[h].pc = "retire" /\ System[job[h].rival] = "PayPal"
      => remote[job[h].rival] = "cancelled"

\* disableSubscription writes its batch only when every suspended PayPal row in
\* it is cancelled at PayPal: a part of the calls failing leaves all rows live
\* for the next midnight.
BatchRevokedFirst ==
  cron.pc = "write" => \A s \in cron.revoked : remote[s] = "cancelled"

\* No sequence of payments, redeliveries and inherited dates takes a row, or
\* what the gateway is told, further than one period beyond the clock.
AtMostOnePeriodAhead ==
  /\ \A s \in Subs : row[s].end <= now + Period
  /\ \A u \in Users : told[u] <= now + Period

Crowded(u) ==
  \E s, t \in Subs : s # t /\ Owner[s] = u /\ Owner[t] = u /\ Live(row[s]) /\ Live(row[t])

\* The handler about to write row s.
WrittenBy(s, kinds) == \E h \in Slots :
  job[h].pc = "write" /\ job[h].ev.sub = s /\ job[h].ev.kind \in kinds

\* A user whose handlers never overlapped gets a second live row only from a
\* SUSPENDED webhook that comes for a row no longer, or not yet, live: every
\* other handler that makes a row live retires the rival first.  (It retires
\* one: of a user who already had two by that way, two are still live.)
SecondLiveRowOnlyByRace ==
  [][\A u \in Users : ~Crowded(u) /\ Crowded(u)' =>
       \/ u \in clash
       \/ \E s \in Subs : Owner[s] = u /\ ~Live(row[s]) /\ WrittenBy(s, {"Suspended"})
       \/ \E h \in Slots : /\ job[h].pc = "write" /\ Owner[job[h].ev.sub] = u
                           /\ job[h].rival # NoSub]_vars

\* Time a PayPal user has paid for is taken back only by a stale row, never by
\* handlers that ran one after the other, in whatever order they came.
PaidTimeLostOnlyByRace ==
  [][\A s \in Subs : System[s] = "PayPal" /\ row'[s].end < row[s].end =>
       Owner[s] \in clash]_vars

\* A Canceled row comes back to life only through a payment, a late SUSPENDED,
\* a repeated checkout, or a stale row; a late ACTIVATED never does it.
RevivedOnlyByPayment ==
  [][\A s \in Subs : row[s].status = "Canceled" /\ Live(row'[s]) =>
       \/ Owner[s] \in clash
       \/ WrittenBy(s, {"SaleCompleted", "Suspended", "Checkout"})]_vars

\* Once past Pending a PayPal row is never Pending again, even under races; a
\* Stripe row is, when an invoice handler read it before the checkout was
\* written, and only then.
BackToPendingOnlyByStaleInvoice ==
  [][\A s \in Subs : row[s].status # "None" /\ row[s].status # "Pending"
                     /\ row'[s].status = "Pending" =>
       Owner[s] \in clash /\ WrittenBy(s, {"InvoicePaid", "InvoiceFailed"})]_vars

\* Webhook handlers, the other commands and the midnight job write whole rows,
\* username included, as they read them: the name a rename wrote to a row is
\* taken back only where handlers of the user overlapped.
RenamedOnlyByRename ==
  [][\A s \in Subs : row[s].status # "None" /\ row'[s].name # row[s].name =>
       Owner[s] \in clash \/ WrittenBy(s, {"Rename"})]_vars

(***************************************************************************)
(* The inductive invariant behind the state properties: they are not       *)
(* inductive by themselves, because what a handler or the midnight job     *)
(* writes is a row it read earlier and holds in memory.                    *)
(***************************************************************************)

\* Events reach the handlers of the provider that sent them, and are past.
SentByItsSystem(e) ==
  /\ e.kind \in PayPalKinds => System[e.sub] = "PayPal"
  /\ e.kind \in StripeKinds => System[e.sub] = "Stripe"

EventInv ==
  /\ \A e \in hooks : SentByItsSystem(e) /\ e.at <= now
  /\ \A h \in Slots : Busy(h) => SentByItsSystem(job[h].ev)

\* r, as the row of s, is one a provider's id can be found on when needed.
WellLinked(s, r) ==
  /\ Live(r) => r.linked
  /\ System[s] = "PayPal" /\ r.status # "None" => r.linked

\* What a handler writes was read from an inserted row, and a rival was live.
LinkInv ==
  /\ \A s \in Subs : WellLinked(s, row[s])
  /\ \A h \in Slots : Busy(h) =>
       job[h].row.status # "None" /\ WellLinked(job[h].ev.sub, job[h].row)
  /\ \A h \in Slots : job[h].pc \in {"revoke", "retire"} => job[h].rivalRow.linked
  /\ cron.pc # "idle" => \A s \in Subs : WellLinked(s, cron.rows[s])

RevokeInv ==
  /\ RivalRevokedFirst
  /\ BatchRevokedFirst
  /\ cron.pc = "revoke" => \A s \in cron.revoked \ cron.todo : remote[s] = "cancelled"

TimeInv ==
  /\ AtMostOnePeriodAhead
  /\ \A h \in Slots : Busy(h) =>
       job[h].row.end <= now + Period /\ job[h].rivalRow.end <= now + Period
  /\ cron.pc # "idle" => \A s \in Subs : cron.rows[s].end <= now + Period

\* Of a user who never had two handlers in flight there is at most one, and
\* none beside the midnight job.
AloneInv ==
  /\ \A g, h \in Slots :
       Busy(g) /\ Busy(h) /\ g # h /\ Owner[job[g].ev.sub] = Owner[job[h].ev.sub] =>
         Owner[job[h].ev.sub] \in clash
  /\ cron.pc # "idle" => InFlight \subseteq clash

\* What is held in memory, races or not: only an invoice leaves a row Pending,
\* a rival is another live row of the same user, the midnight job ends its whole
\* batch; and neither a Pending PayPal row nor one to be inserted has a date.
MemoryInv ==
  /\ \A h \in Slots : Busy(h) =>
       /\ job[h].row.status = "Pending" => job[h].ev.kind \in {"InvoicePaid", "InvoiceFailed"}
       /\ job[h].ev.kind = "Activated" => job[h].row.status = "Active"
  /\ \A h \in Slots : job[h].pc \in {"revoke", "retire"} =>
       /\ job[h].rival # job[h].ev.sub /\ Owner[job[h].rival] = Owner[job[h].ev.sub]
       /\ Live(job[h].rivalRow)
  /\ cron.pc # "idle" => \A s \in cron.batch : cron.rows[s].status = "Canceled"
  /\ \A s \in Subs :
       row[s].status = "None" \/ (System[s] = "PayPal" /\ row[s].status = "Pending")
         => row[s].end = 0

\* What the row still is that h read and has not written yet.
Fresh(h) ==
  LET j == job[h]  present == row[job[h].ev.sub] IN
  /\ Live(j.row) /\ j.ev.kind \notin {"SaleCompleted", "Suspended", "Checkout"} =>
       present.status # "Canceled"
  /\ j.row.status = "Pending" => present.status = "Pending"
  /\ System[j.ev.sub] = "PayPal" => present.end <= j.row.end
  /\ present.status # "None" /\ (j.ev.kind # "Rename" => j.row.name = present.name)
  /\ j.ev.kind = "Activated" /\ j.pc \in {"find", "revoke", "retire"} => present.end = 0
  /\ j.pc \in {"revoke", "retire"} => j.rivalRow = row[j.rival]
  /\ j.pc \in {"call", "write"} /\ Live(j.row) /\ j.ev.kind # "Suspended" /\ j.rival = NoSub =>
       \/ Live(present)
       \/ \A t \in Subs : Owner[t] = Owner[j.ev.sub] => ~Live(row[t])

\* Nothing in memory is stale about a user whose handlers never overlapped.
FreshInv ==
  /\ \A h \in Slots :
       job[h].pc \in {"find", "call", "revoke", "retire", "write"} =>
         Owner[job[h].ev.sub] \in clash \/ Fresh(h)
  /\ cron.pc # "idle" => \A s \in cron.batch :
       \/ Owner[s] \in clash
       \/ /\ cron.rows[s].end = row[s].end /\ cron.rows[s].name = row[s].name
          /\ row[s].status # "None"

RaceInv == AloneInv /\ MemoryInv /\ FreshInv

IInv == EventInv /\ LinkInv /\ RevokeInv /\ TimeInv /\ RaceInv

(***************************************************************************)
(* Liveness, under fairness.                                               *)
(***************************************************************************)

\* A handler that was started runs on; the midnight job comes every day; and
\* PayPal delivers an unacknowledged event again and again (its handlers'
\* errors become a 500), so a payment and a cancellation get their turn.  Other
\* deliveries, users and providers are not bound to anything.
Deliver(s, kind) ==
  \E h \in Slots, e \in hooks : e.sub = s /\ e.kind = kind /\ PayPalHandle(h, e)

Fairness ==
  /\ \A h \in Slots : WF_vars(HandlerStep(h) \/ SwitchRemote(h))
  /\ WF_vars(Cron)
  /\ \A s \in Subs, kind \in {"SaleCompleted", "Cancelled"} : SF_vars(Deliver(s, kind))

FairSpec == Spec /\ Fairness

\* A PayPal row that counts as active although its subscription is over at
\* PayPal.  Nothing will ever be heard of it again and PayPal refuses to cancel
\* it: a late SUSPENDED, or a stale row written over a cancellation, leaves it.
Stranded(s) == System[s] = "PayPal" /\ Live(row[s]) /\ remote[s] = "cancelled"

\* Every charge PayPal takes is recorded in the end, through failures, restarts
\* and redeliveries, unless a stranded row of the same user makes
\* handleActiveSubscription throw on every delivery.
ChargesAreRecorded ==
  \A s \in Subs, t \in 1..MaxTime :
    System[s] = "PayPal" =>
      [](t \in charged[s] => \/ <>(t \in txns[s])
                             \/ <>[](\E r \in Subs : Owner[r] = Owner[s] /\ Stranded(r)))

\* Every expired row is ended by some midnight, unless one stranded suspended
\* row, of any user, makes cancelManySubscription throw each time.
ExpiredRowsAreEnded ==
  \A s \in Subs :
    [](s \in getActiveSubscriptionsByDate(now) =>
         \/ <>(s \notin getActiveSubscriptionsByDate(now))
         \/ <>[](\E r \in Subs : Stranded(r) /\ row[r].status = "Suspended"))
=============================================================================
