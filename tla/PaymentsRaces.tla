----------------------------- MODULE PaymentsRaces -----------------------------
(* What Payments says of races holds for every value of its constants:      *)
(* about a user whose handlers never overlapped nothing in memory is stale. *)
(* With it the inductive invariant is complete, and the properties follow.  *)
EXTENDS PaymentsInvariants

(***************************************************************************)
(* What a step can do to a row, to a handler and to the history.           *)
(***************************************************************************)

Steps(h) == HandlerStep(h) \/ SwitchRemote(h) \/ Fail(h)

LEMMA StepFrame ==
  ASSUME TypeOK, NEW h \in Slots, Steps(h)
  PROVE  Busy(h) /\ UNCHANGED <<cron, clash>> /\ \A g \in Slots \ {h} : job'[g] = job[g]
<1>1. ASSUME NEW pc, Advance(h, pc) PROVE \A g \in Slots \ {h} : job'[g] = job[g]
  BY <1>1 DEF Advance, TypeOK
<1>2. ASSUME Abort(h) PROVE \A g \in Slots \ {h} : job'[g] = job[g]
  BY <1>2 DEF Abort, TypeOK
<1>3. CASE FindRival(h) \/ RetireRival(h)
  BY <1>3 DEF FindRival, RetireRival, TypeOK, Busy
<1>4. CASE RevokeRival(h)
  BY <1>2, <1>4 DEF RevokeRival, TypeOK, Busy
<1>5. CASE SwitchRemote(h)
  BY <1>2, <1>5 DEF SwitchRemote, TypeOK, Busy
<1> QED
  BY <1>1, <1>2, <1>3, <1>4, <1>5
  DEF Steps, HandlerStep, WriteRow, RecordTransaction, TellGateway, Fail, Busy

LEMMA RowSteps ==
  ASSUME TypeOK, EventInv, [Next]_vars, NEW s \in Subs
  PROVE  \/ row'[s] = row[s]
         \/ row[s].status = "None" /\ row'[s] \in NewRows(s)
         \/ \E h \in Slots : /\ RetireRival(h) /\ s = job[h].rival
                             /\ row'[s] = cancelSubscription(job[h].rivalRow)
         \/ \E h \in Slots : /\ WriteRow(h) /\ s = job[h].ev.sub
                             /\ row'[s] = Written(row[s], job[h])
         \/ CronWrite /\ s \in cron.batch /\ row'[s] = cron.rows[s]
<1> USE DEF TypeOK
<1>1. ASSUME NEW h \in Slots, Steps(h), ~RetireRival(h), ~WriteRow(h) PROVE row' = row
  BY <1>1 DEF Steps, HandlerStep, FindRival, RevokeRival, RecordTransaction, TellGateway,
     SwitchRemote, Fail
<1>2. ASSUME NEW h \in Slots, RetireRival(h)
      PROVE  row'[s] = IF s = job[h].rival THEN cancelSubscription(job[h].rivalRow) ELSE row[s]
  BY <1>2 DEF RetireRival
<1>3. ASSUME NEW h \in Slots, WriteRow(h)
      PROVE  row'[s] = IF s = job[h].ev.sub THEN Written(row[s], job[h]) ELSE row[s]
  BY <1>3 DEF WriteRow
<1>4. CASE CronWrite
  BY <1>4 DEF CronWrite
<1>5. ASSUME NEW t \in Subs, CreatePayment(t)
      PROVE  row'[s] = row[s] \/ (row[s].status = "None" /\ row'[s] \in NewRows(s))
  BY <1>5, CreatePaymentInserts DEF CreatePayment
<1>6. CASE Elsewhere
  BY <1>4, <1>5, <1>6 DEF Elsewhere, vars, Cron, CronRead, CronRevoke, CronGiveUp, CronTell,
     CronFail, Provider, Approve, Charge, Decline, ProviderSuspend, ProviderCancel, Tick
<1>7. CASE Crash
  BY <1>7 DEF Crash
<1> QED
  BY <1>1, <1>2, <1>3, <1>6, <1>7, NextCases, BeginEffect DEF Steps

\* A handler that begins about a user who is in somebody's hands clashes.
LEMMA BeginClash ==
  ASSUME TypeOK, NEW h \in Slots, Begins(h)
  PROVE  /\ clash \subseteq clash'
         /\ job' # job =>
              /\ ~Busy(h)
              /\ Owner[job'[h].ev.sub] \in InFlight \/ cron.pc # "idle" =>
                   Owner[job'[h].ev.sub] \in clash'
<1> DEFINE Goal == /\ clash \subseteq clash'
                   /\ job' # job =>
                        /\ ~Busy(h)
                        /\ Owner[job'[h].ev.sub] \in InFlight \/ cron.pc # "idle" =>
                             Owner[job'[h].ev.sub] \in clash'
<1> SUFFICES Goal OBVIOUS
<1>1. ASSUME NEW e, Ignore(h, e) PROVE Goal
  BY <1>1 DEF Ignore
<1>2. ASSUME NEW e, NEW r, NEW pc, Start(h, e, pc, r) PROVE Goal
  <2>1. job'[h].ev = e
    BY <1>2 DEF Start, TypeOK
  <2> QED BY <1>2, <2>1 DEF Start
<1> HIDE DEF Goal
<1>3. CASE PayPalWebhook(h)
  BY <1>1, <1>2, <1>3 DEF PayPalWebhook, PayPalHandle, PaymentSucceeded, PaymentFailed,
     SubscriptionActive, SubscriptionSuspended, SubscriptionCancelled
<1>4. CASE StripeWebhook(h)
  BY <1>1, <1>2, <1>4 DEF StripeWebhook, StripeHandle, CheckoutCompleted, InvoicePaid,
     InvoiceFailed, SubscriptionDeleted
<1>5. CASE Command(h)
  BY <1>2, <1>5 DEF Command, DisableAutoRenewal, EnableAutoRenewal, UpdateUsername
<1> QED
  BY <1>3, <1>4, <1>5 DEF Begins

LEMMA ClashGrows == ASSUME TypeOK, [Next]_vars PROVE clash \subseteq clash'
<1>1. CASE Elsewhere
  BY <1>1 DEF Elsewhere, vars, Cron, CronRead, CronRevoke, CronGiveUp, CronWrite, CronTell,
     CronFail, Provider, Approve, Charge, Decline, ProviderSuspend, ProviderCancel, Tick,
     CreatePayment
<1>2. CASE Crash
  BY <1>2 DEF Crash
<1> QED
  BY <1>1, <1>2, NextCases, BeginClash, StepFrame DEF Steps

\* The midnight job begins, goes on with what it read, or is over.
LEMMA CronSteps ==
  ASSUME TypeOK, EventInv, [Next]_vars, cron'.pc # "idle"
  PROVE  \/ CronRead
         \/ /\ cron.pc # "idle" /\ cron'.batch = cron.batch /\ cron'.rows = cron.rows
            /\ cron'.pc = "tell" <=> (cron.pc = "tell" \/ CronWrite)
<1> DEFINE GoesOn == /\ cron.pc # "idle" /\ cron'.batch = cron.batch /\ cron'.rows = cron.rows
                     /\ cron'.pc = "tell" <=> (cron.pc = "tell" \/ CronWrite)
<1>1. ASSUME CronWrite \/ \E s \in Subs : CronRevoke(s) PROVE GoesOn
  BY <1>1, BusyCrons DEF CronRevoke, CronWrite, BusyCron
<1>2. CASE cron' = cron
  <2>1. ~CronWrite
    BY <1>2, BusyCrons DEF CronWrite, BusyCron
  <2> QED BY <1>2, <2>1
<1> HIDE DEF GoesOn
<1>3. CASE Elsewhere
  BY <1>1, <1>2, <1>3 DEF Elsewhere, vars, Cron, CronGiveUp, CronTell, CronFail, IdleCron,
     Provider, Approve, Charge, Decline, ProviderSuspend, ProviderCancel, Tick, CreatePayment,
     GoesOn
<1>4. CASE Crash
  BY <1>4 DEF Crash, IdleCron
<1> QED
  BY <1>2, <1>3, <1>4, NextCases, BeginEffect, StepFrame DEF Steps

\* Whoever is at work was so before, or begins.
LEMMA JobSteps ==
  ASSUME TypeOK, EventInv, [Next]_vars, NEW g \in Slots, job'[g].pc # "idle"
  PROVE  \/ Busy(g) /\ job'[g] = job[g]
         \/ Busy(g) /\ Steps(g) /\ job'[g].ev = job[g].ev
         \/ Begins(g) /\ job' # job /\ ~Busy(g)
<1>1. CASE Elsewhere
  BY <1>1, ElsewhereKeepsJobs DEF Busy
<1>2. CASE Crash
  BY <1>2 DEF Crash, IdleJob
<1>3. ASSUME NEW h \in Slots, Begins(h)
      PROVE  (Busy(g) /\ job'[g] = job[g]) \/ (Begins(g) /\ job' # job /\ ~Busy(g))
  BY <1>3, BeginEffect, BeginClash DEF Busy
<1>4. ASSUME NEW h \in Slots, Steps(h)
      PROVE  \/ Busy(g) /\ job'[g] = job[g]
             \/ Busy(g) /\ Steps(g) /\ job'[g].ev = job[g].ev
  BY <1>4, StepFrame, StepKeepsEvent DEF Steps, Busy
<1> QED
  BY <1>1, <1>2, <1>3, <1>4, NextCases DEF Steps

(***************************************************************************)
(* AloneInv.                                                               *)
(***************************************************************************)

LEMMA AloneNext == ASSUME TypeOK, EventInv, AloneInv, [Next]_vars PROVE AloneInv'
<1>1. clash \subseteq clash'
  BY ClashGrows
<1>2. ASSUME NEW g \in Slots, NEW h \in Slots, job'[g].pc # "idle", job'[h].pc # "idle",
             g # h, Owner[job'[g].ev.sub] = Owner[job'[h].ev.sub]
      PROVE  Owner[job'[h].ev.sub] \in clash'
  <2>1. CASE Busy(g) /\ Busy(h) /\ job'[g].ev = job[g].ev /\ job'[h].ev = job[h].ev
    BY <1>1, <1>2, <2>1 DEF AloneInv
  <2>2. ASSUME NEW k \in Slots, NEW m \in Slots, k # m, Begins(k), job' # job, job'[m].pc # "idle",
               Owner[job'[m].ev.sub] = Owner[job'[k].ev.sub]
        PROVE  Owner[job'[k].ev.sub] \in clash'
    <3>1. job'[m] = job[m]
      BY <2>2, BeginEffect
    <3>2. Owner[job'[k].ev.sub] \in InFlight
      BY <2>2, <3>1 DEF InFlight, Busy
    <3> QED BY <2>2, <3>2, BeginClash
  <2>3. CASE Begins(g) /\ job' # job
    BY <1>2, <2>2, <2>3
  <2>4. CASE Begins(h) /\ job' # job
    BY <1>2, <2>2, <2>4
  <2> QED BY <1>2, <2>1, <2>3, <2>4, JobSteps
<1>3. ASSUME cron'.pc # "idle", NEW g \in Slots, job'[g].pc # "idle"
      PROVE  Owner[job'[g].ev.sub] \in clash'
  <2>1. CASE CronRead
    BY <1>3, <2>1 DEF CronRead, InFlight, Busy
  <2>2. CASE cron.pc # "idle"
    <3>1. CASE Busy(g) /\ job'[g].ev = job[g].ev
      BY <1>1, <2>2, <3>1 DEF AloneInv, InFlight
    <3> QED BY <1>3, <2>2, <3>1, JobSteps, BeginClash
  <2> QED BY <1>3, <2>1, <2>2, CronSteps
<1>4. cron'.pc # "idle" => InFlight' \subseteq clash'
  BY <1>3 DEF InFlight, Busy
<1> QED
  BY <1>2, <1>4 DEF AloneInv, Busy

(***************************************************************************)
(* What a handler has in memory when it begins.                            *)
(***************************************************************************)

Invoices == {"InvoicePaid", "InvoiceFailed"}
Revivers == {"SaleCompleted", "Suspended", "Checkout"}

\* r is what the handler of e makes of the present row.
Computed(e, pc, r) ==
  /\ r.status = "Pending" => e.kind \in Invoices /\ row[e.sub].status = "Pending"
  /\ e.kind \in {"Activated", "SaleCompleted"} => r.status = "Active"
  /\ e.kind \in {"SaleFailed", "Cancelled"} => r.status = "Canceled"
  /\ Live(r) /\ e.kind \notin Revivers => row[e.sub].status # "Canceled"
  /\ System[e.sub] = "PayPal" =>
       /\ row[e.sub].end <= r.end
       /\ e.kind # "SaleCompleted" => r.end = row[e.sub].end
  /\ e.kind = "Activated" /\ pc = "find" /\ System[e.sub] = "PayPal" => row[e.sub].end = 0
  /\ pc \in {"call", "write"} /\ Live(r) /\ e.kind # "Suspended" => Live(row[e.sub])
  /\ row[e.sub].status # "None" /\ (e.kind # "Rename" => r.name = row[e.sub].name)

LEMMA BeginComputed ==
  ASSUME TypeOK, EventInv, TimeInv, MemoryInv, NEW h \in Slots, Begins(h), job' # job
  PROVE  /\ hooks' = hooks /\ job'[h].rival = NoSub /\ job'[h].pc \in {"find", "call", "write"}
         /\ Computed(job'[h].ev, job'[h].pc, job'[h].row)
<1> DEFINE Goal == /\ hooks' = hooks /\ job'[h].rival = NoSub /\ job'[h].pc \in {"find", "call", "write"}
                   /\ Computed(job'[h].ev, job'[h].pc, job'[h].row)
<1> SUFFICES Goal OBVIOUS
<1>1. ASSUME NEW e, NEW r, NEW pc \in {"find", "call", "write"}, Start(h, e, pc, r),
             Computed(e, pc, r)
      PROVE  Goal
  <2>1. job'[h] = [pc |-> pc, ev |-> e, row |-> r, rival |-> NoSub, rivalRow |-> NoRow]
    BY <1>1 DEF Start, TypeOK
  <2> QED BY <1>1, <2>1 DEF Start
<1> HIDE DEF Goal
<1> USE DEF Computed, Live, Invoices, Revivers
<1>2. \A s \in Subs : row[s] \in Row /\ row[s].end \in Nat /\ row[s].end <= now + Period
  BY DEF TypeOK, Row, TimeInv, AtMostOnePeriodAhead
<1>3. \A e \in hooks : e.sub \in Subs /\ SentByItsSystem(e)
  BY DEF EventInv, TypeOK, Event
<1>4. now + Period \in Nat /\ now + Period # 0
  BY PeriodAssumption DEF TypeOK
<1>5. CASE PayPalWebhook(h)
  <2>1. PICK e \in hooks : PayPalHandle(h, e)
    BY <1>5 DEF PayPalWebhook
  <2>2. /\ row[e.sub] \in Row /\ row[e.sub].end \in Nat /\ row[e.sub].end <= now + Period
        /\ row[e.sub].status # "None"
    BY <1>2, <1>3, <2>1 DEF PayPalHandle, PaymentSucceeded, PaymentFailed, SubscriptionActive,
       SubscriptionSuspended, SubscriptionCancelled, PayPalEvent
  <2>3. ~Ignore(h, e)
    BY DEF Ignore
  <2>4. CASE PaymentSucceeded(h, e)
    <3> DEFINE r == update(row[e.sub], "Active", now + Period)
    <3>1. /\ r.status = "Active" /\ r.end = now + Period
          /\ r.name = row[e.sub].name
      BY <1>4, <2>2 DEF update, KeepIfNull, Row
    <3>2. e.kind = "SaleCompleted" /\ Start(h, e, "find", r)
      BY <2>4 DEF PaymentSucceeded, PayPalEvent
    <3> HIDE DEF r
    <3> QED BY <1>1, <2>2, <3>1, <3>2
  <2>5. CASE PaymentFailed(h, e)
    <3> DEFINE r == update(row[e.sub], "Canceled", row[e.sub].end)
    <3>1. r.status = "Canceled" /\ r.end = row[e.sub].end /\ r.name = row[e.sub].name
      BY <2>2 DEF update, KeepIfNull, Row
    <3>2. e.kind = "SaleFailed" /\ Start(h, e, "write", r)
      BY <2>5 DEF PaymentFailed, PayPalEvent
    <3> HIDE DEF r
    <3> QED BY <1>1, <2>2, <3>1, <3>2
  <2>6. CASE SubscriptionActive(h, e)
    <3> DEFINE r == activateSubscription(row[e.sub], 0)
    <3>1. r.status = "Active" /\ r.end = row[e.sub].end /\ r.name = row[e.sub].name
      BY <2>2 DEF activateSubscription, KeepIfNull, Row
    <3>2. /\ e.kind = "Activated" /\ e.sub \in Subs
          /\ \/ row[e.sub].status = "Pending" /\ Start(h, e, "find", r)
             \/ row[e.sub].status = "Suspended" /\ Start(h, e, "write", r)
      BY <1>3, <2>3, <2>6 DEF SubscriptionActive, PayPalEvent
    <3>3. row[e.sub].status = "Pending" /\ System[e.sub] = "PayPal" => row[e.sub].end = 0
      BY <3>2 DEF MemoryInv
    <3> HIDE DEF r
    <3> QED BY <1>1, <2>2, <3>1, <3>2, <3>3
  <2>7. CASE SubscriptionSuspended(h, e)
    <3> DEFINE r == suspendSubscription(row[e.sub])
    <3>1. r.status = "Suspended" /\ r.end = row[e.sub].end /\ r.name = row[e.sub].name
      BY <2>2 DEF suspendSubscription, Row
    <3>2. e.kind = "Suspended" /\ Start(h, e, "write", r)
      BY <2>3, <2>7 DEF SubscriptionSuspended, PayPalEvent
    <3> HIDE DEF r
    <3> QED BY <1>1, <2>2, <3>1, <3>2
  <2>8. CASE SubscriptionCancelled(h, e)
    <3> DEFINE r == cancelSubscription(row[e.sub])
    <3>1. r.status = "Canceled" /\ r.end = row[e.sub].end /\ r.name = row[e.sub].name
      BY <2>2 DEF cancelSubscription, Row
    <3>2. e.kind = "Cancelled" /\ Start(h, e, "write", r)
      BY <2>3, <2>8 DEF SubscriptionCancelled, PayPalEvent
    <3> HIDE DEF r
    <3> QED BY <1>1, <2>2, <3>1, <3>2
  <2> QED BY <2>1, <2>4, <2>5, <2>6, <2>7, <2>8 DEF PayPalHandle
<1>6. CASE StripeWebhook(h)
  <2>1. PICK e \in hooks : StripeHandle(h, e)
    BY <1>6 DEF StripeWebhook
  <2>2. row[e.sub] \in Row /\ ~Ignore(h, e)
    BY <1>2, <1>3 DEF Ignore
  <2>3. e.kind \in StripeKinds /\ System[e.sub] # "PayPal" /\ row[e.sub].status # "None"
    BY <1>3, <2>1 DEF StripeHandle, CheckoutCompleted, InvoicePaid, InvoiceFailed,
       SubscriptionDeleted, StripeEvent, StripeKinds, SentByItsSystem
  <2>4. CASE CheckoutCompleted(h, e)
    <3> DEFINE r == [row[e.sub] EXCEPT !.status = "Active", !.linked = TRUE]
    <3>1. r.status = "Active" /\ r.name = row[e.sub].name
      BY <2>2 DEF Row
    <3>2. e.kind = "Checkout" /\ Start(h, e, "find", r)
      BY <2>4 DEF CheckoutCompleted, StripeEvent
    <3> HIDE DEF r
    <3> QED BY <1>1, <2>3, <3>1, <3>2
  <2>5. CASE InvoicePaid(h, e)
    <3>1. PICK end \in (e.at + 1)..(e.at + Period) :
            Start(h, e, "write", [row[e.sub] EXCEPT !.end = end])
      BY <2>5 DEF InvoicePaid
    <3> DEFINE r == [row[e.sub] EXCEPT !.end = end]
    <3>2. r.status = row[e.sub].status /\ r.name = row[e.sub].name
      BY <2>2 DEF Row
    <3>3. e.kind = "InvoicePaid" /\ Start(h, e, "write", r)
      BY <2>5, <3>1 DEF InvoicePaid, StripeEvent
    <3> HIDE DEF r
    <3> QED BY <1>1, <2>3, <3>2, <3>3
  <2>6. CASE InvoiceFailed(h, e)
    <3>1. PICK end \in {e.at, e.at + Period} :
            Start(h, e, "write", [row[e.sub] EXCEPT !.end = end])
      BY <2>6 DEF InvoiceFailed
    <3> DEFINE r == [row[e.sub] EXCEPT !.end = end]
    <3>2. r.status = row[e.sub].status /\ r.name = row[e.sub].name
      BY <2>2 DEF Row
    <3>3. e.kind = "InvoiceFailed" /\ Start(h, e, "write", r)
      BY <2>6, <3>1 DEF InvoiceFailed, StripeEvent
    <3> HIDE DEF r
    <3> QED BY <1>1, <2>3, <3>2, <3>3
  <2>7. CASE SubscriptionDeleted(h, e)
    <3> DEFINE r == cancelSubscription(row[e.sub])
    <3>1. r.status = "Canceled" /\ r.name = row[e.sub].name
      BY <2>2 DEF cancelSubscription, Row
    <3>2. e.kind = "Deleted" /\ Start(h, e, "write", r)
      BY <2>2, <2>7 DEF SubscriptionDeleted, StripeEvent
    <3> HIDE DEF r
    <3> QED BY <1>1, <2>3, <3>1, <3>2
  <2> QED BY <2>1, <2>4, <2>5, <2>6, <2>7 DEF StripeHandle
<1>7. CASE Command(h)
  <2>1. PICK s \in Subs : \/ DisableAutoRenewal(h, s) \/ EnableAutoRenewal(h, s)
                         \/ UpdateUsername(h, s)
    BY <1>7 DEF Command
  <2>2. Live(row[s]) /\ row[s] \in Row /\ row[s].end \in Nat
    BY <1>2, <2>1, NoSubAssumption DEF DisableAutoRenewal, EnableAutoRenewal, UpdateUsername,
       LiveRow, getActiveSubscriptionByUserId
  <2>3. ASSUME NEW r, NEW kind \in CommandKinds, NEW pc \in {"call", "write"},
               Live(r), r.end = row[s].end, kind = "Rename" \/ r.name = row[s].name,
               Start(h, EventOf(kind, s), pc, r)
        PROVE  Goal
    <3> DEFINE e == EventOf(kind, s)
    <3>1. e.kind = kind /\ e.sub = s /\ Start(h, e, pc, r)
      BY <2>3 DEF EventOf
    <3>2. kind \notin PayPalKinds
      BY DEF CommandKinds, PayPalKinds
    <3> HIDE DEF e
    <3> QED BY <1>1, <2>2, <2>3, <3>1, <3>2 DEF PayPalKinds
  <2>4. \A r \in {handleDisable(s), handleEnable(s)} :
          Live(r) /\ r.end = row[s].end /\ r.name = row[s].name
    BY <2>2 DEF handleDisable, handleEnable, suspendSubscription, disableAutoRenewal,
       activateSubscription, enableAutoRenewal, KeepIfNull, Row
  <2>5. CASE UpdateUsername(h, s)
    <3>1. \A name : /\ Live([row[s] EXCEPT !.name = name])
                   /\ [row[s] EXCEPT !.name = name].end = row[s].end
      BY <2>2 DEF Row
    <3> QED BY <2>3, <2>5, <3>1 DEF UpdateUsername, CommandKinds
  <2> QED BY <2>1, <2>3, <2>4, <2>5 DEF DisableAutoRenewal, EnableAutoRenewal, CommandKinds
<1> QED
  BY <1>5, <1>6, <1>7 DEF Begins

(***************************************************************************)
(* MemoryInv.                                                              *)
(***************************************************************************)

\* At midnight every expired row is ended: in UTC-8 it is past 6 o'clock.
LEMMA MidnightEnds == ASSUME NEW r, NEW date, r.end < date
                      PROVE  shouldCancelPayPalSubscription(r, date, Midnight)
<1>1. \A n \in Int : (n + 24) % 24 = n % 24
  OBVIOUS
<1>2. 0 - 8 \in Int /\ (0 - 8) + 24 = 16
  OBVIOUS
<1>3. (0 - 8) % 24 = 16 % 24
  BY <1>1, <1>2
<1>4. 16 % 24 = 16
  OBVIOUS
<1>5. PSTHour(Midnight) > 6
  BY <1>3, <1>4 DEF PSTHour, Midnight
<1> QED
  BY <1>5 DEF shouldCancelPayPalSubscription

LEMMA BatchIsEnded ==
  ASSUME TypeOK, CronRead, NEW s \in cron'.batch
  PROVE  s \in Subs /\ Live(row[s]) /\ cron'.rows[s] = cancelSubscription(row[s])
<1>1. s \in Subs /\ Live(row[s]) /\ row[s].end < now
  BY DEF CronRead, getActiveSubscriptionsByDate
<1>2. shouldCancelPayPalSubscription(row[s], now, Midnight)
  BY <1>1, MidnightEnds
<1> QED
  BY <1>1, <1>2 DEF CronRead

LEMMA FindRivalFinds ==
  ASSUME TypeOK, NEW h \in Slots, FindRival(h)
  PROVE  /\ job[h] \in BusyJob /\ row' = row /\ job'[h].row = job[h].row
         /\ job'[h].ev = job[h].ev
         /\ \/ /\ job'[h].pc = "write" /\ job'[h].rival = job[h].rival
               /\ \/ Live(row[job[h].ev.sub])
                  \/ \A t \in Subs : Owner[t] = Owner[job[h].ev.sub] => ~Live(row[t])
            \/ /\ job'[h].pc = "revoke"
               /\ job'[h].rival \in Subs \ {job[h].ev.sub}
               /\ Owner[job'[h].rival] = Owner[job[h].ev.sub]
               /\ Live(row[job'[h].rival])
               /\ job'[h].rivalRow = row[job'[h].rival]
<1>1. job[h] \in BusyJob /\ row' = row
  BY BusyJobs DEF FindRival
<1>2. PICK s \in getActiveSubscriptionByUserId(Owner[job[h].ev.sub]) :
        job' = IF s \in {NoSub, job[h].ev.sub}
               THEN [job EXCEPT ![h].pc = "write"]
               ELSE [job EXCEPT ![h].pc = "revoke", ![h].rival = s, ![h].rivalRow = row[s]]
  BY DEF FindRival
<1>3. \/ /\ s = NoSub
         /\ \A t \in Subs : Owner[t] = Owner[job[h].ev.sub] => ~Live(row[t])
      \/ s \in Subs /\ Owner[s] = Owner[job[h].ev.sub] /\ Live(row[s])
  BY <1>2, NoSubAssumption DEF getActiveSubscriptionByUserId
<1>4. CASE s \in {NoSub, job[h].ev.sub}
  <2>1. job' = [job EXCEPT ![h].pc = "write"]
    BY <1>2, <1>4
  <2> QED BY <1>1, <1>3, <1>4, <2>1, NoSubAssumption DEF TypeOK, BusyJob
<1>5. CASE s \notin {NoSub, job[h].ev.sub}
  <2>1. job' = [job EXCEPT ![h].pc = "revoke", ![h].rival = s, ![h].rivalRow = row[s]]
    BY <1>2, <1>5
  <2> QED BY <1>1, <1>3, <1>5, <2>1 DEF TypeOK, BusyJob
<1> QED
  BY <1>4, <1>5

LEMMA RetireRivalWrites ==
  ASSUME TypeOK, NEW h \in Slots, RetireRival(h)
  PROVE  /\ job[h] \in BusyJob /\ job'[h].pc = "write" /\ job'[h].ev = job[h].ev
         /\ job'[h].rival = job[h].rival /\ job[h].rival \in Subs
         /\ \A s \in Subs \ {job[h].rival} : row'[s] = row[s]
         /\ job'[h].row = IF job[h].ev.kind = "Activated"
                          THEN activateSubscription(job[h].row, job[h].rivalRow.end)
                          ELSE job[h].row
<1>1. job[h] \in BusyJob /\ job[h].pc = "retire"
  BY BusyJobs DEF RetireRival
<1>2. job[h].rival \in Subs
  BY <1>1 DEF BusyJob
<1> QED
  BY <1>1, <1>2 DEF RetireRival, TypeOK, BusyJob

LEMMA MemoryNext ==
  ASSUME TypeOK, EventInv, LinkInv, TimeInv, MemoryInv, [Next]_vars
  PROVE  MemoryInv'
<1>1. ASSUME NEW g \in Slots, job'[g].pc # "idle"
      PROVE  /\ job'[g].row.status = "Pending" => job'[g].ev.kind \in Invoices
             /\ job'[g].ev.kind = "Activated" => job'[g].row.status = "Active"
  <2>1. CASE Busy(g) /\ job'[g] = job[g]
    BY <2>1 DEF MemoryInv, Invoices
  <2>2. CASE Begins(g) /\ job' # job
    BY <2>2, BeginComputed DEF Computed
  <2>3. CASE Busy(g) /\ Steps(g) /\ job'[g].ev = job[g].ev
    <3>1. /\ job[g].row.status = "Pending" => job[g].ev.kind \in Invoices
          /\ job[g].ev.kind = "Activated" => job[g].row.status = "Active"
          /\ job[g] \in BusyJob
      BY <2>3, BusyJobs DEF MemoryInv, Invoices, Busy
    <3>2. CASE FindRival(g)
      BY <2>3, <3>1, <3>2, FindRivalFinds
    <3>3. CASE RetireRival(g)
      <4>1. activateSubscription(job[g].row, job[g].rivalRow.end).status = "Active"
        BY <3>1 DEF activateSubscription, BusyJob, Row
      <4> QED BY <2>3, <3>1, <3>3, <4>1, RetireRivalWrites
    <3> QED BY <1>1, <2>3, <3>1, <3>2, <3>3, StepKeepsRows DEF Steps
  <2> QED BY <1>1, <2>1, <2>2, <2>3, JobSteps
<1>2. ASSUME NEW g \in Slots, job'[g].pc \in {"revoke", "retire"}
      PROVE  /\ job'[g].rival # job'[g].ev.sub /\ Owner[job'[g].rival] = Owner[job'[g].ev.sub]
             /\ Live(job'[g].rivalRow)
  <2>1. CASE Busy(g) /\ job'[g] = job[g]
    BY <1>2, <2>1 DEF MemoryInv
  <2>2. CASE Begins(g) /\ job' # job
    BY <1>2, <2>2, BeginComputed
  <2>3. CASE Busy(g) /\ Steps(g) /\ job'[g].ev = job[g].ev
    <3>1. CASE FindRival(g)
      BY <1>2, <2>3, <3>1, FindRivalFinds
    <3>2. CASE RetireRival(g)
      BY <1>2, <3>2, RetireRivalWrites
    <3> QED BY <1>2, <2>3, <3>1, <3>2, StepKeepsRows DEF Steps, MemoryInv
  <2> QED BY <1>2, <2>1, <2>2, <2>3, JobSteps
<1>3. ASSUME cron'.pc # "idle", NEW s \in cron'.batch PROVE cron'.rows[s].status = "Canceled"
  <2>1. CASE CronRead
    <3>1. cron'.rows[s] = cancelSubscription(row[s]) /\ row[s] \in Row
      BY <1>3, <2>1, BatchIsEnded DEF TypeOK
    <3> QED BY <3>1 DEF cancelSubscription, Row
  <2> QED BY <1>3, <2>1, CronSteps DEF MemoryInv
<1>4. ASSUME NEW s \in Subs,
             row'[s].status = "None" \/ (System[s] = "PayPal" /\ row'[s].status = "Pending")
      PROVE  row'[s].end = 0
  <2>1. CASE row'[s] = row[s]
    BY <1>4, <2>1 DEF MemoryInv
  <2>2. CASE row'[s] \in NewRows(s)
    BY <2>2, NewRowIsPending
  <2>3. ASSUME NEW h \in Slots, RetireRival(h), row'[s] = cancelSubscription(job[h].rivalRow)
        PROVE  FALSE
    <3>1. job[h].rivalRow \in Row
      BY <2>3, BusyJobs DEF RetireRival, BusyJob
    <3> QED BY <1>4, <2>3, <3>1 DEF cancelSubscription, Row
  <2>4. ASSUME NEW h \in Slots, WriteRow(h), s = job[h].ev.sub,
               row'[s] = Written(row[s], job[h])
        PROVE  FALSE
    <3>1. job[h] \in BusyJob /\ Busy(h)
      BY <2>4, BusyJobs DEF WriteRow, Busy
    <3>2. row'[s].status = job[h].row.status
      BY <2>4, <3>1 DEF Written, TypeOK, BusyJob, Row
    <3>3. job[h].row.status # "None" /\ SentByItsSystem(job[h].ev)
      BY <3>1 DEF LinkInv, EventInv
    <3>4. job[h].row.status = "Pending" => job[h].ev.kind \in Invoices
      BY <3>1 DEF MemoryInv, Invoices
    <3> QED BY <1>4, <2>4, <3>2, <3>3, <3>4 DEF SentByItsSystem, StripeKinds, Invoices
  <2>5. ASSUME CronWrite, s \in cron.batch, row'[s] = cron.rows[s] PROVE FALSE
    BY <1>4, <2>5 DEF MemoryInv, CronWrite
  <2> QED BY <2>1, <2>2, <2>3, <2>4, <2>5, RowSteps
<1> QED
  BY <1>1, <1>2, <1>3, <1>4 DEF MemoryInv, Busy, Invoices

(***************************************************************************)
(* FreshInv.                                                               *)
(***************************************************************************)

\* While one handler of a user is at work and he never had two, others leave
\* his rows alone but for inserting new ones.
LEMMA OthersLeaveRows ==
  ASSUME TypeOK, EventInv, AloneInv, MemoryInv, [Next]_vars, NEW g \in Slots, Busy(g),
         ~RetireRival(g), ~WriteRow(g), Owner[job[g].ev.sub] \notin clash,
         NEW s \in Subs, Owner[s] = Owner[job[g].ev.sub]
  PROVE  \/ row'[s] = row[s]
         \/ row[s].status = "None" /\ row'[s] \in NewRows(s)
<1>1. ASSUME NEW h \in Slots, RetireRival(h), s = job[h].rival PROVE FALSE
  <2>1. Busy(h) /\ h # g /\ Owner[job[h].ev.sub] = Owner[s]
    BY <1>1 DEF RetireRival, MemoryInv, Busy
  <2> QED BY <2>1 DEF AloneInv
<1>2. ASSUME NEW h \in Slots, WriteRow(h), s = job[h].ev.sub PROVE FALSE
  <2>1. Busy(h) /\ h # g
    BY <1>2 DEF WriteRow, Busy
  <2> QED BY <1>2, <2>1 DEF AloneInv
<1>3. ASSUME CronWrite PROVE FALSE
  BY <1>3 DEF CronWrite, AloneInv, InFlight
<1> QED
  BY <1>1, <1>2, <1>3, RowSteps

Waiting == {"find", "call", "revoke", "retire", "write"}

LEMMA FreshNext ==
  ASSUME TypeOK, EventInv, LinkInv, TimeInv, RaceInv, [Next]_vars
  PROVE  FreshInv'
<1> USE DEF RaceInv
<1>1. clash \subseteq clash' /\ TypeOK' /\ EventInv'
  BY ClashGrows, NextType, EventNext
<1>2. ASSUME NEW g \in Slots, job'[g].pc \in Waiting, Owner[job'[g].ev.sub] \notin clash'
      PROVE  Fresh(g)'
  <2>1. CASE Begins(g) /\ job' # job
    <3>1. row' = row /\ SentByItsSystem(job'[g].ev)
      BY <1>1, <1>2, <2>1, BeginEffect DEF EventInv, Busy, Waiting
    <3>2. /\ job'[g].rival = NoSub /\ job'[g].pc \in {"find", "call", "write"}
          /\ Computed(job'[g].ev, job'[g].pc, job'[g].row)
      BY <2>1, BeginComputed
    <3>3. job'[g].ev.kind = "Activated" => System[job'[g].ev.sub] = "PayPal"
      BY <3>1 DEF SentByItsSystem, PayPalKinds
    <3> QED BY <3>1, <3>2, <3>3 DEF Fresh, Computed, Revivers
  <2>2. CASE Busy(g) /\ job'[g].ev = job[g].ev /\ (job'[g] = job[g] \/ Steps(g))
    <3> DEFINE j == job[g]  sub == job[g].ev.sub  mine(t) == Owner[t] = Owner[job[g].ev.sub]
    <3>1. /\ j \in BusyJob /\ sub \in Subs /\ Owner[sub] \notin clash
          /\ row[sub] \in Row /\ j.row \in Row
      BY <1>1, <1>2, <2>2, BusyJobs DEF Busy, BusyJob, Event, TypeOK
    <3>2. CASE RetireRival(g)
      <4>1. Fresh(g) /\ j.rival # sub /\ j.pc = "retire"
        BY <3>1, <3>2 DEF FreshInv, MemoryInv, RetireRival
      <4>2. row'[sub] = row[sub]
        BY <3>1, <3>2, <4>1, RetireRivalWrites
      <4>3. CASE j.ev.kind = "Activated"
        <5> DEFINE r == activateSubscription(j.row, j.rivalRow.end)
        <5>1. j.row.status = "Active" /\ row[sub].end = 0
          BY <2>2, <4>1, <4>3 DEF MemoryInv, Fresh
        <5>2. r.status = "Active" /\ r.end \in Nat /\ r.name = j.row.name
          BY <3>1 DEF activateSubscription, KeepIfNull, BusyJob, Row
        <5>3. job'[g].row = r
          BY <3>2, <4>3, RetireRivalWrites
        <5>4. row[sub].end <= r.end
          BY <5>1, <5>2
        <5> HIDE DEF r
        <5>5. row[sub].status # "Canceled"
          BY <4>1, <4>3, <5>1 DEF Fresh, Live
        <5>6. job'[g].pc = "write" /\ job'[g].rival # NoSub
          BY <3>2, RetireRivalWrites, NoSubAssumption
        <5>7. row[sub].status # "None" /\ j.row.name = row[sub].name
          BY <4>1, <4>3 DEF Fresh
        <5> QED BY <2>2, <4>2, <4>3, <5>2, <5>3, <5>4, <5>5, <5>6,
                   <5>7 DEF Fresh
      <4>4. CASE j.ev.kind # "Activated"
        <5>1. job'[g].pc = "write" /\ job'[g].rival # NoSub /\ job'[g].row = j.row
          BY <3>2, <4>4, RetireRivalWrites, NoSubAssumption
        <5> QED BY <2>2, <4>1, <4>2, <5>1 DEF Fresh
      <4> QED BY <4>3, <4>4
    <3>3. CASE WriteRow(g)
      <4>1. job'[g].pc \notin Waiting
        BY <3>1, <3>3 DEF WriteRow, AfterWrite, Advance, TypeOK, IdleJob, BusyJob, Waiting
      <4> QED BY <1>2, <4>1
    <3>4. CASE FindRival(g)
      <4>1. Fresh(g)
        BY <3>1, <3>4 DEF FreshInv, FindRival
      <4> QED BY <2>2, <3>1, <3>4, <4>1, FindRivalFinds DEF Fresh, FindRival
    <3>5. CASE ~RetireRival(g) /\ ~WriteRow(g) /\ ~FindRival(g)
      <4>1. /\ job'[g].row = j.row /\ job'[g].rival = j.rival /\ job'[g].rivalRow = j.rivalRow
            /\ job'[g].pc \in {"revoke", "retire"} => j.pc \in {"revoke", "retire"}
        BY <1>2, <2>2, <3>5, StepKeepsRows DEF Steps, Waiting
      <4>2. /\ j.pc \in Waiting
            /\ job'[g].pc \in {"find", "revoke", "retire"} => j.pc \in {"find", "revoke", "retire"}
            /\ job'[g].pc \in {"call", "write"} => j.pc \in {"call", "write"}
        <5>1. CASE job'[g] = job[g]
          BY <1>2, <5>1
        <5>2. CASE RevokeRival(g)
          BY <1>2, <3>1, <5>2 DEF RevokeRival, Abort, TypeOK, IdleJob, BusyJob, Waiting
        <5>3. CASE SwitchRemote(g)
          BY <1>2, <3>1, <5>3 DEF SwitchRemote, Abort, TypeOK, IdleJob, BusyJob, Waiting
        <5>4. CASE RecordTransaction(g) \/ TellGateway(g)
          BY <1>2, <3>1, <5>4 DEF RecordTransaction, TellGateway, Advance, TypeOK, IdleJob,
             BusyJob, Waiting
        <5>5. CASE Fail(g)
          BY <1>2, <5>5 DEF Fail, Abort, TypeOK, IdleJob, Waiting
        <5> QED BY <2>2, <3>5, <5>1, <5>2, <5>3, <5>4, <5>5 DEF Steps, HandlerStep
      <4>3. \A t \in Subs : mine(t) => \/ row'[t] = row[t]
                                       \/ row[t].status = "None" /\ row'[t] \in NewRows(t)
        <5> SUFFICES ASSUME NEW t \in Subs, mine(t)
                     PROVE  \/ row'[t] = row[t]
                            \/ row[t].status = "None" /\ row'[t] \in NewRows(t)
          OBVIOUS
        <5>1. AloneInv /\ MemoryInv /\ ~RetireRival(g) /\ ~WriteRow(g) /\ Busy(g)
          BY <2>2, <3>5
        <5>2. Owner[job[g].ev.sub] \notin clash /\ Owner[t] = Owner[job[g].ev.sub]
          BY <3>1
        <5> QED BY <5>1, <5>2, OthersLeaveRows
      <4>4. Fresh(g)
        BY <3>1, <4>2 DEF FreshInv, Waiting
      <4>5. \A t \in Subs : \A r \in NewRows(t) : ~Live(r)
        BY NewRowIsPending
      <4>6. \A t \in Subs : mine(t) => (Live(row'[t]) <=> Live(row[t]))
        BY <4>3, <4>5 DEF Live
      <4>7. row'[sub] = row[sub]
        BY <3>1, <4>3, <4>4 DEF Fresh
      <4>9. j.pc \in {"revoke", "retire"} => row'[j.rival] = row[j.rival]
        <5>1. ASSUME j.pc \in {"revoke", "retire"}
              PROVE  j.rival \in Subs /\ mine(j.rival) /\ row[j.rival].status # "None"
          <6>1. j.rival \in Subs
            BY <3>1, <5>1 DEF BusyJob
          <6>2. mine(j.rival) /\ Live(j.rivalRow) /\ j.rivalRow = row[j.rival]
            BY <4>4, <5>1 DEF MemoryInv, Fresh
          <6> QED BY <6>1, <6>2 DEF Live
        <5> QED BY <4>3, <5>1
      <4> QED BY <2>2, <3>1, <4>1, <4>2, <4>4, <4>6, <4>7, <4>9 DEF Fresh
    <3> QED BY <3>2, <3>3, <3>4, <3>5
  <2> QED BY <1>2, <2>1, <2>2, JobSteps DEF Waiting
<1>3. ASSUME cron'.pc # "idle", NEW s \in cron'.batch, Owner[s] \notin clash'
      PROVE  /\ cron'.rows[s].end = row'[s].end /\ cron'.rows[s].name = row'[s].name
             /\ row'[s].status # "None"
  <2>1. CASE CronRead
    <3>1. /\ s \in Subs /\ row[s] \in Row /\ Live(row[s])
          /\ cron'.rows[s] = cancelSubscription(row[s])
      BY <1>3, <2>1, BatchIsEnded DEF TypeOK
    <3> QED BY <2>1, <3>1 DEF cancelSubscription, Row, CronRead, Live
  <2>2. CASE cron.pc # "idle" /\ cron'.batch = cron.batch /\ cron'.rows = cron.rows
    <3>1. /\ s \in Subs /\ Owner[s] \notin InFlight /\ row[s].status # "None"
          /\ cron.rows[s].end = row[s].end /\ cron.rows[s].name = row[s].name
      BY <1>1, <1>3, <2>2, BusyCrons DEF FreshInv, AloneInv, BusyCron
    <3>2. ASSUME NEW h \in Slots, RetireRival(h), s = job[h].rival PROVE FALSE
      BY <3>1, <3>2 DEF RetireRival, MemoryInv, InFlight, Busy
    <3>3. ASSUME NEW h \in Slots, WriteRow(h), s = job[h].ev.sub PROVE FALSE
      BY <3>1, <3>3 DEF WriteRow, InFlight, Busy
    <3>4. cron.rows[s].status = "Canceled"
      BY <1>3, <2>2 DEF MemoryInv
    <3>5. row'[s] = row[s] \/ row'[s] = cron.rows[s]
      BY <3>1, <3>2, <3>3, RowSteps
    <3> QED BY <2>2, <3>1, <3>4, <3>5
  <2> QED BY <1>3, <2>1, <2>2, CronSteps
<1> QED
  BY <1>2, <1>3 DEF FreshInv, Waiting

(***************************************************************************)
(* The theorems.                                                           *)
(***************************************************************************)

LEMMA InitIInv == Init => IInv
  BY PeriodAssumption DEF Init, IInv, EventInv, LinkInv, WellLinked, Live, RevokeInv,
     RivalRevokedFirst, BatchRevokedFirst, TimeInv, AtMostOnePeriodAhead, Busy, NoRow,
     IdleJob, IdleCron, RaceInv, AloneInv, InFlight, MemoryInv, FreshInv

LEMMA NextIInv == ASSUME TypeOK, IInv, [Next]_vars PROVE IInv'
  BY EventNext, LinkNext, RevokeNext, TimeNext, AloneNext, MemoryNext, FreshNext
  DEF IInv, RaceInv

\* What the handlers in flight and the midnight job hold in memory is always
\* fit to be written: this is the inductive invariant.
THEOREM Invariance == Spec => []IInv
  BY NextIInv, InitIInv, TypeCorrect, PTL DEF Spec

\* A row that counts as active always carries the provider's id.
THEOREM LinkedRows == Spec => []LiveRowsAreLinked
<1>1. IInv => LiveRowsAreLinked
  BY DEF IInv, LinkInv, WellLinked, LiveRowsAreLinked
<1> QED
  BY <1>1, Invariance, PTL

\* No handler retires a PayPal row before PayPal has cancelled it.
THEOREM RevokedRivals == Spec => []RivalRevokedFirst
<1>1. IInv => RivalRevokedFirst
  BY DEF IInv, RevokeInv
<1> QED
  BY <1>1, Invariance, PTL

\* The midnight job writes no batch of which a suspended row is not cancelled.
THEOREM RevokedBatches == Spec => []BatchRevokedFirst
<1>1. IInv => BatchRevokedFirst
  BY DEF IInv, RevokeInv
<1> QED
  BY <1>1, Invariance, PTL

\* Neither a row nor the gateway ever has more than one period to come.
THEOREM OnePeriodAhead == Spec => []AtMostOnePeriodAhead
<1>1. IInv => AtMostOnePeriodAhead
  BY DEF IInv, TimeInv
<1> QED
  BY <1>1, Invariance, PTL

\* What a row becomes that is written at the end of a handler.
LEMMA WriteRowWrites ==
  ASSUME TypeOK, IInv, NEW h \in Slots, WriteRow(h), NEW s \in Subs, s = job[h].ev.sub
  PROVE  /\ Written(row[s], job[h]).status = job[h].row.status
         /\ System[s] = "PayPal" => Written(row[s], job[h]) = job[h].row
         /\ job[h] \in BusyJob /\ Busy(h) /\ job[h].pc = "write"
         /\ Owner[s] \in clash \/ Fresh(h)
         /\ job[h].row.status = "Pending" => job[h].ev.kind \in Invoices
<1>1. job[h] \in BusyJob /\ job[h].pc = "write" /\ Busy(h) /\ row[s] \in Row
  BY BusyJobs DEF WriteRow, Busy, TypeOK
<1>2. Written(row[s], job[h]).status = job[h].row.status
  BY <1>1 DEF Written, BusyJob, Row
<1>3. System[s] = "PayPal" => job[h].ev.kind # "Checkout"
  BY <1>1 DEF IInv, EventInv, SentByItsSystem, StripeKinds
<1> QED
  BY <1>1, <1>2, <1>3 DEF Written, IInv, RaceInv, FreshInv, MemoryInv, Invoices

LEMMA RetiredIsCanceled ==
  ASSUME TypeOK, NEW h \in Slots, RetireRival(h)
  PROVE  /\ cancelSubscription(job[h].rivalRow).status = "Canceled"
         /\ cancelSubscription(job[h].rivalRow).end = job[h].rivalRow.end
<1>1. job[h].rivalRow \in Row
  BY BusyJobs DEF RetireRival, BusyJob
<1> QED
  BY <1>1 DEF cancelSubscription, Row

\* A Canceled row comes back to life only through a payment, a late SUSPENDED,
\* a repeated checkout, or a stale row.
THEOREM RevivedByPayment == Spec => RevivedOnlyByPayment
<1>1. ASSUME TypeOK, IInv, [Next]_vars
      PROVE  [\A s \in Subs : row[s].status = "Canceled" /\ Live(row'[s]) =>
                \/ Owner[s] \in clash
                \/ WrittenBy(s, {"SaleCompleted", "Suspended", "Checkout"})]_vars
  <2> SUFFICES ASSUME NEW s \in Subs, row[s].status = "Canceled", Live(row'[s]),
                      Owner[s] \notin clash
               PROVE  WrittenBy(s, {"SaleCompleted", "Suspended", "Checkout"})
    OBVIOUS
  <2>1. PICK h \in Slots : WriteRow(h) /\ s = job[h].ev.sub /\ row'[s] = Written(row[s], job[h])
    BY <1>1, RowSteps, RetiredIsCanceled DEF Live, IInv, RaceInv, MemoryInv, CronWrite
  <2> QED BY <1>1, <2>1, WriteRowWrites DEF Fresh, Live, WrittenBy
<1> QED
  BY <1>1, TypeCorrect, Invariance, PTL DEF Spec, RevivedOnlyByPayment

\* A row is Pending again only when a stale invoice handler writes it.
THEOREM BackToPending == Spec => BackToPendingOnlyByStaleInvoice
<1>1. ASSUME TypeOK, IInv, [Next]_vars
      PROVE  [\A s \in Subs : row[s].status # "None" /\ row[s].status # "Pending"
                              /\ row'[s].status = "Pending" =>
                Owner[s] \in clash /\ WrittenBy(s, {"InvoicePaid", "InvoiceFailed"})]_vars
  <2> SUFFICES ASSUME NEW s \in Subs, row[s].status # "None", row[s].status # "Pending",
                      row'[s].status = "Pending"
               PROVE  Owner[s] \in clash /\ WrittenBy(s, {"InvoicePaid", "InvoiceFailed"})
    OBVIOUS
  <2>1. PICK h \in Slots : WriteRow(h) /\ s = job[h].ev.sub /\ row'[s] = Written(row[s], job[h])
    BY <1>1, RowSteps, RetiredIsCanceled DEF IInv, RaceInv, MemoryInv, CronWrite
  <2> QED BY <1>1, <2>1, WriteRowWrites DEF Fresh, WrittenBy, Invoices
<1> QED
  BY <1>1, TypeCorrect, Invariance, PTL DEF Spec, BackToPendingOnlyByStaleInvoice

\* Nothing but the write of a stale row takes paid time from a PayPal user.
THEOREM PaidTimeLost == Spec => PaidTimeLostOnlyByRace
<1>1. ASSUME TypeOK, IInv, [Next]_vars
      PROVE  [\A s \in Subs : System[s] = "PayPal" /\ row'[s].end < row[s].end =>
                Owner[s] \in clash]_vars
  <2> SUFFICES ASSUME NEW s \in Subs, System[s] = "PayPal", Owner[s] \notin clash
               PROVE  ~(row'[s].end < row[s].end)
    OBVIOUS
  <2>1. row[s].end \in Nat /\ row'[s].end \in Nat
    BY <1>1, NextType DEF TypeOK, Row
  <2>2. row'[s].end = row[s].end \/ row[s].end = 0 \/ row[s].end <= row'[s].end
    <3>1. CASE row[s].status = "None"
      BY <1>1, <3>1 DEF IInv, RaceInv, MemoryInv
    <3>2. ASSUME NEW h \in Slots, RetireRival(h), s = job[h].rival,
                 row'[s] = cancelSubscription(job[h].rivalRow)
          PROVE  row'[s].end = row[s].end
      <4>1. job[h].rivalRow = row[s]
        BY <1>1, <3>2 DEF IInv, RaceInv, MemoryInv, FreshInv, Fresh, RetireRival
      <4> QED BY <1>1, <3>2, <4>1, RetiredIsCanceled
    <3>3. ASSUME NEW h \in Slots, WriteRow(h), s = job[h].ev.sub,
                 row'[s] = Written(row[s], job[h])
          PROVE  row[s].end <= row'[s].end
      BY <1>1, <3>3, WriteRowWrites DEF Fresh
    <3>4. ASSUME CronWrite, s \in cron.batch, row'[s] = cron.rows[s]
          PROVE  row'[s].end = row[s].end
      BY <1>1, <3>4 DEF IInv, RaceInv, FreshInv, CronWrite
    <3> QED BY <1>1, <3>1, <3>2, <3>3, <3>4, RowSteps DEF IInv
  <2> QED BY <2>1, <2>2
<1> QED
  BY <1>1, TypeCorrect, Invariance, PTL DEF Spec, PaidTimeLostOnlyByRace

\* A user gets a second live row by a race or by a late SUSPENDED only, or has
\* had two by these before.
THEOREM SecondLiveRow == Spec => SecondLiveRowOnlyByRace
<1>1. ASSUME TypeOK, IInv, [Next]_vars
      PROVE  [\A u \in Users : ~Crowded(u) /\ Crowded(u)' =>
                \/ u \in clash
                \/ \E s \in Subs : Owner[s] = u /\ ~Live(row[s]) /\ WrittenBy(s, {"Suspended"})
                \/ \E h \in Slots : /\ job[h].pc = "write" /\ Owner[job[h].ev.sub] = u
                                    /\ job[h].rival # NoSub]_vars
  <2> SUFFICES ASSUME NEW u \in Users, ~Crowded(u), Crowded(u)', u \notin clash
               PROVE  \/ \E s \in Subs : /\ Owner[s] = u /\ ~Live(row[s])
                                         /\ WrittenBy(s, {"Suspended"})
                      \/ \E h \in Slots : /\ job[h].pc = "write" /\ Owner[job[h].ev.sub] = u
                                          /\ job[h].rival # NoSub
    OBVIOUS
  <2>1. PICK s \in Subs, t \in Subs : /\ s # t /\ Owner[s] = u /\ Owner[t] = u
                                      /\ Live(row'[s]) /\ Live(row'[t]) /\ ~Live(row[s])
    BY DEF Crowded
  <2>2. PICK h \in Slots : WriteRow(h) /\ s = job[h].ev.sub /\ row'[s] = Written(row[s], job[h])
    <3>1. cron.pc = "write" => \A r \in cron.batch : ~Live(cron.rows[r])
      BY <1>1 DEF IInv, RaceInv, MemoryInv, Live
    <3>2. \A r \in NewRows(s) : ~Live(r)
      BY NewRowIsPending
    <3>3. ASSUME NEW h \in Slots, RetireRival(h)
          PROVE  ~Live(cancelSubscription(job[h].rivalRow))
      BY <1>1, <3>3, RetiredIsCanceled DEF Live
    <3>4. EventInv
      BY <1>1 DEF IInv
    <3> QED BY <1>1, <2>1, <3>1, <3>2, <3>3, <3>4, RowSteps DEF CronWrite
  <2>3. /\ job[h].pc = "write" /\ Fresh(h)
        /\ Live(job[h].row)
    BY <1>1, <2>1, <2>2, WriteRowWrites DEF Live
  <2>4. Live(row[t])
    BY <1>1, <2>1, <2>2 DEF WriteRow, TypeOK
  <2>5. job[h].ev.kind = "Suspended" \/ job[h].rival # NoSub
    BY <2>1, <2>2, <2>3, <2>4 DEF Fresh
  <2> QED BY <2>1, <2>2, <2>3, <2>5 DEF WrittenBy
<1> QED
  BY <1>1, TypeCorrect, Invariance, PTL DEF Spec, SecondLiveRowOnlyByRace

\* The name of an inserted row changes by a rename or by a race only.
THEOREM RenamesKept == Spec => RenamedOnlyByRename
<1>1. ASSUME TypeOK, IInv, [Next]_vars
      PROVE  [\A s \in Subs : row[s].status # "None" /\ row'[s].name # row[s].name =>
                Owner[s] \in clash \/ WrittenBy(s, {"Rename"})]_vars
  <2> SUFFICES ASSUME NEW s \in Subs, row[s].status # "None", row'[s].name # row[s].name,
                      Owner[s] \notin clash
               PROVE  WrittenBy(s, {"Rename"})
    OBVIOUS
  <2>1. ASSUME NEW h \in Slots, RetireRival(h), s = job[h].rival,
               row'[s] = cancelSubscription(job[h].rivalRow)
        PROVE  FALSE
    <3>1. job[h].rivalRow = row[s] /\ row[s] \in Row
      BY <1>1, <2>1 DEF IInv, RaceInv, MemoryInv, FreshInv, Fresh, RetireRival, TypeOK
    <3> QED BY <2>1, <3>1 DEF cancelSubscription, Row
  <2>2. ASSUME NEW h \in Slots, WriteRow(h), s = job[h].ev.sub,
               row'[s] = Written(row[s], job[h])
        PROVE  WrittenBy(s, {"Rename"})
    <3>1. /\ job[h] \in BusyJob /\ job[h].pc = "write" /\ Fresh(h) /\ row[s] \in Row
      BY <1>1, <2>2, WriteRowWrites DEF TypeOK
    <3>2. Written(row[s], job[h]).name \in {row[s].name, job[h].row.name}
      BY <3>1 DEF Written, BusyJob, Row
    <3> QED BY <2>2, <3>1, <3>2 DEF Fresh, WrittenBy
  <2>3. ASSUME CronWrite, s \in cron.batch, row'[s] = cron.rows[s] PROVE FALSE
    BY <1>1, <2>3 DEF IInv, RaceInv, FreshInv, CronWrite
  <2> QED BY <1>1, <2>1, <2>2, <2>3, RowSteps DEF IInv
<1> QED
  BY <1>1, TypeCorrect, Invariance, PTL DEF Spec, RenamedOnlyByRename
=============================================================================
