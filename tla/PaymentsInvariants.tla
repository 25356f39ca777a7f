-------------------------- MODULE PaymentsInvariants --------------------------
(* Theorems about Payments, for every value of its constants: its type      *)
(* invariant, and the parts of the inductive invariant that races do not    *)
(* touch: events, links to the providers, revocations, end dates.           *)
EXTENDS Payments, TLAPS

Jobs == {IdleJob} \cup BusyJob

\* A slot whose handler is past its reads holds a full record.
LEMMA BusyJobs ==
  ASSUME TypeOK, NEW h \in Slots, job[h].pc # "idle"
  PROVE  job[h] \in BusyJob
  BY DEF TypeOK, IdleJob, BusyJob

LEMMA BusyCrons ==
  ASSUME TypeOK, cron.pc # "idle"
  PROVE  cron \in BusyCron
  BY DEF TypeOK, IdleCron, BusyCron

\* What the entity's operations make of a row is a row.
LEMMA EntityTypes ==
  ASSUME NEW r \in Row, NEW end \in Nat
  PROVE  /\ \A st \in SubscriptionStatuses : update(r, st, end) \in Row
         /\ activateSubscription(r, end) \in Row
         /\ suspendSubscription(r) \in Row
         /\ disableAutoRenewal(r) \in Row
         /\ enableAutoRenewal(r) \in Row
         /\ cancelSubscription(r) \in Row
  BY DEF Row, SubscriptionStatuses, update, activateSubscription, suspendSubscription,
         disableAutoRenewal, enableAutoRenewal, cancelSubscription, KeepIfNull

LEMMA StartType ==
  ASSUME TypeOK, NEW h \in Slots, NEW e \in Event, NEW r \in Row,
         NEW pc \in {"find", "call", "write", "record", "tell"},
         Start(h, e, pc, r)
  PROVE  TypeOK'
<1> DEFINE j == [pc |-> pc, ev |-> e, row |-> r, rival |-> NoSub, rivalRow |-> NoRow]
<1>1. j \in BusyJob
  BY DEF BusyJob, NoRow, Row
<1>2. job' = [job EXCEPT ![h] = j]
  BY DEF Start
<1>3. job' \in [Slots -> {IdleJob} \cup BusyJob]
  BY <1>1, <1>2 DEF TypeOK
<1>4. clash' \subseteq Users
  BY OwnerAssumption DEF Start, TypeOK, Event
<1>5. moves' \in Nat
  BY DEF Start, Move, TypeOK
<1> QED
  BY <1>3, <1>4, <1>5 DEF Start, TypeOK

(***************************************************************************)
(* Type correctness, one lemma per part of Next.                           *)
(***************************************************************************)

LEMMA InitType == Init => TypeOK
  BY DEF Init, TypeOK, Row, NoRow, RemoteStates, IdleJob, IdleCron

\* The rows that CreatePayment may insert as s.
NewRows(s) == {create(System[s], name) : name \in Names}

LEMMA NewRowIsPending ==
  ASSUME NEW s \in Subs, NEW r \in NewRows(s)
  PROVE  /\ r \in Row /\ r.status = "Pending" /\ ~Live(r) /\ r.end = 0
         /\ r.linked = (System[s] = "PayPal")
<1>1. PICK name \in Names : r = create(System[s], name)
  BY DEF NewRows
<1>2. r = [status |-> "Pending", autoRenewal |-> TRUE, end |-> 0,
           linked |-> System[s] = "PayPal", name |-> name]
  BY <1>1 DEF create
<1>3. /\ "Pending" \in SubscriptionStatuses \cup {"None"} /\ 0 \in Nat
      /\ (System[s] = "PayPal") \in BOOLEAN /\ name \in Names \cup {NoName}
  BY DEF SubscriptionStatuses
<1> QED
  BY <1>2, <1>3 DEF Row, Live

LEMMA CreatePaymentInserts ==
  ASSUME NEW s \in Subs, CreatePayment(s)
  PROVE  row' = row \/ \E r \in NewRows(s) : row' = [row EXCEPT ![s] = r]
  BY DEF CreatePayment, NewRows

\* EventOf makes an event, and PayPal's and Stripe's are told apart by kind.
LEMMA EventTypes ==
  ASSUME NEW s \in Subs, NEW kind \in PayPalKinds \cup StripeKinds \cup CommandKinds
  PROVE  EventOf(kind, s) \in Event
  BY DEF EventOf, Event

LEMMA CancellationType == \A s \in Subs : Cancellation(s) \in Event
  BY EventTypes DEF Cancellation, PayPalKinds, StripeKinds

LEMMA PayPalType == ASSUME TypeOK, NEW h \in Slots, PayPalWebhook(h) PROVE TypeOK'
<1>1. PICK e \in hooks : PayPalHandle(h, e)
  BY DEF PayPalWebhook
<1>2. e \in Event /\ row[e.sub] \in Row /\ now + Period \in Nat /\ row[e.sub].end \in Nat
  BY PeriodAssumption DEF TypeOK, Event, Row
<1>3. CASE PaymentSucceeded(h, e)
  BY <1>2, <1>3, EntityTypes, StartType DEF PaymentSucceeded, SubscriptionStatuses
<1>4. CASE PaymentFailed(h, e)
  BY <1>2, <1>4, EntityTypes, StartType DEF PaymentFailed, SubscriptionStatuses
<1>5. ASSUME Ignore(h, e) PROVE TypeOK'
  BY <1>5 DEF Ignore, TypeOK
<1>6. CASE SubscriptionActive(h, e)
  BY <1>2, <1>5, <1>6, EntityTypes, StartType DEF SubscriptionActive
<1>7. CASE SubscriptionSuspended(h, e)
  BY <1>2, <1>5, <1>7, EntityTypes, StartType DEF SubscriptionSuspended
<1>8. CASE SubscriptionCancelled(h, e)
  BY <1>2, <1>5, <1>8, EntityTypes, StartType DEF SubscriptionCancelled
<1> QED
  BY <1>1, <1>3, <1>4, <1>6, <1>7, <1>8 DEF PayPalHandle

LEMMA StripeType == ASSUME TypeOK, NEW h \in Slots, StripeWebhook(h) PROVE TypeOK'
<1>1. PICK e \in hooks : StripeHandle(h, e)
  BY DEF StripeWebhook
<1> DEFINE r == row[e.sub]
<1>2. e \in Event /\ r \in Row /\ e.at \in Nat /\ e.at + Period \in Nat
  BY PeriodAssumption DEF TypeOK, Event
<1>3. CASE CheckoutCompleted(h, e)
  <2>1. [r EXCEPT !.status = "Active", !.linked = TRUE] \in Row
    BY <1>2 DEF Row, SubscriptionStatuses
  <2> QED BY <1>2, <1>3, <2>1, StartType DEF CheckoutCompleted
<1>4. \A end \in Nat : [r EXCEPT !.end = end] \in Row
  BY <1>2 DEF Row
<1>5. CASE InvoicePaid(h, e)
  <2>1. (e.at + 1)..(e.at + Period) \subseteq Nat
    BY <1>2
  <2> QED BY <1>2, <1>4, <1>5, <2>1, StartType DEF InvoicePaid
<1>6. CASE InvoiceFailed(h, e)
  BY <1>2, <1>4, <1>6, StartType DEF InvoiceFailed
<1>7. CASE SubscriptionDeleted(h, e)
  <2>1. CASE Ignore(h, e)
    BY <2>1 DEF Ignore, TypeOK
  <2> QED BY <1>2, <1>7, <2>1, EntityTypes, StartType DEF SubscriptionDeleted
<1> QED
  BY <1>1, <1>3, <1>5, <1>6, <1>7 DEF StripeHandle

LEMMA CommandType == ASSUME TypeOK, NEW h \in Slots, Command(h) PROVE TypeOK'
<1>1. PICK s \in Subs : \/ DisableAutoRenewal(h, s) \/ EnableAutoRenewal(h, s)
                       \/ UpdateUsername(h, s)
  BY DEF Command
<1>2. row[s] \in Row
  BY DEF TypeOK
<1>3. \A kind \in CommandKinds : EventOf(kind, s) \in Event
  BY EventTypes
<1>4. CASE DisableAutoRenewal(h, s)
  BY <1>2, <1>3, <1>4, EntityTypes, StartType DEF DisableAutoRenewal, handleDisable, CommandKinds
<1>5. CASE EnableAutoRenewal(h, s)
  BY <1>2, <1>3, <1>5, EntityTypes, StartType DEF EnableAutoRenewal, handleEnable, CommandKinds
<1>6. CASE UpdateUsername(h, s)
  <2>1. PICK name \in Names :
          Start(h, EventOf("Rename", s), "write", [row[s] EXCEPT !.name = name])
    BY <1>6 DEF UpdateUsername
  <2>2. [row[s] EXCEPT !.name = name] \in Row
    BY <1>2 DEF Row
  <2> QED BY <1>3, <2>1, <2>2, StartType DEF CommandKinds
<1> QED
  BY <1>1, <1>4, <1>5, <1>6

\* A handler that goes on to a later await, or ends, keeps the types.
LEMMA AdvanceType ==
  ASSUME TypeOK, NEW h \in Slots, Busy(h), Advance(h, "done") \/ \E pc \in {"find",
           "call", "write", "record", "tell"} : Advance(h, pc)
  PROVE  job' \in [Slots -> Jobs] /\ hooks' \subseteq Event /\ faults' \in Nat
<1>1. job[h] \in BusyJob
  BY BusyJobs DEF Busy
<1>2. CASE Advance(h, "done")
  BY <1>2 DEF Advance, Acknowledge, TypeOK, Jobs
<1>3. ASSUME NEW pc \in {"find", "call", "write", "record", "tell"},
             Advance(h, pc)
      PROVE  job' \in [Slots -> Jobs] /\ hooks' \subseteq Event /\ faults' \in Nat
  <2>1. [job[h] EXCEPT !.pc = pc] \in BusyJob
    BY <1>1 DEF BusyJob
  <2> QED BY <1>3, <2>1 DEF Advance, TypeOK, Jobs
<1> QED
  BY <1>2, <1>3

LEMMA AbortType ==
  ASSUME TypeOK, NEW h \in Slots, Abort(h)
  PROVE  job' \in [Slots -> Jobs] /\ hooks' \subseteq Event
  BY DEF Abort, TypeOK, Jobs

LEMMA CancelRemoteType ==
  ASSUME TypeOK, NEW s \in Subs, CancelRemote(s)
  PROVE  remote' \in [Subs -> RemoteStates] /\ hooks' \subseteq Event
  BY CancellationType DEF CancelRemote, TypeOK, RemoteStates

LEMMA HandlerStepType ==
  ASSUME TypeOK, NEW h \in Slots, HandlerStep(h)
  PROVE  TypeOK'
<1>1. job[h] \in BusyJob /\ Busy(h)
  BY BusyJobs DEF HandlerStep, FindRival, RevokeRival, RetireRival, WriteRow,
                  RecordTransaction, TellGateway, Busy
<1>2. CASE FindRival(h)
  <2>1. PICK s \in getActiveSubscriptionByUserId(Owner[job[h].ev.sub]) :
          job' = IF s \in {NoSub, job[h].ev.sub}
                 THEN [job EXCEPT ![h].pc = "write"]
                 ELSE [job EXCEPT ![h].pc = "revoke", ![h].rival = s, ![h].rivalRow = row[s]]
    BY <1>2 DEF FindRival
  <2>2. s \in Subs \cup {NoSub}
    BY <2>1 DEF getActiveSubscriptionByUserId
  <2>3. [job[h] EXCEPT !.pc = "write"] \in BusyJob
    BY <1>1 DEF BusyJob
  <2>4. s \in Subs =>
          [job[h] EXCEPT !.pc = "revoke", !.rival = s, !.rivalRow = row[s]] \in BusyJob
    BY <1>1 DEF BusyJob, TypeOK
  <2>5. job' \in [Slots -> {IdleJob} \cup BusyJob]
    BY <2>1, <2>2, <2>3, <2>4 DEF TypeOK
  <2> QED BY <1>2, <2>5 DEF FindRival, TypeOK
<1>3. CASE RevokeRival(h)
  <2>1. job[h].rival \in Subs /\ [job[h] EXCEPT !.pc = "retire"] \in BusyJob
    BY <1>1, <1>3 DEF RevokeRival, BusyJob
  <2> QED BY <1>3, <2>1, AbortType, CancelRemoteType DEF RevokeRival, TypeOK, Jobs
<1>4. CASE RetireRival(h)
  <2> DEFINE j == job[h]
  <2>1. cancelSubscription(j.rivalRow) \in Row /\ activateSubscription(j.row, j.rivalRow.end) \in Row
    BY <1>1, EntityTypes DEF BusyJob, Row
  <2>2. \A r \in Row : [j EXCEPT !.pc = "write", !.row = r] \in BusyJob
    BY <1>1 DEF BusyJob
  <2>3. j.row \in Row
    BY <1>1 DEF BusyJob
  <2>4. job' \in [Slots -> {IdleJob} \cup BusyJob]
    BY <1>4, <2>1, <2>2, <2>3 DEF RetireRival, TypeOK
  <2> QED BY <1>4, <2>1, <2>4 DEF RetireRival, TypeOK
<1>5. CASE WriteRow(h)
  <2>1. Advance(h, AfterWrite(job[h].ev.kind)) =>
          job' \in [Slots -> Jobs] /\ hooks' \subseteq Event /\ faults' \in Nat
    BY <1>1, AdvanceType DEF AfterWrite
  <2>2. \A old \in Row : Written(old, job[h]) \in Row
    BY <1>1 DEF Written, BusyJob, Row
  <2> QED BY <1>1, <1>5, <2>1, <2>2 DEF WriteRow, TypeOK, Jobs, BusyJob, Event
<1>6. CASE RecordTransaction(h)
  <2>1. job' \in [Slots -> Jobs] /\ hooks' \subseteq Event /\ faults' \in Nat
    BY <1>1, <1>6, AdvanceType DEF RecordTransaction
  <2>2. job[h].ev.at \in Nat /\ job[h].ev.sub \in Subs
    BY <1>1 DEF BusyJob, Event
  <2>3. txns' \in [Subs -> SUBSET Nat]
    BY <1>6, <2>2 DEF RecordTransaction, TypeOK
  <2> QED BY <1>6, <2>1, <2>3 DEF RecordTransaction, TypeOK, Jobs
<1>7. CASE TellGateway(h)
  <2>1. job' \in [Slots -> Jobs] /\ hooks' \subseteq Event /\ faults' \in Nat
    BY <1>1, <1>7, AdvanceType DEF TellGateway
  <2>2. told' \in [Users -> Nat]
    BY <1>1, <1>7 DEF TellGateway, TypeOK, BusyJob, Row
  <2> QED BY <1>7, <2>1, <2>2 DEF TellGateway, TypeOK, Jobs
<1> QED
  BY <1>2, <1>3, <1>4, <1>5, <1>6, <1>7 DEF HandlerStep

LEMMA SwitchRemoteType ==
  ASSUME TypeOK, NEW h \in Slots, SwitchRemote(h)
  PROVE  TypeOK'
<1>1. job[h] \in BusyJob
  BY BusyJobs DEF SwitchRemote
<1>2. job[h].ev.sub \in Subs
  BY <1>1 DEF BusyJob, Event
<1>3. [job[h] EXCEPT !.pc = "write"] \in BusyJob
  BY <1>1 DEF BusyJob
<1>4. \A kind \in {"Suspended", "Activated"} : EventOf(kind, job[h].ev.sub) \in Event
  BY <1>2, EventTypes DEF PayPalKinds
<1>5. job' \in [Slots -> Jobs] /\ hooks' \subseteq Event
  BY <1>3, <1>4, AbortType DEF SwitchRemote, TypeOK, Jobs
<1>6. remote' \in [Subs -> RemoteStates]
  BY <1>2 DEF SwitchRemote, TypeOK, RemoteStates
<1> QED
  BY <1>5, <1>6 DEF SwitchRemote, TypeOK, Jobs

LEMMA CronType == ASSUME TypeOK, Cron PROVE TypeOK'
<1>1. CASE CronRead
  <2>1. \A s \in Subs : row[s] \in Row /\ cancelSubscription(row[s]) \in Row
    BY EntityTypes DEF TypeOK
  <2>2. cron' \in BusyCron
    BY <1>1, <2>1 DEF CronRead, BusyCron, getActiveSubscriptionsByDate
  <2>3. clash' \subseteq Users
    <3>1. \A h \in Slots : Busy(h) => Owner[job[h].ev.sub] \in Users
      BY BusyJobs, OwnerAssumption DEF Busy, BusyJob, Event
    <3> QED BY <1>1, <3>1 DEF CronRead, InFlight, TypeOK
  <2> QED BY <1>1, <2>2, <2>3 DEF CronRead, TypeOK
<1>2. ASSUME NEW s \in Subs, CronRevoke(s) PROVE TypeOK'
  <2>1. cron \in BusyCron
    BY <1>2, BusyCrons DEF CronRevoke
  <2>2. cron' \in BusyCron
    BY <1>2, <2>1 DEF CronRevoke, BusyCron
  <2> QED BY <1>2, <2>2, CancelRemoteType DEF CronRevoke, TypeOK
<1>3. CASE CronGiveUp
  <2>1. cron \in BusyCron
    BY <1>3, BusyCrons DEF CronGiveUp
  <2>2. cron.todo \subseteq Subs
    BY <2>1 DEF BusyCron
  <2>3. remote' \in [Subs -> RemoteStates] /\ hooks' \subseteq Event
    BY <1>3, <2>2, CancellationType DEF CronGiveUp, TypeOK, RemoteStates
  <2> QED BY <1>3, <2>3 DEF CronGiveUp, TypeOK
<1>4. CASE CronWrite
  <2>1. cron \in BusyCron
    BY <1>4, BusyCrons DEF CronWrite
  <2>2. \A s \in Subs : cron.rows[s] \in Row /\ cron.rows[s].end \in Nat
    BY <2>1 DEF BusyCron, Row
  <2>3. row' \in [Subs -> Row]
    BY <1>4, <2>2 DEF CronWrite, TypeOK
  <2>4. cron' \in BusyCron
    BY <1>4, <2>1 DEF CronWrite, BusyCron
  <2> QED BY <1>4, <2>3, <2>4 DEF CronWrite, TypeOK
<1>5. CASE CronTell
  <2>1. cron \in BusyCron
    BY <1>5, BusyCrons DEF CronTell
  <2>2. \A s \in Subs : cron.rows[s].end \in Nat
    BY <2>1 DEF BusyCron, Row
  <2>3. told' \in [Users -> Nat]
    BY <1>5, <2>2 DEF CronTell, TypeOK
  <2> QED BY <1>5, <2>3 DEF CronTell, TypeOK
<1>6. CASE CronFail
  BY <1>6 DEF CronFail, TypeOK
<1> QED
  BY <1>1, <1>2, <1>3, <1>4, <1>5, <1>6 DEF Cron

LEMMA ProviderType == ASSUME TypeOK, Provider PROVE TypeOK'
<1>1. PICK s \in Subs : \/ Approve(s) \/ Charge(s) \/ Decline(s)
                       \/ ProviderSuspend(s) \/ ProviderCancel(s)
  BY DEF Provider
<1>2. \A kind \in PayPalKinds \cup StripeKinds : EventOf(kind, s) \in Event
  BY EventTypes
<1>3. CASE Approve(s)
  BY <1>2, <1>3 DEF Approve, Send, TypeOK, RemoteStates, PayPalKinds, StripeKinds
<1>4. CASE Charge(s)
  BY <1>4 DEF Charge, Move, TypeOK, Event, PayPalKinds, StripeKinds
<1>5. CASE Decline(s)
  BY <1>5 DEF Decline, Move, TypeOK, Event, PayPalKinds, StripeKinds
<1>6. CASE ProviderSuspend(s)
  BY <1>2, <1>6 DEF ProviderSuspend, Move, Send, TypeOK, RemoteStates, PayPalKinds
<1>7. CASE ProviderCancel(s)
  BY <1>7, CancelRemoteType DEF ProviderCancel, Move, TypeOK
<1> QED
  BY <1>1, <1>3, <1>4, <1>5, <1>6, <1>7

LEMMA NextType == ASSUME TypeOK, [Next]_vars PROVE TypeOK'
<1>1. CASE UNCHANGED vars
  BY <1>1 DEF vars, TypeOK
<1>2. ASSUME NEW h \in Slots, Handler(h) PROVE TypeOK'
  <2>1. CASE Fail(h)
    BY <2>1, AbortType DEF Fail, TypeOK, Jobs
  <2> QED BY <1>2, <2>1, PayPalType, StripeType, CommandType, HandlerStepType,
             SwitchRemoteType DEF Handler
<1>3. ASSUME NEW s \in Subs, CreatePayment(s) PROVE TypeOK'
  <2>1. row' \in [Subs -> Row]
    BY <1>3, CreatePaymentInserts, NewRowIsPending DEF TypeOK
  <2> QED BY <1>3, <2>1 DEF CreatePayment, TypeOK, RemoteStates
<1>4. CASE Crash
  BY <1>4 DEF Crash, TypeOK
<1>5. CASE Tick
  BY <1>5 DEF Tick, TypeOK
<1> QED
  BY <1>1, <1>2, <1>3, <1>4, <1>5, CronType, ProviderType DEF Next

\* Every row, copy of a row, event and handler keeps its form, whatever is
\* delivered, fails or restarts.
THEOREM TypeCorrect == Spec => []TypeOK
  BY InitType, NextType, PTL DEF Spec

(***************************************************************************)
(* What the steps do to the handlers in flight.                            *)
(***************************************************************************)

\* Only Start puts an event into a slot; the other steps of a handler keep it.
LEMMA StepKeepsEvent ==
  ASSUME TypeOK, NEW h \in Slots, HandlerStep(h) \/ SwitchRemote(h) \/ Fail(h),
         NEW g \in Slots, job'[g].pc # "idle"
  PROVE  Busy(g) /\ job'[g].ev = job[g].ev
<1>1. Busy(h) /\ job[h] \in BusyJob
  BY BusyJobs DEF HandlerStep, FindRival, RevokeRival, RetireRival, WriteRow,
                  RecordTransaction, TellGateway, SwitchRemote, Fail, Busy
<1>2. ASSUME NEW pc, Advance(h, pc) PROVE Busy(g) /\ job'[g].ev = job[g].ev
  BY <1>1, <1>2 DEF Advance, TypeOK, Busy, IdleJob, BusyJob
<1>3. ASSUME Abort(h) PROVE Busy(g) /\ job'[g].ev = job[g].ev
  BY <1>1, <1>3 DEF Abort, TypeOK, Busy, IdleJob, BusyJob
<1>4. CASE FindRival(h)
  BY <1>1, <1>4 DEF FindRival, TypeOK, Busy, IdleJob, BusyJob
<1>5. CASE RevokeRival(h)
  BY <1>1, <1>3, <1>5 DEF RevokeRival, TypeOK, Busy, IdleJob, BusyJob
<1>6. CASE RetireRival(h)
  BY <1>1, <1>6 DEF RetireRival, TypeOK, Busy, IdleJob, BusyJob
<1>7. CASE SwitchRemote(h)
  BY <1>1, <1>3, <1>7 DEF SwitchRemote, TypeOK, Busy, IdleJob, BusyJob
<1> QED
  BY <1>2, <1>3, <1>4, <1>5, <1>6, <1>7
  DEF HandlerStep, WriteRow, RecordTransaction, TellGateway, Fail

\* What a webhook or a command does to a slot: nothing, or Start with an event
\* that is in hooks or a command, leaving all rows and providers alone.
Begins(h) == PayPalWebhook(h) \/ StripeWebhook(h) \/ Command(h)

LEMMA BeginEffect ==
  ASSUME TypeOK, EventInv, NEW h \in Slots, Begins(h)
  PROVE  /\ hooks' \subseteq hooks /\ UNCHANGED <<row, remote, cron, told, now>>
         /\ \A g \in Slots \ {h} : job'[g] = job[g]
         /\ \/ job' = job
            \/ /\ job'[h].ev \in hooks \/ job'[h].ev.kind \in CommandKinds
               /\ job'[h].pc \in {"find", "call", "write"}
               /\ job'[h].rivalRow = NoRow
<1>1. ASSUME NEW e, Ignore(h, e)
      PROVE  hooks' \subseteq hooks /\ UNCHANGED <<row, remote, cron, told, now, job>>
  BY <1>1 DEF Ignore
<1>2. ASSUME NEW e, NEW r, NEW pc \in {"find", "call", "write"}, Start(h, e, pc, r)
      PROVE  /\ hooks' \subseteq hooks /\ UNCHANGED <<row, remote, cron, told, now>>
             /\ \A g \in Slots \ {h} : job'[g] = job[g]
             /\ job'[h].ev = e /\ job'[h].pc = pc /\ job'[h].rivalRow = NoRow
  BY <1>2 DEF Start, TypeOK
<1>3. CASE PayPalWebhook(h)
  BY <1>1, <1>2, <1>3 DEF PayPalWebhook, PayPalHandle, PaymentSucceeded, PaymentFailed,
     SubscriptionActive, SubscriptionSuspended, SubscriptionCancelled
<1>4. CASE StripeWebhook(h)
  BY <1>1, <1>2, <1>4 DEF StripeWebhook, StripeHandle, CheckoutCompleted, InvoicePaid,
     InvoiceFailed, SubscriptionDeleted
<1>5. CASE Command(h)
  <2>1. PICK s \in Subs : \/ DisableAutoRenewal(h, s) \/ EnableAutoRenewal(h, s)
                         \/ UpdateUsername(h, s)
    BY <1>5 DEF Command
  <2>2. CASE DisableAutoRenewal(h, s)
    BY <1>2, <2>2 DEF DisableAutoRenewal, EventOf, CommandKinds
  <2>3. CASE EnableAutoRenewal(h, s)
    BY <1>2, <2>3 DEF EnableAutoRenewal, EventOf, CommandKinds
  <2>4. CASE UpdateUsername(h, s)
    <3>1. PICK name \in Names :
            Start(h, EventOf("Rename", s), "write", [row[s] EXCEPT !.name = name])
      BY <2>4 DEF UpdateUsername
    <3> QED BY <1>2, <3>1 DEF EventOf, CommandKinds
  <2> QED BY <2>1, <2>2, <2>3, <2>4
<1> QED
  BY <1>3, <1>4, <1>5 DEF Begins

\* The steps that are no handler's.
Elsewhere == \/ UNCHANGED vars \/ Cron \/ Provider \/ Tick
             \/ \E s \in Subs : CreatePayment(s)

LEMMA NextCases ==
  ASSUME [Next]_vars
  PROVE  \/ Elsewhere \/ Crash
         \/ \E h \in Slots : Begins(h)
         \/ \E h \in Slots : HandlerStep(h) \/ SwitchRemote(h) \/ Fail(h)
  BY DEF Next, Handler, Begins, Elsewhere

LEMMA ElsewhereKeepsJobs == ASSUME Elsewhere PROVE job' = job
  BY DEF Elsewhere, vars, Cron, CronRead, CronRevoke, CronGiveUp, CronWrite, CronTell, CronFail,
         Provider, Approve, Charge, Decline, ProviderSuspend, ProviderCancel, Tick, CreatePayment

LEMMA ClockSteps == ASSUME [Next]_vars PROVE now' = now \/ Tick
<1>1. ASSUME NEW h \in Slots, Handler(h) PROVE now' = now
  BY <1>1 DEF Handler, PayPalWebhook, PayPalHandle, PaymentSucceeded, PaymentFailed,
     SubscriptionActive, SubscriptionSuspended, SubscriptionCancelled, StripeWebhook,
     StripeHandle, CheckoutCompleted, InvoicePaid, InvoiceFailed, SubscriptionDeleted,
     Command, DisableAutoRenewal, EnableAutoRenewal, UpdateUsername, Ignore, Start,
     HandlerStep, FindRival, RevokeRival, RetireRival, WriteRow, RecordTransaction,
     TellGateway, SwitchRemote, Fail
<1> QED
  BY <1>1 DEF Next, vars, Cron, CronRead, CronRevoke, CronGiveUp, CronWrite, CronTell, CronFail,
     Provider, Approve, Charge, Decline, ProviderSuspend, ProviderCancel, CreatePayment, Crash

LEMMA ClockGoesOn == ASSUME TypeOK, [Next]_vars PROVE now' \in Nat /\ now <= now'
  BY ClockSteps DEF Tick, TypeOK

(***************************************************************************)
(* EventInv.                                                               *)
(***************************************************************************)

\* What a handler sends its provider comes back as an event of that provider.
LEMMA NewEvents ==
  ASSUME TypeOK, [Next]_vars, NEW e \in hooks' \ hooks
  PROVE  SentByItsSystem(e) /\ e.at <= now
<1> USE SystemAssumption DEF SentByItsSystem, PayPalKinds, StripeKinds
<1>1. \A s \in Subs : SentByItsSystem(Cancellation(s))
  BY DEF Cancellation, EventOf
<1>2. \A s \in Subs : Cancellation(s).at = 0
  BY DEF Cancellation, EventOf
<1>3. now \in Nat
  BY DEF TypeOK
<1>4. ASSUME NEW h \in Slots, HandlerStep(h) \/ SwitchRemote(h) \/ Fail(h)
      PROVE  SentByItsSystem(e) /\ e.at <= now
  <2>1. CASE RevokeRival(h)
    <3>1. job[h] \in BusyJob /\ job[h].rival \in Subs
      BY <2>1, BusyJobs DEF RevokeRival, BusyJob
    <3> QED BY <1>1, <1>2, <1>3, <2>1, <3>1 DEF RevokeRival, CancelRemote, Abort
  <2>2. CASE SwitchRemote(h)
    <3>1. job[h] \in BusyJob /\ job[h].ev.sub \in Subs
      BY <2>2, BusyJobs DEF SwitchRemote, BusyJob, Event
    <3> QED BY <1>3, <2>2, <3>1 DEF SwitchRemote, Abort, EventOf
  <2> QED BY <1>4, <2>1, <2>2 DEF HandlerStep, FindRival, RetireRival, WriteRow,
             RecordTransaction, TellGateway, Advance, Acknowledge, Fail, Abort
<1>5. CASE Cron
  <2>1. ASSUME NEW s \in Subs, CronRevoke(s)
        PROVE  SentByItsSystem(e) /\ e.at <= now
    <3>1. e = Cancellation(s)
      BY <2>1 DEF CronRevoke, CancelRemote
    <3> QED BY <1>1, <1>2, <1>3, <3>1
  <2>2. CASE CronGiveUp
    <3>1. cron.todo \subseteq Subs
      BY <2>2, BusyCrons DEF CronGiveUp, BusyCron
    <3>2. PICK s \in cron.todo : e = Cancellation(s)
      BY <2>2 DEF CronGiveUp
    <3> QED BY <1>1, <1>2, <1>3, <3>1, <3>2
  <2> QED BY <1>5, <2>1, <2>2 DEF Cron, CronRead, CronWrite, CronTell,
             CronFail
<1>6. CASE Provider
  BY <1>1, <1>2, <1>3, <1>6 DEF Provider, Approve, Charge, Decline, ProviderSuspend,
     ProviderCancel, CancelRemote, Send, EventOf
<1>7. ASSUME NEW h \in Slots, Begins(h) PROVE FALSE
  BY <1>7 DEF Begins, PayPalWebhook, PayPalHandle, PaymentSucceeded, PaymentFailed,
     SubscriptionActive, SubscriptionSuspended, SubscriptionCancelled, StripeWebhook,
     StripeHandle, CheckoutCompleted, InvoicePaid, InvoiceFailed, SubscriptionDeleted,
     Command, DisableAutoRenewal, EnableAutoRenewal, UpdateUsername, Ignore, Start
<1> QED
  BY <1>4, <1>5, <1>6, <1>7, NextCases DEF Elsewhere, Crash, vars, Tick, CreatePayment

LEMMA EventNext == ASSUME TypeOK, EventInv, [Next]_vars PROVE EventInv'
<1>1. \A e \in hooks : e.at \in Nat
  BY DEF TypeOK, Event
<1>2. \A e \in hooks' : SentByItsSystem(e) /\ e.at <= now'
  <2> TAKE e \in hooks'
  <2>1. CASE e \in hooks
    BY <1>1, <2>1, ClockGoesOn DEF EventInv, TypeOK
  <2>2. CASE e \notin hooks
    <3>1. e.at \in Nat
      BY NextType DEF TypeOK, Event
    <3> QED BY <2>2, <3>1, NewEvents, ClockGoesOn DEF TypeOK
  <2> QED BY <2>1, <2>2
<1>3. ASSUME NEW g \in Slots, job'[g].pc # "idle"
      PROVE  SentByItsSystem(job'[g].ev)
  <2>1. CASE Elsewhere
    BY <1>3, <2>1, ElsewhereKeepsJobs DEF EventInv, Busy
  <2>2. CASE Crash
    BY <1>3, <2>2 DEF Crash, IdleJob
  <2>3. ASSUME NEW h \in Slots, Begins(h)
        PROVE  SentByItsSystem(job'[g].ev)
    BY <1>3, <2>3, BeginEffect DEF EventInv, Busy, CommandKinds, PayPalKinds, StripeKinds,
       SentByItsSystem
  <2>4. ASSUME NEW h \in Slots, HandlerStep(h) \/ SwitchRemote(h) \/ Fail(h)
        PROVE  SentByItsSystem(job'[g].ev)
    BY <1>3, <2>4, StepKeepsEvent DEF EventInv, Busy
  <2> QED BY <2>1, <2>2, <2>3, <2>4, NextCases
<1> QED
  BY <1>2, <1>3 DEF EventInv, Busy

(***************************************************************************)
(* LinkInv.                                                                *)
(***************************************************************************)

\* Apart from what a rival adds, a handler writes the row it began with.
LEMMA StepKeepsRows ==
  ASSUME TypeOK, NEW h \in Slots, HandlerStep(h) \/ SwitchRemote(h) \/ Fail(h),
         ~FindRival(h), ~RetireRival(h), NEW g \in Slots, job'[g].pc # "idle"
  PROVE  /\ job'[g].row = job[g].row
         /\ job'[g].rival = job[g].rival /\ job'[g].rivalRow = job[g].rivalRow
         /\ job'[g].pc \in {"revoke", "retire"} => job[g].pc \in {"revoke", "retire"}
<1> DEFINE Kept == /\ job'[g].row = job[g].row
                   /\ job'[g].rival = job[g].rival /\ job'[g].rivalRow = job[g].rivalRow
                   /\ job'[g].pc \in {"revoke", "retire"} => job[g].pc \in {"revoke", "retire"}
<1>1. job[h] \in BusyJob
  BY BusyJobs DEF HandlerStep, FindRival, RevokeRival, RetireRival, WriteRow,
                  RecordTransaction, TellGateway, SwitchRemote, Fail, Busy
<1>2. ASSUME NEW pc \in {"done", "write", "record", "tell"}, Advance(h, pc) PROVE Kept
  BY <1>1, <1>2 DEF Advance, TypeOK, IdleJob, BusyJob
<1>3. ASSUME Abort(h) PROVE Kept
  BY <1>3 DEF Abort, TypeOK, IdleJob
<1>4. CASE RevokeRival(h)
  BY <1>1, <1>3, <1>4 DEF RevokeRival, TypeOK, BusyJob
<1>5. CASE SwitchRemote(h)
  BY <1>1, <1>3, <1>5 DEF SwitchRemote, TypeOK, BusyJob
<1>6. CASE WriteRow(h)
  BY <1>2, <1>6 DEF WriteRow, AfterWrite
<1> QED
  BY <1>2, <1>3, <1>4, <1>5, <1>6 DEF HandlerStep, RecordTransaction, TellGateway, Fail

\* What a handler that begins is going to write.
LEMMA BeginLink ==
  ASSUME TypeOK, EventInv, LinkInv, NEW h \in Slots, Begins(h), job' # job
  PROVE  job'[h].row.status # "None" /\ WellLinked(job'[h].ev.sub, job'[h].row)
<1> USE DEF WellLinked, Live
<1>1. ASSUME NEW e, NEW r, NEW pc, Start(h, e, pc, r),
             r.status # "None" /\ WellLinked(e.sub, r)
      PROVE  job'[h].row.status # "None" /\ WellLinked(job'[h].ev.sub, job'[h].row)
  BY <1>1 DEF Start, TypeOK
<1>2. \A s \in Subs : row[s] \in Row /\ WellLinked(s, row[s])
  BY DEF LinkInv, TypeOK
<1>3. \A e \in hooks : e.sub \in Subs /\ (e.kind \in PayPalKinds => System[e.sub] = "PayPal")
  BY DEF EventInv, SentByItsSystem, TypeOK, Event
<1>4. CASE PayPalWebhook(h)
  <2>1. PICK e \in hooks : PayPalHandle(h, e)
    BY <1>4 DEF PayPalWebhook
  <2>2. row[e.sub].status # "None" /\ row[e.sub].linked /\ row[e.sub] \in Row /\ ~Ignore(h, e)
    BY <1>2, <1>3, <2>1 DEF PayPalHandle, PaymentSucceeded, PaymentFailed, SubscriptionActive,
       SubscriptionSuspended, SubscriptionCancelled, PayPalEvent, PayPalKinds, Ignore
  <2>3. CASE PaymentSucceeded(h, e)
    BY <1>1, <2>2, <2>3 DEF PaymentSucceeded, update, Row
  <2>4. CASE PaymentFailed(h, e)
    BY <1>1, <2>2, <2>4 DEF PaymentFailed, update, Row
  <2>5. CASE SubscriptionActive(h, e)
    BY <1>1, <2>2, <2>5 DEF SubscriptionActive, activateSubscription, Row
  <2>6. CASE SubscriptionSuspended(h, e)
    BY <1>1, <2>2, <2>6 DEF SubscriptionSuspended, suspendSubscription, Row
  <2>7. CASE SubscriptionCancelled(h, e)
    BY <1>1, <2>2, <2>7 DEF SubscriptionCancelled, cancelSubscription, Row
  <2> QED BY <2>1, <2>3, <2>4, <2>5, <2>6, <2>7 DEF PayPalHandle
<1>5. CASE StripeWebhook(h)
  <2>1. PICK e \in hooks : StripeHandle(h, e)
    BY <1>5 DEF StripeWebhook
  <2>2. /\ row[e.sub].status # "None" /\ row[e.sub] \in Row /\ WellLinked(e.sub, row[e.sub])
        /\ ~Ignore(h, e)
    BY <1>2, <1>3, <2>1 DEF StripeHandle, CheckoutCompleted, InvoicePaid, InvoiceFailed,
       SubscriptionDeleted, StripeEvent, Ignore
  <2>3. CASE CheckoutCompleted(h, e)
    BY <1>1, <2>2, <2>3 DEF CheckoutCompleted, Row
  <2>4. CASE InvoicePaid(h, e)
    BY <1>1, <2>2, <2>4 DEF InvoicePaid, Row
  <2>5. CASE InvoiceFailed(h, e)
    BY <1>1, <2>2, <2>5 DEF InvoiceFailed, Row
  <2>6. CASE SubscriptionDeleted(h, e)
    BY <1>1, <2>2, <2>6 DEF SubscriptionDeleted, cancelSubscription, Row
  <2> QED BY <2>1, <2>3, <2>4, <2>5, <2>6 DEF StripeHandle
<1>6. CASE Command(h)
  <2>1. PICK s \in Subs : \/ DisableAutoRenewal(h, s) \/ EnableAutoRenewal(h, s)
                         \/ UpdateUsername(h, s)
    BY <1>6 DEF Command
  <2>2. Live(row[s]) /\ row[s].linked /\ row[s] \in Row
    BY <1>2, <2>1, NoSubAssumption DEF DisableAutoRenewal, EnableAutoRenewal, UpdateUsername,
       LiveRow, getActiveSubscriptionByUserId
  <2>3. \A kind : EventOf(kind, s).sub = s
    BY DEF EventOf
  <2>4. CASE DisableAutoRenewal(h, s)
    <3>1. handleDisable(s).status # "None" /\ handleDisable(s).linked
      BY <2>2 DEF handleDisable, suspendSubscription, disableAutoRenewal, Row
    <3> QED BY <1>1, <2>3, <2>4, <3>1 DEF DisableAutoRenewal
  <2>5. CASE EnableAutoRenewal(h, s)
    <3>1. handleEnable(s).status # "None" /\ handleEnable(s).linked
      BY <2>2 DEF handleEnable, activateSubscription, enableAutoRenewal, Row
    <3> QED BY <1>1, <2>3, <2>5, <3>1 DEF EnableAutoRenewal
  <2>6. CASE UpdateUsername(h, s)
    <3>1. \A name : [row[s] EXCEPT !.name = name].status = row[s].status
                   /\ [row[s] EXCEPT !.name = name].linked
      BY <2>2 DEF Row
    <3> QED BY <1>1, <2>2, <2>3, <2>6, <3>1 DEF UpdateUsername
  <2> QED BY <2>1, <2>4, <2>5, <2>6
<1> QED
  BY <1>4, <1>5, <1>6 DEF Begins

LEMMA LinkNext == ASSUME TypeOK, EventInv, LinkInv, [Next]_vars PROVE LinkInv'
<1> USE DEF WellLinked, Live
<1>1. \A s \in Subs : row[s] \in Row /\ WellLinked(s, row[s])
  BY DEF LinkInv, TypeOK
<1>2. ASSUME NEW s \in Subs PROVE WellLinked(s, row'[s])
  <2>1. CASE row'[s] = row[s]
    BY <1>1, <2>1
  <2>2. ASSUME NEW h \in Slots, RetireRival(h) PROVE WellLinked(s, row'[s])
    <3>1. job[h] \in BusyJob /\ job[h].rivalRow.linked
      BY <2>2, BusyJobs DEF RetireRival, LinkInv
    <3>2. cancelSubscription(job[h].rivalRow).linked
      BY <3>1 DEF cancelSubscription, BusyJob, Row
    <3> QED BY <1>1, <2>2, <3>2 DEF RetireRival, TypeOK
  <2>3. ASSUME NEW h \in Slots, WriteRow(h) PROVE WellLinked(s, row'[s])
    <3>1. job[h] \in BusyJob /\ WellLinked(job[h].ev.sub, job[h].row)
      BY <2>3, BusyJobs DEF WriteRow, LinkInv, Busy
    <3>2. \A old \in Row : WellLinked(job[h].ev.sub, Written(old, job[h]))
      BY <3>1 DEF Written, BusyJob, Row
    <3> QED BY <1>1, <2>3, <3>2 DEF WriteRow, TypeOK
  <2>4. CASE CronWrite
    BY <1>1, <2>4 DEF CronWrite, LinkInv
  <2>5. ASSUME NEW t \in Subs, CreatePayment(t) PROVE WellLinked(s, row'[s])
    <3>1. \A r \in NewRows(t) : WellLinked(t, r)
      BY NewRowIsPending
    <3> QED BY <1>1, <2>1, <2>5, <3>1, CreatePaymentInserts DEF TypeOK
  <2>6. ASSUME NEW h \in Slots, HandlerStep(h) \/ SwitchRemote(h) \/ Fail(h)
        PROVE  WellLinked(s, row'[s])
    BY <2>1, <2>2, <2>3, <2>6 DEF HandlerStep, FindRival, RevokeRival, RecordTransaction,
       TellGateway, SwitchRemote, Fail
  <2>7. CASE Elsewhere
    BY <2>1, <2>4, <2>5, <2>7 DEF Elsewhere, vars, Cron, CronRead, CronRevoke, CronGiveUp,
       CronTell, CronFail, Provider, Approve, Charge, Decline, ProviderSuspend,
       ProviderCancel, Tick
  <2>8. CASE Crash
    BY <2>1, <2>8 DEF Crash
  <2> QED BY <2>1, <2>6, <2>7, <2>8, NextCases, BeginEffect
<1> DEFINE Good(g) ==
      /\ job'[g].row.status # "None" /\ WellLinked(job'[g].ev.sub, job'[g].row)
      /\ job'[g].pc \in {"revoke", "retire"} => job'[g].rivalRow.linked
<1>3. ASSUME NEW g \in Slots, job'[g].pc # "idle" PROVE Good(g)
  <2>1. CASE job'[g] = job[g]
    BY <1>3, <2>1 DEF LinkInv, Busy
  <2>2. ASSUME NEW h \in Slots, Begins(h) PROVE Good(g)
    BY <2>1, <2>2, BeginEffect, BeginLink
  <2>3. ASSUME NEW h \in Slots, HandlerStep(h) \/ SwitchRemote(h) \/ Fail(h) PROVE Good(g)
    <3>1. Busy(g) /\ job'[g].ev = job[g].ev
      BY <1>3, <2>3, StepKeepsEvent
    <3>2. /\ job[g].row.status # "None" /\ WellLinked(job[g].ev.sub, job[g].row)
          /\ job[g].pc \in {"revoke", "retire"} => job[g].rivalRow.linked
      BY <3>1 DEF LinkInv
    <3>3. job[g] \in BusyJob
      BY <3>1, BusyJobs DEF Busy
    <3>4. CASE FindRival(h)
      <4>1. job'[g].row = job[g].row
        BY <3>3, <3>4 DEF FindRival, TypeOK, BusyJob
      <4>2. job'[g].pc \in {"revoke", "retire"} => job'[g].rivalRow.linked
        <5>1. CASE g = h
          <6>1. PICK s \in getActiveSubscriptionByUserId(Owner[job[h].ev.sub]) :
                  job' = IF s \in {NoSub, job[h].ev.sub}
                         THEN [job EXCEPT ![h].pc = "write"]
                         ELSE [job EXCEPT ![h].pc = "revoke", ![h].rival = s,
                                          ![h].rivalRow = row[s]]
            BY <3>4 DEF FindRival
          <6>2. s # NoSub => s \in Subs /\ row[s].linked
            BY <1>1, <6>1 DEF getActiveSubscriptionByUserId
          <6> QED BY <3>3, <5>1, <6>1, <6>2 DEF TypeOK, BusyJob
        <5>2. CASE g # h
          BY <3>2, <3>4, <5>2 DEF FindRival, TypeOK
        <5> QED BY <5>1, <5>2
      <4> QED BY <3>1, <3>2, <4>1, <4>2
    <3>5. CASE RetireRival(h)
      <4>1. CASE g # h
        BY <2>1, <3>5, <4>1 DEF RetireRival, TypeOK
      <4>2. CASE g = h
        <5>1. /\ job'[h].pc = "write"
              /\ \/ job'[h].row = job[h].row
                 \/ /\ job[h].ev.kind = "Activated"
                    /\ job'[h].row = activateSubscription(job[h].row, job[h].rivalRow.end)
          BY <3>3, <3>5, <4>2 DEF RetireRival, TypeOK, BusyJob
        <5>2. job[h].ev.kind = "Activated" => job[h].row.linked
          BY <3>1, <3>2, <4>2 DEF EventInv, SentByItsSystem, PayPalKinds
        <5> QED BY <3>1, <3>2, <3>3, <4>2, <5>1, <5>2 DEF activateSubscription, BusyJob, Row
      <4> QED BY <4>1, <4>2
    <3> QED BY <1>3, <2>3, <3>1, <3>2, <3>4, <3>5, StepKeepsRows
  <2>4. CASE Crash
    BY <1>3, <2>4 DEF Crash, IdleJob
  <2> QED BY <2>1, <2>2, <2>3, <2>4, NextCases, ElsewhereKeepsJobs
<1>4. cron'.pc # "idle" => \A s \in Subs : WellLinked(s, cron'.rows[s])
  <2>1. CASE UNCHANGED cron
    BY <2>1 DEF LinkInv
  <2>2. CASE CronRead
    <3>1. \A s \in Subs : s \in getActiveSubscriptionsByDate(now) =>
            WellLinked(s, cancelSubscription(row[s]))
      BY <1>1 DEF getActiveSubscriptionsByDate, cancelSubscription, Row
    <3> QED BY <1>1, <2>2, <3>1 DEF CronRead
  <2>3. ASSUME CronWrite \/ \E s \in Subs : CronRevoke(s)
        PROVE  cron.pc # "idle" /\ cron'.rows = cron.rows
    BY <2>3, BusyCrons DEF CronRevoke, CronWrite, BusyCron
  <2>4. ASSUME NEW h \in Slots, HandlerStep(h) \/ SwitchRemote(h) \/ Fail(h)
        PROVE  UNCHANGED cron
    BY <2>4 DEF HandlerStep, FindRival, RevokeRival, RetireRival, WriteRow, RecordTransaction,
       TellGateway, SwitchRemote, Fail
  <2>5. CASE Elsewhere
    BY <2>1, <2>2, <2>3, <2>5 DEF LinkInv, Elsewhere, vars, Cron, CronGiveUp, CronTell,
       CronFail, IdleCron, Provider, Approve, Charge, Decline, ProviderSuspend,
       ProviderCancel, Tick, CreatePayment
  <2>6. CASE Crash
    BY <2>6 DEF Crash, IdleCron
  <2> QED BY <2>1, <2>4, <2>5, <2>6, NextCases, BeginEffect
<1> QED
  BY <1>2, <1>3, <1>4 DEF LinkInv, Busy

(***************************************************************************)
(* RevokeInv.                                                              *)
(***************************************************************************)

\* No action brings a subscription back that is over at its provider.
LEMMA CancelledForGood ==
  ASSUME TypeOK, EventInv, [Next]_vars, NEW s \in Subs, remote[s] = "cancelled"
  PROVE  remote'[s] = "cancelled"
<1>1. ASSUME NEW t \in Subs, CancelRemote(t) PROVE remote'[s] = "cancelled"
  BY <1>1 DEF CancelRemote, TypeOK
<1>2. ASSUME NEW h \in Slots, HandlerStep(h) \/ SwitchRemote(h) \/ Fail(h)
      PROVE  remote'[s] = "cancelled"
  <2>1. CASE RevokeRival(h)
    <3>1. job[h].rival \in Subs
      BY <2>1, BusyJobs DEF RevokeRival, BusyJob
    <3> QED BY <1>1, <2>1, <3>1 DEF RevokeRival
  <2>2. CASE SwitchRemote(h)
    BY <2>2 DEF SwitchRemote, TypeOK
  <2> QED BY <1>2, <2>1, <2>2 DEF HandlerStep, FindRival, RetireRival, WriteRow,
             RecordTransaction, TellGateway, Fail
<1>3. CASE Cron
  BY <1>1, <1>3 DEF Cron, CronRead, CronRevoke, CronGiveUp, CronWrite, CronTell, CronFail
<1>4. CASE Provider
  BY <1>1, <1>4 DEF Provider, Approve, Charge, Decline, ProviderSuspend, ProviderCancel, TypeOK
<1>5. ASSUME NEW t \in Subs, CreatePayment(t) PROVE remote'[s] = "cancelled"
  BY <1>5 DEF CreatePayment, TypeOK
<1> QED
  BY <1>2, <1>3, <1>4, <1>5, NextCases, BeginEffect DEF Elsewhere, vars, Tick, Crash

LEMMA RevokeNext == ASSUME TypeOK, EventInv, RevokeInv, [Next]_vars PROVE RevokeInv'
<1>1. ASSUME NEW s \in Subs, CancelRemote(s) PROVE remote'[s] = "cancelled"
  BY <1>1 DEF CancelRemote, TypeOK
<1>2. ASSUME NEW g \in Slots, job'[g].pc = "retire", System[job'[g].rival] = "PayPal"
      PROVE  remote'[job'[g].rival] = "cancelled"
  <2>1. CASE job[g].pc = "retire" /\ job'[g].rival = job[g].rival
    <3>1. job[g].rival \in Subs
      BY <2>1, BusyJobs DEF BusyJob
    <3> QED BY <1>2, <2>1, <3>1, CancelledForGood DEF RevokeInv, RivalRevokedFirst
  <2>2. ASSUME NEW h \in Slots, Begins(h) PROVE job'[g] = job[g]
    BY <1>2, <2>2, BeginEffect
  <2>3. CASE Crash
    BY <1>2, <2>3 DEF Crash, IdleJob
  <2>4. ASSUME NEW h \in Slots, HandlerStep(h) \/ SwitchRemote(h) \/ Fail(h), job'[g] # job[g]
        PROVE  remote'[job'[g].rival] = "cancelled"
    <3>1. job[h] \in BusyJob
      BY <2>4, BusyJobs DEF HandlerStep, FindRival, RevokeRival, RetireRival, WriteRow,
         RecordTransaction, TellGateway, SwitchRemote, Fail, Busy
    <3>2. ASSUME NEW pc \in {"done", "write", "record", "tell"}, Advance(h, pc) PROVE FALSE
      BY <1>2, <2>4, <3>1, <3>2 DEF Advance, TypeOK, IdleJob, BusyJob
    <3>3. ASSUME Abort(h) PROVE FALSE
      BY <1>2, <2>4, <3>3 DEF Abort, TypeOK, IdleJob
    <3>4. CASE RevokeRival(h)
      <4>1. job[h].rival \in Subs
        BY <3>1, <3>4 DEF RevokeRival, BusyJob
      <4>2. g = h /\ job'[h].rival = job[h].rival
        BY <2>4, <3>1, <3>3, <3>4 DEF RevokeRival, TypeOK, BusyJob
      <4>3. CancelRemote(job[h].rival)
        BY <1>2, <3>3, <3>4, <4>2 DEF RevokeRival
      <4> QED BY <1>1, <4>1, <4>2, <4>3
    <3>5. CASE FindRival(h) \/ RetireRival(h)
      <4>1. \A f \in Slots \ {h} : job'[f] = job[f]
        BY <3>5 DEF FindRival, RetireRival, TypeOK
      <4>2. CASE FindRival(h)
        <5>1. PICK s : job' = IF s \in {NoSub, job[h].ev.sub}
                              THEN [job EXCEPT ![h].pc = "write"]
                              ELSE [job EXCEPT ![h].pc = "revoke", ![h].rival = s,
                                               ![h].rivalRow = row[s]]
          BY <4>2 DEF FindRival
        <5>2. job'[h].pc \in {"write", "revoke"}
          BY <3>1, <5>1 DEF TypeOK, BusyJob
        <5> QED BY <1>2, <2>4, <4>1, <5>2
      <4>3. CASE RetireRival(h)
        <5>1. job'[h].pc = "write"
          BY <3>1, <4>3 DEF RetireRival, TypeOK, BusyJob
        <5> QED BY <1>2, <2>4, <4>1, <5>1
      <4> QED BY <3>5, <4>2, <4>3
    <3>6. CASE SwitchRemote(h)
      BY <1>2, <2>4, <3>1, <3>3, <3>6 DEF SwitchRemote, TypeOK, BusyJob
    <3>7. CASE WriteRow(h)
      BY <3>2, <3>7 DEF WriteRow, AfterWrite
    <3> QED BY <2>4, <3>2, <3>3, <3>4, <3>5, <3>6, <3>7
            DEF HandlerStep, RecordTransaction, TellGateway, Fail
  <2> QED BY <1>2, <2>1, <2>2, <2>3, <2>4, NextCases, ElsewhereKeepsJobs
<1> DEFINE Batch == /\ cron'.pc = "write" => \A s \in cron'.revoked : remote'[s] = "cancelled"
                    /\ cron'.pc = "revoke" =>
                         \A s \in cron'.revoked \ cron'.todo : remote'[s] = "cancelled"
<1>3. Batch
  <2>1. CASE UNCHANGED cron
    <3>1. cron.pc # "idle" => cron.revoked \subseteq Subs
      BY BusyCrons DEF BusyCron
    <3> QED BY <2>1, <3>1, CancelledForGood DEF RevokeInv, BatchRevokedFirst
  <2>2. CASE CronRead
    BY <2>2 DEF CronRead
  <2>3. ASSUME NEW s \in Subs, CronRevoke(s) PROVE Batch
    <3>1. /\ cron'.revoked = cron.revoked /\ cron'.todo = cron.todo \ {s}
          /\ cron'.pc = "write" => cron.todo = {s}
          /\ cron.revoked \subseteq Subs
      BY <2>3, BusyCrons DEF CronRevoke, BusyCron
    <3>2. \A t \in cron.revoked \ cron.todo : remote'[t] = "cancelled"
      BY <2>3, <3>1, CancelledForGood DEF CronRevoke, RevokeInv
    <3>3. remote'[s] = "cancelled"
      BY <1>1, <2>3 DEF CronRevoke
    <3> QED BY <3>1, <3>2, <3>3
  <2>4. ASSUME NEW h \in Slots, HandlerStep(h) \/ SwitchRemote(h) \/ Fail(h)
        PROVE  UNCHANGED cron
    BY <2>4 DEF HandlerStep, FindRival, RevokeRival, RetireRival, WriteRow, RecordTransaction,
       TellGateway, SwitchRemote, Fail
  <2>5. CASE Elsewhere
    <3>1. CASE CronWrite
      BY <3>1, BusyCrons DEF CronWrite, BusyCron
    <3> QED BY <2>1, <2>2, <2>3, <2>5, <3>1 DEF Elsewhere, vars, Cron, CronGiveUp, CronTell,
       CronFail, IdleCron, Provider, Approve, Charge, Decline, ProviderSuspend,
       ProviderCancel, Tick, CreatePayment
  <2>6. CASE Crash
    BY <2>6 DEF Crash, IdleCron
  <2> QED BY <2>1, <2>4, <2>5, <2>6, NextCases, BeginEffect
<1> QED
  BY <1>2, <1>3 DEF RevokeInv, RivalRevokedFirst, BatchRevokedFirst

(***************************************************************************)
(* TimeInv.                                                                *)
(***************************************************************************)

\* No operation of the entity moves the end beyond the end it is given.
LEMMA EntityTimes ==
  ASSUME NEW r \in Row, NEW end \in Nat, NEW bound \in Nat,
         r.end <= bound, end <= bound
  PROVE  /\ \A st : update(r, st, end).end <= bound
         /\ activateSubscription(r, end).end <= bound
         /\ suspendSubscription(r).end <= bound
         /\ disableAutoRenewal(r).end <= bound
         /\ enableAutoRenewal(r).end <= bound
         /\ cancelSubscription(r).end <= bound
         /\ [r EXCEPT !.end = end].end <= bound
  BY DEF Row, update, activateSubscription, suspendSubscription, disableAutoRenewal,
         enableAutoRenewal, cancelSubscription, KeepIfNull

LEMMA BeginTime ==
  ASSUME TypeOK, EventInv, TimeInv, NEW h \in Slots, Begins(h), job' # job
  PROVE  job'[h].row.end <= now + Period
<1> DEFINE bound == now + Period
<1>1. now \in Nat /\ Period \in Nat /\ bound \in Nat /\ now <= bound
  BY PeriodAssumption DEF TypeOK
<1>2. ASSUME NEW e, NEW r, NEW pc, Start(h, e, pc, r), r.end <= bound
      PROVE  job'[h].row.end <= bound
  BY <1>2 DEF Start, TypeOK
<1> SUFFICES job'[h].row.end <= bound
  OBVIOUS
<1>3. \A s \in Subs : row[s] \in Row /\ row[s].end \in Nat /\ row[s].end <= bound
  BY DEF TimeInv, AtMostOnePeriodAhead, TypeOK, Row
<1>4. \A e \in hooks : e.sub \in Subs /\ e.at \in Nat /\ e.at <= now
  BY DEF EventInv, TypeOK, Event
<1>5. ASSUME NEW e, Ignore(h, e) PROVE FALSE
  BY <1>5 DEF Ignore
<1> HIDE DEF bound
<1>6. CASE PayPalWebhook(h)
  <2>1. PICK e \in hooks : PayPalHandle(h, e)
    BY <1>6 DEF PayPalWebhook
  <2>2. row[e.sub] \in Row /\ row[e.sub].end \in Nat /\ row[e.sub].end <= bound /\ 0 <= bound
    BY <1>1, <1>3, <1>4
  <2>3. CASE PaymentSucceeded(h, e)
    <3>1. update(row[e.sub], "Active", now + Period).end <= bound
      BY <1>1, <2>2, EntityTimes DEF bound
    <3> QED BY <1>2, <2>3, <3>1 DEF PaymentSucceeded
  <2>4. CASE PaymentFailed(h, e)
    BY <1>1, <1>2, <2>2, <2>4, EntityTimes DEF PaymentFailed
  <2>5. CASE SubscriptionActive(h, e)
    BY <1>1, <1>2, <1>5, <2>2, <2>5, EntityTimes DEF SubscriptionActive
  <2>6. CASE SubscriptionSuspended(h, e)
    BY <1>1, <1>2, <1>5, <2>2, <2>6, EntityTimes DEF SubscriptionSuspended
  <2>7. CASE SubscriptionCancelled(h, e)
    BY <1>1, <1>2, <1>5, <2>2, <2>7, EntityTimes DEF SubscriptionCancelled
  <2> QED BY <2>1, <2>3, <2>4, <2>5, <2>6, <2>7 DEF PayPalHandle
<1>7. CASE StripeWebhook(h)
  <2>1. PICK e \in hooks : StripeHandle(h, e)
    BY <1>7 DEF StripeWebhook
  <2>2. /\ row[e.sub] \in Row /\ row[e.sub].end \in Nat /\ row[e.sub].end <= bound
        /\ e.at \in Nat /\ e.at + Period \in Nat /\ e.at <= bound /\ e.at + Period <= bound
    BY <1>1, <1>3, <1>4, <2>1 DEF bound
  <2>3. CASE CheckoutCompleted(h, e)
    <3>1. [row[e.sub] EXCEPT !.status = "Active", !.linked = TRUE].end <= bound
      BY <2>2 DEF Row
    <3> QED BY <1>2, <2>3, <3>1 DEF CheckoutCompleted
  <2>4. CASE InvoicePaid(h, e)
    <3>1. \A end \in (e.at + 1)..(e.at + Period) : end \in Nat /\ end <= bound
      BY <1>1, <2>2
    <3> QED BY <1>1, <1>2, <2>2, <2>4, <3>1, EntityTimes DEF InvoicePaid
  <2>5. CASE InvoiceFailed(h, e)
    BY <1>1, <1>2, <2>2, <2>5, EntityTimes DEF InvoiceFailed
  <2>6. CASE SubscriptionDeleted(h, e)
    BY <1>1, <1>2, <1>5, <2>2, <2>6, EntityTimes DEF SubscriptionDeleted
  <2> QED BY <2>1, <2>3, <2>4, <2>5, <2>6 DEF StripeHandle
<1>8. CASE Command(h)
  <2>1. PICK s \in Subs : \/ DisableAutoRenewal(h, s) \/ EnableAutoRenewal(h, s)
                         \/ UpdateUsername(h, s)
    BY <1>8 DEF Command
  <2>2. row[s] \in Row /\ row[s].end \in Nat /\ row[s].end <= bound /\ 0 <= bound
    BY <1>1, <1>3
  <2>3. handleDisable(s).end <= bound /\ handleEnable(s).end <= bound
    BY <1>1, <2>2, EntityTimes DEF handleDisable, handleEnable
  <2>4. \A name : [row[s] EXCEPT !.name = name].end <= bound
    BY <2>2 DEF Row
  <2> QED BY <1>2, <2>1, <2>2, <2>3, <2>4
          DEF DisableAutoRenewal, EnableAutoRenewal, UpdateUsername
<1> QED
  BY <1>6, <1>7, <1>8 DEF Begins

LEMMA TimeNext == ASSUME TypeOK, EventInv, TimeInv, [Next]_vars PROVE TimeInv'
<1> DEFINE bound == now + Period
<1>1. /\ now \in Nat /\ Period \in Nat /\ bound \in Nat
      /\ now' \in Nat /\ now' + Period \in Nat /\ bound <= now' + Period
  BY ClockGoesOn, PeriodAssumption DEF TypeOK
<1>2. \A s \in Subs : row[s] \in Row /\ row[s].end \in Nat /\ row[s].end <= bound
  BY DEF TimeInv, AtMostOnePeriodAhead, TypeOK, Row
<1>3. \A g \in Slots : Busy(g) =>
        /\ job[g] \in BusyJob /\ job[g].row \in Row /\ job[g].rivalRow \in Row
        /\ job[g].row.end \in Nat /\ job[g].rivalRow.end \in Nat
        /\ job[g].row.end <= bound /\ job[g].rivalRow.end <= bound
  BY BusyJobs DEF TimeInv, Busy, BusyJob, Row
<1>4. cron.pc # "idle" => \A s \in Subs : cron.rows[s].end \in Nat /\ cron.rows[s].end <= bound
  BY BusyCrons DEF TimeInv, BusyCron, Row
<1>5. \A u \in Users : told[u] \in Nat /\ told[u] <= bound
  BY DEF TimeInv, AtMostOnePeriodAhead, TypeOK
<1>6. /\ \A s \in Subs : row'[s].end \in Nat
      /\ \A u \in Users : told'[u] \in Nat
  BY NextType DEF TypeOK, Row
<1> HIDE DEF bound
<1>7. ASSUME NEW s \in Subs PROVE row'[s].end <= bound
  <2>1. CASE row' = row
    BY <1>2, <2>1
  <2>2. ASSUME NEW h \in Slots, RetireRival(h) PROVE row'[s].end <= bound
    <3>1. job[h] \in BusyJob /\ cancelSubscription(job[h].rivalRow).end <= bound
      BY <1>1, <1>3, <2>2, EntityTimes DEF RetireRival, Busy
    <3> QED BY <1>2, <2>2, <3>1 DEF RetireRival, TypeOK
  <2>3. ASSUME NEW h \in Slots, WriteRow(h) PROVE row'[s].end <= bound
    <3>1. \A old \in Row : old.end <= bound => Written(old, job[h]).end <= bound
      BY <1>3, <2>3 DEF WriteRow, Busy, Written, Row
    <3> QED BY <1>2, <2>3, <3>1 DEF WriteRow, TypeOK
  <2>4. CASE CronWrite
    BY <1>2, <1>4, <2>4 DEF CronWrite
  <2>5. ASSUME NEW t \in Subs, CreatePayment(t) PROVE row'[s].end <= bound
    BY <1>1, <1>2, <2>5, CreatePaymentInserts, NewRowIsPending DEF TypeOK
  <2>6. ASSUME NEW h \in Slots, HandlerStep(h) \/ SwitchRemote(h) \/ Fail(h)
        PROVE  row'[s].end <= bound
    BY <2>1, <2>2, <2>3, <2>6 DEF HandlerStep, FindRival, RevokeRival, RecordTransaction,
       TellGateway, SwitchRemote, Fail
  <2>7. CASE Elsewhere
    BY <2>1, <2>4, <2>5, <2>7 DEF Elsewhere, vars, Cron, CronRead, CronRevoke, CronGiveUp,
       CronTell, CronFail, Provider, Approve, Charge, Decline, ProviderSuspend,
       ProviderCancel, Tick
  <2>8. CASE Crash
    BY <2>1, <2>8 DEF Crash
  <2> QED BY <2>1, <2>6, <2>7, <2>8, NextCases, BeginEffect
<1>8. ASSUME NEW u \in Users PROVE told'[u] <= bound
  <2>1. CASE told' = told
    BY <1>5, <2>1
  <2>2. ASSUME NEW h \in Slots, TellGateway(h) PROVE told'[u] <= bound
    BY <1>3, <1>5, <2>2 DEF TellGateway, Busy, TypeOK
  <2>3. CASE CronTell
    <3>1. \A s \in Subs : cron.rows[s].end <= bound
      BY <1>4, <2>3 DEF CronTell
    <3> QED BY <1>5, <2>3, <3>1 DEF CronTell
  <2>4. ASSUME NEW h \in Slots, HandlerStep(h) \/ SwitchRemote(h) \/ Fail(h)
        PROVE  told'[u] <= bound
    BY <2>1, <2>2, <2>4 DEF HandlerStep, FindRival, RevokeRival, RetireRival, WriteRow,
       RecordTransaction, SwitchRemote, Fail
  <2>5. CASE Elsewhere
    BY <2>1, <2>3, <2>5 DEF Elsewhere, vars, Cron, CronRead, CronRevoke, CronGiveUp, CronWrite, CronFail,
       Provider, Approve, Charge, Decline, ProviderSuspend, ProviderCancel, Tick, CreatePayment
  <2>6. CASE Crash
    BY <2>1, <2>6 DEF Crash
  <2> QED BY <2>1, <2>4, <2>5, <2>6, NextCases, BeginEffect
<1> DEFINE Good(g) == job'[g].row.end <= bound /\ job'[g].rivalRow.end <= bound
<1>9. ASSUME NEW g \in Slots, job'[g].pc # "idle" PROVE Good(g)
  <2>1. CASE job'[g] = job[g]
    BY <1>3, <1>9, <2>1 DEF Busy
  <2>2. ASSUME NEW h \in Slots, Begins(h) PROVE Good(g)
    <3>1. NoRow.end <= bound
      BY <1>1 DEF NoRow
    <3> QED BY <2>1, <2>2, <3>1, BeginEffect, BeginTime DEF bound
  <2>3. ASSUME NEW h \in Slots, HandlerStep(h) \/ SwitchRemote(h) \/ Fail(h) PROVE Good(g)
    <3>1. Busy(g)
      BY <1>9, <2>3, StepKeepsEvent
    <3>2. CASE FindRival(h)
      <4>1. PICK s \in getActiveSubscriptionByUserId(Owner[job[h].ev.sub]) :
              job' = IF s \in {NoSub, job[h].ev.sub}
                     THEN [job EXCEPT ![h].pc = "write"]
                     ELSE [job EXCEPT ![h].pc = "revoke", ![h].rival = s, ![h].rivalRow = row[s]]
        BY <3>2 DEF FindRival
      <4>2. s # NoSub => s \in Subs /\ row[s].end <= bound
        BY <1>2, <4>1 DEF getActiveSubscriptionByUserId
      <4> QED BY <1>3, <3>1, <4>1, <4>2 DEF TypeOK, BusyJob
    <3>3. CASE RetireRival(h)
      <4>1. CASE g # h
        BY <2>1, <3>3, <4>1 DEF RetireRival, TypeOK
      <4>2. CASE g = h
        <5>1. /\ job'[h].rivalRow = job[h].rivalRow
              /\ \/ job'[h].row = job[h].row
                 \/ job'[h].row = activateSubscription(job[h].row, job[h].rivalRow.end)
          BY <1>3, <3>1, <3>3, <4>2 DEF RetireRival, TypeOK, BusyJob
        <5>2. activateSubscription(job[h].row, job[h].rivalRow.end).end <= bound
          BY <1>1, <1>3, <3>1, <4>2, EntityTimes
        <5> QED BY <1>3, <3>1, <4>2, <5>1, <5>2
      <4> QED BY <4>1, <4>2
    <3> QED BY <1>3, <1>9, <2>3, <3>1, <3>2, <3>3, StepKeepsRows
  <2>4. CASE Crash
    BY <1>9, <2>4 DEF Crash, IdleJob
  <2> QED BY <2>1, <2>2, <2>3, <2>4, NextCases, ElsewhereKeepsJobs
<1>10. ASSUME cron'.pc # "idle", NEW s \in Subs PROVE cron'.rows[s].end <= bound
  <2>1. CASE UNCHANGED cron
    BY <1>4, <1>10, <2>1
  <2>2. CASE CronRead
    <3>1. cancelSubscription(row[s]).end <= bound
      BY <1>1, <1>2, EntityTimes
    <3> QED BY <1>2, <2>2, <3>1 DEF CronRead
  <2>3. ASSUME CronWrite \/ \E t \in Subs : CronRevoke(t)
        PROVE  cron.pc # "idle" /\ cron'.rows = cron.rows
    BY <2>3, BusyCrons DEF CronRevoke, CronWrite, BusyCron
  <2>4. ASSUME NEW h \in Slots, HandlerStep(h) \/ SwitchRemote(h) \/ Fail(h)
        PROVE  UNCHANGED cron
    BY <2>4 DEF HandlerStep, FindRival, RevokeRival, RetireRival, WriteRow, RecordTransaction,
       TellGateway, SwitchRemote, Fail
  <2>5. CASE Elsewhere
    BY <1>4, <1>10, <2>1, <2>2, <2>3, <2>5 DEF Elsewhere, vars, Cron, CronGiveUp, CronTell,
       CronFail, IdleCron, Provider, Approve, Charge, Decline, ProviderSuspend,
       ProviderCancel, Tick, CreatePayment
  <2>6. CASE Crash
    BY <1>10, <2>6 DEF Crash, IdleCron
  <2> QED BY <2>1, <2>4, <2>5, <2>6, NextCases, BeginEffect
<1>11. \A g \in Slots : job'[g].pc # "idle" =>
         job'[g].row.end \in Nat /\ job'[g].rivalRow.end \in Nat
  BY NextType DEF TypeOK, IdleJob, BusyJob, Row
<1>12. cron'.pc # "idle" => \A s \in Subs : cron'.rows[s].end \in Nat
  BY NextType DEF TypeOK, IdleCron, BusyCron, Row
<1>13. \A x \in Nat : x <= bound => x <= now' + Period
  <2>1. \A x, y, z \in Nat : x <= y /\ y <= z => x <= z
    OBVIOUS
  <2> QED BY <1>1, <2>1
<1>14. AtMostOnePeriodAhead'
  BY <1>6, <1>7, <1>8, <1>13 DEF AtMostOnePeriodAhead
<1>15. \A h \in Slots : job'[h].pc # "idle" =>
         job'[h].row.end <= now' + Period /\ job'[h].rivalRow.end <= now' + Period
  BY <1>9, <1>11, <1>13
<1>16. cron'.pc # "idle" => \A s \in Subs : cron'.rows[s].end <= now' + Period
  BY <1>10, <1>12, <1>13
<1> QED
  BY <1>14, <1>15, <1>16 DEF TimeInv, Busy
=============================================================================
