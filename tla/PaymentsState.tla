---------------------------- MODULE PaymentsState ----------------------------
(***************************************************************************)
(* The state of the payments service and of the two payment providers it   *)
(* talks to, the repository operations, and the steps all its asynchronous *)
(* handlers have in common.                                                *)
(*                                                                         *)
(* Node runs one continuation at a time, so a handler is cut at every      *)
(* await that reads or writes something another handler can change: it     *)
(* reads its row, then possibly calls a provider, then writes the WHOLE    *)
(* row object back (PaymentsRepository.updateSub).  A handler in flight is *)
(* a record job[h] that holds that row object as it is in memory.          *)
(***************************************************************************)
EXTENDS Subscription, FiniteSets

CONSTANTS
  Users,      \* users of the application
  Subs,       \* ids of the subscription rows that may be created
  Owner,      \* Owner[s]: the userId column of row s
  System,     \* System[s]: the paymentSystem column, "PayPal" or "Stripe"
  Slots,      \* handlers that may be in flight together
  NoSub,      \* no row: the null that findFirst returns
  Period,     \* length of a paid period
  MaxTime,    \* bound on the clock
  MaxFaults,  \* bound on failed calls, crashes and duplicated deliveries
  MaxMoves    \* bound on what users and providers do on their own

ASSUME OwnerAssumption == Owner \in [Subs -> Users]
ASSUME SystemAssumption == System \in [Subs -> {"PayPal", "Stripe"}]
ASSUME NoSubAssumption == NoSub \notin Subs
ASSUME PeriodAssumption == Period \in Nat \ {0}
ASSUME BoundsAssumption == {MaxTime, MaxFaults, MaxMoves} \subseteq Nat

VARIABLES
  row,      \* the Subscription table
  remote,   \* remote[s]: the provider's own subscription (external)
  hooks,    \* webhook events the provider has sent and not seen acknowledged
  job,      \* job[h]: the handler running in slot h
  cron,     \* the midnight job disableSubscription
  txns,     \* txns[s]: the charges recorded in PaymentTransaction
  charged,  \* charged[s]: the instants at which the provider took money
  told,     \* told[u]: the end date last emitted to the gateway about u
  now,      \* the clock
  faults,   \* failures so far
  moves,    \* moves of users and providers so far
  clash     \* history: users two of whose handlers ever overlapped

vars == <<row, remote, hooks, job, cron, txns, charged, told, now, faults, moves, clash>>

PayPalKinds == {"SaleCompleted", "SaleFailed", "Activated", "Suspended", "Cancelled"}
StripeKinds == {"Checkout", "InvoicePaid", "InvoiceFailed", "Deleted"}
CommandKinds == {"Disable", "Enable", "Rename"}

\* A webhook event, or the request a command handles (never in hooks).
Event == [kind : PayPalKinds \cup StripeKinds \cup CommandKinds, sub : Subs,
          at : Nat, amount : {0, 1}]

EventOf(kind, s) == [kind |-> kind, sub |-> s, at |-> 0, amount |-> 0]

\* remote: "none" before creation, "pending" until the user approves;
\* "suspended" is PayPal's SUSPENDED and Stripe's cancel_at_period_end.
RemoteStates == {"none", "pending", "active", "suspended", "cancelled"}

IdleJob == [pc |-> "idle"]
\* While a rival is being revoked and retired it is some row.
BusyJob ==
  [pc : {"find", "call", "write", "record", "tell"},
   ev : Event, row : Row, rival : Subs \cup {NoSub}, rivalRow : Row]
  \cup [pc : {"revoke", "retire"}, ev : Event, row : Row, rival : Subs, rivalRow : Row]

IdleCron == [pc |-> "idle"]
BusyCron == [pc : {"revoke", "write", "tell"}, batch : SUBSET Subs, rows : [Subs -> Row],
             revoked : SUBSET Subs, todo : SUBSET Subs]

TypeOK ==
  /\ row \in [Subs -> Row]
  /\ remote \in [Subs -> RemoteStates]
  /\ hooks \subseteq Event
  /\ job \in [Slots -> {IdleJob} \cup BusyJob]
  /\ cron \in {IdleCron} \cup BusyCron
  /\ txns \in [Subs -> SUBSET Nat]
  /\ charged \in [Subs -> SUBSET Nat]
  /\ told \in [Users -> Nat]
  /\ now \in Nat
  /\ faults \in Nat
  /\ moves \in Nat
  /\ clash \subseteq Users

Init ==
  /\ row = [s \in Subs |-> NoRow]
  /\ remote = [s \in Subs |-> "none"]
  /\ hooks = {}
  /\ job = [h \in Slots |-> IdleJob]
  /\ cron = IdleCron
  /\ txns = [s \in Subs |-> {}]
  /\ charged = [s \in Subs |-> {}]
  /\ told = [u \in Users |-> 0]
  /\ now = 1
  /\ faults = 0
  /\ moves = 0
  /\ clash = {}

(***************************************************************************)
(* Repository and adapters.                                                *)
(***************************************************************************)

Busy(h) == job[h].pc # "idle"

\* getActiveSubscriptionByUserId is a findFirst without an order: any live row.
getActiveSubscriptionByUserId(u) ==
  LET live == {s \in Subs : Owner[s] = u /\ Live(row[s])}
  IN  IF live = {} THEN {NoSub} ELSE live

\* getActiveSubscriptionsByDate; a null end date is never less than a date.
getActiveSubscriptionsByDate(date) ==
  {s \in Subs : Live(row[s]) /\ row[s].end # 0 /\ row[s].end < date}

\* The provider accepts a cancellation of what is not over or not begun.
Cancellable(s) == remote[s] \in {"active", "suspended"}

\* The event by which the provider reports that s is cancelled.
Cancellation(s) == EventOf(IF System[s] = "PayPal" THEN "Cancelled" ELSE "Deleted", s)

\* cancelSubscription of the provider's API (PayPalAdapter, StripeAdapter).
CancelRemote(s) ==
  /\ Cancellable(s)
  /\ remote' = [remote EXCEPT ![s] = "cancelled"]
  /\ hooks' = hooks \cup {Cancellation(s)}

\* A user or a provider does something of its own accord.
Move == moves < MaxMoves /\ moves' = moves + 1

(***************************************************************************)
(* The life of a handler.                                                  *)
(***************************************************************************)

\* Users who have a handler in flight; the midnight job touches everybody.
InFlight == {Owner[job[h].ev.sub] : h \in {g \in Slots : Busy(g)}}

\* A handler has read its row and computed what it will write; it waits at pc.
Start(h, e, pc, r) ==
  /\ ~Busy(h)
  /\ job' = [job EXCEPT ![h] = [pc |-> pc, ev |-> e, row |-> r,
                                rival |-> NoSub, rivalRow |-> NoRow]]
  /\ clash' = IF Owner[e.sub] \in InFlight \/ cron.pc # "idle"
              THEN clash \cup {Owner[e.sub]} ELSE clash
  /\ IF e.kind \in CommandKinds THEN Move ELSE UNCHANGED moves
  /\ UNCHANGED <<row, remote, hooks, cron, txns, charged, told, now, faults>>

\* Success is answered: the provider forgets the event, unless the answer is
\* lost or the provider delivers at least once, and the event comes again.
Acknowledge(e) ==
  \/ hooks' = hooks \ {e} /\ UNCHANGED faults
  \/ /\ e \in hooks /\ faults < MaxFaults
     /\ faults' = faults + 1
     /\ UNCHANGED hooks

\* An early return: the handler found nothing to do.
Ignore(h, e) ==
  /\ ~Busy(h)
  /\ hooks' = hooks \ {e}
  /\ UNCHANGED <<row, remote, job, cron, txns, charged, told, now, faults, moves, clash>>

\* Move on to pc, or answer success after the last step.
Advance(h, pc) ==
  IF pc = "done"
  THEN job' = [job EXCEPT ![h] = IdleJob] /\ Acknowledge(job[h].ev)
  ELSE job' = [job EXCEPT ![h].pc = pc] /\ UNCHANGED <<hooks, faults>>

\* Mutant: a PayPal handler's error is swallowed as a Stripe one's is.
AbortSilently(h) ==
  job' = [job EXCEPT ![h] = IdleJob] /\ hooks' = hooks \ {job[h].ev}

\* A handler that throws answers internalServerError.  The PayPal adapter
\* hands it to the gateway, which answers 500, and PayPal delivers again; the
\* Stripe adapter drops it, the gateway answers 200, and the event is gone.
Abort(h) ==
  /\ job' = [job EXCEPT ![h] = IdleJob]
  /\ hooks' = IF job[h].ev.kind \in StripeKinds THEN hooks \ {job[h].ev} ELSE hooks

(***************************************************************************)
(* PaymentService.handleActiveSubscription, as a step per await.           *)
(***************************************************************************)

\* Mutant: the rival's row is written without cancelling at the provider.
FindRivalOnly(h) ==
  /\ job[h].pc = "find"
  /\ \E s \in getActiveSubscriptionByUserId(Owner[job[h].ev.sub]) :
       job' = IF s \in {NoSub, job[h].ev.sub}
              THEN [job EXCEPT ![h].pc = "write"]
              ELSE [job EXCEPT ![h].pc = "retire", ![h].rival = s, ![h].rivalRow = row[s]]
  /\ UNCHANGED <<row, remote, hooks, cron, txns, charged, told, now, faults, moves, clash>>

\* The user's live row, if it is another one, is the rival to be retired.
FindRival(h) ==
  /\ job[h].pc = "find"
  /\ \E s \in getActiveSubscriptionByUserId(Owner[job[h].ev.sub]) :
       job' = IF s \in {NoSub, job[h].ev.sub}
              THEN [job EXCEPT ![h].pc = "write"]
              ELSE [job EXCEPT ![h].pc = "revoke", ![h].rival = s, ![h].rivalRow = row[s]]
  /\ UNCHANGED <<row, remote, hooks, cron, txns, charged, told, now, faults, moves, clash>>

\* Mutant: PayPal's refusal goes unread as Stripe's does.
RevokeRivalUnread(h) ==
  LET s == job[h].rival IN
  /\ job[h].pc = "revoke"
  /\ \/ CancelRemote(s) /\ UNCHANGED faults
     \/ ~Cancellable(s) /\ UNCHANGED <<remote, hooks, faults>>
     \/ faults < MaxFaults /\ faults' = faults + 1 /\ UNCHANGED <<remote, hooks>>
  /\ job' = [job EXCEPT ![h].pc = "retire"]
  /\ UNCHANGED <<row, cron, txns, charged, told, now, moves, clash>>

\* PayPal's refusal throws; Stripe's is the boolean false, which nobody reads.
RevokeRival(h) ==
  LET s == job[h].rival IN
  /\ job[h].pc = "revoke"
  /\ \/ /\ CancelRemote(s)
        /\ job' = [job EXCEPT ![h].pc = "retire"]
        /\ UNCHANGED faults
     \/ /\ System[s] = "Stripe"
        /\ \/ ~Cancellable(s) /\ UNCHANGED faults
           \/ faults < MaxFaults /\ faults' = faults + 1
        /\ job' = [job EXCEPT ![h].pc = "retire"]
        /\ UNCHANGED <<remote, hooks>>
     \/ /\ System[s] = "PayPal" /\ ~Cancellable(s)
        /\ Abort(h)
        /\ UNCHANGED <<remote, faults>>
  /\ UNCHANGED <<row, cron, txns, charged, told, now, moves, clash>>

\* The rival's whole row is written; PayPal's Activated inherits its dates.
RetireRival(h) ==
  LET j == job[h] IN
  /\ j.pc = "retire"
  /\ row' = [row EXCEPT ![j.rival] = cancelSubscription(j.rivalRow)]
  /\ job' = [job EXCEPT
       ![h].pc = "write",
       ![h].row = IF j.ev.kind = "Activated"
                  THEN activateSubscription(j.row, j.rivalRow.end) ELSE j.row]
  /\ UNCHANGED <<remote, hooks, cron, txns, charged, told, now, faults, moves, clash>>

(***************************************************************************)
(* The writes at the end of a handler.                                     *)
(***************************************************************************)

\* updateSubscription writes three columns, updateSub the whole object.
Written(old, j) ==
  IF j.ev.kind = "Checkout"
  THEN [old EXCEPT !.status = j.row.status, !.autoRenewal = j.row.autoRenewal,
                   !.linked = j.row.linked]
  ELSE j.row

AfterWrite(kind) ==
  CASE kind \in {"SaleCompleted", "SaleFailed", "InvoiceFailed"} -> "record"
    [] kind \in {"InvoicePaid", "Cancelled", "Deleted"} -> "tell"
    [] OTHER -> "done"

WriteRow(h) ==
  LET j == job[h] IN
  /\ j.pc = "write"
  /\ row' = [row EXCEPT ![j.ev.sub] = Written(row[j.ev.sub], j)]
  /\ Advance(h, AfterWrite(j.ev.kind))
  /\ UNCHANGED <<remote, cron, txns, charged, told, now, moves, clash>>

\* saveTransaction; a failed payment's row is not among the charges.
RecordTransaction(h) ==
  LET e == job[h].ev IN
  /\ job[h].pc = "record"
  /\ txns' = IF e.kind \in {"SaleCompleted", "InvoicePaid"}
             THEN [txns EXCEPT ![e.sub] = @ \cup {e.at}] ELSE txns
  /\ Advance(h, IF e.kind = "InvoicePaid" THEN "done" ELSE "tell")
  /\ UNCHANGED <<row, remote, cron, charged, told, now, moves, clash>>

\* sendSubscriptionInfo to the gateway, without waiting for an answer.  An
\* invoice is recorded after it, unless its amount is zero.
TellGateway(h) ==
  LET e == job[h].ev IN
  /\ job[h].pc = "tell"
  /\ told' = [told EXCEPT ![Owner[e.sub]] = job[h].row.end]
  /\ Advance(h, IF e.kind = "InvoicePaid" /\ e.amount > 0 THEN "record" ELSE "done")
  /\ UNCHANGED <<row, remote, cron, txns, charged, now, moves, clash>>

HandlerStep(h) ==
  \/ FindRival(h) \/ RevokeRival(h) \/ RetireRival(h)
  \/ WriteRow(h) \/ RecordTransaction(h) \/ TellGateway(h)

\* Any await may reject: the database, the provider, the login before a call.
Fail(h) ==
  /\ Busy(h) /\ faults < MaxFaults
  /\ faults' = faults + 1
  /\ Abort(h)
  /\ UNCHANGED <<row, remote, cron, txns, charged, told, now, moves, clash>>

\* The process restarts: no handler answered, so every event comes again.
Crash ==
  /\ faults < MaxFaults
  /\ (\E h \in Slots : Busy(h)) \/ cron.pc # "idle"
  /\ faults' = faults + 1
  /\ job' = [h \in Slots |-> IdleJob]
  /\ cron' = IdleCron
  /\ UNCHANGED <<row, remote, hooks, txns, charged, told, now, moves, clash>>
=============================================================================
