--------------------------- MODULE PaymentProvider ---------------------------
(***************************************************************************)
(* PayPal and Stripe as the service meets them: what they do on their own  *)
(* and which of the handled webhook events they send.  External: inferred  *)
(* from the events the service subscribes to and the calls it makes.       *)
(***************************************************************************)
EXTENDS PaymentsState

Send(kind, s) == hooks' = hooks \cup {EventOf(kind, s)}

\* The user approves.  The link was handed out, so both halves exist.
Approve(s) ==
  /\ remote[s] = "pending" /\ row[s].status # "None"
  /\ remote' = [remote EXCEPT ![s] = "active"]
  /\ Send(IF System[s] = "PayPal" THEN "Activated" ELSE "Checkout", s)
  /\ UNCHANGED <<row, job, cron, txns, charged, told, now, faults, moves, clash>>

\* A period is charged; Stripe also invoices a free trial, with amount zero.
Charge(s) ==
  /\ Move
  /\ remote[s] = "active" /\ now \notin charged[s]
  /\ \E amount \in IF System[s] = "PayPal" THEN {1} ELSE {0, 1} :
       /\ hooks' = hooks \cup {[kind |-> IF System[s] = "PayPal" THEN "SaleCompleted"
                                                                 ELSE "InvoicePaid",
                                sub |-> s, at |-> now, amount |-> amount]}
       /\ charged' = IF amount = 0 THEN charged ELSE [charged EXCEPT ![s] = @ \cup {now}]
  /\ UNCHANGED <<row, remote, job, cron, txns, told, now, faults, clash>>

Decline(s) ==
  /\ Move
  /\ remote[s] = "active" /\ now \notin charged[s]
  /\ hooks' = hooks \cup {[kind |-> IF System[s] = "PayPal" THEN "SaleFailed"
                                                            ELSE "InvoiceFailed",
                           sub |-> s, at |-> now, amount |-> 1]}
  /\ UNCHANGED <<row, remote, job, cron, txns, charged, told, now, faults, clash>>

\* PayPal suspends by itself, or the user does it on PayPal's own pages.
ProviderSuspend(s) ==
  /\ Move
  /\ System[s] = "PayPal" /\ remote[s] = "active"
  /\ remote' = [remote EXCEPT ![s] = "suspended"]
  /\ Send("Suspended", s)
  /\ UNCHANGED <<row, job, cron, txns, charged, told, now, faults, clash>>

\* So for a cancellation; Stripe ends what was not to be renewed.
ProviderCancel(s) ==
  /\ Move
  /\ CancelRemote(s)
  /\ UNCHANGED <<row, job, cron, txns, charged, told, now, faults, clash>>

Provider ==
  \E s \in Subs :
    \/ Approve(s) \/ Charge(s) \/ Decline(s) \/ ProviderSuspend(s) \/ ProviderCancel(s)
=============================================================================
