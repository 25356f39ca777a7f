---------------------------- MODULE Subscription ----------------------------
(***************************************************************************)
(* One row of the payments service's Subscription table and the pure       *)
(* operations SubscriptionEntity performs on it in memory.                 *)
(*                                                                         *)
(* A row keeps the columns the handlers decide on: the status, autoRenewal *)
(* and endDateOfSubscription (an instant; 0 is the SQL NULL), and whether  *)
(* paymentSystemSubId is set; and the username, which every whole row      *)
(* written carries back.  updatedAt, dateOfPayment and the customer id are *)
(* written together with these and read by no guard.                       *)
(***************************************************************************)
EXTENDS Naturals

CONSTANTS
  Names,   \* user names
  NoName   \* the username of a row that is not inserted yet

SubscriptionStatuses == {"Pending", "Active", "Suspended", "Canceled"}

\* "None": the row has not been inserted yet.
Row == [status : SubscriptionStatuses \cup {"None"}, autoRenewal : BOOLEAN,
        end : Nat, linked : BOOLEAN, name : Names \cup {NoName}]

NoRow == [status |-> "None", autoRenewal |-> FALSE, end |-> 0, linked |-> FALSE,
          name |-> NoName]

\* Mutant: the provider's id is left to a later update for PayPal too.
createUnlinked(system, name) ==
  [status |-> "Pending", autoRenewal |-> TRUE, end |-> 0, linked |-> FALSE, name |-> name]

\* PayPal rows are inserted with the provider's id, Stripe rows learn it later.
create(system, name) ==
  [status |-> "Pending", autoRenewal |-> TRUE, end |-> 0,
   linked |-> system = "PayPal", name |-> name]

\* Mutant: a null date is written like any other.
TakeNull(new, old) == new

\* "if (date) ...": a null date leaves the column alone.
KeepIfNull(new, old) == IF new = 0 THEN old ELSE new

\* Mutant: the update DTO's username is written too, which no webhook has.
updateNamed(r, status, end) ==
  [r EXCEPT !.status = status, !.autoRenewal = TRUE, !.end = KeepIfNull(end, r.end),
            !.name = NoName]

\* The autoRenewal of the update DTO defaults to true, whatever the status.
update(r, status, end) ==
  [r EXCEPT !.status = status, !.autoRenewal = TRUE,
            !.end = KeepIfNull(end, r.end)]

activateSubscription(r, end) ==
  [r EXCEPT !.status = "Active", !.autoRenewal = TRUE,
            !.end = KeepIfNull(end, r.end)]

suspendSubscription(r) == [r EXCEPT !.status = "Suspended", !.autoRenewal = FALSE]

disableAutoRenewal(r) == [r EXCEPT !.autoRenewal = FALSE]

enableAutoRenewal(r) == [r EXCEPT !.autoRenewal = TRUE]

cancelSubscription(r) == [r EXCEPT !.status = "Canceled", !.autoRenewal = FALSE]

\* What the repository's "active subscription" queries select by status.
Live(r) == r.status \in {"Active", "Suspended"}
=============================================================================
