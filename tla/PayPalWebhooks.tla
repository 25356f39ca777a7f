--------------------------- MODULE PayPalWebhooks ---------------------------
(***************************************************************************)
(* The PayPal webhook handlers: each reads the row by PayPal's id, decides *)
(* whether there is anything to do and what the row becomes in memory.     *)
(* The rest of each handler is the common steps of PaymentsState.          *)
(***************************************************************************)
EXTENDS PaymentsState

\* e is a PayPal event of this kind whose row is found.
PayPalEvent(e, kind) == e \in hooks /\ e.kind = kind /\ row[e.sub].status # "None"

\* Mutants: the period is put after the one the row has, or begins tomorrow;
\* no rival is looked for.
PaymentProlongs(h, e) ==
  /\ PayPalEvent(e, "SaleCompleted")
  /\ Start(h, e, "find", update(row[e.sub], "Active", row[e.sub].end + Period))

PaymentFromTomorrow(h, e) ==
  /\ PayPalEvent(e, "SaleCompleted")
  /\ Start(h, e, "find", update(row[e.sub], "Active", now + 1 + Period))

PaymentWithoutRival(h, e) ==
  /\ PayPalEvent(e, "SaleCompleted")
  /\ Start(h, e, "write", update(row[e.sub], "Active", now + Period))

\* Whatever the row's status: also a Canceled row becomes Active again.
PaymentSucceeded(h, e) ==
  /\ PayPalEvent(e, "SaleCompleted")
  /\ Start(h, e, "find", update(row[e.sub], "Active", now + Period))

\* Mutants: PayPal's own word for the sale as status; Pending until it is retried.
PaymentFailedState(h, e) ==
  /\ PayPalEvent(e, "SaleFailed")
  /\ Start(h, e, "write", update(row[e.sub], "Denied", row[e.sub].end))

PaymentRetried(h, e) ==
  /\ PayPalEvent(e, "SaleFailed")
  /\ Start(h, e, "write", update(row[e.sub], "Pending", row[e.sub].end))

\* autoRenewal is left to its default, true.
PaymentFailed(h, e) ==
  /\ PayPalEvent(e, "SaleFailed")
  /\ Start(h, e, "write", update(row[e.sub], "Canceled", row[e.sub].end))

\* Mutant: whatever is not active is activated.
ActiveWhatever(h, e) ==
  LET r == row[e.sub] IN
  /\ PayPalEvent(e, "Activated")
  /\ \/ r.status = "Active" /\ Ignore(h, e)
     \/ r.status # "Active" /\ Start(h, e, "find", activateSubscription(r, 0))

\* A pending row retires a rival first; a suspended one does not.
SubscriptionActive(h, e) ==
  LET r == row[e.sub] IN
  /\ PayPalEvent(e, "Activated")
  /\ \/ r.status = "Pending" /\ Start(h, e, "find", activateSubscription(r, 0))
     \/ r.status = "Suspended" /\ Start(h, e, "write", activateSubscription(r, 0))
     \/ r.status \notin {"Pending", "Suspended"} /\ Ignore(h, e)

\* Any row but one already suspended, a Canceled one included.
SubscriptionSuspended(h, e) ==
  LET r == row[e.sub]
      done == r.status = "Suspended" /\ ~r.autoRenewal
  IN
  /\ PayPalEvent(e, "Suspended")
  /\ \/ done /\ Ignore(h, e)
     \/ ~done /\ Start(h, e, "write", suspendSubscription(r))

SubscriptionCancelled(h, e) ==
  LET r == row[e.sub] IN
  /\ PayPalEvent(e, "Cancelled")
  /\ \/ r.status = "Canceled" /\ Ignore(h, e)
     \/ r.status # "Canceled" /\ Start(h, e, "write", cancelSubscription(r))

PayPalHandle(h, e) ==
  \/ PaymentSucceeded(h, e) \/ PaymentFailed(h, e) \/ SubscriptionActive(h, e)
  \/ SubscriptionSuspended(h, e) \/ SubscriptionCancelled(h, e)

PayPalWebhook(h) == \E e \in hooks : PayPalHandle(h, e)
=============================================================================
