--------------------------- MODULE StripeWebhooks ---------------------------
(***************************************************************************)
(* The Stripe webhook handlers.  A session and an invoice carry the row's  *)
(* own id; a deleted subscription is looked up by Stripe's id, which the   *)
(* row has only once a checkout was written to it.                         *)
(***************************************************************************)
EXTENDS PaymentsState

StripeEvent(e, kind) == e \in hooks /\ e.kind = kind /\ row[e.sub].status # "None"

\* Mutant: the session's subscription id is not stored.
CheckoutUnlinked(h, e) ==
  /\ StripeEvent(e, "Checkout")
  /\ Start(h, e, "find", [row[e.sub] EXCEPT !.status = "Active"])

\* Only status, Stripe's ids and the autoRenewal that was read are written.
CheckoutCompleted(h, e) ==
  /\ StripeEvent(e, "Checkout")
  /\ Start(h, e, "find", [row[e.sub] EXCEPT !.status = "Active", !.linked = TRUE])

\* The invoiced period is put on the row; its status is not looked at.  A free
\* trial, which takes over from an earlier subscription, is at most a period.
InvoicePaid(h, e) ==
  /\ StripeEvent(e, "InvoicePaid")
  /\ \E end \in (e.at + 1)..(e.at + Period) :
       /\ e.amount > 0 => end = e.at + Period
       /\ Start(h, e, "write", [row[e.sub] EXCEPT !.end = end])

\* Mutant: the row waits for its payment again.
InvoiceAwaited(h, e) ==
  /\ StripeEvent(e, "InvoiceFailed")
  /\ Start(h, e, "write", [row[e.sub] EXCEPT !.status = "Pending"])

\* period_end of the unpaid invoice itself: where its period ends is Stripe's.
InvoiceFailed(h, e) ==
  /\ StripeEvent(e, "InvoiceFailed")
  /\ \E end \in {e.at, e.at + Period} :
       Start(h, e, "write", [row[e.sub] EXCEPT !.end = end])

SubscriptionDeleted(h, e) ==
  LET r == row[e.sub]
      found == r.linked /\ r.status # "Canceled"
  IN
  /\ StripeEvent(e, "Deleted")
  /\ \/ ~found /\ Ignore(h, e)
     \/ found /\ Start(h, e, "write", cancelSubscription(r))

StripeHandle(h, e) ==
  \/ CheckoutCompleted(h, e) \/ InvoicePaid(h, e) \/ InvoiceFailed(h, e)
  \/ SubscriptionDeleted(h, e)

StripeWebhook(h) == \E e \in hooks : StripeHandle(h, e)
=============================================================================
