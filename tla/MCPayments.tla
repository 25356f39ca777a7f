------------------------------ MODULE MCPayments ------------------------------
(* Values for the constants of Payments. *)
EXTENDS Payments, TLC

CONSTANTS u1, u2, s1, s2, h1, h2

OneUser == [s \in Subs |-> u1]
TwoUsers == [s \in Subs |-> IF s = s1 THEN u1 ELSE u2]
AllPayPal == [s \in Subs |-> "PayPal"]
AllStripe == [s \in Subs |-> "Stripe"]
Mixed == [s \in Subs |-> IF s = s1 THEN "PayPal" ELSE "Stripe"]

SlotSymmetry == Permutations(Slots)

\* Also between the rows, where the two have one owner and one provider.
FullSymmetry == Permutations(Slots) \cup Permutations(Subs)

\* And between the names.
NameSymmetry == FullSymmetry \cup Permutations(Names)

\* Each user with his row.
PairSymmetry == {s1 :> s2 @@ s2 :> s1 @@ u1 :> u2 @@ u2 :> u1}

\* Bounds of the larger runs: few webhooks are under way at a time, and, where
\* only the midnight job matters, no PayPal payment is declined.
FewWebhooks == Cardinality(hooks) <= 2
NoDeclines == \A e \in hooks : e.kind # "SaleFailed"
=============================================================================
