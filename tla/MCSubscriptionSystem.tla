------------------------- MODULE MCSubscriptionSystem -------------------------
(* Values for the constants of SubscriptionSystem: one name for each user. *)
EXTENDS SubscriptionSystem, TLC

CONSTANTS u1, s1, s2, n1, h1, h2

OneUser == [s \in Subs |-> u1]
AllPayPal == [s \in Subs |-> "PayPal"]
OneName == [u \in Users |-> n1]

RowSymmetry == Permutations(Subs)

\* A bound of the run: where something fails, one row is used.
OneRowWhereFaults == faults > 0 => \E s \in Subs : row[s] = NoRow /\ remote[s] = "none"
===============================================================================
