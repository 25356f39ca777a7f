------------------------------ MODULE EndDates ------------------------------
(***************************************************************************)
(* What the gateway may rely on about the end dates it hears from the      *)
(* payments service: each is at most one paid period ahead of the clock    *)
(* when it is told, and the clock only goes on.  0 is the null date of a   *)
(* row that was never paid.  Payments implements this, Account assumes it. *)
(***************************************************************************)
EXTENDS Naturals

CONSTANTS
  Users,   \* users of the application
  Period   \* length of a paid period

VARIABLES
  told,    \* told[u]: the end date last told about u
  now      \* the clock

Init == told = [u \in Users |-> 0] /\ now = 1

\* One message may tell about several users.
Tell == told' \in [Users -> 0 .. (now + Period)] /\ now' = now

Tick == now' = now + 1 /\ told' = told

Next == Tell \/ Tick

Spec == Init /\ [][Next]_<<told, now>>
=============================================================================
