------------------------------ MODULE MCAccount ------------------------------
(* Values for the constants of Account. *)
EXTENDS Account

CONSTANTS u1, u2, n1, n2, n3, h1, h2

RegisteredNames == [u \in Users |-> IF u = u1 THEN n1 ELSE n2]
=============================================================================
