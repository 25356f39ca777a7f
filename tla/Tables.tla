------------------------------- MODULE Tables -------------------------------
(***************************************************************************)
(* Tables as sequences of rows: an id is a position, never used again.     *)
(***************************************************************************)
EXTENDS Naturals, Sequences

Gone == [live |-> FALSE]
Thrown == [thrown |-> TRUE]

LiveRows(table) == {i \in DOMAIN table : table[i].live}
IsRow(table, i) == i \in LiveRows(table)

\* findFirst: any of the matching rows, 0 (null) when there is none.
FindFirst(matching) == IF matching = {} THEN {0} ELSE matching

\* A statement on tables d that needs ok and leaves new; one that finds no
\* row to change, or breaks a unique or foreign key, throws, and so does the
\* transaction it is part of.
Statement(d, ok, new) == IF d = Thrown THEN Thrown ELSE IF ok THEN new ELSE Thrown

\* The rows that hang on deleted ones go with them.
DeleteRows(table, gone) == [i \in DOMAIN table |-> IF i \in gone THEN Gone ELSE table[i]]
=============================================================================
