------------------------------- MODULE MCChats -------------------------------
(* Values for the constants of Chats. *)
EXTENDS Chats

CONSTANTS u1, u2, u3, h1, h2, s1, s2

Text == {"text"}
File == {"file"}

Scene(ops, kinds, m, f, wires, bans) ==
  [ops |-> ops, kinds |-> kinds, lists |-> {}, people |-> {u1, u2}, past |-> 0,
   moves |-> m, faults |-> f, wires |-> wires, bans |-> bans]

\* A list is read while messages are sent or removed.
ListScene(op, lists, size, people, past, m) ==
  [ops |-> {op}, kinds |-> Text, lists |-> lists \X {size}, people |-> people, past |-> past, moves |-> m,
   faults |-> 0, wires |-> 0, bans |-> FALSE]

\* What is requested together, and how much of it.
MCScenes ==
  { Scene({"send"}, Kinds, 2, 0, 0, FALSE),
    Scene({"send"}, Text, 2, 1, 0, FALSE),
    Scene({"send", "remove"}, File, 2, 1, 0, FALSE),
    Scene({"send", "read", "remove"}, Text, 3, 0, 0, FALSE),
    Scene({"send", "join", "leave"}, Text, 2, 0, 1, FALSE),
    Scene({"send"}, Text, 2, 0, 1, TRUE),
    Scene({"send"}, Kinds, 1, 1, 2, FALSE),
    Scene({"notice", "notices"}, {}, 2, 1, 1, FALSE),
    Scene({"notice", "mark"}, {}, 3, 0, 0, FALSE),
    ListScene("send", {"chats"}, 2, Users, 2, 3),
    ListScene("remove", {"chats"}, 1, Users, 3, 3),
    ListScene("remove", {"messages"}, 1, {u1, u2}, 2, 4) }

MCSymmetry == Permutations(Slots) \cup Permutations(Users) \cup Permutations(Wires)
==============================================================================
