------------------------------- MODULE Handlers -------------------------------
(***************************************************************************)
(* Requests being handled by one Node process: a handler runs from await   *)
(* to await, others run in between.  A request is a record                 *)
(*   op     which operation it asks for                                    *)
(*   arg    its input                                                      *)
(*   pc     the await it stands at                                         *)
(*   todo   the parts of a Promise.all that have not answered yet: reads   *)
(*          by name, or numbered calls of another service                  *)
(*   got    what its reads returned, by the name of the read               *)
(*   alone  history: no other handler has run since it began               *)
(***************************************************************************)
EXTENDS Naturals, Sequences, TLC, Endpoints

CONSTANT Slots    \* requests that may be in flight together

VARIABLES job,
  moves,      \* how many requests may still come: a bound
  faults,     \* how many awaits may still fail: a bound
  oops        \* history: operations that answered 500 although alone

handlerVars == <<job, moves, faults, oops>>

Idle == [op |-> "none"]
Request(op, arg, pc, todo) ==
  [op |-> op, arg |-> arg, pc |-> pc, todo |-> todo, got |-> <<>>, alone |-> TRUE]

HandlersInit(maxMoves, maxFaults) ==
  /\ job = [h \in Slots |-> Idle]
  /\ moves = maxMoves /\ faults = maxFaults /\ oops = {}

HandlersTypeOK(Ops) ==
  /\ DOMAIN job = Slots
  /\ \A h \in Slots : job[h] # Idle =>
       /\ DOMAIN job[h] = {"op", "arg", "pc", "todo", "got", "alone"}
       /\ job[h].op \in Ops
       /\ job[h].alone \in BOOLEAN
  /\ moves \in Nat /\ faults \in Nat /\ oops \subseteq Ops

Busy(h) == job[h] # Idle
At(h, ops, pc) == Busy(h) /\ job[h].op \in ops /\ job[h].pc = pc

\* A request arrives; it overlaps those under way.
Start(h, request) ==
  /\ ~Busy(h)
  /\ moves > 0 /\ moves' = moves - 1
  /\ job' = [g \in Slots |->
       IF g = h THEN [request EXCEPT !.alone = @ /\ \A f \in Slots : ~Busy(f)]
       ELSE IF Busy(g) THEN [job[g] EXCEPT !.alone = FALSE] ELSE Idle]
  /\ UNCHANGED <<faults, oops>>

With(got, name, value) ==
  [n \in DOMAIN got \cup {name} |-> IF n = name THEN value ELSE got[n]]

\* The handler goes on to its next await, knowing one thing more.
Learn(h, name, value, pc) ==
  /\ job' = [job EXCEPT ![h].got = With(@, name, value), ![h].todo = @ \ {name},
                        ![h].pc = IF job[h].todo \ {name} = {} THEN pc ELSE @]
  /\ UNCHANGED <<moves, faults, oops>>

\* It knows one thing more and waits for the calls in todo.
Expect(h, name, value, todo) ==
  /\ job' = [job EXCEPT ![h].got = With(@, name, value), ![h].todo = todo, ![h].pc = "calls"]
  /\ UNCHANGED <<moves, faults, oops>>

\* One of the calls has returned.
Returned(h, call, pc) ==
  /\ job' = [job EXCEPT ![h].todo = @ \ {call},
                        ![h].pc = IF job[h].todo = {call} THEN pc ELSE @]
  /\ UNCHANGED <<moves, faults, oops>>

Goto(h, pc) ==
  /\ job' = [job EXCEPT ![h].pc = pc]
  /\ UNCHANGED <<moves, faults, oops>>

Reply(h, answer) ==
  /\ job' = [job EXCEPT ![h] = Idle]
  /\ oops' = IF answer = "Internal" /\ job[h].alone THEN oops \cup {job[h].op} ELSE oops
  /\ UNCHANGED <<moves, faults>>

\* It ends with 500 because of a failure elsewhere.
Abandon(h) ==
  /\ job' = [job EXCEPT ![h] = Idle]
  /\ UNCHANGED <<moves, faults, oops>>

\* An await of the handler fails: 500, and nothing more is done.
Fail(h) ==
  /\ Busy(h) /\ faults > 0
  /\ faults' = faults - 1
  /\ job' = [job EXCEPT ![h] = Idle]
  /\ UNCHANGED <<moves, oops>>

\* The process stops and is started again: what it was handling is lost.
Restart ==
  /\ faults > 0 /\ \E h \in Slots : Busy(h)
  /\ faults' = faults - 1
  /\ job' = [h \in Slots |-> Idle]
  /\ UNCHANGED <<moves, oops>>
===============================================================================
