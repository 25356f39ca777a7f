---------------------------- MODULE IdentityState ----------------------------
(***************************************************************************)
(* State and steps shared by the gateway's handlers about identity:        *)
(* registration, signing in, sessions, password reset, moderation.         *)
(***************************************************************************)
EXTENDS UserTables, Handlers

CONSTANTS
  MaxUsers, MaxDevices,   \* bounds on the rows ever created
  Scenes                  \* what a behaviour is about, see Init

VARIABLES
  tables,    \* the rows, see UserTables
  issued,    \* refresh tokens given out: of which session, at which second
  lapsed,    \* codes whose time is over
  now,
  scene      \* what this behaviour is about, and its bounds

vars == <<tables, issued, lapsed, now, scene, job, moves, faults, oops>>

Ops == {"registration", "confirm", "resend", "google", "github", "login", "renew",
        "logout", "terminate", "terminateOthers", "restore", "restoreConfirm",
        "ban", "unban", "deleteUser"}

\* The operations requested, whether somebody is a member already, and the
\* bounds: on requests, failures, seconds, and whether codes lapse.
ASSUME ScenesAssumption ==
  Scenes \subseteq [ops : SUBSET Ops, member : BOOLEAN, moves : Nat, faults : Nat,
                    time : Nat, lapse : BOOLEAN]
ASSUME IdentityBounds == {MaxUsers, MaxDevices} \subseteq Nat \ {0}
\* Nobody has chosen a name with the 8 random digits of another's.
ASSUME DigitsAssumption ==
  \A e \in Emails, i \in 1..MaxUsers :
    BaseOf[e] \notin LongBases => generateUniqUserName(e, i) \notin Names

NoTables == [user |-> <<>>, device |-> <<>>, codes |-> 0]

\* A behaviour begins with no user, or with one who has registered,
\* confirmed and logged in.
WithMember ==
  \E e \in Emails, n \in Names, p \in Passwords :
    /\ tables = [user |-> <<UserRow(e, n, p, TRUE, "alone")>>,
                 device |-> <<[live |-> TRUE, user |-> 1, iat |-> 0, pw |-> p, alone |-> TRUE,
                              renewedAlone |-> TRUE]>>,
                 codes |-> 1]
    /\ issued = {[device |-> 1, user |-> 1, iat |-> 0]}

Init ==
  /\ scene \in Scenes
  /\ IF scene.member THEN WithMember ELSE tables = NoTables /\ issued = {}
  /\ lapsed = {} /\ now = 0
  /\ HandlersInit(scene.moves, scene.faults)

TypeOK ==
  /\ tables.user \in Seq(UserRows(MaxUsers) \cup {Gone}) /\ Len(tables.user) <= MaxUsers
  /\ tables.device \in Seq(DeviceRows \cup {Gone}) /\ Len(tables.device) <= MaxDevices
  /\ tables.codes \in Nat /\ lapsed \subseteq 1..tables.codes
  /\ issued \subseteq [device : 1..MaxDevices, user : 1..MaxUsers, iat : 0..now]
  /\ now \in 0..scene.time
  /\ HandlersTypeOK(Ops)

\* A request of the scene.
Ask(h, op, arg, pc, todo) ==
  /\ op \in scene.ops
  /\ Start(h, Request(op, arg, pc, todo))
  /\ UNCHANGED <<tables, issued, lapsed, now, scene>>

Got(h, name) == job[h].got[name]
Arg(h) == job[h].arg

\* A read: one of the values it may return.
Read(h, name, values, pc) ==
  /\ \E v \in values : Learn(h, name, v, pc)
  /\ UNCHANGED <<tables, issued, lapsed, now, scene>>

\* A result, as the endpoint answers it.
Answer(h, endpoint, result) ==
  /\ Reply(h, Switch(endpoint, result))
  /\ UNCHANGED <<tables, issued, lapsed, now, scene>>

\* The last write of a handler: its tables, or 500 and none of it.
Commit(h, new, endpoint) ==
  /\ tables' = IF new = Thrown THEN tables ELSE new
  /\ Reply(h, Switch(endpoint, IF new = Thrown THEN "Internal" ELSE "Success"))
  /\ UNCHANGED <<issued, lapsed, now, scene>>

\* The same when it opens session k or renews it, at second iat.
CommitSession(h, new, k, iat, endpoint) ==
  /\ tables' = IF new = Thrown THEN tables ELSE new
  /\ issued' = IF new = Thrown THEN issued
               ELSE issued \cup {[device |-> k, user |-> new.device[k].user, iat |-> iat]}
  /\ Reply(h, Switch(endpoint, IF new = Thrown THEN "Internal" ELSE "Success"))
  /\ UNCHANGED <<lapsed, now, scene>>

\* What a handler keeps of the User row it read.
Nobody == [id |-> 0]
UserRead(ids) == {IF i = 0 THEN Nobody ELSE [id |-> i, row |-> tables.user[i]] : i \in ids}
Exists(u) == u # Nobody

\* Time passes, and codes with it.
Tick ==
  /\ now < scene.time /\ now' = now + 1
  /\ UNCHANGED <<tables, issued, lapsed, scene, handlerVars>>

Lapse(c) ==
  /\ scene.lapse /\ lapsed' = lapsed \cup {c}
  /\ UNCHANGED <<tables, issued, now, scene, handlerVars>>
==============================================================================
