------------------------------- MODULE Account -------------------------------
(***************************************************************************)
(* The gateway's account of a user: the type and end date it derives from  *)
(* the end dates payments emits, and the profile the user fills in.        *)
(*                                                                         *)
(* RabbitMQ hands messages over in the order sent and without waiting for  *)
(* the handler of the one before, so handlers overlap at their awaits: an  *)
(* end date is handled as read, save, mail; a profile as read, check,      *)
(* save, rename.  Messages are acknowledged on arrival: a restart forgets  *)
(* those being handled and keeps those still queued.                       *)
(***************************************************************************)
EXTENDS Naturals, Sequences

CONSTANTS
  Users,      \* users of the application
  Names,      \* user names
  FirstName,  \* FirstName[u]: the name u registered with
  Slots,      \* handlers that may be in flight together
  Period,     \* length of a paid period
  MaxTime,    \* bound on the clock
  MaxFaults,  \* bound on failed awaits and restarts
  MaxMoves    \* bound on messages of payments and requests of users

ASSUME FirstNameAssumption ==
  /\ FirstName \in [Users -> Names]
  /\ \A u, v \in Users : u # v => FirstName[u] # FirstName[v]
ASSUME PeriodAssumption == Period \in Nat \ {0}
ASSUME BoundsAssumption == {MaxTime, MaxFaults, MaxMoves} \subseteq Nat

VARIABLES
  acct,     \* acct[u]: name, accountType and subscriptionExpireAt of the User row
  queue,    \* messages of payments not yet taken, oldest first
  job,      \* job[h]: the handler running in slot h
  nameTold, \* nameTold[u]: the user name last sent to payments about u
  told,     \* told[u]: the end date payments last emitted about u
  now, faults, moves,
  past      \* history, see Past

vars == <<acct, queue, job, nameTold, told, now, faults, moves, past>>

EndDatesPromise == INSTANCE EndDates

\* A message: end dates, those of some users.
Messages == [users : SUBSET Users, ends : [Users -> Nat]]

Accounts == [name : Names, type : {"Personal", "Business"}, end : Nat]

IdleJob == [pc |-> "idle"]
InfoJobs == [kind : {"info"}, pc : {"read", "save", "mail"}, users : SUBSET Users,
             ends : [Users -> Nat], copy : [Users -> Accounts]]
ProfileJobs == [kind : {"profile"}, pc : {"check", "save", "rename"}, user : Users,
                copy : Accounts]

\* What went on so far that an exception below is about.
Past == [clash : SUBSET Users,   \* users two of whose handlers ever overlapped
         twice : SUBSET Users,   \* users who saved two profiles at one time
         missed : SUBSET Users,  \* users an end date of whom was taken and lost
         half : SUBSET Users,    \* users with a profile saved and not passed on
         over : SUBSET Users,    \* users whose last date told was past when it was told
         raced : SUBSET Names]   \* names asked for by two users at one time

TypeOK ==
  /\ acct \in [Users -> Accounts]
  /\ queue \in Seq(Messages)
  /\ job \in [Slots -> {IdleJob} \cup InfoJobs \cup ProfileJobs]
  /\ nameTold \in [Users -> Names]
  /\ told \in [Users -> Nat]
  /\ now \in Nat /\ faults \in Nat /\ moves \in Nat
  /\ past \in Past

Init ==
  /\ acct = [u \in Users |-> [name |-> FirstName[u], type |-> "Personal", end |-> 0]]
  /\ queue = <<>>
  /\ job = [h \in Slots |-> IdleJob]
  /\ nameTold = FirstName
  /\ EndDatesPromise!Init
  /\ faults = 0 /\ moves = 0
  /\ past = [clash |-> {}, twice |-> {}, missed |-> {}, half |-> {}, over |-> Users,
              raced |-> {}]

Busy(h) == job[h].pc # "idle"
IsInfo(h) == Busy(h) /\ job[h].kind = "info"
IsProfile(h) == Busy(h) /\ job[h].kind = "profile"

\* Users whose row the handler in h will write.
About(h) == IF ~Busy(h) THEN {} ELSE IF IsInfo(h) THEN job[h].users ELSE {job[h].user}

\* A handler about the users U begins; it overlaps those under way.
Begin(h, U, j) ==
  /\ ~Busy(h)
  /\ job' = [job EXCEPT ![h] = j]
  /\ past' = [past EXCEPT
       !.clash = @ \cup {u \in U : \E g \in Slots : u \in About(g)},
       !.twice = IF j.kind = "info" THEN @
                 ELSE @ \cup {u \in U : \E g \in Slots : IsProfile(g) /\ u \in About(g)},
       !.raced = IF j.kind = "info" THEN @
                 ELSE @ \cup {j.copy.name : g \in {f \in Slots : IsProfile(f)
                        /\ job[f].user # j.user /\ job[f].copy.name = j.copy.name}}]

(***************************************************************************)
(* End dates: UpdateSubscriptionInfoUseCase, UpdateSubscriptionsInfoUseCase.*)
(***************************************************************************)

\* payments emits one message; the gateway need not be up.
SendSubscriptionInfo(U, ends) ==
  /\ told' = [u \in Users |-> IF u \in U THEN ends[u] ELSE told[u]]
  /\ queue' = Append(queue, [users |-> U, ends |-> ends])
  /\ past' = [past EXCEPT !.over = (@ \ U) \cup {u \in U : ends[u] <= now}]

\* The oldest message is taken, and with it forgotten by the queue.
TakeMessage(h) ==
  /\ queue # <<>>
  /\ queue' = Tail(queue)
  /\ Begin(h, Head(queue).users,
           [kind |-> "info", pc |-> "read", users |-> Head(queue).users,
            ends |-> Head(queue).ends, copy |-> acct])
  /\ UNCHANGED <<acct, nameTold, told, now, faults, moves>>

\* Mutant: the type is left as it is when the end date has passed.
KeepTypeAfterEnd(a, end, date) ==
  IF end > date THEN [a EXCEPT !.type = "Business", !.end = end] ELSE [a EXCEPT !.end = 0]

\* Mutant: the time left is kept in the place of the date.
TimeLeft(a, end, date) ==
  [a EXCEPT !.type = IF end > date THEN "Business" ELSE "Personal", !.end = end - date]

changeUserSubscription(a, end, date) ==
  IF end > date THEN [a EXCEPT !.type = "Business", !.end = end]
  ELSE [a EXCEPT !.type = "Personal", !.end = 0]

\* getUsersByIds, and what the message makes of them at this moment.
ReadUsers(h) ==
  /\ IsInfo(h) /\ job[h].pc = "read"
  /\ job' = [job EXCEPT ![h].pc = "save",
       ![h].copy = [u \in Users |-> IF u \in job[h].users
                      THEN changeUserSubscription(acct[u], job[h].ends[u], now)
                      ELSE acct[u]]]
  /\ UNCHANGED <<acct, queue, nameTold, told, now, faults, moves, past>>

\* Mutant: the whole user is written, his name as it was read included.
WholeUser(old, new) == new

\* updateAccountType: two columns.
TwoColumns(old, new) == [old EXCEPT !.type = new.type, !.end = new.end]

\* All users of a message in one transaction.
UpdateAccountType(h) ==
  /\ IsInfo(h) /\ job[h].pc = "save"
  /\ acct' = [u \in Users |-> IF u \in job[h].users
                THEN TwoColumns(acct[u], job[h].copy[u]) ELSE acct[u]]
  /\ job' = [job EXCEPT ![h].pc = "mail"]
  /\ UNCHANGED <<queue, nameTold, told, now, faults, moves, past>>

\* handleEvents: each is e-mailed the type he was given; that changes no state.
HandleEvents(h) ==
  /\ IsInfo(h) /\ job[h].pc = "mail"
  /\ job' = [job EXCEPT ![h] = IdleJob]
  /\ UNCHANGED <<acct, queue, nameTold, told, now, faults, moves, past>>

(***************************************************************************)
(* FillingUserProfileUseCase.                                              *)
(***************************************************************************)

\* The user is read and will be written back whole, with the name he asks for.
FillProfile(h, u, name) ==
  /\ moves < MaxMoves /\ moves' = moves + 1
  /\ Begin(h, {u}, [kind |-> "profile", pc |-> "check", user |-> u,
                    copy |-> [acct[u] EXCEPT !.name = name]])
  /\ UNCHANGED <<acct, queue, nameTold, told, now, faults>>

\* getUserByUsername is a findFirst: any user of that name.
getUserByUsername(name) == {u \in Users : acct[u].name = name}

\* Mutant: nobody else is looked for.
PassName(h) ==
  /\ IsProfile(h) /\ job[h].pc = "check"
  /\ job' = [job EXCEPT ![h].pc = "save"]
  /\ UNCHANGED <<acct, queue, nameTold, told, now, faults, moves, past>>

\* The name may be one's own; another's is answered with a bad request.
CheckName(h) ==
  LET holders == getUserByUsername(job[h].copy.name) IN
  /\ IsProfile(h) /\ job[h].pc = "check"
  /\ \/ /\ holders = {} \/ job[h].user \in holders
        /\ job' = [job EXCEPT ![h].pc = "save"]
     \/ /\ holders \ {job[h].user} # {}
        /\ job' = [job EXCEPT ![h] = IdleJob]
  /\ UNCHANGED <<acct, queue, nameTold, told, now, faults, moves, past>>

\* updateUserProfileInfo: every column, the account type as read earlier too.
UpdateUserProfileInfo(h) ==
  /\ IsProfile(h) /\ job[h].pc = "save"
  /\ acct' = [acct EXCEPT ![job[h].user] = job[h].copy]
  /\ job' = [job EXCEPT ![h].pc = "rename"]
  /\ UNCHANGED <<queue, nameTold, told, now, faults, moves, past>>

\* Mutant: payments is not told of the new name.
SkipRename(h) ==
  /\ IsProfile(h) /\ job[h].pc = "rename"
  /\ job' = [job EXCEPT ![h] = IdleJob]
  /\ UNCHANGED <<acct, queue, nameTold, told, now, faults, moves, past>>

\* updateUsername, a request to payments that is waited for.  It goes out or is
\* lost; no answer to it is looked at, and what payments does with the name is
\* SubscriptionCommands' UpdateUsername.
UpdateUsername(h) ==
  LET u == job[h].user IN
  /\ IsProfile(h) /\ job[h].pc = "rename"
  /\ \/ nameTold' = [nameTold EXCEPT ![u] = job[h].copy.name] /\ UNCHANGED past
     \/ past' = [past EXCEPT !.half = @ \cup {u}] /\ UNCHANGED nameTold
  /\ job' = [job EXCEPT ![h] = IdleJob]
  /\ UNCHANGED <<acct, queue, told, now, faults, moves>>

(***************************************************************************)
(* Failures, the clock, the composition.                                   *)
(***************************************************************************)

\* What is lost when the handlers in H end here.
Lost(H) == [past EXCEPT
  !.missed = @ \cup UNION {job[h].users : h \in {g \in H : IsInfo(g)}},
  !.half = @ \cup {job[h].user : h \in {g \in H : IsProfile(g) /\ job[g].pc = "rename"}}]

\* An await rejects; the error is answered or logged, nothing is repeated.
Fail(h) ==
  /\ Busy(h) /\ faults < MaxFaults
  /\ faults' = faults + 1
  /\ job' = [job EXCEPT ![h] = IdleJob]
  /\ past' = Lost({h})
  /\ UNCHANGED <<acct, queue, nameTold, told, now, moves>>

Restart ==
  /\ faults < MaxFaults /\ \E h \in Slots : Busy(h)
  /\ faults' = faults + 1
  /\ job' = [h \in Slots |-> IdleJob]
  /\ past' = Lost(Slots)
  /\ UNCHANGED <<acct, queue, nameTold, told, now, moves>>

HandlerStep(h) ==
  \/ ReadUsers(h) \/ UpdateAccountType(h) \/ HandleEvents(h)
  \/ CheckName(h) \/ UpdateUserProfileInfo(h) \/ UpdateUsername(h)

Gateway ==
  \/ \E h \in Slots : TakeMessage(h) \/ HandlerStep(h) \/ Fail(h)
  \/ \E h \in Slots, u \in Users, name \in Names : FillProfile(h, u, name)
  \/ Restart

\* payments, as far as it promises.
PaymentsTells ==
  /\ moves < MaxMoves /\ moves' = moves + 1
  /\ \E U \in SUBSET Users \ {{}} : \E ends \in [U -> 0 .. (now + Period)] :
       SendSubscriptionInfo(U, [u \in Users |-> IF u \in U THEN ends[u] ELSE 0])
  /\ UNCHANGED <<acct, job, nameTold, now, faults>>

Tick ==
  /\ now < MaxTime
  /\ now' = now + 1
  /\ UNCHANGED <<acct, queue, job, nameTold, told, faults, moves, past>>

Next == Gateway \/ PaymentsTells \/ Tick

Spec == Init /\ [][Next]_vars

(***************************************************************************)
(* Properties.                                                             *)
(***************************************************************************)

\* No message about u is queued or being handled, nor a profile of u.
Quiet(u) ==
  /\ \A i \in 1..Len(queue) : u \notin queue[i].users
  /\ \A h \in Slots : u \notin About(h)

\* a is what the end date last told about u makes of him: a date that was past
\* when it was told makes nobody a business, however late it is handled.
Follows(a, u) ==
  \/ a.type = "Business" /\ a.end = told[u] /\ u \notin past.over
  \/ a.type = "Personal" /\ a.end = 0 /\ told[u] <= now

Steady(u) == u \notin past.clash \cup past.missed

\* Once everything about a user is handled, the type and date of his account
\* are those of the LAST end date payments told, through any interleaving with
\* other users' messages, batches, ticks of the clock and failures of others;
\* except where two handlers about him overlapped (the older date, or a profile
\* read before the date was saved, may be written last) or a message was lost.
AccountFollowsLastTold == \A u \in Users : Quiet(u) /\ Steady(u) => Follows(acct[u], u)

\* User names have no unique constraint; getUserByUsername is asked before the
\* name is written.  Two users end up with one name only when they asked for it
\* at the same time.
NameSharedOnlyByRace ==
  \A u, v \in Users : u # v /\ acct[u].name = acct[v].name => acct[u].name \in past.raced

\* The name last sent to payments is the user's present one unless he saved two
\* profiles at one time or the request was lost.  End dates handled between the
\* read and the write of a profile, or the reverse, do no harm.
PaymentsToldTheName ==
  \A u \in Users :
    \/ nameTold[u] = acct[u].name
    \/ u \in past.twice \cup past.half
    \/ \E h \in Slots : IsProfile(h) /\ job[h].user = u

\* A handler runs on, and a message is taken whenever one is queued.
Fairness ==
  /\ \A h \in Slots : WF_vars(HandlerStep(h))
  /\ WF_vars(\E h \in Slots : TakeMessage(h))

FairSpec == Spec /\ Fairness

\* When payments falls silent, every user is at last what he was told to be,
\* unless two handlers about him overlapped or a message about him was lost.
LastToldIsApplied ==
  \A u \in Users : <>[](~Steady(u) \/ Follows(acct[u], u))
=============================================================================
