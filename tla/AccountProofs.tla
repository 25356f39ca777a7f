----------------------------- MODULE AccountProofs -----------------------------
(* The state properties of Account hold for every value of its constants.    *)
EXTENDS Account, TLAPS

(***************************************************************************)
(* Types.                                                                  *)
(***************************************************************************)

\* The kind of a handler tells its fields.
LEMMA JobKinds ==
  ASSUME TypeOK, NEW h \in Slots
  PROVE  /\ ~Busy(h) => job[h] = IdleJob
         /\ IsInfo(h) <=> job[h] \in InfoJobs
         /\ IsProfile(h) <=> job[h] \in ProfileJobs
         /\ Busy(h) => IsInfo(h) \/ IsProfile(h)
         /\ About(h) \in SUBSET Users
  BY DEF TypeOK, Busy, IsInfo, IsProfile, About, IdleJob, InfoJobs, ProfileJobs

LEMMA InitType == Init => TypeOK
  BY FirstNameAssumption DEF Init, TypeOK, Accounts, Past, Messages, EndDatesPromise!Init

\* A change of an account yields an account.
LEMMA AccountTypes ==
  ASSUME NEW a \in Accounts, NEW b \in Accounts, NEW end \in Nat, NEW date \in Nat
  PROVE  changeUserSubscription(a, end, date) \in Accounts /\ TwoColumns(a, b) \in Accounts
  BY DEF Accounts, changeUserSubscription, TwoColumns

\* History grows by users and names there are.
LEMMA LostType == ASSUME TypeOK, NEW H \in SUBSET Slots PROVE Lost(H) \in Past
<1>1. UNION {job[h].users : h \in {g \in H : IsInfo(g)}} \subseteq Users
  BY JobKinds DEF InfoJobs
<1>2. {job[h].user : h \in {g \in H : IsProfile(g) /\ job[g].pc = "rename"}} \subseteq Users
  BY JobKinds DEF ProfileJobs
<1> QED
  BY <1>1, <1>2 DEF Lost, TypeOK, Past

LEMMA BeginType ==
  ASSUME TypeOK, NEW h \in Slots, NEW U \in SUBSET Users, NEW j \in InfoJobs \cup ProfileJobs,
         Begin(h, U, j)
  PROVE  /\ job' \in [Slots -> {IdleJob} \cup InfoJobs \cup ProfileJobs]
         /\ past' \in Past
<1>1. j.kind # "info" => j.copy.name \in Names
  BY DEF InfoJobs, ProfileJobs, Accounts
<1>2. {j.copy.name : g \in {f \in Slots : IsProfile(f)
          /\ job[f].user # j.user /\ job[f].copy.name = j.copy.name}} \subseteq {j.copy.name}
  OBVIOUS
<1>3. past' \in Past
  BY <1>1, <1>2 DEF Begin, TypeOK, Past
<1> QED
  BY <1>3 DEF Begin, TypeOK

LEMMA MessageHeads ==
  ASSUME queue \in Seq(Messages), queue # <<>>
  PROVE  /\ Head(queue) \in Messages /\ Tail(queue) \in Seq(Messages)
         /\ Head(queue) = queue[1] /\ Len(queue) \in Nat \ {0}
         /\ Len(Tail(queue)) = Len(queue) - 1
         /\ \A i \in 1..Len(Tail(queue)) : Tail(queue)[i] = queue[i + 1]
  OBVIOUS

LEMMA SendType ==
  ASSUME TypeOK, NEW U \in SUBSET Users, NEW ends \in [Users -> Nat], SendSubscriptionInfo(U, ends)
  PROVE  told' \in [Users -> Nat] /\ queue' \in Seq(Messages) /\ past' \in Past
<1>1. past' \in Past
  BY DEF SendSubscriptionInfo, TypeOK, Past
<1> QED
  BY <1>1 DEF SendSubscriptionInfo, TypeOK, Messages

LEMMA NextType == ASSUME TypeOK, [Next]_vars PROVE TypeOK'
<1>1. ASSUME NEW h \in Slots, TakeMessage(h) PROVE TypeOK'
  <2> DEFINE j == [kind |-> "info", pc |-> "read", users |-> Head(queue).users,
                   ends |-> Head(queue).ends, copy |-> acct]
  <2>1. Head(queue) \in Messages /\ queue' \in Seq(Messages)
    BY <1>1, MessageHeads DEF TakeMessage, TypeOK
  <2>2. j \in InfoJobs /\ Head(queue).users \in SUBSET Users
    BY <2>1 DEF InfoJobs, Messages, TypeOK
  <2>3. Begin(h, Head(queue).users, j)
    BY <1>1 DEF TakeMessage
  <2>4. /\ job' \in [Slots -> {IdleJob} \cup InfoJobs \cup ProfileJobs]
        /\ past' \in Past
    BY <2>2, <2>3, BeginType
  <2> QED BY <1>1, <2>1, <2>4 DEF TakeMessage, TypeOK
<1>2. ASSUME NEW h \in Slots, ReadUsers(h) PROVE TypeOK'
  <2>1. job[h] \in InfoJobs
    BY <1>2, JobKinds DEF ReadUsers
  <2>2. [u \in Users |-> IF u \in job[h].users
            THEN changeUserSubscription(acct[u], job[h].ends[u], now) ELSE acct[u]]
          \in [Users -> Accounts]
    BY <2>1, AccountTypes DEF TypeOK, InfoJobs
  <2>3. job'[h] \in InfoJobs
    BY <1>2, <2>1, <2>2 DEF ReadUsers, TypeOK, InfoJobs
  <2> QED BY <1>2, <2>3 DEF ReadUsers, TypeOK
<1>3. ASSUME NEW h \in Slots, UpdateAccountType(h) PROVE TypeOK'
  <2>1. job[h] \in InfoJobs
    BY <1>3, JobKinds DEF UpdateAccountType
  <2>2. acct' \in [Users -> Accounts]
    BY <1>3, <2>1, AccountTypes DEF UpdateAccountType, TypeOK, InfoJobs
  <2>3. job'[h] \in InfoJobs
    BY <1>3, <2>1 DEF UpdateAccountType, TypeOK, InfoJobs
  <2> QED BY <1>3, <2>2, <2>3 DEF UpdateAccountType, TypeOK
<1>4. ASSUME NEW h \in Slots, HandleEvents(h) PROVE TypeOK'
  BY <1>4 DEF HandleEvents, TypeOK
<1>5. ASSUME NEW h \in Slots, CheckName(h) PROVE TypeOK'
  <2>1. job[h] \in ProfileJobs
    BY <1>5, JobKinds DEF CheckName
  <2>2. [job[h] EXCEPT !.pc = "save"] \in ProfileJobs
    BY <2>1 DEF ProfileJobs
  <2> QED BY <1>5, <2>2 DEF CheckName, TypeOK
<1>6. ASSUME NEW h \in Slots, UpdateUserProfileInfo(h) PROVE TypeOK'
  <2>1. job[h] \in ProfileJobs
    BY <1>6, JobKinds DEF UpdateUserProfileInfo
  <2>2. [job[h] EXCEPT !.pc = "rename"] \in ProfileJobs /\ job[h].copy \in Accounts
    BY <2>1 DEF ProfileJobs
  <2> QED BY <1>6, <2>2 DEF UpdateUserProfileInfo, TypeOK
<1>7. ASSUME NEW h \in Slots, UpdateUsername(h) PROVE TypeOK'
  <2>1. job[h].user \in Users /\ job[h].copy.name \in Names
    BY <1>7, JobKinds DEF UpdateUsername, ProfileJobs, Accounts
  <2>2. past' \in Past
    <3>1. past \in Past /\ past.half \cup {job[h].user} \in SUBSET Users
      BY <2>1 DEF TypeOK, Past
    <3>2. past' = past \/ past' = [past EXCEPT !.half = past.half \cup {job[h].user}]
      BY <1>7 DEF UpdateUsername
    <3> QED BY <3>1, <3>2 DEF Past
  <2>3. nameTold' \in [Users -> Names]
    BY <1>7, <2>1 DEF UpdateUsername, TypeOK
  <2> QED BY <1>7, <2>2, <2>3 DEF UpdateUsername, TypeOK
<1>8. ASSUME NEW h \in Slots, Fail(h) PROVE TypeOK'
  <2>1. past' \in Past
    BY <1>8, LostType DEF Fail
  <2> QED BY <1>8, <2>1 DEF Fail, TypeOK
<1>9. CASE Restart
  <2>1. past' \in Past
    BY <1>9, LostType DEF Restart
  <2> QED BY <1>9, <2>1 DEF Restart, TypeOK
<1>10. ASSUME NEW h \in Slots, NEW u \in Users, NEW name \in Names, FillProfile(h, u, name)
       PROVE  TypeOK'
  <2> DEFINE j == [kind |-> "profile", pc |-> "check", user |-> u,
                   copy |-> [acct[u] EXCEPT !.name = name]]
  <2> DEFINE copy == [acct[u] EXCEPT !.name = name]
  <2>4. copy \in Accounts
    BY DEF TypeOK, Accounts
  <2> HIDE DEF copy
  <2>5. [kind |-> "profile", pc |-> "check", user |-> u, copy |-> copy] \in ProfileJobs
    BY <2>4 DEF ProfileJobs
  <2>1. j \in ProfileJobs
    BY <2>5 DEF copy
  <2>2. Begin(h, {u}, j)
    BY <1>10 DEF FillProfile
  <2>3. /\ job' \in [Slots -> {IdleJob} \cup InfoJobs \cup ProfileJobs]
        /\ past' \in Past
    BY <2>1, <2>2, BeginType
  <2> QED BY <1>10, <2>3 DEF FillProfile, TypeOK
<1>11. CASE PaymentsTells
  <2> PICK U \in SUBSET Users \ {{}} : \E ends \in [U -> 0 .. (now + Period)] :
          SendSubscriptionInfo(U, [u \in Users |-> IF u \in U THEN ends[u] ELSE 0])
    BY <1>11 DEF PaymentsTells
  <2>1. PICK ends \in [U -> 0 .. (now + Period)] :
          SendSubscriptionInfo(U, [u \in Users |-> IF u \in U THEN ends[u] ELSE 0])
    OBVIOUS
  <2>2. [u \in Users |-> IF u \in U THEN ends[u] ELSE 0] \in [Users -> Nat]
    BY <2>1, PeriodAssumption DEF TypeOK
  <2>3. told' \in [Users -> Nat] /\ queue' \in Seq(Messages) /\ past' \in Past
    BY <2>1, <2>2, SendType
  <2> QED BY <1>11, <2>3 DEF PaymentsTells, TypeOK
<1>12. CASE Tick
  BY <1>12 DEF Tick, TypeOK
<1>13. CASE UNCHANGED vars
  BY <1>13 DEF vars, TypeOK
<1> QED
  BY <1>1, <1>2, <1>3, <1>4, <1>5, <1>6, <1>7, <1>8, <1>9, <1>10, <1>11, <1>12, <1>13
  DEF Next, Gateway, HandlerStep

\* Accounts, messages and handlers keep their form through every order of
\* messages and profiles, failures and restarts.
THEOREM AccountTypeCorrect == Spec => []TypeOK
  BY InitType, NextType, PTL DEF Spec

(***************************************************************************)
(* Names.                                                                  *)
(***************************************************************************)

\* A profile that was checked, or is being saved by two users, spoils no name
\* that was not asked for by two users at one time.
NamesInv ==
  /\ NameSharedOnlyByRace
  /\ \A h \in Slots : IsProfile(h) /\ job[h].pc = "save" =>
       \A v \in Users : v # job[h].user /\ acct[v].name = job[h].copy.name =>
         job[h].copy.name \in past.raced
  /\ \A g, h \in Slots :
       /\ IsProfile(g) /\ IsProfile(h) /\ job[g].user # job[h].user
       /\ job[g].copy.name = job[h].copy.name
       => job[h].copy.name \in past.raced

LEMMA InitNames == Init => NamesInv
  BY FirstNameAssumption DEF Init, NamesInv, NameSharedOnlyByRace, IsProfile, Busy, IdleJob

\* History is never forgotten.
LEMMA HistoryGrows ==
  ASSUME TypeOK, [Next]_vars
  PROVE  /\ past.clash \subseteq past'.clash /\ past.twice \subseteq past'.twice
         /\ past.missed \subseteq past'.missed /\ past.half \subseteq past'.half
         /\ past.raced \subseteq past'.raced
<1> DEFINE Grows == /\ past.clash \subseteq past'.clash /\ past.twice \subseteq past'.twice
                    /\ past.missed \subseteq past'.missed /\ past.half \subseteq past'.half
                    /\ past.raced \subseteq past'.raced
<1>1. ASSUME NEW h, NEW U, NEW j, Begin(h, U, j) PROVE Grows
  BY <1>1 DEF Begin, TypeOK, Past
<1>2. ASSUME NEW H, past' = Lost(H) PROVE Grows
  BY <1>2 DEF Lost, TypeOK, Past
<1>3. ASSUME NEW h, UpdateUsername(h) PROVE Grows
  BY <1>3 DEF UpdateUsername, TypeOK, Past
<1>4. ASSUME NEW U, NEW ends, SendSubscriptionInfo(U, ends) PROVE Grows
  BY <1>4 DEF SendSubscriptionInfo, TypeOK, Past
<1>5. CASE past' = past
  BY <1>5
<1> QED
  BY <1>1, <1>2, <1>3, <1>4, <1>5
  DEF Next, vars, Gateway, TakeMessage, HandlerStep, ReadUsers, UpdateAccountType,
      HandleEvents, CheckName, UpdateUserProfileInfo, Fail, Restart, FillProfile,
      PaymentsTells, Tick

\* No step but UpdateUserProfileInfo changes a name.
LEMMA NamesKept ==
  ASSUME TypeOK, [Next]_vars
  PROVE  \/ \A u \in Users : acct'[u].name = acct[u].name
         \/ \E h \in Slots : UpdateUserProfileInfo(h)
<1>1. ASSUME NEW h \in Slots, UpdateAccountType(h), NEW u \in Users
      PROVE  acct'[u].name = acct[u].name
  BY <1>1 DEF UpdateAccountType, TwoColumns, TypeOK, Accounts
<1>2. acct' = acct \/ (\E h \in Slots : UpdateAccountType(h) \/ UpdateUserProfileInfo(h))
  BY DEF Next, vars, Gateway, TakeMessage, HandlerStep, ReadUsers,
     HandleEvents, CheckName, UpdateUsername, Fail, Restart, FillProfile, PaymentsTells, Tick
<1> QED
  BY <1>1, <1>2

\* The profile being saved in g, after a step: it was there before, or it is
\* new, and has left in history whom it overlapped.
Continues(g) ==
  /\ IsProfile(g) /\ job'[g].user = job[g].user /\ job'[g].copy = job[g].copy
  /\ \/ job'[g].pc = job[g].pc
     \/ CheckName(g) /\ job'[g].pc = "save"
     \/ UpdateUserProfileInfo(g) /\ job'[g].pc = "rename"

IsNew(g) ==
  /\ job'[g].pc = "check" /\ ~Busy(g) /\ UNCHANGED <<acct, nameTold>>
  /\ \A f \in Slots \ {g} : job'[f] = job[f]
  /\ \A f \in Slots : IsProfile(f) =>
       /\ job[f].user # job'[g].user /\ job[f].copy.name = job'[g].copy.name
            => job'[g].copy.name \in past'.raced
       /\ job[f].user = job'[g].user => job[f].user \in past'.twice

LEMMA NewProfile ==
  ASSUME TypeOK, NEW h \in Slots, NEW u \in Users, NEW name \in Names, FillProfile(h, u, name)
  PROVE  IsNew(h) /\ job'[h].user = u /\ \A g \in Slots \ {h} : job'[g] = job[g]
<1> DEFINE j == [kind |-> "profile", pc |-> "check", user |-> u,
                 copy |-> [acct[u] EXCEPT !.name = name]]
<1>1. /\ Begin(h, {u}, j) /\ UNCHANGED <<acct, nameTold>>
      /\ j.kind = "profile" /\ j.pc = "check" /\ j.user = u
  BY DEF FillProfile
<1> HIDE DEF j
<1>2. ~Busy(h) /\ job'[h] = j /\ \A g \in Slots \ {h} : job'[g] = job[g]
  BY <1>1 DEF Begin, TypeOK
<1>3. \A f \in Slots : IsProfile(f) /\ job[f].user # j.user /\ job[f].copy.name = j.copy.name
        => j.copy.name \in past'.raced
  BY <1>1 DEF Begin, TypeOK, Past
<1>4. ASSUME NEW f \in Slots, IsProfile(f), job[f].user = u PROVE u \in past'.twice
  <2>1. u \in About(f)
    BY <1>4 DEF About, IsProfile, IsInfo
  <2> QED BY <1>1, <1>4, <2>1 DEF Begin, TypeOK, Past
<1> QED
  BY <1>1, <1>2, <1>3, <1>4 DEF IsNew

LEMMA ProfilesKept ==
  ASSUME TypeOK, [Next]_vars, NEW g \in Slots, IsProfile(g)'
  PROVE  Continues(g) \/ IsNew(g)
<1>1. CASE job'[g] = job[g]
  BY <1>1 DEF Continues, IsProfile, Busy
<1>2. ASSUME NEW h \in Slots, TakeMessage(h) PROVE Continues(g) \/ IsNew(g)
  BY <1>1, <1>2 DEF TakeMessage, Begin, TypeOK, IsProfile
<1>3. ASSUME NEW h \in Slots,
             ReadUsers(h) \/ UpdateAccountType(h) \/ HandleEvents(h) \/ UpdateUsername(h) \/ Fail(h)
      PROVE  Continues(g) \/ IsNew(g)
  <2>1. CASE g # h
    BY <1>1, <1>3, <2>1 DEF ReadUsers, UpdateAccountType, HandleEvents, UpdateUsername, Fail, TypeOK
  <2>2. CASE g = h
    <3>1. job[h] \in InfoJobs => job'[h] = IdleJob \/ job'[h].kind = "info"
      BY <1>3 DEF ReadUsers, UpdateAccountType, HandleEvents, UpdateUsername, Fail, TypeOK,
         InfoJobs, IsProfile, IsInfo
    <3>2. job[h] \notin InfoJobs => job'[h] = IdleJob
      BY <1>3, JobKinds DEF ReadUsers, UpdateAccountType, HandleEvents, UpdateUsername, Fail, TypeOK
    <3> QED BY <2>2, <3>1, <3>2 DEF IsProfile, Busy, IdleJob
  <2> QED BY <2>1, <2>2
<1>4. ASSUME NEW h \in Slots, CheckName(h) \/ UpdateUserProfileInfo(h)
      PROVE  Continues(g) \/ IsNew(g)
  <2>1. CASE g # h
    BY <1>1, <1>4, <2>1 DEF CheckName, UpdateUserProfileInfo, TypeOK
  <2>2. CASE g = h
    <3>1. job[h] \in ProfileJobs /\ IsProfile(h)
      BY <1>4, JobKinds DEF CheckName, UpdateUserProfileInfo
    <3>2. CASE CheckName(h)
      <4>1. job' = [job EXCEPT ![h].pc = "save"]
        BY <2>2, <3>2 DEF CheckName, IsProfile, Busy, IdleJob, TypeOK
      <4> QED BY <2>2, <3>1, <3>2, <4>1 DEF Continues, TypeOK, ProfileJobs
    <3>3. CASE UpdateUserProfileInfo(h)
      BY <2>2, <3>1, <3>3 DEF UpdateUserProfileInfo, Continues, TypeOK, ProfileJobs
    <3> QED BY <1>4, <3>2, <3>3
  <2> QED BY <2>1, <2>2
<1>5. ASSUME NEW h \in Slots, NEW u \in Users, NEW name \in Names, FillProfile(h, u, name)
      PROVE  Continues(g) \/ IsNew(g)
  BY <1>1, <1>5, NewProfile
<1>6. CASE Restart
  BY <1>6 DEF Restart, IsProfile, Busy, IdleJob
<1>7. CASE PaymentsTells \/ Tick \/ UNCHANGED vars
  BY <1>1, <1>7 DEF PaymentsTells, Tick, vars
<1> QED
  BY <1>2, <1>3, <1>4, <1>5, <1>6, <1>7 DEF Next, Gateway, HandlerStep

LEMMA NamesNext == ASSUME TypeOK, NamesInv, [Next]_vars PROVE NamesInv'
<1>1. \A h \in Slots : IsProfile(h) => job[h].user \in Users /\ job[h].copy \in Accounts
  BY JobKinds DEF ProfileJobs
<1>2. past.raced \subseteq past'.raced
  BY HistoryGrows
<1>3. ASSUME NEW u \in Users, NEW v \in Users, u # v, acct'[u].name = acct'[v].name
      PROVE  acct'[u].name \in past'.raced
  <2>1. CASE \A w \in Users : acct'[w].name = acct[w].name
    BY <1>2, <1>3, <2>1 DEF NamesInv, NameSharedOnlyByRace
  <2>2. ASSUME NEW h \in Slots, UpdateUserProfileInfo(h) PROVE acct'[u].name \in past'.raced
    <3>1. /\ IsProfile(h) /\ job[h].pc = "save"
          /\ \A w \in Users : acct'[w] = IF w = job[h].user THEN job[h].copy ELSE acct[w]
      BY <2>2 DEF UpdateUserProfileInfo, TypeOK
    <3> QED BY <1>1, <1>2, <1>3, <3>1 DEF NamesInv, NameSharedOnlyByRace
  <2> QED BY <2>1, <2>2, NamesKept
<1>4. ASSUME NEW g \in Slots, NEW h \in Slots, IsProfile(g)', IsProfile(h)',
             job'[g].user # job'[h].user, job'[g].copy.name = job'[h].copy.name
      PROVE  job'[h].copy.name \in past'.raced
  <2>1. CASE Continues(g) /\ Continues(h)
    BY <1>2, <1>4, <2>1 DEF Continues, NamesInv
  <2>2. CASE IsNew(g)
    <3>1. g # h /\ job'[h] = job[h] /\ IsProfile(h)
      BY <1>4, <2>2 DEF IsNew, IsProfile, Busy
    <3> QED BY <1>4, <2>2, <3>1 DEF IsNew
  <2>3. CASE IsNew(h)
    <3>1. g # h /\ job'[g] = job[g] /\ IsProfile(g)
      BY <1>4, <2>3 DEF IsNew, IsProfile, Busy
    <3> QED BY <1>4, <2>3, <3>1 DEF IsNew
  <2> QED BY <1>4, <2>1, <2>2, <2>3, ProfilesKept
<1>5. ASSUME NEW h \in Slots, IsProfile(h)', job'[h].pc = "save",
             NEW v \in Users, v # job'[h].user, acct'[v].name = job'[h].copy.name
      PROVE  job'[h].copy.name \in past'.raced
  <2>1. Continues(h) /\ job[h].user \in Users
    BY <1>1, <1>5, ProfilesKept DEF IsNew, Continues
  <2>2. CASE CheckName(h)
    <3>1. /\ acct' = acct
          /\ \/ \A u \in Users : acct[u].name # job[h].copy.name
             \/ acct[job[h].user].name = job[h].copy.name
      BY <1>5, <2>2 DEF CheckName, getUserByUsername, IsProfile, Busy, IdleJob, TypeOK
    <3> QED BY <1>2, <1>5, <2>1, <3>1 DEF Continues, NamesInv, NameSharedOnlyByRace
  <2>3. CASE job[h].pc = "save"
    <3>1. CASE \A u \in Users : acct'[u].name = acct[u].name
      BY <1>2, <1>5, <2>1, <2>3, <3>1 DEF Continues, NamesInv
    <3>2. ASSUME NEW g \in Slots, UpdateUserProfileInfo(g)
          PROVE  job'[h].copy.name \in past'.raced
      <4>1. /\ IsProfile(g) /\ job[g].user \in Users
            /\ \A w \in Users : acct'[w] = IF w = job[g].user THEN job[g].copy ELSE acct[w]
        BY <1>1, <3>2 DEF UpdateUserProfileInfo, TypeOK
      <4>2. CASE v = job[g].user
        BY <1>2, <1>5, <2>1, <4>1, <4>2 DEF Continues, NamesInv
      <4>3. CASE v # job[g].user
        BY <1>2, <1>5, <2>1, <2>3, <4>1, <4>3 DEF Continues, NamesInv
      <4> QED BY <4>2, <4>3
    <3> QED BY <3>1, <3>2, NamesKept
  <2> QED BY <1>5, <2>1, <2>2, <2>3 DEF Continues
<1> QED
  BY <1>3, <1>4, <1>5 DEF NamesInv, NameSharedOnlyByRace

\* Two users have one name only when they asked for it at one time, although
\* no constraint of the database says so.
THEOREM NamesApart == Spec => []NameSharedOnlyByRace
<1>1. NamesInv => NameSharedOnlyByRace
  BY DEF NamesInv
<1> QED
  BY <1>1, InitNames, NamesNext, AccountTypeCorrect, PTL DEF Spec

(***************************************************************************)
(* The name that payments was told.                                        *)
(***************************************************************************)

ProfileOf(h, u) == IsProfile(h) /\ job[h].user = u

\* The one profile of u, once saved, has the name payments is still to be told.
Known(u) ==
  /\ \A g, h \in Slots : ProfileOf(g, u) /\ ProfileOf(h, u) => g = h
  /\ \A h \in Slots : ProfileOf(h, u) /\ job[h].pc = "rename" => job[h].copy.name = acct[u].name
  /\ \/ nameTold[u] = acct[u].name
     \/ \E h \in Slots : ProfileOf(h, u) /\ job[h].pc = "rename"

KnownInv == \A u \in Users : u \in past.twice \cup past.half \/ Known(u)

LEMMA InitKnown == Init => KnownInv
<1> SUFFICES ASSUME Init, NEW u \in Users PROVE Known(u)
  BY DEF KnownInv
<1>1. \A h \in Slots : ~ProfileOf(h, u)
  BY DEF Init, ProfileOf, IsProfile, Busy, IdleJob
<1>2. acct[u].name = FirstName[u] /\ nameTold[u] = FirstName[u]
  BY DEF Init
<1> QED
  BY <1>1, <1>2 DEF Known

\* A saved profile stays until payments is told of it or the failure is noted.
LEMMA RenameStays ==
  ASSUME TypeOK, [Next]_vars, NEW u \in Users, NEW h \in Slots, ProfileOf(h, u),
         job[h].pc = "rename", u \notin past'.half
  PROVE  UpdateUsername(h) \/ job'[h] = job[h]
<1>1. job[h] \in ProfileJobs /\ Busy(h) /\ ~IsInfo(h)
  BY JobKinds DEF ProfileOf, IsProfile, IsInfo
<1>2. ASSUME NEW g \in Slots, TakeMessage(g) PROVE job'[h] = job[h]
  BY <1>1, <1>2 DEF TakeMessage, Begin, TypeOK
<1>3. ASSUME NEW g \in Slots, NEW v \in Users, NEW name \in Names, FillProfile(g, v, name)
      PROVE  job'[h] = job[h]
  BY <1>1, <1>3, NewProfile DEF IsNew
<1>4. ASSUME NEW g \in Slots, ReadUsers(g) \/ UpdateAccountType(g) \/ HandleEvents(g)
                              \/ CheckName(g) \/ UpdateUserProfileInfo(g)
      PROVE  job'[h] = job[h]
  <2>1. g # h
    BY <1>1, <1>4 DEF ReadUsers, UpdateAccountType, HandleEvents, CheckName, UpdateUserProfileInfo
  <2> QED BY <1>4, <2>1 DEF ReadUsers, UpdateAccountType, HandleEvents, CheckName,
             UpdateUserProfileInfo, TypeOK
<1>5. ASSUME NEW g \in Slots, UpdateUsername(g) PROVE UpdateUsername(h) \/ job'[h] = job[h]
  BY <1>5 DEF UpdateUsername, TypeOK
<1>6. ASSUME NEW H \in SUBSET Slots, past' = Lost(H) PROVE h \notin H
  BY <1>6 DEF Lost, TypeOK, Past, ProfileOf
<1>7. ASSUME NEW g \in Slots, Fail(g) PROVE job'[h] = job[h]
  <2>1. h \notin {g}
    BY <1>6, <1>7 DEF Fail
  <2> QED BY <1>7, <2>1 DEF Fail, TypeOK
<1>8. ~Restart
  BY <1>6 DEF Restart
<1>9. CASE PaymentsTells \/ Tick \/ UNCHANGED vars
  BY <1>9 DEF PaymentsTells, Tick, vars
<1> QED
  BY <1>2, <1>3, <1>4, <1>5, <1>7, <1>8, <1>9 DEF Next, Gateway, HandlerStep

LEMMA KnownNext == ASSUME TypeOK, KnownInv, [Next]_vars PROVE KnownInv'
<1> SUFFICES ASSUME NEW u \in Users, u \notin past'.twice \cup past'.half PROVE Known(u)'
  BY DEF KnownInv
<1>1. Known(u)
  BY HistoryGrows DEF KnownInv
<1>2. ASSUME NEW g \in Slots, NEW h \in Slots, ProfileOf(g, u)', ProfileOf(h, u)' PROVE g = h
  <2>1. CASE Continues(g) /\ Continues(h)
    BY <1>1, <1>2, <2>1 DEF Continues, Known, ProfileOf
  <2>2. CASE IsNew(g) /\ g # h
    BY <1>2, <2>2 DEF IsNew, ProfileOf, IsProfile, Busy
  <2>3. CASE IsNew(h) /\ g # h
    BY <1>2, <2>3 DEF IsNew, ProfileOf, IsProfile, Busy
  <2> QED BY <1>2, <2>1, <2>2, <2>3, ProfilesKept DEF ProfileOf
<1>3. ASSUME NEW h \in Slots, UpdateUserProfileInfo(h)
      PROVE  /\ IsProfile(h) /\ job[h].pc = "save" /\ job[h].user \in Users
             /\ job' = [job EXCEPT ![h].pc = "rename"] /\ job'[h].pc = "rename"
             /\ job'[h].user = job[h].user /\ IsProfile(h)' /\ job'[h].copy = job[h].copy
             /\ \A w \in Users : acct'[w] = IF w = job[h].user THEN job[h].copy ELSE acct[w]
  <2>1. job[h] \in ProfileJobs
    BY <1>3, JobKinds DEF UpdateUserProfileInfo
  <2> QED BY <1>3, <2>1 DEF UpdateUserProfileInfo, TypeOK, IsProfile, Busy, ProfileJobs
<1>4. ASSUME NEW h \in Slots, ProfileOf(h, u)', job'[h].pc = "rename"
      PROVE  job'[h].copy.name = acct'[u].name
  <2>1. Continues(h)
    BY <1>4, ProfilesKept DEF ProfileOf, IsNew
  <2>2. CASE UpdateUserProfileInfo(h)
    BY <1>3, <1>4, <2>2 DEF ProfileOf
  <2>3. CASE job[h].pc = "rename"
    <3>1. ASSUME NEW g \in Slots, UpdateUserProfileInfo(g) PROVE acct'[u] = acct[u]
      BY <1>1, <1>3, <1>4, <2>1, <2>3, <3>1 DEF Known, ProfileOf, Continues
    <3>2. acct'[u].name = acct[u].name
      BY <3>1, NamesKept
    <3> QED BY <1>1, <1>4, <2>1, <2>3, <3>2 DEF Known, ProfileOf, Continues
  <2> QED BY <1>4, <2>1, <2>2, <2>3 DEF Continues
<1>5. \/ nameTold'[u] = acct'[u].name
      \/ \E h \in Slots : ProfileOf(h, u)' /\ job'[h].pc = "rename"
  <2>1. ASSUME NEW h \in Slots, UpdateUserProfileInfo(h), job[h].user = u
        PROVE  ProfileOf(h, u)' /\ job'[h].pc = "rename"
    BY <1>3, <2>1 DEF ProfileOf
  <2>2. ASSUME NEW h \in Slots, UpdateUsername(h), job[h].user = u
        PROVE  nameTold'[u] = acct'[u].name
    <3>1. nameTold'[u] = job[h].copy.name /\ acct' = acct /\ ProfileOf(h, u) /\ job[h].pc = "rename"
      BY <2>2 DEF UpdateUsername, ProfileOf, TypeOK, Past
    <3> QED BY <1>1, <3>1 DEF Known
  <2>3. ASSUME \A h \in Slots : UpdateUserProfileInfo(h) => job[h].user # u,
               \A h \in Slots : UpdateUsername(h) => job[h].user # u
        PROVE  \/ nameTold'[u] = acct'[u].name
               \/ \E h \in Slots : ProfileOf(h, u)' /\ job'[h].pc = "rename"
    <3>1. acct'[u].name = acct[u].name
      BY <1>3, <2>3, NamesKept
    <3>2. ASSUME NEW h \in Slots, UpdateUsername(h) PROVE nameTold'[u] = nameTold[u]
      BY <2>3, <3>2 DEF UpdateUsername, TypeOK
    <3>3. nameTold'[u] = nameTold[u]
      BY <3>2 DEF Next, vars, Gateway, TakeMessage, HandlerStep, ReadUsers, UpdateAccountType,
         HandleEvents, CheckName, UpdateUserProfileInfo, Fail, Restart, FillProfile,
         PaymentsTells, Tick
    <3>4. ASSUME NEW h \in Slots, ProfileOf(h, u), job[h].pc = "rename"
          PROVE  ProfileOf(h, u)' /\ job'[h].pc = "rename"
      BY <2>3, <3>4, RenameStays DEF ProfileOf, IsProfile, Busy
    <3> QED BY <1>1, <3>1, <3>3, <3>4 DEF Known
  <2> QED BY <2>1, <2>2, <2>3
<1> QED
  BY <1>2, <1>4, <1>5 DEF Known, ProfileOf

\* Whatever end dates come in between, each new name is sent to payments, unless
\* a user saved two profiles at one time or the request was lost.
THEOREM NameTold == Spec => []PaymentsToldTheName
<1>1. KnownInv => PaymentsToldTheName
  BY DEF KnownInv, Known, PaymentsToldTheName, ProfileOf
<1> QED
  BY <1>1, InitKnown, KnownNext, AccountTypeCorrect, PTL DEF Spec

(***************************************************************************)
(* The account follows the last end date told.                             *)
(***************************************************************************)

Awaited(u) == \E i \in 1..Len(queue) : u \in queue[i].users

\* h has taken an end date of u and has not applied it yet.
Applies(h, u) == IsInfo(h) /\ u \in job[h].users /\ job[h].pc \in {"read", "save"}

\* Every user is under one handler at a time; ...
Alone(u) == \A g, h \in Slots : u \in About(g) /\ u \in About(h) => g = h

\* ... the last message about him in the queue is the last told; ...
QueueEndsWithTold(u) ==
  \A i \in 1..Len(queue) :
    /\ u \in queue[i].users
    /\ \A k \in 1..Len(queue) : k > i => u \notin queue[k].users
    => queue[i].ends[u] = told[u]

\* ... and when none is left there, the one being handled is; ...
HandlesTold(u) ==
  ~Awaited(u) => \A h \in Slots : IsInfo(h) /\ u \in job[h].users =>
    /\ job[h].pc = "read" => job[h].ends[u] = told[u]
    /\ job[h].pc = "save" => Follows(job[h].copy[u], u)

\* ... after that the account has it; ...
AppliedOrDue(u) ==
  Awaited(u) \/ (\E h \in Slots : Applies(h, u)) \/ Follows(acct[u], u)

\* ... and a profile under way will write the type and date that are there.
ProfileAgrees(u) ==
  \A h \in Slots : IsProfile(h) /\ job[h].user = u /\ job[h].pc \in {"check", "save"} =>
    job[h].copy.type = acct[u].type /\ job[h].copy.end = acct[u].end

\* What was over when it was told is over.
OverIsPast(u) == u \in past.over => told[u] <= now

Told(u) ==
  /\ Alone(u) /\ QueueEndsWithTold(u) /\ HandlesTold(u)
  /\ AppliedOrDue(u) /\ ProfileAgrees(u) /\ OverIsPast(u)

ToldInv == \A u \in Users : Steady(u) => Told(u)

LEMMA InitTold == Init => ToldInv
<1> SUFFICES ASSUME Init, NEW u \in Users PROVE Told(u)
  BY DEF ToldInv
<1>1. \A h \in Slots : ~Busy(h)
  BY DEF Init, Busy, IdleJob
<1>2. Len(queue) = 0
  BY DEF Init
<1>3. Follows(acct[u], u)
  BY DEF Init, Follows, EndDatesPromise!Init
<1>4. OverIsPast(u)
  BY DEF Init, OverIsPast, EndDatesPromise!Init
<1> QED
  BY <1>1, <1>2, <1>3, <1>4 DEF Told, Alone, QueueEndsWithTold, HandlesTold, AppliedOrDue,
     ProfileAgrees, IsInfo, IsProfile, About

\* A handler that begins about u is the only one, or history says otherwise.
LEMMA BeginsAlone ==
  ASSUME TypeOK, NEW h \in Slots, NEW U \in SUBSET Users, NEW j \in InfoJobs \cup ProfileJobs,
         Begin(h, U, j), NEW u \in U, Steady(u)'
  PROVE  \A g \in Slots : u \notin About(g)
  BY DEF Begin, Steady, TypeOK, Past

\* What a step leaves alone: the messages and the end date told, the account of
\* u, the handlers of u but those that have done all they do to his account.
Leaves(u) ==
  /\ queue' = queue /\ told' = told /\ acct'[u] = acct[u] /\ now' = now
  /\ past'.over = past.over
  /\ \A g \in Slots :
       \/ job'[g] = job[g]
       \/ u \notin About(g)'
       \/ /\ IsProfile(g) /\ IsProfile(g)' /\ u \in About(g) /\ job'[g].copy = job[g].copy
          /\ job[g].pc = "check" /\ job'[g].pc = "save"
  /\ \A g \in Slots : Applies(g, u) => job'[g] = job[g]

\* Only payments' messages say which dates were over.
LEMMA OverKept ==
  ASSUME TypeOK, Gateway
  PROVE  past'.over = past.over
<1>1. ASSUME NEW h, NEW U, NEW j, Begin(h, U, j) PROVE past'.over = past.over
  BY <1>1 DEF Begin, TypeOK, Past
<1>2. ASSUME NEW H, past' = Lost(H) PROVE past'.over = past.over
  BY <1>2 DEF Lost, TypeOK, Past
<1>3. ASSUME NEW h, UpdateUsername(h) PROVE past'.over = past.over
  BY <1>3 DEF UpdateUsername, TypeOK, Past
<1> QED
  BY <1>1, <1>2, <1>3
  DEF Gateway, TakeMessage, HandlerStep, ReadUsers, UpdateAccountType, HandleEvents,
      CheckName, UpdateUserProfileInfo, Fail, Restart, FillProfile

LEMMA TellsStill ==
  ASSUME TypeOK, NEW u \in Users, Told(u), Leaves(u)
  PROVE  Told(u)'
<1>1. ASSUME NEW g \in Slots, u \in About(g)' PROVE u \in About(g)
  BY <1>1 DEF Leaves, About, IsInfo, Busy
<1>2. Alone(u)'
  BY <1>1 DEF Told, Alone
<1>3. QueueEndsWithTold(u)' /\ Awaited(u)' = Awaited(u)
  BY DEF Told, QueueEndsWithTold, Leaves, Awaited
<1>4. ASSUME NEW g \in Slots, IsInfo(g)', u \in job'[g].users PROVE job'[g] = job[g]
  BY <1>4 DEF Leaves, About, IsInfo, IsProfile, Busy
<1>5. HandlesTold(u)'
  BY <1>3, <1>4 DEF Told, HandlesTold, Follows, Leaves, IsInfo, Busy
<1>6. AppliedOrDue(u)'
  BY <1>3 DEF Told, AppliedOrDue, Follows, Leaves, Applies, IsInfo, Busy
<1>7. ASSUME NEW g \in Slots, IsProfile(g)', job'[g].user = u, job'[g].pc \in {"check", "save"}
      PROVE  job'[g].copy.type = acct'[u].type /\ job'[g].copy.end = acct'[u].end
  <2>1. u \in About(g)'
    BY <1>7 DEF About, IsProfile, IsInfo
  <2>2. IsProfile(g) /\ job[g].user = u /\ job[g].pc \in {"check", "save"}
        /\ job'[g].copy = job[g].copy
    BY <1>7, <2>1 DEF Leaves, IsProfile, IsInfo, Busy, About
  <2> QED BY <2>2 DEF Told, ProfileAgrees, Leaves
<1>8. OverIsPast(u)'
  BY DEF Told, OverIsPast, Leaves
<1> QED
  BY <1>2, <1>3, <1>5, <1>6, <1>7, <1>8 DEF Told, ProfileAgrees

\* The next message is taken.
LEMMA ToldTake ==
  ASSUME TypeOK, NEW u \in Users, Told(u), Steady(u)', NEW h \in Slots, TakeMessage(h)
  PROVE  Told(u)'
<1> DEFINE m == Head(queue)
           j == [kind |-> "info", pc |-> "read", users |-> m.users, ends |-> m.ends, copy |-> acct]
<1>1. /\ m \in Messages /\ m = queue[1] /\ queue' = Tail(queue)
      /\ Len(queue) \in Nat \ {0} /\ Len(queue') = Len(queue) - 1
      /\ \A i \in 1..Len(queue') : queue'[i] = queue[i + 1]
  BY MessageHeads DEF TakeMessage, TypeOK
<1>2. j \in InfoJobs /\ m.users \in SUBSET Users
  BY <1>1 DEF InfoJobs, Messages, TypeOK
<1>3. Begin(h, m.users, j)
  BY DEF TakeMessage
<1>4. /\ ~Busy(h) /\ job'[h] = j /\ \A g \in Slots \ {h} : job'[g] = job[g]
      /\ acct' = acct /\ told' = told /\ now' = now /\ past'.over = past.over
  BY <1>3, OverKept DEF Begin, TypeOK, TakeMessage, Gateway
<1>5. j.kind = "info" /\ j.pc = "read" /\ j.users = m.users /\ j.ends = m.ends
  OBVIOUS
<1> HIDE DEF j
<1>6. u \in m.users => \A g \in Slots : u \notin About(g)
  BY <1>2, <1>3, BeginsAlone
<1>7. /\ IsInfo(h)' /\ ~IsProfile(h)' /\ About(h)' = m.users /\ About(h) = {}
      /\ \A g \in Slots \ {h} : About(g)' = About(g)
  BY <1>4, <1>5 DEF IsInfo, IsProfile, Busy, About
<1>8. Alone(u)'
  BY <1>6, <1>7 DEF Told, Alone
<1>9. ASSUME NEW i \in 1..Len(queue'), u \in queue'[i].users,
             \A k \in 1..Len(queue') : k > i => u \notin queue'[k].users
      PROVE  queue'[i].ends[u] = told'[u]
  <2>1. i + 1 \in 1..Len(queue) /\ queue'[i] = queue[i + 1]
    BY <1>1
  <2>2. ASSUME NEW k \in 1..Len(queue), k > i + 1 PROVE u \notin queue[k].users
    <3>1. k - 1 \in 1..Len(queue') /\ k - 1 > i
      BY <1>1, <2>1, <2>2
    <3>2. queue'[k - 1] = queue[k]
      BY <1>1, <3>1
    <3> QED BY <1>9, <3>1, <3>2
  <2> QED BY <1>4, <1>9, <2>1, <2>2 DEF Told, QueueEndsWithTold
<1>10. QueueEndsWithTold(u)'
  BY <1>9 DEF QueueEndsWithTold
<1>11. ASSUME ~Awaited(u)', NEW k \in 1..Len(queue), k > 1 PROVE u \notin queue[k].users
  <2>1. k - 1 \in 1..Len(queue') /\ queue'[k - 1] = queue[k]
    BY <1>1, <1>11
  <2> QED BY <1>11, <2>1 DEF Awaited
<1>14. OverIsPast(u)'
  BY <1>4 DEF Told, OverIsPast
<1>12. CASE u \in m.users
  <2>1. ~Awaited(u)' => m.ends[u] = told[u]
    BY <1>1, <1>11, <1>12 DEF Told, QueueEndsWithTold
  <2>2. \A g \in Slots : g # h => u \notin About(g)'
    BY <1>6, <1>7, <1>12
  <2>3. HandlesTold(u)'
    BY <1>4, <1>5, <2>1, <2>2 DEF HandlesTold, About, IsInfo
  <2>4. AppliedOrDue(u)'
    BY <1>4, <1>5, <1>7, <1>12 DEF AppliedOrDue, Applies
  <2>5. ProfileAgrees(u)'
    BY <1>7, <2>2 DEF ProfileAgrees, About, IsProfile, IsInfo
  <2> QED BY <1>8, <1>10, <1>14, <2>3, <2>4, <2>5 DEF Told
<1>13. CASE u \notin m.users
  <2>1. ~Awaited(u)' => ~Awaited(u)
    BY <1>1, <1>11, <1>13 DEF Awaited
  <2>2. Awaited(u)' => Awaited(u)
    BY <1>1 DEF Awaited
  <2>3. HandlesTold(u)'
    BY <1>4, <1>5, <1>13, <2>1 DEF Told, HandlesTold, Follows, IsInfo, Busy
  <2>4. AppliedOrDue(u)'
    BY <1>4, <1>13, <2>1, <2>2 DEF Told, AppliedOrDue, Applies, Follows, IsInfo, Busy
  <2>5. ProfileAgrees(u)'
    BY <1>4, <1>7 DEF Told, ProfileAgrees, IsProfile, Busy
  <2> QED BY <1>8, <1>10, <1>14, <2>3, <2>4, <2>5 DEF Told
<1> QED
  BY <1>12, <1>13

\* The type and the end date are worked out and saved.
LEMMA ToldApply ==
  ASSUME TypeOK, NEW u \in Users, Told(u), NEW h \in Slots, ReadUsers(h) \/ UpdateAccountType(h)
  PROVE  Told(u)'
<1>1. job[h] \in InfoJobs /\ IsInfo(h)
  BY JobKinds DEF ReadUsers, UpdateAccountType
<1>2. /\ IsInfo(h)' /\ job'[h].users = job[h].users /\ job'[h].ends = job[h].ends
      /\ \A g \in Slots \ {h} : job'[g] = job[g]
      /\ queue' = queue /\ told' = told /\ now' = now /\ past' = past
  BY <1>1 DEF ReadUsers, UpdateAccountType, TypeOK, InfoJobs, IsInfo, Busy
<1>3. \A g \in Slots : About(g)' = About(g) /\ IsInfo(g)' = IsInfo(g) /\ IsProfile(g)' = IsProfile(g)
  BY <1>1, <1>2 DEF About, IsInfo, IsProfile, Busy
<1>4. Alone(u)' /\ QueueEndsWithTold(u)' /\ Awaited(u)' = Awaited(u) /\ OverIsPast(u)'
  BY <1>2, <1>3 DEF Told, Alone, QueueEndsWithTold, Awaited, OverIsPast
<1>5. CASE u \notin job[h].users
  <2>1. acct'[u] = acct[u]
    BY <1>5 DEF ReadUsers, UpdateAccountType, TypeOK
  <2>2. HandlesTold(u)'
    BY <1>2, <1>3, <1>4, <1>5 DEF Told, HandlesTold, Follows
  <2>3. AppliedOrDue(u)'
    BY <1>2, <1>3, <1>4, <1>5, <2>1 DEF Told, AppliedOrDue, Applies, Follows
  <2>4. ProfileAgrees(u)'
    BY <1>1, <1>2, <1>3, <2>1 DEF Told, ProfileAgrees, IsInfo, IsProfile
  <2> QED BY <1>4, <2>2, <2>3, <2>4 DEF Told
<1>6. CASE u \in job[h].users
  <2>1. \A g \in Slots : g # h => u \notin About(g)
    BY <1>1, <1>6 DEF Told, Alone, About, IsInfo
  <2>2. \A g \in Slots : g # h => u \notin About(g)'
    BY <1>3, <2>1
  <2>3. ProfileAgrees(u)'
    BY <1>2, <2>2 DEF ProfileAgrees, About, IsProfile, IsInfo
  <2>4. CASE ReadUsers(h)
    <3>1. /\ job[h].pc = "read" /\ job'[h].pc = "save" /\ acct' = acct
          /\ job'[h].copy[u] = changeUserSubscription(acct[u], job[h].ends[u], now)
      BY <1>1, <1>6, <2>4 DEF ReadUsers, TypeOK, InfoJobs
    <3>2. ~Awaited(u) => job[h].ends[u] = told[u]
      BY <1>1, <1>6, <3>1 DEF Told, HandlesTold
    <3>3. acct[u] \in Accounts /\ job[h].ends[u] \in Nat /\ now \in Nat
      BY <1>1 DEF TypeOK, InfoJobs
    <3>4. job[h].ends[u] = told[u] => Follows(job[h].copy[u], u)'
      BY <1>2, <3>1, <3>3 DEF changeUserSubscription, Follows, Accounts, Told, OverIsPast
    <3>5. HandlesTold(u)'
      BY <1>2, <1>4, <2>2, <3>1, <3>2, <3>4 DEF HandlesTold, About, IsInfo
    <3>6. AppliedOrDue(u)'
      BY <1>2, <1>6, <3>1 DEF AppliedOrDue, Applies
    <3> QED BY <1>4, <2>3, <3>5, <3>6 DEF Told
  <2>5. CASE UpdateAccountType(h)
    <3>1. /\ job[h].pc = "save" /\ job'[h].pc = "mail"
          /\ acct'[u] = TwoColumns(acct[u], job[h].copy[u])
      BY <1>1, <1>6, <2>5 DEF UpdateAccountType, TypeOK, InfoJobs
    <3>2. ~Awaited(u) => Follows(job[h].copy[u], u)
      BY <1>1, <1>6, <3>1 DEF Told, HandlesTold
    <3>3. acct'[u].type = job[h].copy[u].type /\ acct'[u].end = job[h].copy[u].end
      BY <1>1, <3>1 DEF TwoColumns, TypeOK, Accounts, InfoJobs
    <3>4. HandlesTold(u)'
      BY <2>2, <3>1 DEF HandlesTold, About, IsInfo
    <3>5. AppliedOrDue(u)'
      BY <1>2, <1>4, <3>2, <3>3 DEF AppliedOrDue, Follows
    <3> QED BY <1>4, <2>3, <3>4, <3>5 DEF Told
  <2> QED BY <2>4, <2>5
<1> QED
  BY <1>5, <1>6

\* A profile is begun, or saved.
LEMMA ToldProfile ==
  ASSUME TypeOK, NEW u \in Users, Told(u), Steady(u)', NEW h \in Slots,
         \/ UpdateUserProfileInfo(h)
         \/ \E v \in Users, name \in Names : FillProfile(h, v, name)
  PROVE  Told(u)'
<1>1. CASE UpdateUserProfileInfo(h)
  <2>1. job[h] \in ProfileJobs /\ IsProfile(h) /\ ~IsInfo(h) /\ job[h].pc = "save"
    BY <1>1, JobKinds DEF UpdateUserProfileInfo, IsProfile, IsInfo
  <2>2. /\ job'[h].user = job[h].user /\ job'[h].pc = "rename" /\ IsProfile(h)' /\ ~IsInfo(h)'
        /\ \A g \in Slots \ {h} : job'[g] = job[g]
        /\ queue' = queue /\ told' = told /\ now' = now /\ past' = past
        /\ acct'[u] = IF u = job[h].user THEN job[h].copy ELSE acct[u]
    BY <1>1, <2>1 DEF UpdateUserProfileInfo, TypeOK, ProfileJobs, IsProfile, IsInfo, Busy
  <2>3. \A g \in Slots : About(g)' = About(g) /\ IsInfo(g)' = IsInfo(g) /\ IsProfile(g)' = IsProfile(g)
    BY <2>1, <2>2 DEF About, IsInfo, IsProfile, Busy
  <2>4. acct'[u].type = acct[u].type /\ acct'[u].end = acct[u].end
    BY <2>1, <2>2 DEF Told, ProfileAgrees
  <2>5. Alone(u)' /\ QueueEndsWithTold(u)' /\ Awaited(u)' = Awaited(u) /\ OverIsPast(u)'
    BY <2>2, <2>3 DEF Told, Alone, QueueEndsWithTold, Awaited, OverIsPast
  <2>6. HandlesTold(u)'
    BY <2>2, <2>3, <2>5 DEF Told, HandlesTold, Follows
  <2>7. AppliedOrDue(u)'
    BY <2>1, <2>2, <2>3, <2>4, <2>5 DEF Told, AppliedOrDue, Applies, Follows
  <2>8. ProfileAgrees(u)'
    BY <2>2, <2>3, <2>4 DEF Told, ProfileAgrees
  <2> QED BY <2>5, <2>6, <2>7, <2>8 DEF Told
<1>2. ASSUME NEW v \in Users, NEW name \in Names, FillProfile(h, v, name) PROVE Told(u)'
  <2> DEFINE copy == [acct[v] EXCEPT !.name = name]
             j == [kind |-> "profile", pc |-> "check", user |-> v, copy |-> copy]
  <2>1. copy \in Accounts /\ copy.type = acct[v].type /\ copy.end = acct[v].end
    BY DEF TypeOK, Accounts
  <2>2. Begin(h, {v}, j)
    BY <1>2 DEF FillProfile
  <2> HIDE DEF copy
  <2>3. j \in ProfileJobs
    BY <2>1 DEF ProfileJobs
  <2>4. /\ ~Busy(h) /\ job'[h] = j /\ \A g \in Slots \ {h} : job'[g] = job[g]
        /\ UNCHANGED <<acct, queue, told, now>> /\ past'.over = past.over
    BY <1>2, <2>2, OverKept DEF Begin, TypeOK, FillProfile, Gateway
  <2>5. j.kind = "profile" /\ j.user = v /\ j.copy = copy /\ j.pc = "check"
    OBVIOUS
  <2>6. u = v => \A g \in Slots : u \notin About(g)
    BY <2>2, <2>3, BeginsAlone
  <2> HIDE DEF j
  <2>7. /\ IsProfile(h)' /\ ~IsInfo(h)' /\ About(h)' = {v} /\ About(h) = {} /\ ~IsInfo(h)
        /\ \A g \in Slots \ {h} : About(g)' = About(g) /\ IsInfo(g)' = IsInfo(g)
                                  /\ IsProfile(g)' = IsProfile(g)
    BY <2>4, <2>5 DEF IsInfo, IsProfile, Busy, About
  <2>8. Alone(u)' /\ QueueEndsWithTold(u)' /\ Awaited(u)' = Awaited(u) /\ OverIsPast(u)'
    BY <2>4, <2>6, <2>7 DEF Told, Alone, QueueEndsWithTold, Awaited, OverIsPast
  <2>9. HandlesTold(u)'
    BY <2>4, <2>7, <2>8 DEF Told, HandlesTold, Follows
  <2>10. AppliedOrDue(u)'
    BY <2>4, <2>7, <2>8 DEF Told, AppliedOrDue, Applies, Follows
  <2>11. ProfileAgrees(u)'
    BY <2>1, <2>4, <2>5, <2>7 DEF Told, ProfileAgrees
  <2> QED BY <2>8, <2>9, <2>10, <2>11 DEF Told
<1> QED
  BY <1>1, <1>2

\* payments tells of end dates: they are the last in the queue.
LEMMA ToldSends ==
  ASSUME TypeOK, NEW u \in Users, Told(u), NEW U \in SUBSET Users, NEW ends \in [Users -> Nat],
         SendSubscriptionInfo(U, ends), UNCHANGED <<acct, job, now>>
  PROVE  Told(u)'
<1> DEFINE m == [users |-> U, ends |-> ends]
<1>3. /\ told'[u] = IF u \in U THEN ends[u] ELSE told[u]
      /\ queue' = Append(queue, m) /\ m.users = U /\ m.ends = ends
      /\ u \in past'.over <=> IF u \in U THEN ends[u] <= now ELSE u \in past.over
  BY DEF SendSubscriptionInfo, TypeOK, Past
<1> HIDE DEF m
<1>4. /\ Len(queue) \in Nat /\ Len(queue') = Len(queue) + 1 /\ queue'[Len(queue) + 1] = m
      /\ \A i \in 1..Len(queue) : queue'[i] = queue[i]
  BY <1>3 DEF TypeOK
<1>5. acct' = acct /\ job' = job /\ now' = now
  OBVIOUS
<1>6. u \in U => Awaited(u)'
  BY <1>3, <1>4 DEF Awaited
<1>7. u \notin U => /\ Awaited(u)' = Awaited(u) /\ told'[u] = told[u]
                    /\ u \in past'.over <=> u \in past.over
  BY <1>3, <1>4 DEF Awaited
<1>8. ASSUME NEW i \in 1..Len(queue'), u \in queue'[i].users,
             \A k \in 1..Len(queue') : k > i => u \notin queue'[k].users
      PROVE  queue'[i].ends[u] = told'[u]
  <2>1. CASE i = Len(queue) + 1
    BY <1>3, <1>4, <1>8, <2>1
  <2>2. CASE i \in 1..Len(queue)
    <3>1. u \notin U
      BY <1>3, <1>4, <1>8, <2>2
    <3>2. \A k \in 1..Len(queue) : k > i => u \notin queue[k].users
      BY <1>4, <1>8
    <3> QED BY <1>4, <1>7, <1>8, <2>2, <3>1, <3>2 DEF Told, QueueEndsWithTold
  <2> QED BY <1>4, <2>1, <2>2
<1>9. Alone(u)' /\ ProfileAgrees(u)'
  BY <1>5 DEF Told, Alone, ProfileAgrees, About, IsInfo, IsProfile, Busy
<1>10. HandlesTold(u)'
  BY <1>5, <1>6, <1>7 DEF Told, HandlesTold, Follows, IsInfo, Busy
<1>11. AppliedOrDue(u)'
  BY <1>5, <1>6, <1>7 DEF Told, AppliedOrDue, Applies, Follows, IsInfo, Busy
<1>12. OverIsPast(u)'
  BY <1>3, <1>5 DEF Told, OverIsPast
<1> QED
  BY <1>8, <1>9, <1>10, <1>11, <1>12 DEF Told, QueueEndsWithTold

LEMMA ToldTells ==
  ASSUME TypeOK, NEW u \in Users, Told(u), PaymentsTells
  PROVE  Told(u)'
<1>1. PICK U \in SUBSET Users \ {{}} : \E ends \in [U -> 0 .. (now + Period)] :
        SendSubscriptionInfo(U, [v \in Users |-> IF v \in U THEN ends[v] ELSE 0])
  BY DEF PaymentsTells
<1>2. PICK ends \in [U -> 0 .. (now + Period)] :
        SendSubscriptionInfo(U, [v \in Users |-> IF v \in U THEN ends[v] ELSE 0])
  BY <1>1
<1>3. [v \in Users |-> IF v \in U THEN ends[v] ELSE 0] \in [Users -> Nat]
  BY PeriodAssumption DEF TypeOK
<1>4. UNCHANGED <<acct, job, now>>
  BY DEF PaymentsTells
<1> QED
  BY <1>2, <1>3, <1>4, ToldSends

\* A failure of a handler that has an end date of u is noted; others leave u.
LEMMA ToldFailure ==
  ASSUME TypeOK, NEW u \in Users, Told(u), Steady(u)', (\E h \in Slots : Fail(h)) \/ Restart
  PROVE  Told(u)'
<1>1. ASSUME NEW H \in SUBSET Slots, past' = Lost(H), NEW g \in H, IsInfo(g)
      PROVE  u \notin job[g].users
  <2>1. job[g].users \subseteq past'.missed
    BY <1>1 DEF Lost, TypeOK, Past
  <2> QED BY <2>1 DEF Steady
<1>2. UNCHANGED <<acct, queue, told, now>> /\ past'.over = past.over
  BY OverKept DEF Fail, Restart, Gateway
<1>3. ASSUME NEW h \in Slots, Fail(h) PROVE Leaves(u)
  <2>1. /\ job'[h] = IdleJob /\ \A g \in Slots \ {h} : job'[g] = job[g]
        /\ IsInfo(h) => u \notin job[h].users
    BY <1>1, <1>3 DEF Fail, TypeOK
  <2> QED BY <1>2, <2>1 DEF Leaves, Applies, About, Busy, IdleJob
<1>4. CASE Restart
  <2>1. \A g \in Slots : job'[g] = IdleJob /\ (IsInfo(g) => u \notin job[g].users)
    BY <1>1, <1>4 DEF Restart
  <2> QED BY <1>2, <2>1, TellsStill DEF Leaves, Applies, About, Busy, IdleJob
<1> QED
  BY <1>3, <1>4, TellsStill

\* The other steps of a handler are of no account to the end dates.
LEMMA ToldSteps ==
  ASSUME TypeOK, NEW u \in Users, Told(u), NEW h \in Slots,
         HandleEvents(h) \/ CheckName(h) \/ UpdateUsername(h)
  PROVE  Told(u)'
<1>1. /\ UNCHANGED <<acct, queue, told, now>> /\ \A g \in Slots \ {h} : job'[g] = job[g]
      /\ ~Applies(h, u) /\ past'.over = past.over
  BY OverKept DEF Gateway, HandlerStep, HandleEvents, CheckName, UpdateUsername, TypeOK, Applies, IsInfo, IsProfile
<1>2. CASE job'[h] = IdleJob
  BY <1>1, <1>2, TellsStill DEF Leaves, About, Busy, IdleJob
<1>3. CASE CheckName(h) /\ job'[h] # IdleJob
  <2>1. job[h] \in ProfileJobs /\ IsProfile(h) /\ job[h].pc = "check"
    BY <1>3, JobKinds DEF CheckName
  <2>2. job'[h] = [job[h] EXCEPT !.pc = "save"]
    BY <1>3 DEF CheckName, TypeOK
  <2>3. /\ job'[h].pc = "save" /\ job'[h].copy = job[h].copy /\ IsProfile(h)'
        /\ About(h)' = About(h)
    BY <2>1, <2>2 DEF ProfileJobs, IsProfile, IsInfo, Busy, About
  <2> QED BY <1>1, <2>1, <2>3, TellsStill DEF Leaves
<1> QED
  BY <1>2, <1>3 DEF HandleEvents, UpdateUsername, TypeOK

\* The clock: a date that has passed stays passed.
LEMMA ToldWaits ==
  ASSUME TypeOK, NEW u \in Users, Told(u), UNCHANGED <<acct, queue, job, told, past>>,
         now' \in Nat, now <= now'
  PROVE  Told(u)'
<1>1. now \in Nat /\ told[u] \in Nat
  BY DEF TypeOK
<1>2. /\ Alone(u)' /\ QueueEndsWithTold(u)' /\ ProfileAgrees(u)' /\ Awaited(u)' = Awaited(u)
  BY DEF Told, Alone, QueueEndsWithTold, ProfileAgrees, Awaited, About, IsInfo, IsProfile, Busy
<1>3. \A a : Follows(a, u) => Follows(a, u)'
  BY <1>1 DEF Follows
<1>4. HandlesTold(u)'
  BY <1>2, <1>3 DEF Told, HandlesTold, IsInfo, Busy
<1>5. AppliedOrDue(u)'
  BY <1>2, <1>3 DEF Told, AppliedOrDue, Applies, IsInfo, Busy
<1>6. OverIsPast(u)'
  BY <1>1 DEF Told, OverIsPast
<1> QED
  BY <1>2, <1>4, <1>5, <1>6 DEF Told

LEMMA ToldNext == ASSUME TypeOK, ToldInv, [Next]_vars PROVE ToldInv'
<1> SUFFICES ASSUME NEW u \in Users, Steady(u)' PROVE Told(u)'
  BY DEF ToldInv
<1>1. Told(u)
  BY HistoryGrows DEF ToldInv, Steady
<1>2. CASE UNCHANGED vars
  BY <1>1, <1>2, TellsStill DEF vars, Leaves
<1>3. CASE Tick
  BY <1>1, <1>3, ToldWaits DEF Tick, TypeOK
<1> QED
  BY <1>1, <1>2, <1>3, ToldTake, ToldApply, ToldProfile, ToldTells, ToldFailure, ToldSteps
  DEF Next, Gateway, HandlerStep

\* Once everything about a user is handled, his account is what the last end
\* date payments told makes of it, for any number of users, messages, handlers
\* in flight and failures, except where the history names a lost message or two
\* handlers that overlapped about that user.
THEOREM AccountFollows == Spec => []AccountFollowsLastTold
<1>1. TypeOK /\ ToldInv => AccountFollowsLastTold
  <2> SUFFICES ASSUME TypeOK, ToldInv, NEW u \in Users, Quiet(u), Steady(u)
               PROVE  Follows(acct[u], u)
    BY DEF AccountFollowsLastTold
  <2>1. ~Awaited(u)
    BY DEF Quiet, Awaited
  <2>2. \A h \in Slots : ~Applies(h, u)
    BY DEF Quiet, Applies, About, IsInfo
  <2> QED BY <2>1, <2>2 DEF ToldInv, Told, AppliedOrDue
<1> QED
  BY <1>1, InitTold, ToldNext, AccountTypeCorrect, PTL DEF Spec
==============================================================================
