---------------------------- MODULE IdentityProofs ----------------------------
(* What Identity promises to requests that overlap no other, for every value *)
(* of its constants: one user per address and name, the latest token, no     *)
(* session with an old password, no removed confirmed user, no 500.          *)
EXTENDS Identity, SequenceTheorems, TLAPS

(***************************************************************************)
(* The inductive invariant.                                                *)
(***************************************************************************)

Rows == UserRows(MaxUsers) \cup {Gone}
SessionRows == DeviceRows \cup {Gone}
Columns == {"user", "device", "codes"}

\* Tables that statements leave behind: a session has its user, and a name was
\* chosen or made for the very row.
Sound(d) ==
  /\ DOMAIN d = Columns
  /\ d.user \in Seq(Rows) /\ d.device \in Seq(SessionRows) /\ d.codes \in Nat
  /\ \A k \in LiveRows(d.device) : IsUser(d, d.device[k].user)
  /\ \A i \in LiveUsers(d) :
       d.user[i].name \in Names \/ \E e \in Emails : d.user[i].name = generateUniqUserName(e, i)

\* SharedOnlyByRace and NoSessionWithOldPassword, of any tables.
SharedIn(d) ==
  \A i, j \in LiveUsers(d) : i # j =>
    /\ d.user[i].email = d.user[j].email
         => {d.user[i].how, d.user[j].how} \cap {"raced", "crossed"} # {}
    /\ d.user[i].name = d.user[j].name
         => \/ "raced" \in {d.user[i].how, d.user[j].how}
            \/ \E e \in Emails : BaseOf[e] \in LongBases
                                 /\ d.user[i].name = generateUniqUserName(e, i)

SessionsIn(d) ==
  \A k \in LiveRows(d.device) :
    d.device[k].pw # None /\ d.device[k].pw # d.user[d.device[k].user].pw => ~d.device[k].alone

Good(d) == Sound(d) /\ SharedIn(d) /\ SessionsIn(d)

TablesInv ==
  Good(tables) /\ Len(tables.user) <= MaxUsers /\ Len(tables.device) <= MaxDevices

BoundsInv ==
  /\ scene \in Scenes /\ now \in 0..scene.time /\ moves \in Nat /\ faults \in Nat
  /\ lapsed \subseteq 1..tables.codes

\* A session that was renewed by requests alone was last active with its latest token.
IssuedInv ==
  /\ issued \subseteq [device : 1..Len(tables.device), user : 1..MaxUsers, iat : 0..now]
  /\ \A k \in LiveRows(tables.device), t \in issued :
       tables.device[k].renewedAlone /\ t.device = k => t.iat <= tables.device[k].iat

Fields == {"op", "arg", "pc", "todo", "got", "alone"}

\* The input of a request, as far as it will be stored.
ArgOK(h) ==
  LET op == job[h].op IN
  /\ op = "registration" => Arg(h) \in RegistrationDtos
  /\ op = "google" => Arg(h).account \in GoogleAccounts
  /\ op = "github" => Arg(h).account \in GithubAccounts
  /\ op = "login" => Arg(h) \in LoginDtos
  /\ op = "restoreConfirm" => Arg(h).pw \in Passwords
  /\ op \in TokenOps => Arg(h).token \in issued
  /\ op = "renew" /\ job[h].pc = "write" => Got(h, "signed") \in 0..now

JobOK(h) ==
  /\ DOMAIN job[h] = Fields /\ job[h].op \in Ops /\ job[h].alone \in BOOLEAN
  /\ job[h].pc # "find" => job[h].todo = {}
  /\ ArgOK(h)

JobsInv == DOMAIN job = Slots /\ \A h \in Slots : Busy(h) => JobOK(h)

\* Who is alone is the only one.
AloneInv == \A g, h \in Slots : Busy(g) /\ Busy(h) /\ g # h => ~job[g].alone

EmailHolders(d, e) == {i \in LiveUsers(d) : d.user[i].email = e}
NameHolders(d, n) == {i \in LiveUsers(d) : d.user[i].name = n}
AccountHolders(d, op, a) == {i \in LiveUsers(d) : Link(d.user[i], op) = a}

\* What was read of a user is what a read of the users H of tables d yields.
IsOneOf(u, d, H) ==
  \/ H = {} /\ u = Nobody
  \/ Exists(u) /\ u.id \in H /\ u.id # 0 /\ u.row = d.user[u.id]

\* What h has read it would read again.
Knows(h, name, H) ==
  name \notin job[h].todo => name \in DOMAIN job[h].got /\ IsOneOf(Got(h, name), tables, H)

CurrentRows(h) ==
  LET op == job[h].op IN
  /\ op = "registration" => /\ Knows(h, "email", EmailHolders(tables, Arg(h).email))
                            /\ Knows(h, "name", NameHolders(tables, Arg(h).name))
  /\ op \in {"confirm", "resend"} => Knows(h, "user", TokenHolders(tables, Arg(h).code))
  /\ op \in {"google", "github"} =>
       /\ Knows(h, "account", AccountHolders(tables, op, Arg(h).account))
       /\ Knows(h, "email", EmailHolders(tables, EmailOf[Arg(h).account]))
  /\ op \in {"login", "restore"} => Knows(h, "user", EmailHolders(tables, Arg(h).email))
  /\ op = "restoreConfirm" => Knows(h, "user", ResetHolders(tables, Arg(h).code))

CurrentDecision(h) ==
  LET op == job[h].op  pc == job[h].pc IN
  /\ op = "restore" /\ pc = "write" =>
       /\ "code" \in DOMAIN job[h].got /\ Exists(Got(h, "user"))
       /\ Got(h, "code") = getResetPasswordByUserId(tables, Got(h, "user").id)
  /\ op \in {"ban", "unban"} /\ pc = "write" =>
       /\ IsUser(tables, Got(h, "user"))
       /\ tables.user[Got(h, "user")].banned = (op = "unban")
  /\ op \in TokenOps /\ pc \in {"load", "write"} => IsCurrent(tables, Arg(h).token)
  /\ op = "terminate" /\ pc = "write" => IsDevice(tables, Got(h, "device"))
  /\ op = "renew" /\ pc = "write" =>
       \A t \in issued : t.device = Arg(h).token.device => t.iat <= Got(h, "signed")

\* Nothing that a request alone has read or decided is out of date.
CurrentInv ==
  \A h \in Slots : Busy(h) /\ job[h].alone => CurrentRows(h) /\ CurrentDecision(h)

StateInv == TablesInv /\ BoundsInv /\ IssuedInv /\ JobsInv /\ AloneInv /\ CurrentInv

IInv == StateInv /\ ServerErrorOnlyByRace

(***************************************************************************)
(* Rows.                                                                   *)
(***************************************************************************)

LEMMA SeqFacts ==
  ASSUME NEW S, NEW s \in Seq(S)
  PROVE  /\ Len(s) \in Nat /\ DOMAIN s = 1 .. Len(s)
         /\ \A i \in DOMAIN s : s[i] \in S
BY LenProperties

\* A sequence changed within its domain.
LEMMA SeqChanged ==
  ASSUME NEW S, NEW s \in Seq(S), NEW t \in [DOMAIN s -> S]
  PROVE  t \in Seq(S) /\ DOMAIN t = DOMAIN s /\ Len(t) = Len(s)
<1>1. Len(s) \in Nat /\ DOMAIN s = 1 .. Len(s)  BY SeqFacts
<1>2. t \in [1 .. Len(s) -> S]  BY <1>1
<1>3. t \in Seq(S)  BY <1>1, <1>2, IsASeq
<1>4. Len(t) \in Nat /\ DOMAIN t = 1 .. Len(t)  BY <1>3, SeqFacts
<1>5. DOMAIN t = 1 .. Len(s)  BY <1>2
<1> QED BY <1>1, <1>3, <1>4, <1>5

LEMMA SeqAppended ==
  ASSUME NEW S, NEW s \in Seq(S), NEW e \in S
  PROVE  /\ Append(s, e) \in Seq(S) /\ Len(Append(s, e)) = Len(s) + 1
         /\ DOMAIN Append(s, e) = DOMAIN s \cup {Len(s) + 1} /\ Len(s) + 1 \notin DOMAIN s
         /\ \A i \in DOMAIN s : Append(s, e)[i] = s[i]
         /\ Append(s, e)[Len(s) + 1] = e
<1> DEFINE t == Append(s, e)
<1>1. Len(s) \in Nat /\ DOMAIN s = 1 .. Len(s)  BY SeqFacts
<1>2. t \in Seq(S) /\ Len(t) = Len(s) + 1  BY <1>1
<1>3. DOMAIN t = 1 .. Len(s) + 1  BY <1>2, SeqFacts
<1>4. \A i \in 1 .. Len(s) : t[i] = s[i]  BY <1>1
<1>5. t[Len(s) + 1] = e  BY <1>1
<1> QED BY <1>1, <1>2, <1>3, <1>4, <1>5

\* Who is live, what live rows are, and that rows have positive numbers.
LEMMA LiveFacts ==
  ASSUME NEW d, Sound(d)
  PROVE  /\ \A i \in LiveUsers(d) : /\ i \in DOMAIN d.user /\ d.user[i] \in UserRows(MaxUsers)
                                    /\ i \in Nat \ {0}
         /\ \A i \in DOMAIN d.user \ LiveUsers(d) : d.user[i] = Gone
         /\ \A k \in LiveRows(d.device) : /\ k \in DOMAIN d.device /\ d.device[k] \in DeviceRows
                                          /\ k \in Nat \ {0}
         /\ \A k \in DOMAIN d.device \ LiveRows(d.device) : d.device[k] = Gone
<1>1. /\ Len(d.user) \in Nat /\ DOMAIN d.user = 1 .. Len(d.user)
      /\ \A i \in DOMAIN d.user : d.user[i] \in Rows
  BY SeqFacts DEF Sound
<1>2. /\ Len(d.device) \in Nat /\ DOMAIN d.device = 1 .. Len(d.device)
      /\ \A i \in DOMAIN d.device : d.device[i] \in SessionRows
  BY SeqFacts DEF Sound
<1>3. Gone.live = FALSE  BY DEF Gone
<1>4. \A row \in UserRows(MaxUsers) : row.live = TRUE  BY DEF UserRows
<1>5. \A row \in DeviceRows : row.live = TRUE  BY DEF DeviceRows
<1>6. /\ \A i \in LiveUsers(d) : i \in DOMAIN d.user /\ d.user[i] \in UserRows(MaxUsers)
      /\ \A i \in DOMAIN d.user \ LiveUsers(d) : d.user[i] = Gone
  BY <1>1, <1>3, <1>4 DEF LiveUsers, LiveRows, Rows
<1>7. /\ \A k \in LiveRows(d.device) : k \in DOMAIN d.device /\ d.device[k] \in DeviceRows
      /\ \A k \in DOMAIN d.device \ LiveRows(d.device) : d.device[k] = Gone
  BY <1>2, <1>3, <1>5 DEF LiveRows, SessionRows
<1> QED BY <1>1, <1>2, <1>6, <1>7

\* A row changed in what does not tell who the user is.
Kin(row, new) ==
  new \in UserRows(MaxUsers) /\ new.email = row.email /\ new.name = row.name /\ new.how = row.how

LEMMA RowsChange ==
  ASSUME NEW row \in UserRows(MaxUsers)
  PROVE  /\ \A p \in Passwords : Kin(row, [row EXCEPT !.pw = p])
         /\ Kin(row, [row EXCEPT !.confirmed = TRUE]) /\ Kin(row, [row EXCEPT !.deleted = TRUE])
         /\ \A c \in Nat : Kin(row, [row EXCEPT !.token = c]) /\ Kin(row, [row EXCEPT !.reset = c])
         /\ \A a \in GoogleAccounts : Kin(row, [row EXCEPT !.google = a])
         /\ \A a \in GithubAccounts : Kin(row, [row EXCEPT !.github = a])
         /\ \A b \in BOOLEAN : Kin(row, [row EXCEPT !.banned = b])
BY DEF UserRows, Kin

(***************************************************************************)
(* What statements do to good tables.                                      *)
(***************************************************************************)

\* No row is made, no user goes, and a session stays as it was or goes.
Keeps(d, n) ==
  /\ Good(n) /\ n.codes >= d.codes
  /\ Len(n.user) = Len(d.user) /\ Len(n.device) = Len(d.device)
  /\ LiveUsers(n) = LiveUsers(d)
  /\ \A k \in LiveRows(n.device) : k \in LiveRows(d.device) /\ n.device[k] = d.device[k]

LEMMA Amended ==
  ASSUME NEW d, Good(d), NEW n, DOMAIN n = Columns, n.codes \in Nat, n.codes >= d.codes,
         n.user \in [DOMAIN d.user -> Rows], n.device \in [DOMAIN d.device -> SessionRows],
         \A i \in LiveUsers(d) : Kin(d.user[i], n.user[i]),
         \A i \in DOMAIN d.user \ LiveUsers(d) : n.user[i] = d.user[i],
         \A k \in DOMAIN d.device : n.device[k] = Gone \/ n.device[k] = d.device[k],
         \A k \in LiveRows(d.device) : n.device[k] # Gone =>
           n.user[d.device[k].user].pw = d.user[d.device[k].user].pw
  PROVE  Keeps(d, n)
<1>1. Sound(d) /\ SharedIn(d) /\ SessionsIn(d)  BY DEF Good
<1>2. d.user \in Seq(Rows) /\ d.device \in Seq(SessionRows)  BY <1>1 DEF Sound
<1>3. Gone.live = FALSE /\ \A row \in UserRows(MaxUsers) : row.live
  BY DEF Gone, UserRows
<1>4. \A i \in LiveUsers(d) : n.user[i].live  BY <1>3 DEF Kin
<1>5. n.user \in Seq(Rows) /\ DOMAIN n.user = DOMAIN d.user /\ Len(n.user) = Len(d.user)
  BY <1>2, SeqChanged
<1>6. /\ n.device \in Seq(SessionRows) /\ DOMAIN n.device = DOMAIN d.device
      /\ Len(n.device) = Len(d.device)
  BY <1>2, SeqChanged
<1>7. LiveUsers(n) = LiveUsers(d)
  <2>1. \A i \in LiveUsers(d) : i \in LiveUsers(n)  BY <1>4, <1>5 DEF LiveUsers, LiveRows
  <2>2. ASSUME NEW i \in LiveUsers(n), i \notin LiveUsers(d) PROVE FALSE
    <3>1. i \in DOMAIN d.user /\ n.user[i].live  BY <1>5 DEF LiveUsers, LiveRows
    <3>2. n.user[i] = d.user[i]  BY <2>2, <3>1
    <3> QED BY <2>2, <3>1, <3>2 DEF LiveUsers, LiveRows
  <2> QED BY <2>1, <2>2
<1>8. ASSUME NEW k \in LiveRows(n.device)
      PROVE  k \in LiveRows(d.device) /\ n.device[k] = d.device[k] /\ n.device[k] # Gone
  <2>1. k \in DOMAIN d.device /\ n.device[k].live  BY <1>6 DEF LiveRows
  <2>2. n.device[k] # Gone  BY <1>3, <2>1
  <2>3. n.device[k] = d.device[k]  BY <2>1, <2>2
  <2> QED BY <2>1, <2>2, <2>3 DEF LiveRows
<1>9. \A k \in LiveRows(n.device) : IsUser(n, n.device[k].user)
  BY <1>1, <1>7, <1>8 DEF Sound, IsUser, IsRow, LiveUsers
<1>10. \A i \in LiveUsers(n) : n.user[i].email = d.user[i].email
                               /\ n.user[i].name = d.user[i].name /\ n.user[i].how = d.user[i].how
  BY <1>7 DEF Kin
<1>11. Sound(n)  BY <1>1, <1>5, <1>6, <1>7, <1>9, <1>10 DEF Sound
<1>12. SharedIn(n)
  <2> SUFFICES ASSUME NEW i \in LiveUsers(n), NEW j \in LiveUsers(n), i # j
               PROVE  SharedIn(n)!(i, j)
    BY DEF SharedIn
  <2>1. SharedIn(d)!(i, j)  BY <1>1, <1>7 DEF SharedIn
  <2> QED BY <1>10, <2>1
<1>13. SessionsIn(n)  BY <1>1, <1>8 DEF SessionsIn
<1> QED BY <1>5, <1>6, <1>7, <1>8, <1>11, <1>12, <1>13 DEF Good, Keeps

LEMMA KeepsOn ==
  ASSUME NEW a, NEW b, NEW c, a.codes \in Nat, Keeps(a, b), Keeps(b, c)
  PROVE  Keeps(a, c)
BY DEF Keeps, Good, Sound

\* The same, of a statement.
Kept(d, n) == n = Thrown \/ Keeps(d, n)

\* A column of some users' rows.
LEMMA RowsKept ==
  ASSUME NEW d, Good(d), NEW n, DOMAIN n = Columns, n.device = d.device, n.codes \in Nat,
         n.codes >= d.codes, n.user \in [DOMAIN d.user -> Rows],
         \A i \in DOMAIN d.user :
           \/ n.user[i] = d.user[i]
           \/ i \in LiveUsers(d) /\ Kin(d.user[i], n.user[i]) /\ n.user[i].pw = d.user[i].pw
  PROVE  Keeps(d, n)
<1>1. Sound(d)  BY DEF Good
<1>2. \A j \in LiveUsers(d) : Kin(d.user[j], n.user[j]) /\ n.user[j].pw = d.user[j].pw
  <2>1. \A j \in LiveUsers(d) : j \in DOMAIN d.user /\ Kin(d.user[j], d.user[j])
    BY <1>1, LiveFacts DEF Kin
  <2> QED BY <2>1
<1>3. \A k \in LiveRows(d.device) : n.user[d.device[k].user].pw = d.user[d.device[k].user].pw
  BY <1>1, <1>2 DEF Sound, IsUser, IsRow, LiveUsers
<1>4. n.device \in [DOMAIN d.device -> SessionRows]
  BY <1>1, LenProperties DEF Sound
<1>5. \A j \in DOMAIN d.user \ LiveUsers(d) : n.user[j] = d.user[j]  OBVIOUS
<1>6. \A k \in DOMAIN d.device : n.device[k] = Gone \/ n.device[k] = d.device[k]  OBVIOUS
<1> QED BY <1>2, <1>3, <1>4, <1>5, <1>6, Amended

\* The row of one user.
LEMMA RowKept ==
  ASSUME NEW d, Good(d), NEW i \in LiveUsers(d), NEW row,
         Kin(d.user[i], row), row.pw = d.user[i].pw
  PROVE  Keeps(d, [d EXCEPT !.user[i] = row])
<1> DEFINE n == [d EXCEPT !.user[i] = row]
<1>1. Sound(d)  BY DEF Good
<1>2. i \in DOMAIN d.user  BY DEF LiveUsers, LiveRows
<1>3. /\ DOMAIN n = Columns /\ n.codes = d.codes /\ n.device = d.device
      /\ n.user = [d.user EXCEPT ![i] = row]
  BY <1>1 DEF Sound, Columns
<1> HIDE DEF n
<1>4. n.user \in [DOMAIN d.user -> Rows]
  <2>1. row \in Rows  BY DEF Kin, Rows
  <2>2. d.user \in [DOMAIN d.user -> Rows]  BY <1>1, LenProperties DEF Sound
  <2> QED BY <1>3, <2>1, <2>2
<1>5. \A j \in DOMAIN d.user : n.user[j] = IF j = i THEN row ELSE d.user[j]  BY <1>2, <1>3
<1>6. n.codes \in Nat /\ n.codes >= d.codes  BY <1>1, <1>3 DEF Sound
<1>7. \A j \in DOMAIN d.user :
        \/ n.user[j] = d.user[j]
        \/ j \in LiveUsers(d) /\ Kin(d.user[j], n.user[j]) /\ n.user[j].pw = d.user[j].pw
  BY <1>2, <1>5
<1>9. Keeps(d, n)  BY <1>3, <1>4, <1>6, <1>7, RowsKept
<1> QED BY <1>9 DEF n

LEMMA ColumnsKept ==
  ASSUME NEW d, Good(d), NEW i
  PROVE  /\ Kept(d, confirmUser(d, i)) /\ Kept(d, removeUser(d, i))
         /\ Kept(d, banUserRow(d, i)) /\ Kept(d, unbanUserRow(d, i))
         /\ \A a \in GoogleAccounts : Kept(d, addGoogleInfoToUser(d, i, a))
         /\ \A a \in GithubAccounts : Kept(d, addGithubInfoToUser(d, i, a))
<1>1. Sound(d)  BY DEF Good
<1>2. CASE i \in LiveUsers(d)
  <2> DEFINE row == d.user[i]
  <2>1. row \in UserRows(MaxUsers)  BY <1>1, <1>2, LiveFacts
  <2>2. ASSUME NEW new, Kin(row, new), new.pw = row.pw
        PROVE  Keeps(d, [d EXCEPT !.user[i] = new])
    BY <1>2, <2>2, RowKept
  <2> HIDE DEF row
  <2>3. /\ [row EXCEPT !.confirmed = TRUE].pw = row.pw /\ [row EXCEPT !.deleted = TRUE].pw = row.pw
        /\ \A b \in BOOLEAN : [row EXCEPT !.banned = b].pw = row.pw
        /\ \A a : [row EXCEPT !.google = a].pw = row.pw /\ [row EXCEPT !.github = a].pw = row.pw
    BY <2>1 DEF UserRows
  <2>4. /\ Keeps(d, [d EXCEPT !.user[i] = [row EXCEPT !.confirmed = TRUE]])
        /\ Keeps(d, [d EXCEPT !.user[i] = [row EXCEPT !.deleted = TRUE]])
        /\ \A b \in BOOLEAN : Keeps(d, [d EXCEPT !.user[i] = [row EXCEPT !.banned = b]])
        /\ \A a \in GoogleAccounts : Keeps(d, [d EXCEPT !.user[i] = [row EXCEPT !.google = a]])
        /\ \A a \in GithubAccounts : Keeps(d, [d EXCEPT !.user[i] = [row EXCEPT !.github = a]])
    BY <2>1, <2>2, <2>3, RowsChange
  <2> QED
    BY <2>4 DEF row, Kept, Statement, confirmUser, removeUser, banUserRow, unbanUserRow,
                addGoogleInfoToUser, addGithubInfoToUser
<1>3. CASE i \notin LiveUsers(d)
  BY <1>3 DEF Kept, Statement, confirmUser, removeUser, banUserRow, unbanUserRow,
              addGoogleInfoToUser, addGithubInfoToUser, IsUser, IsRow, LiveUsers
<1> QED BY <1>2, <1>3

LEMMA CodesKept ==
  ASSUME NEW d, Good(d), NEW c
  PROVE  /\ Kept(d, removeConfirmationByToken(d, c)) /\ Kept(d, updateConfirmationByToken(d, c))
         /\ Kept(d, removeResetPasswordByCode(d, c)) /\ Kept(d, updateResetPasswordByCode(d, c))
         /\ \A i : Kept(d, createReset(d, i))
<1>1. Sound(d)  BY DEF Good
<1> DEFINE Coded(H, f, v) == [i \in DOMAIN d.user |->
                                IF i \in H THEN [d.user[i] EXCEPT ![f] = v] ELSE d.user[i]]
<1>2. ASSUME NEW n, DOMAIN n = Columns, n.device = d.device, n.codes \in Nat, n.codes >= d.codes,
             NEW H \in SUBSET LiveUsers(d), NEW f \in {"token", "reset"}, NEW v \in Nat,
             n.user = Coded(H, f, v)
      PROVE  Keeps(d, n)
  <2>1. \A i \in H : Kin(d.user[i], n.user[i]) /\ n.user[i].pw = d.user[i].pw
    <3> SUFFICES ASSUME NEW i \in H PROVE Kin(d.user[i], n.user[i]) /\ n.user[i].pw = d.user[i].pw
      OBVIOUS
    <3> DEFINE row == d.user[i]
    <3>1. row \in UserRows(MaxUsers) /\ i \in DOMAIN d.user  BY <1>1, LiveFacts
    <3>2. n.user[i] = [row EXCEPT !.token = v] \/ n.user[i] = [row EXCEPT !.reset = v]
      BY <1>2, <3>1
    <3> HIDE DEF row
    <3>3. [row EXCEPT !.token = v].pw = row.pw /\ [row EXCEPT !.reset = v].pw = row.pw
      BY <3>1 DEF UserRows
    <3>4. Kin(row, [row EXCEPT !.token = v]) /\ Kin(row, [row EXCEPT !.reset = v])
      BY <3>1, RowsChange
    <3> QED BY <3>2, <3>3, <3>4 DEF row
  <2>2. \A i \in DOMAIN d.user \ H : n.user[i] = d.user[i]  BY <1>2
  <2>3. n.user \in [DOMAIN d.user -> Rows]
    <3>1. d.user \in [DOMAIN d.user -> Rows]  BY <1>1, LenProperties DEF Sound
    <3>2. \A i \in DOMAIN d.user : n.user[i] \in Rows  BY <2>1, <2>2, <3>1 DEF Kin, Rows
    <3>3. n.user = [i \in DOMAIN d.user |-> n.user[i]]  BY <1>2
    <3> QED BY <3>2, <3>3
  <2> QED BY <1>2, <2>1, <2>2, <2>3, RowsKept
<1>3. ASSUME NEW H \in SUBSET LiveUsers(d), NEW f \in {"token", "reset"}
      PROVE  /\ Keeps(d, WithNewCode(d, H, f))
             /\ Keeps(d, [d EXCEPT !.user = Coded(H, f, 0)])
  <2> DEFINE n == WithNewCode(d, H, f)  m == [d EXCEPT !.user = Coded(H, f, 0)]
         next == d.codes + 1
  <2>1. d.codes \in Nat /\ next \in Nat /\ next >= d.codes /\ DOMAIN d = Columns  BY <1>1 DEF Sound
  <2>2. /\ DOMAIN n = Columns /\ n.device = d.device /\ n.codes = next
        /\ n.user = Coded(H, f, next)
    BY <2>1 DEF WithNewCode, Columns
  <2>3. /\ DOMAIN m = Columns /\ m.device = d.device /\ m.codes = d.codes
        /\ m.user = Coded(H, f, 0)
    BY <2>1 DEF Columns
  <2> HIDE DEF n, m, next, Coded
  <2>4. Keeps(d, n)  BY <1>2, <2>1, <2>2
  <2>5. Keeps(d, m)  BY <1>2, <2>1, <2>3
  <2> QED BY <2>4, <2>5 DEF n, m
<1>4. /\ TokenHolders(d, c) \in SUBSET LiveUsers(d) /\ ResetHolders(d, c) \in SUBSET LiveUsers(d)
      /\ \A i : IsUser(d, i) => {i} \in SUBSET LiveUsers(d)
  BY DEF TokenHolders, ResetHolders, IsUser, IsRow, LiveUsers
<1>5. /\ Kept(d, updateConfirmationByToken(d, c)) /\ Kept(d, updateResetPasswordByCode(d, c))
      /\ \A i : Kept(d, createReset(d, i))
  BY <1>3, <1>4 DEF updateConfirmationByToken, updateResetPasswordByCode, createReset,
                    Statement, Kept
<1>6. /\ Kept(d, removeConfirmationByToken(d, c)) /\ Kept(d, removeResetPasswordByCode(d, c))
  BY <1>3, <1>4 DEF removeConfirmationByToken, removeResetPasswordByCode, Statement, Kept
<1> QED BY <1>5, <1>6

LEMMA SessionsKept ==
  ASSUME NEW d, Good(d)
  PROVE  /\ \A K : Keeps(d, deleteSessionsById(d, K))
         /\ \A k : Kept(d, deleteDevice(d, k))
<1>1. Sound(d)  BY DEF Good
<1>2. /\ d.user \in [DOMAIN d.user -> Rows] /\ d.device \in [DOMAIN d.device -> SessionRows]
      /\ DOMAIN d = Columns /\ d.codes \in Nat /\ Gone \in SessionRows
  BY <1>1, LenProperties DEF Sound, SessionRows
<1>3. \A i \in LiveUsers(d) : Kin(d.user[i], d.user[i])  BY <1>1, LiveFacts DEF Kin
<1>4. ASSUME NEW devices \in [DOMAIN d.device -> SessionRows],
             \A k \in DOMAIN d.device : devices[k] = Gone \/ devices[k] = d.device[k]
      PROVE  Keeps(d, [d EXCEPT !.device = devices])
  <2> DEFINE n == [d EXCEPT !.device = devices]
  <2>1. DOMAIN n = Columns /\ n.codes = d.codes /\ n.user = d.user /\ n.device = devices
    BY <1>2 DEF Columns
  <2> HIDE DEF n
  <2>2. n.codes >= d.codes  BY <1>2, <2>1
  <2>3. Keeps(d, n)  BY <1>2, <1>3, <1>4, <2>1, <2>2, Amended
  <2> QED BY <2>3 DEF n
<1>5. ASSUME NEW K PROVE Keeps(d, deleteSessionsById(d, K))
  <2> DEFINE devices == DeleteRows(d.device, K)
  <2>1. /\ devices \in [DOMAIN d.device -> SessionRows]
        /\ \A k \in DOMAIN d.device : devices[k] = Gone \/ devices[k] = d.device[k]
    BY <1>2 DEF DeleteRows
  <2>2. d # Thrown  BY <1>2 DEF Thrown, Columns
  <2> HIDE DEF devices
  <2>3. Keeps(d, [d EXCEPT !.device = devices])  BY <1>4, <2>1
  <2> QED BY <2>2, <2>3 DEF deleteSessionsById, Statement, devices
<1>6. ASSUME NEW k, IsDevice(d, k) PROVE Keeps(d, [d EXCEPT !.device[k] = Gone])
  <2> DEFINE devices == [d.device EXCEPT ![k] = Gone]
  <2>1. /\ devices \in [DOMAIN d.device -> SessionRows]
        /\ \A l \in DOMAIN d.device : devices[l] = Gone \/ devices[l] = d.device[l]
    BY <1>2
  <2> HIDE DEF devices
  <2>2. Keeps(d, [d EXCEPT !.device = devices])  BY <1>4, <2>1
  <2> QED BY <2>2 DEF devices
<1>7. \A k : Kept(d, deleteDevice(d, k))  BY <1>6 DEF deleteDevice, Statement, Kept
<1> QED BY <1>5, <1>7

\* handleUpdatePassword: the password changes, and the sessions of the user go.
PasswordReset(d, i, p, c) ==
  LET reset == removeResetPasswordByCode(updatePassword(d, i, p), c)
  IN IF reset = Thrown THEN Thrown ELSE deleteAllSessionsForUser(reset, i)

LEMMA PasswordKept ==
  ASSUME NEW d, Good(d), NEW i, NEW p \in Passwords, NEW c
  PROVE  Kept(d, PasswordReset(d, i, p, c))
<1>1. Sound(d)  BY DEF Good
<1>2. /\ d.user \in [DOMAIN d.user -> Rows] /\ d.device \in [DOMAIN d.device -> SessionRows]
      /\ DOMAIN d = Columns /\ d.codes \in Nat /\ Gone \in SessionRows
  BY <1>1, LenProperties DEF Sound, SessionRows
<1> DEFINE changed == [d EXCEPT !.user[i].pw = p]
           holders == ResetHolders(changed, c)
           users == [j \in DOMAIN changed.user |->
             IF j \in holders THEN [changed.user[j] EXCEPT !.reset = 0] ELSE changed.user[j]]
           reset == [changed EXCEPT !.user = users]
           n == [reset EXCEPT !.device = DeleteRows(@, DevicesOf(reset, i))]
<1>3. PasswordReset(d, i, p, c) = Thrown \/ (IsUser(d, i) /\ PasswordReset(d, i, p, c) = n)
  BY DEF PasswordReset, removeResetPasswordByCode, updatePassword, deleteAllSessionsForUser,
         Statement
<1>4. CASE IsUser(d, i)
  <2> DEFINE row == [d.user[i] EXCEPT !.pw = p]
  <2>1. i \in DOMAIN d.user /\ i \in LiveUsers(d)
    BY <1>4 DEF IsUser, IsRow, LiveRows, LiveUsers
  <2>2. /\ DOMAIN changed = Columns /\ changed.user = [d.user EXCEPT ![i] = row]
        /\ changed.device = d.device /\ changed.codes = d.codes
    BY <1>2, <2>1 DEF Columns
  <2>3. \A j \in DOMAIN d.user : changed.user[j] = IF j = i THEN row ELSE d.user[j]
    BY <2>1, <2>2
  <2> HIDE DEF changed
  <2>4. \A j \in LiveUsers(d) : Kin(d.user[j], changed.user[j])
    <3>1. Kin(d.user[i], row)  BY <1>1, <2>1, LiveFacts, RowsChange
    <3>2. \A j \in LiveUsers(d) : j \in DOMAIN d.user /\ Kin(d.user[j], d.user[j])
      BY <1>1, LiveFacts DEF Kin
    <3> HIDE DEF row
    <3> QED BY <2>3, <3>1, <3>2
  <2>5. /\ DOMAIN reset = Columns /\ reset.user = users /\ reset.device = d.device
        /\ reset.codes = d.codes
    BY <2>2 DEF Columns
  <2> HIDE DEF reset
  <2>6. /\ DOMAIN n = Columns /\ n.user = users /\ n.codes = d.codes
        /\ n.device = DeleteRows(d.device, DevicesOf(reset, i))
    BY <2>5 DEF Columns
  <2>7. DevicesOf(reset, i) = DevicesOf(d, i)  BY <2>5 DEF DevicesOf
  <2> HIDE DEF n
  <2>8. DOMAIN changed.user = DOMAIN d.user  BY <2>2
  <2>9. \A j \in DOMAIN d.user : users[j] = IF j \in holders THEN [changed.user[j] EXCEPT !.reset = 0]
                                            ELSE changed.user[j]
    BY <2>8
  <2>10. \A j \in DOMAIN d.user \ LiveUsers(d) : changed.user[j] = Gone /\ j \notin holders
    <3>1. \A j \in DOMAIN d.user \ LiveUsers(d) : changed.user[j] = Gone
      BY <1>1, <2>1, <2>3, LiveFacts
    <3> QED BY <3>1 DEF holders, ResetHolders, LiveUsers, LiveRows, Gone
  <2>11. \A j \in LiveUsers(d) : Kin(d.user[j], users[j])
    <3> SUFFICES ASSUME NEW j \in LiveUsers(d) PROVE Kin(d.user[j], users[j])
      OBVIOUS
    <3>1. j \in DOMAIN d.user /\ changed.user[j] \in UserRows(MaxUsers)
      BY <1>1, <2>4, LiveFacts DEF Kin
    <3>2. Kin(changed.user[j], [changed.user[j] EXCEPT !.reset = 0])  BY <3>1, RowsChange
    <3> QED BY <2>4, <2>9, <3>1, <3>2 DEF Kin
  <2>12. \A j \in DOMAIN d.user \ LiveUsers(d) : users[j] = d.user[j]
    BY <1>1, <2>9, <2>10, LiveFacts
  <2>13. users = [j \in DOMAIN d.user |-> users[j]]  BY <2>8
  <2>14. \A j \in LiveUsers(d) \ {i} : users[j].pw = d.user[j].pw
    <3> SUFFICES ASSUME NEW j \in LiveUsers(d) \ {i} PROVE users[j].pw = d.user[j].pw
      OBVIOUS
    <3>1. j \in DOMAIN d.user /\ changed.user[j] = d.user[j] /\ d.user[j] \in UserRows(MaxUsers)
      BY <1>1, <2>3, LiveFacts
    <3>2. [d.user[j] EXCEPT !.reset = 0].pw = d.user[j].pw  BY <3>1 DEF UserRows
    <3> QED BY <2>9, <3>1, <3>2
  <2> HIDE DEF users, holders
  <2>15. users \in [DOMAIN d.user -> Rows]
    <3>1. \A j \in DOMAIN d.user : users[j] \in Rows  BY <1>2, <2>11, <2>12 DEF Kin, Rows
    <3> QED BY <2>13, <3>1
  <2>a. n.device = [k \in DOMAIN d.device |-> IF k \in DevicesOf(d, i) THEN Gone ELSE d.device[k]]
    BY <2>6, <2>7 DEF DeleteRows
  <2>16. /\ n.device \in [DOMAIN d.device -> SessionRows]
         /\ \A k \in DOMAIN d.device : n.device[k] = Gone \/ n.device[k] = d.device[k]
         /\ \A k \in LiveRows(d.device) : n.device[k] # Gone => d.device[k].user # i
    <3>1. \A k \in LiveRows(d.device) : k \in DOMAIN d.device  BY DEF LiveRows
    <3> QED BY <1>2, <2>a, <3>1 DEF DevicesOf
  <2>17. \A k \in LiveRows(d.device) : n.device[k] # Gone =>
           n.user[d.device[k].user].pw = d.user[d.device[k].user].pw
    BY <1>1, <2>6, <2>14, <2>16 DEF Sound, IsUser, IsRow, LiveUsers
  <2>18. n.codes >= d.codes  BY <1>2, <2>6
  <2>19. Keeps(d, n)  BY <1>2, <2>6, <2>11, <2>12, <2>15, <2>16, <2>17, <2>18, Amended
  <2> QED BY <1>3, <2>19 DEF Kept
<1> QED BY <1>3, <1>4 DEF Kept

\* A user goes, and his sessions.
Removes(d, n, i) ==
  /\ Good(n) /\ n.codes = d.codes
  /\ Len(n.user) = Len(d.user) /\ Len(n.device) = Len(d.device)
  /\ LiveUsers(n) = LiveUsers(d) \ {i}
  /\ \A j \in LiveUsers(n) : n.user[j] = d.user[j]
  /\ \A k \in LiveRows(n.device) : k \in LiveRows(d.device) /\ n.device[k] = d.device[k]

LEMMA UserRemoved ==
  ASSUME NEW d, Good(d), NEW i
  PROVE  removeUserById(d, i) = Thrown \/ Removes(d, removeUserById(d, i), i)
<1>1. Sound(d) /\ SharedIn(d) /\ SessionsIn(d)  BY DEF Good
<1>2. /\ d.user \in Seq(Rows) /\ d.device \in Seq(SessionRows)
      /\ d.user \in [DOMAIN d.user -> Rows] /\ d.device \in [DOMAIN d.device -> SessionRows]
      /\ DOMAIN d = Columns /\ d.codes \in Nat /\ Gone \in SessionRows /\ Gone \in Rows
      /\ Gone.live = FALSE
  BY <1>1, LenProperties DEF Sound, SessionRows, Rows, Gone
<1>3. CASE IsUser(d, i)
  <2> DEFINE n == [d EXCEPT !.user[i] = Gone, !.device = DeleteRows(@, DevicesOf(d, i))]
  <2>1. i \in DOMAIN d.user  BY <1>3 DEF IsUser, IsRow, LiveRows
  <2>2. /\ DOMAIN n = Columns /\ n.user = [d.user EXCEPT ![i] = Gone] /\ n.codes = d.codes
        /\ n.device = [k \in DOMAIN d.device |-> IF k \in DevicesOf(d, i) THEN Gone ELSE d.device[k]]
    BY <1>2 DEF Columns, DeleteRows
  <2>3. removeUserById(d, i) = n  BY <1>2, <1>3 DEF removeUserById, Statement, Thrown, Columns
  <2> HIDE DEF n
  <2>4. n.user \in [DOMAIN d.user -> Rows] /\ n.device \in [DOMAIN d.device -> SessionRows]
    BY <1>2, <2>2
  <2>5. /\ n.user \in Seq(Rows) /\ DOMAIN n.user = DOMAIN d.user /\ Len(n.user) = Len(d.user)
        /\ n.device \in Seq(SessionRows) /\ DOMAIN n.device = DOMAIN d.device
        /\ Len(n.device) = Len(d.device)
    BY <1>2, <2>4, SeqChanged
  <2>6. \A j \in DOMAIN d.user : n.user[j] = IF j = i THEN Gone ELSE d.user[j]  BY <2>1, <2>2
  <2>7. LiveUsers(n) = LiveUsers(d) \ {i}
    BY <1>2, <2>5, <2>6 DEF LiveUsers, LiveRows
  <2>8. \A j \in LiveUsers(n) : n.user[j] = d.user[j]
    BY <2>5, <2>6, <2>7 DEF LiveUsers, LiveRows
  <2>9. ASSUME NEW k \in LiveRows(n.device)
        PROVE  k \in LiveRows(d.device) /\ n.device[k] = d.device[k] /\ d.device[k].user # i
    <3>1. k \in DOMAIN d.device /\ n.device[k].live  BY <2>5 DEF LiveRows
    <3>2. k \notin DevicesOf(d, i) /\ n.device[k] = d.device[k]  BY <1>2, <2>2, <3>1
    <3>3. k \in LiveRows(d.device)  BY <3>1, <3>2 DEF LiveRows
    <3> QED BY <3>2, <3>3 DEF DevicesOf
  <2>10. \A k \in LiveRows(n.device) : IsUser(n, n.device[k].user)
    BY <1>1, <2>7, <2>9 DEF Sound, IsUser, IsRow, LiveUsers
  <2>11. Sound(n)  BY <1>1, <2>2, <2>5, <2>7, <2>8, <2>10 DEF Sound
  <2>12. SharedIn(n)
    <3> SUFFICES ASSUME NEW j \in LiveUsers(n), NEW l \in LiveUsers(n), j # l
                 PROVE  SharedIn(n)!(j, l)
      BY DEF SharedIn
    <3>1. SharedIn(d)!(j, l)  BY <1>1, <2>7 DEF SharedIn
    <3> QED BY <2>8, <3>1
  <2>13. SessionsIn(n)
    <3>1. \A k \in LiveRows(n.device) : n.user[n.device[k].user] = d.user[d.device[k].user]
      BY <2>8, <2>9, <2>10 DEF IsUser, IsRow, LiveUsers
    <3> QED BY <1>1, <2>9, <3>1 DEF SessionsIn
  <2> QED BY <2>2, <2>3, <2>5, <2>7, <2>8, <2>9, <2>11, <2>12, <2>13 DEF Removes, Good
<1> QED BY <1>3 DEF removeUserById, Statement

\* A user more.
Makes(d, n, row) ==
  /\ Good(n) /\ n.codes >= d.codes
  /\ n.user = Append(d.user, row) /\ n.device = d.device
  /\ Len(n.user) = Len(d.user) + 1 /\ LiveUsers(n) = LiveUsers(d) \cup {Len(d.user) + 1}
  /\ \A i \in LiveUsers(d) : n.user[i] = d.user[i]

LEMMA UserMade ==
  ASSUME NEW d, Good(d), NEW n, DOMAIN n = Columns, n.codes \in Nat, n.codes >= d.codes,
         n.device = d.device, NEW row \in UserRows(MaxUsers), n.user = Append(d.user, row),
         row.name \in Names \/ \E e \in Emails : row.name = generateUniqUserName(e, Len(d.user) + 1),
         \A i \in LiveUsers(d) : d.user[i].email = row.email
           => {d.user[i].how, row.how} \cap {"raced", "crossed"} # {},
         \A i \in LiveUsers(d) : d.user[i].name = row.name
           => \/ "raced" \in {d.user[i].how, row.how}
              \/ \E e \in Emails : BaseOf[e] \in LongBases /\ row.name = generateUniqUserName(e, 0)
  PROVE  Makes(d, n, row)
<1> DEFINE m == Len(d.user) + 1
<1>1. Sound(d) /\ SharedIn(d) /\ SessionsIn(d)  BY DEF Good
<1>2. /\ d.user \in Seq(Rows) /\ d.device \in Seq(SessionRows)
      /\ row \in Rows /\ row.live /\ Len(d.user) \in Nat
  <2>1. row \in Rows /\ row.live  BY DEF Rows, UserRows
  <2> QED BY <1>1, <2>1, SeqFacts DEF Sound
<1>3. /\ n.user \in Seq(Rows) /\ Len(n.user) = m
      /\ DOMAIN n.user = DOMAIN d.user \cup {m} /\ m \notin DOMAIN d.user
      /\ \A i \in DOMAIN d.user : n.user[i] = d.user[i]
      /\ n.user[m] = row
  BY <1>2, SeqAppended
<1> HIDE DEF m
<1>4. LiveUsers(n) = LiveUsers(d) \cup {m}  BY <1>2, <1>3 DEF LiveUsers, LiveRows
<1>5. \A i \in LiveUsers(d) : n.user[i] = d.user[i] /\ i # m  BY <1>3 DEF LiveUsers, LiveRows
<1>6. \A k \in LiveRows(n.device) : IsUser(n, n.device[k].user) /\ n.device[k].user \in LiveUsers(d)
  BY <1>1, <1>4 DEF Sound, IsUser, IsRow, LiveUsers
<1>7. \A i \in LiveUsers(n) :
        n.user[i].name \in Names \/ \E e \in Emails : n.user[i].name = generateUniqUserName(e, i)
  BY <1>1, <1>3, <1>4, <1>5 DEF Sound, m
<1>8. Sound(n)  BY <1>1, <1>3, <1>6, <1>7 DEF Sound
<1>9. SharedIn(n)
  <2>1. ASSUME NEW i \in LiveUsers(d), NEW j \in LiveUsers(d), i # j PROVE SharedIn(n)!(i, j)
    <3>1. SharedIn(d)!(i, j)  BY <1>1, <2>1 DEF SharedIn
    <3> QED BY <1>5, <3>1
  <2>2. ASSUME NEW i \in LiveUsers(d) PROVE SharedIn(n)!(i, m) /\ SharedIn(n)!(m, i)
    <3>1. \A e \in Emails : BaseOf[e] \in LongBases =>
            generateUniqUserName(e, 0) = generateUniqUserName(e, i)
            /\ generateUniqUserName(e, 0) = generateUniqUserName(e, m)
      BY DEF generateUniqUserName
    <3>2. n.user[i] = d.user[i] /\ n.user[m] = row /\ i # m  BY <1>3, <1>5
    <3>3. d.user[i].email = row.email =>
            d.user[i].how \in {"raced", "crossed"} \/ row.how \in {"raced", "crossed"}
      OBVIOUS
    <3>4. d.user[i].name = row.name =>
            \/ "raced" = d.user[i].how \/ "raced" = row.how
            \/ \E e \in Emails : /\ BaseOf[e] \in LongBases
                                 /\ row.name = generateUniqUserName(e, i)
                                 /\ row.name = generateUniqUserName(e, m)
      BY <3>1
    <3> QED BY <3>2, <3>3, <3>4
  <2> SUFFICES ASSUME NEW i \in LiveUsers(n), NEW j \in LiveUsers(n), i # j
               PROVE  SharedIn(n)!(i, j)
    BY DEF SharedIn
  <2>3. CASE i \in LiveUsers(d) /\ j \in LiveUsers(d)  BY <2>1, <2>3
  <2>4. CASE i = m \/ j = m  BY <1>4, <2>2, <2>4
  <2> QED BY <1>4, <2>3, <2>4
<1>10. SessionsIn(n)  BY <1>1, <1>5, <1>6 DEF SessionsIn
<1> QED BY <1>3, <1>4, <1>5, <1>8, <1>9, <1>10 DEF Makes, Good, m

\* A session more.
Opens(d, n, s) ==
  /\ Good(n) /\ n.codes = d.codes
  /\ n.user = d.user /\ n.device = Append(d.device, s)
  /\ Len(n.device) = Len(d.device) + 1 /\ n.device[Len(d.device) + 1] = s
  /\ LiveRows(n.device) = LiveRows(d.device) \cup {Len(d.device) + 1}
  /\ \A k \in LiveRows(d.device) : n.device[k] = d.device[k]

NewSession(i, iat, pw, alone) ==
  [live |-> TRUE, user |-> i, iat |-> iat, pw |-> pw, alone |-> alone, renewedAlone |-> alone]

LEMMA SessionMade ==
  ASSUME NEW d, Good(d), NEW i, NEW iat \in Nat, NEW pw \in Passwords \cup {None},
         NEW alone \in BOOLEAN, alone => pw = None \/ pw = d.user[i].pw
  PROVE  createSession(d, i, iat, pw, alone) = Thrown
           \/ Opens(d, createSession(d, i, iat, pw, alone), NewSession(i, iat, pw, alone))
<1> DEFINE s == NewSession(i, iat, pw, alone)  m == Len(d.device) + 1
           n == [d EXCEPT !.device = Append(@, s)]
<1>1. Sound(d) /\ SharedIn(d) /\ SessionsIn(d)  BY DEF Good
<1>2. CASE IsUser(d, i)
  <2>1. /\ d.user \in Seq(Rows) /\ d.device \in Seq(SessionRows) /\ Len(d.device) \in Nat
        /\ d.codes \in Nat /\ DOMAIN d = Columns
    BY <1>1, SeqFacts DEF Sound
  <2>2. i \in Nat \ {0} /\ i \in LiveUsers(d)
    BY <1>1, <1>2, LiveFacts DEF IsUser, IsRow, LiveUsers
  <2>3. s \in SessionRows /\ s.live /\ s.user = i /\ s.pw = pw /\ s.alone = alone
    BY <2>2 DEF SessionRows, DeviceRows, NewSession
  <2>4. /\ DOMAIN n = Columns /\ n.codes = d.codes /\ n.user = d.user
        /\ n.device = Append(d.device, s)
    BY <2>1 DEF Columns
  <2>5. createSession(d, i, iat, pw, alone) = n
    <3>1. d # Thrown  BY <2>1 DEF Thrown, Columns
    <3> QED BY <1>2, <3>1 DEF createSession, Statement, NewSession
  <2> HIDE DEF n, s
  <2>6. /\ n.device \in Seq(SessionRows) /\ Len(n.device) = m
        /\ DOMAIN n.device = DOMAIN d.device \cup {m} /\ m \notin DOMAIN d.device
        /\ \A k \in DOMAIN d.device : n.device[k] = d.device[k]
        /\ n.device[m] = s
    BY <2>1, <2>3, <2>4, SeqAppended
  <2> HIDE DEF m
  <2>7. LiveRows(n.device) = LiveRows(d.device) \cup {m}  BY <2>3, <2>6 DEF LiveRows
  <2>8. \A k \in LiveRows(d.device) : n.device[k] = d.device[k]  BY <2>6 DEF LiveRows
  <2>9. \A k \in LiveRows(n.device) : IsUser(n, n.device[k].user)
    BY <1>1, <1>2, <2>3, <2>4, <2>6, <2>7, <2>8 DEF Sound, IsUser
  <2>10. Sound(n)  BY <1>1, <2>4, <2>6, <2>9 DEF Sound, LiveUsers
  <2>11. SharedIn(n)  BY <1>1, <2>4 DEF SharedIn, LiveUsers
  <2>12. SessionsIn(n)
    <3>1. ASSUME NEW k \in LiveRows(d.device) PROVE SessionsIn(n)!(k)
      BY <1>1, <2>4, <2>8 DEF SessionsIn
    <3>2. SessionsIn(n)!(m)  BY <2>3, <2>4, <2>6
    <3> QED BY <2>7, <3>1, <3>2 DEF SessionsIn
  <2> QED BY <2>4, <2>5, <2>6, <2>7, <2>8, <2>10, <2>11, <2>12 DEF Opens, Good, m, s
<1> QED BY <1>2 DEF createSession, Statement

\* A session is active again.
Renews(d, n, k, iat, alone) ==
  /\ Good(n) /\ n.codes = d.codes /\ n.user = d.user /\ Len(n.device) = Len(d.device)
  /\ LiveRows(n.device) = LiveRows(d.device) /\ k \in LiveRows(d.device)
  /\ \A l \in LiveRows(d.device) \ {k} : n.device[l] = d.device[l]
  /\ n.device[k].iat = iat /\ n.device[k].user = d.device[k].user
  /\ n.device[k].renewedAlone => d.device[k].renewedAlone /\ alone

LEMMA SessionRenewed ==
  ASSUME NEW d, Good(d), NEW k, NEW iat \in Nat, NEW alone \in BOOLEAN
  PROVE  updateLastActiveDate(d, k, iat, alone) = Thrown
           \/ Renews(d, updateLastActiveDate(d, k, iat, alone), k, iat, alone)
<1> DEFINE dated == [d EXCEPT !.device[k].iat = iat]
           n == [dated EXCEPT !.device[k].renewedAlone = @ /\ alone]
           s == [[d.device[k] EXCEPT !.iat = iat] EXCEPT
                   !.renewedAlone = [d.device[k] EXCEPT !.iat = iat].renewedAlone /\ alone]
<1>1. Sound(d) /\ SharedIn(d) /\ SessionsIn(d)  BY DEF Good
<1>2. CASE IsDevice(d, k)
  <2>1. /\ d.user \in Seq(Rows) /\ d.device \in Seq(SessionRows) /\ d.codes \in Nat
        /\ d.device \in [DOMAIN d.device -> SessionRows] /\ DOMAIN d = Columns
    BY <1>1, LenProperties DEF Sound
  <2>2. k \in DOMAIN d.device /\ k \in LiveRows(d.device) /\ d.device[k] \in DeviceRows
    BY <1>1, <1>2, LiveFacts DEF IsDevice, IsRow
  <2>3. /\ s \in DeviceRows /\ s.live /\ s.user = d.device[k].user /\ s.pw = d.device[k].pw
        /\ s.alone = d.device[k].alone /\ s.iat = iat
        /\ s.renewedAlone => d.device[k].renewedAlone /\ alone
    BY <2>2 DEF DeviceRows
  <2>4. updateLastActiveDate(d, k, iat, alone) = n
    <3>1. d # Thrown  BY <2>1 DEF Thrown, Columns
    <3> QED BY <1>2, <3>1 DEF updateLastActiveDate, Statement
  <2>5. /\ DOMAIN n = Columns /\ n.codes = d.codes /\ n.user = d.user
        /\ n.device \in [DOMAIN d.device -> {s} \cup SessionRows]
        /\ \A l \in DOMAIN d.device : n.device[l] = IF l = k THEN s ELSE d.device[l]
    <3>1. /\ DOMAIN dated = Columns /\ dated.codes = d.codes /\ dated.user = d.user
          /\ dated.device = [d.device EXCEPT ![k].iat = iat]
      BY <2>1 DEF Columns
    <3> HIDE DEF dated
    <3>2. /\ DOMAIN n = Columns /\ n.codes = d.codes /\ n.user = d.user
          /\ n.device = [dated.device EXCEPT ![k].renewedAlone = @ /\ alone]
      BY <3>1 DEF Columns
    <3>3. DOMAIN dated.device = DOMAIN d.device /\ dated.device[k] = [d.device[k] EXCEPT !.iat = iat]
      BY <2>2, <3>1
    <3>4. \A l \in DOMAIN d.device : n.device[l] = IF l = k THEN s ELSE d.device[l]
      <4>1. \A l \in DOMAIN d.device : l # k => dated.device[l] = d.device[l]  BY <3>1
      <4>2. n.device[k] = [dated.device[k] EXCEPT !.renewedAlone = dated.device[k].renewedAlone /\ alone]
        BY <2>2, <3>2, <3>3
      <4>3. \A l \in DOMAIN d.device : l # k => n.device[l] = dated.device[l]  BY <3>2, <3>3
      <4>4. n.device[k] = s  BY <3>3, <4>2
      <4> QED BY <4>1, <4>3, <4>4
    <3>5. n.device = [l \in DOMAIN d.device |-> n.device[l]]  BY <3>2, <3>3
    <3> QED BY <2>1, <3>2, <3>4, <3>5
  <2> HIDE DEF n, s
  <2>6. n.device \in [DOMAIN d.device -> SessionRows]  BY <2>1, <2>3, <2>5 DEF SessionRows
  <2>7. /\ n.device \in Seq(SessionRows) /\ DOMAIN n.device = DOMAIN d.device
        /\ Len(n.device) = Len(d.device)
    BY <2>1, <2>6, SeqChanged
  <2>8. \A l \in DOMAIN d.device : n.device[l] = IF l = k THEN s ELSE d.device[l]  BY <2>5
  <2>9. LiveRows(n.device) = LiveRows(d.device)  BY <2>2, <2>3, <2>7, <2>8 DEF LiveRows
  <2>10. \A l \in LiveRows(d.device) : /\ n.device[l].user = d.device[l].user
                                       /\ n.device[l].pw = d.device[l].pw
                                       /\ n.device[l].alone = d.device[l].alone
    BY <2>3, <2>8 DEF LiveRows
  <2>11. \A l \in LiveRows(d.device) \ {k} : n.device[l] = d.device[l]  BY <2>8 DEF LiveRows
  <2>12. Sound(n)  BY <1>1, <2>5, <2>7, <2>9, <2>10 DEF Sound, IsUser, LiveUsers
  <2>13. SharedIn(n)  BY <1>1, <2>5 DEF SharedIn, LiveUsers
  <2>14. SessionsIn(n)  BY <1>1, <2>5, <2>9, <2>10 DEF SessionsIn
  <2> QED BY <2>2, <2>3, <2>4, <2>5, <2>7, <2>8, <2>9, <2>11, <2>12, <2>13, <2>14 DEF Renews, Good
<1> QED BY <1>2 DEF updateLastActiveDate, Statement

(***************************************************************************)
(* What a step does to the requests.                                       *)
(***************************************************************************)

others == <<lapsed, now, scene, moves, faults>>

\* Handler h ends; its tables are good, and it is not answered 500 when alone.
EndsWell(h) ==
  /\ job' = [job EXCEPT ![h] = Idle] /\ UNCHANGED others /\ oops' = oops
  /\ TablesInv' /\ IssuedInv' /\ tables'.codes >= tables.codes /\ issued \subseteq issued'
  /\ \A i \in LiveUsers(tables) : tables.user[i].confirmed /\ ~IsUser(tables', i) => ~job[h].alone

\* Handler h goes on, and nothing else changes.
GoesOn(h) ==
  /\ UNCHANGED <<tables, issued, oops>> /\ UNCHANGED others
  /\ job' = [job EXCEPT ![h] = job'[h]] /\ job'[h] # Idle
  /\ job'[h].op = job[h].op /\ job'[h].arg = job[h].arg /\ job'[h].alone = job[h].alone
  /\ DOMAIN job'[h] = Fields /\ (job'[h].pc # "find" => job'[h].todo = {})

\* What every step does.
Preserves ==
  /\ StateInv' /\ oops' = oops
  /\ \A i \in LiveUsers(tables) : tables.user[i].confirmed /\ ~IsUser(tables', i) => RaceEnds

LEMMA NobodyLeaves ==
  ASSUME tables' = tables
  PROVE  \A i \in LiveUsers(tables) : IsUser(tables', i)
BY DEF LiveUsers, IsUser, IsRow

LEMMA EndsInv ==
  ASSUME StateInv, NEW h \in Slots, Busy(h), EndsWell(h)
  PROVE  Preserves
<1>1. /\ TablesInv /\ BoundsInv /\ IssuedInv /\ JobsInv /\ AloneInv /\ CurrentInv
      /\ DOMAIN job = Slots
  BY DEF StateInv, JobsInv
<1>2. job'[h] = Idle /\ \A g \in Slots \ {h} : job'[g] = job[g]  BY <1>1 DEF EndsWell
<1>3. DOMAIN job' = Slots  BY <1>1 DEF EndsWell
<1>4. TablesInv' /\ IssuedInv'  BY DEF EndsWell
<1>5. BoundsInv'
  <2>1. tables.codes \in Nat /\ tables'.codes \in Nat
    BY <1>1, <1>4 DEF TablesInv, Good, Sound
  <2>2. 1 .. tables.codes \subseteq 1 .. tables'.codes  BY <2>1 DEF EndsWell
  <2> QED BY <1>1, <2>2 DEF BoundsInv, EndsWell, others
<1>6. JobsInv'
  <2>1. ASSUME NEW g \in Slots, Busy(g)' PROVE JobOK(g)'
    <3>1. g # h /\ job'[g] = job[g] /\ Busy(g) /\ JobOK(g)
      BY <1>1, <1>2, <2>1 DEF Busy, JobsInv
    <3>2. now' = now /\ issued \subseteq issued'  BY DEF EndsWell, others
    <3> QED BY <3>1, <3>2 DEF JobOK, ArgOK, Arg, Got
  <2> QED BY <1>3, <2>1 DEF JobsInv
<1>7. ASSUME NEW g \in Slots, Busy(g)' PROVE Busy(g) /\ g # h /\ job'[g] = job[g] /\ ~job'[g].alone
  <2>1. Busy(g) /\ g # h /\ job'[g] = job[g]  BY <1>2, <1>7 DEF Busy
  <2> QED BY <1>1, <2>1 DEF AloneInv
<1>8. AloneInv'  BY <1>7 DEF AloneInv
<1>9. CurrentInv'  BY <1>7 DEF CurrentInv
<1>10. ~job[h].alone => RaceEnds  BY <1>2 DEF RaceEnds
<1> QED BY <1>4, <1>5, <1>6, <1>8, <1>9, <1>10 DEF StateInv, Preserves, EndsWell

LEMMA GoesOnInv ==
  ASSUME StateInv, NEW h \in Slots, Busy(h), GoesOn(h),
         job[h].op = "renew" /\ job'[h].pc = "write" => job'[h].got["signed"] \in 0..now,
         job[h].alone => (CurrentRows(h) /\ CurrentDecision(h))'
  PROVE  Preserves
<1>1. /\ TablesInv /\ BoundsInv /\ IssuedInv /\ JobsInv /\ AloneInv /\ CurrentInv
      /\ DOMAIN job = Slots
  BY DEF StateInv, JobsInv
<1>2. \A g \in Slots \ {h} : job'[g] = job[g]  BY <1>1 DEF GoesOn
<1>3. DOMAIN job' = Slots  BY <1>1 DEF GoesOn
<1>4. tables' = tables /\ issued' = issued /\ now' = now  BY DEF GoesOn, others
<1>5. TablesInv' /\ BoundsInv' /\ IssuedInv'
  BY <1>1 DEF TablesInv, BoundsInv, IssuedInv, GoesOn, others
<1>6. JobsInv'
  <2>1. ASSUME NEW g \in Slots, Busy(g)', g # h PROVE JobOK(g)'
    <3>1. job'[g] = job[g] /\ JobOK(g)  BY <1>1, <1>2, <2>1 DEF Busy, JobsInv
    <3> QED BY <1>4, <3>1 DEF JobOK, ArgOK, Arg, Got
  <2>2. JobOK(h)'
    <3>1. JobOK(h)  BY <1>1 DEF JobsInv
    <3> QED BY <1>4, <3>1 DEF JobOK, ArgOK, Arg, Got, GoesOn, TokenOps
  <2> QED BY <1>3, <2>1, <2>2 DEF JobsInv
<1>7. \A g \in Slots : Busy(g)' => Busy(g) /\ job'[g].alone = job[g].alone
  BY <1>2 DEF Busy, GoesOn
<1>8. AloneInv'  BY <1>1, <1>7 DEF AloneInv
<1>9. CurrentInv'
  <2>1. ASSUME NEW g \in Slots, Busy(g)', job'[g].alone PROVE g = h
    BY <1>1, <1>7, <2>1 DEF AloneInv
  <2> QED BY <1>7, <2>1 DEF CurrentInv
<1> QED BY <1>4, <1>5, <1>6, <1>8, <1>9, NobodyLeaves DEF StateInv, Preserves, GoesOn

LEMMA BeginsInv ==
  ASSUME StateInv, NEW h \in Slots, NEW op \in Ops, NEW arg, NEW pc, NEW todo,
         Ask(h, op, arg, pc, todo),
         pc \notin {"load", "write"} \/ op = "deleteUser", pc # "find" => todo = {},
         op = "registration" => arg \in RegistrationDtos /\ {"email", "name"} \subseteq todo,
         op \in {"confirm", "resend", "login", "restore", "restoreConfirm"} => "user" \in todo,
         op \in {"google", "github"} => {"account", "email"} \subseteq todo,
         op = "google" => arg.account \in GoogleAccounts,
         op = "github" => arg.account \in GithubAccounts,
         op = "login" => arg \in LoginDtos, op = "restoreConfirm" => arg.pw \in Passwords,
         op \in TokenOps => arg.token \in issued
  PROVE  StateInv'
<1>1. /\ TablesInv /\ BoundsInv /\ IssuedInv /\ JobsInv /\ AloneInv /\ CurrentInv
      /\ DOMAIN job = Slots
  BY DEF StateInv, JobsInv
<1> DEFINE request == [Request(op, arg, pc, todo) EXCEPT !.alone = @ /\ \A f \in Slots : ~Busy(f)]
<1>2. /\ ~Busy(h) /\ moves' = moves - 1 /\ moves > 0 /\ UNCHANGED <<faults, oops>>
      /\ UNCHANGED <<tables, issued, lapsed, now, scene>> /\ job'[h] = request /\ DOMAIN job' = Slots
      /\ \A g \in Slots \ {h} : job'[g] = IF Busy(g) THEN [job[g] EXCEPT !.alone = FALSE] ELSE Idle
  BY DEF Ask, Start
<1>3. /\ DOMAIN request = Fields /\ request.op = op /\ request.arg = arg /\ request.pc = pc
      /\ request.todo = todo /\ request.alone \in BOOLEAN
      /\ request.alone => \A f \in Slots : ~Busy(f)
  BY DEF Request, Fields
<1> HIDE DEF request
<1>4. TablesInv' /\ IssuedInv'  BY <1>1, <1>2 DEF TablesInv, IssuedInv
<1>5. BoundsInv'  BY <1>1, <1>2 DEF BoundsInv
<1>6. ASSUME NEW g \in Slots, g # h, Busy(g)'
      PROVE  /\ Busy(g) /\ JobOK(g) /\ job'[g].alone = FALSE /\ DOMAIN job'[g] = Fields
             /\ job'[g].op = job[g].op /\ job'[g].arg = job[g].arg /\ job'[g].pc = job[g].pc
             /\ job'[g].todo = job[g].todo /\ job'[g].got = job[g].got
  <2>1. Busy(g) /\ job'[g] = [job[g] EXCEPT !.alone = FALSE]  BY <1>2, <1>6 DEF Busy
  <2>2. JobOK(g) /\ DOMAIN job[g] = Fields  BY <1>1, <2>1 DEF JobsInv, JobOK
  <2> QED BY <2>1, <2>2 DEF Fields
<1>7. JobsInv'
  <2>1. ASSUME NEW g \in Slots, Busy(g)', g # h PROVE JobOK(g)'
    BY <1>2, <1>6, <2>1 DEF JobOK, ArgOK, Arg, Got
  <2>2. JobOK(h)'
    BY <1>2, <1>3 DEF JobOK, ArgOK, Arg, TokenOps
  <2> QED BY <1>2, <2>1, <2>2 DEF JobsInv
<1>8. AloneInv'
  <2>1. ASSUME NEW g \in Slots, g # h, Busy(g)' PROVE ~job'[g].alone /\ ~job'[h].alone
    BY <1>2, <1>3, <1>6, <2>1
  <2> QED BY <2>1 DEF AloneInv
<1>9. CurrentInv'
  <2>1. CurrentRows(h)'  BY <1>2, <1>3 DEF CurrentRows, Knows
  <2>2. CurrentDecision(h)'  BY <1>2, <1>3 DEF CurrentDecision, TokenOps
  <2>3. \A g \in Slots \ {h} : Busy(g)' => ~job'[g].alone  BY <1>6
  <2> QED BY <2>1, <2>2, <2>3 DEF CurrentInv
<1> QED BY <1>4, <1>5, <1>7, <1>8, <1>9 DEF StateInv

LEMMA RequestsInv ==
  ASSUME StateInv, NEW h \in Slots, RegistrationRequests(h) \/ SessionRequests(h)
  PROVE  Preserves
<1> USE DEF Ops, TokenOps
<1>1. CASE RegistrationRequests(h)
  <2>1. ASSUME NEW dto \in RegistrationDtos, Ask(h, "registration", dto, "find", {"email", "name"})
        PROVE  StateInv'
    BY <2>1, BeginsInv
  <2>2. ASSUME NEW op \in {"confirm", "resend"}, NEW c \in 1..tables.codes,
               Ask(h, op, [code |-> c, late |-> c \in lapsed], "find", {"user"})
        PROVE  StateInv'
    BY <2>2, BeginsInv
  <2>3. ASSUME NEW a \in GoogleAccounts, Ask(h, "google", [account |-> a], "find", {"account", "email"})
        PROVE  StateInv'
    BY <2>3, BeginsInv
  <2>4. ASSUME NEW a \in GithubAccounts, Ask(h, "github", [account |-> a], "find", {"account", "email"})
        PROVE  StateInv'
    BY <2>4, BeginsInv
  <2>5. UNCHANGED <<tables, oops>>  BY <1>1 DEF RegistrationRequests, Ask, Start
  <2> QED BY <1>1, <2>1, <2>2, <2>3, <2>4, <2>5, NobodyLeaves DEF RegistrationRequests, Preserves
<1>2. CASE SessionRequests(h)
  <2>1. ASSUME NEW dto \in LoginDtos, Ask(h, "login", dto, "find", {"user"}) PROVE StateInv'
    BY <2>1, BeginsInv
  <2>2. ASSUME NEW token \in issued, NEW op \in TokenOps \ {"terminate"},
               Ask(h, op, [token |-> token], "guardUser", {})
        PROVE  StateInv'
    BY <2>2, BeginsInv
  <2>3. ASSUME NEW token \in issued, NEW k,
               Ask(h, "terminate", [token |-> token, other |-> k], "guardUser", {})
        PROVE  StateInv'
    BY <2>3, BeginsInv
  <2>4. ASSUME NEW e \in Emails, Ask(h, "restore", [email |-> e], "find", {"user"}) PROVE StateInv'
    BY <2>4, BeginsInv
  <2>5. ASSUME NEW c, NEW p \in Passwords,
               Ask(h, "restoreConfirm", [code |-> c, pw |-> p, late |-> c \in lapsed], "find", {"user"})
        PROVE  StateInv'
    BY <2>5, BeginsInv
  <2>6. ASSUME NEW i, NEW op \in {"ban", "unban"}, Ask(h, op, [user |-> i], "find", {"user"})
        PROVE  StateInv'
    BY <2>6, BeginsInv
  <2>7. ASSUME NEW i, Ask(h, "deleteUser", [user |-> i], "write", {}) PROVE StateInv'
    BY <2>7, BeginsInv
  <2>8. ASSUME NEW token \in issued,
               \/ \E op \in TokenOps \ {"terminate"} : Ask(h, op, [token |-> token], "guardUser", {})
               \/ \E k \in DOMAIN tables.device :
                    Ask(h, "terminate", [token |-> token, other |-> k], "guardUser", {})
        PROVE  StateInv'
    BY <2>2, <2>3, <2>8
  <2>9. ASSUME NEW i,
               \/ \E op \in {"ban", "unban"} : Ask(h, op, [user |-> i], "find", {"user"})
               \/ Ask(h, "deleteUser", [user |-> i], "write", {})
        PROVE  StateInv'
    BY <2>6, <2>7, <2>9
  <2>10. UNCHANGED <<tables, oops>>  BY <1>2 DEF SessionRequests, Ask, Start
  <2> QED BY <1>2, <2>1, <2>4, <2>5, <2>8, <2>9, <2>10, NobodyLeaves DEF SessionRequests, Preserves
<1> QED BY <1>1, <1>2

\* A failed request, a restart, a lapsed code, a second.
LEMMA InterruptionsInv ==
  ASSUME StateInv,
         \/ \E h \in Slots : Fail(h) /\ UNCHANGED <<tables, issued, lapsed, now, scene>>
         \/ Restart /\ UNCHANGED <<tables, issued, lapsed, now, scene>>
         \/ \E c \in 1..tables.codes : Lapse(c)
         \/ Tick
  PROVE  Preserves
<1>1. /\ TablesInv /\ BoundsInv /\ IssuedInv /\ JobsInv /\ AloneInv /\ CurrentInv
      /\ DOMAIN job = Slots
  BY DEF StateInv, JobsInv
<1>2. ASSUME UNCHANGED <<tables, issued, lapsed, now, scene, moves, oops>>, faults' = faults - 1,
             faults > 0, DOMAIN job' = Slots, \A g \in Slots : job'[g] = job[g] \/ job'[g] = Idle
      PROVE  StateInv'
  <2>1. TablesInv' /\ IssuedInv'  BY <1>1, <1>2 DEF TablesInv, IssuedInv
  <2>2. BoundsInv'  BY <1>1, <1>2 DEF BoundsInv
  <2>3. \A g \in Slots : Busy(g)' => Busy(g) /\ job'[g] = job[g]  BY <1>2 DEF Busy
  <2>4. JobsInv'  BY <1>1, <1>2, <2>3 DEF JobsInv, JobOK, ArgOK, Arg, Got
  <2>5. AloneInv'  BY <1>1, <2>3 DEF AloneInv
  <2>6. ASSUME NEW g \in Slots, Busy(g)', job'[g].alone PROVE (CurrentRows(g) /\ CurrentDecision(g))'
    <3>1. CurrentRows(g) /\ CurrentDecision(g)  BY <1>1, <2>3, <2>6 DEF CurrentInv
    <3>2. job'[g] = job[g] /\ tables' = tables /\ issued' = issued  BY <1>2, <2>3, <2>6
    <3> QED BY <3>1, <3>2 DEF CurrentRows, CurrentDecision, Knows, Got, Arg
  <2> QED BY <2>1, <2>2, <2>4, <2>5, <2>6 DEF StateInv, CurrentInv
<1>3. ASSUME UNCHANGED <<tables, issued, scene, job, moves, faults, oops>>,
             now' \in 0..scene.time, now' >= now, lapsed' \subseteq 1..tables.codes
      PROVE  StateInv'
  <2>1. TablesInv'  BY <1>1, <1>3 DEF TablesInv
  <2>2. 0..now \subseteq 0..now'
    BY <1>1, <1>3, ScenesAssumption DEF BoundsInv
  <2>3. IssuedInv'  BY <1>1, <1>3, <2>2 DEF IssuedInv
  <2>4. BoundsInv'  BY <1>1, <1>3 DEF BoundsInv
  <2>5. JobsInv'  BY <1>1, <1>3, <2>2 DEF JobsInv, Busy, JobOK, ArgOK, Arg, Got
  <2>6. AloneInv'  BY <1>1, <1>3 DEF AloneInv, Busy
  <2>7. ASSUME NEW g \in Slots, Busy(g)', job'[g].alone PROVE (CurrentRows(g) /\ CurrentDecision(g))'
    <3>1. CurrentRows(g) /\ CurrentDecision(g)  BY <1>1, <1>3, <2>7 DEF CurrentInv, Busy
    <3>2. job' = job /\ tables' = tables /\ issued' = issued  BY <1>3
    <3> QED BY <3>1, <3>2 DEF CurrentRows, CurrentDecision, Knows, Got, Arg
  <2> QED BY <2>1, <2>3, <2>4, <2>5, <2>6, <2>7 DEF StateInv, CurrentInv
<1>4. now \in 0..scene.time /\ scene.time \in Nat /\ lapsed \subseteq 1..tables.codes
  BY <1>1, ScenesAssumption DEF BoundsInv
<1>5. ASSUME NEW h \in Slots, Fail(h), UNCHANGED <<tables, issued, lapsed, now, scene>> PROVE StateInv'
  BY <1>1, <1>2, <1>5 DEF Fail
<1>6. ASSUME Restart, UNCHANGED <<tables, issued, lapsed, now, scene>> PROVE StateInv'
  BY <1>2, <1>6 DEF Restart
<1>7. ASSUME NEW c \in 1..tables.codes, Lapse(c) PROVE StateInv'
  BY <1>3, <1>4, <1>7 DEF Lapse, handlerVars
<1>8. ASSUME Tick PROVE StateInv'
  BY <1>3, <1>4, <1>8 DEF Tick, handlerVars
<1>9. StateInv'  BY <1>5, <1>6, <1>7, <1>8
<1>10. UNCHANGED <<tables, oops>>  BY DEF Fail, Restart, Lapse, Tick, handlerVars
<1> QED BY <1>9, <1>10, NobodyLeaves DEF Preserves

(***************************************************************************)
(* Handlers that read.                                                     *)
(***************************************************************************)

LEMMA UserIsRead ==
  ASSUME Sound(tables), NEW H, H \subseteq LiveUsers(tables), NEW u \in UserRead(FindFirst(H))
  PROVE  IsOneOf(u, tables, H)
<1>1. PICK i \in FindFirst(H) : u = IF i = 0 THEN Nobody ELSE [id |-> i, row |-> tables.user[i]]
  BY DEF UserRead
<1>2. \A j \in H : j # 0  BY LiveFacts
<1>3. CASE H = {}  BY <1>1, <1>3 DEF FindFirst, IsOneOf
<1>4. CASE H # {}
  <2>1. i \in H /\ i # 0 /\ u = [id |-> i, row |-> tables.user[i]]  BY <1>1, <1>2, <1>4 DEF FindFirst
  <2>2. u.id = i /\ u.row = tables.user[i]  BY <2>1
  <2>3. u # Nobody  BY <2>1, <2>2 DEF Nobody
  <2> QED BY <2>1, <2>2, <2>3 DEF IsOneOf, Exists
<1> QED BY <1>3, <1>4

\* A handler that learns one thing more.
Learned(h, name, value) ==
  /\ name \in DOMAIN job'[h].got /\ job'[h].got[name] = value
  /\ job'[h].todo = job[h].todo \ {name}
  /\ \A other \in DOMAIN job[h].got \ {name} :
       other \in DOMAIN job'[h].got /\ job'[h].got[other] = job[h].got[other]

LEMMA Learns ==
  ASSUME StateInv, NEW h \in Slots, Busy(h), NEW name, NEW values, NEW pc, Read(h, name, values, pc)
  PROVE  /\ GoesOn(h)
         /\ job'[h].pc = IF job[h].todo \ {name} = {} THEN pc ELSE job[h].pc
         /\ \E value \in values : Learned(h, name, value)
<1>1. DOMAIN job = Slots /\ JobOK(h) /\ DOMAIN job[h] = Fields
  BY DEF StateInv, JobsInv, JobOK
<1>2. PICK value \in values : Learn(h, name, value, pc)  BY DEF Read
<1>3. /\ job'[h] = [[[job[h] EXCEPT !.got = With(job[h].got, name, value)] EXCEPT
                      !.todo = job[h].todo \ {name}] EXCEPT
                      !.pc = IF job[h].todo \ {name} = {} THEN pc ELSE job[h].pc]
      /\ job' = [job EXCEPT ![h] = job'[h]] /\ UNCHANGED <<moves, faults, oops>>
  BY <1>1, <1>2 DEF Learn, Fields
<1>4. /\ DOMAIN job'[h] = Fields /\ job'[h].got = With(job[h].got, name, value)
      /\ job'[h].todo = job[h].todo \ {name}
      /\ job'[h].pc = IF job[h].todo \ {name} = {} THEN pc ELSE job[h].pc
      /\ job'[h].op = job[h].op /\ job'[h].arg = job[h].arg /\ job'[h].alone = job[h].alone
  BY <1>1, <1>3 DEF Fields
<1>5. job'[h].pc # "find" => job'[h].todo = {}  BY <1>1, <1>4 DEF JobOK
<1>6. job'[h] # Idle
  <2>1. DOMAIN Idle = {"op"}  BY DEF Idle
  <2> QED BY <1>4, <2>1 DEF Fields
<1>7. GoesOn(h)  BY <1>3, <1>4, <1>5, <1>6 DEF GoesOn, others, Read
<1>8. Learned(h, name, value)  BY <1>4 DEF Learned, With
<1> QED BY <1>4, <1>7, <1>8

\* What was known is known after another read, and what was read is known.
LEMMA StaysKnown ==
  ASSUME StateInv, NEW h \in Slots, Busy(h), GoesOn(h), NEW name, NEW value,
         Learned(h, name, value), NEW other, NEW H,
         Knows(h, other, H), other = name => IsOneOf(value, tables, H)
  PROVE  other \notin job'[h].todo =>
           other \in DOMAIN job'[h].got /\ IsOneOf(job'[h].got[other], tables, H)
BY DEF Learned, Got, Knows

\* A request that reads users and has decided nothing.
FindOps == {"registration", "confirm", "resend", "google", "github", "login", "restoreConfirm"}

LEMMA FindersInv ==
  ASSUME StateInv, NEW h \in Slots, Busy(h), job[h].op \in FindOps, GoesOn(h),
         job[h].alone => CurrentRows(h)'
  PROVE  Preserves
BY GoesOnInv DEF FindOps, CurrentDecision, GoesOn, TokenOps

LEMMA RegistrationReadsInv ==
  ASSUME StateInv, NEW h \in Slots, RegistrationReads(h) \/ ConfirmationReads(h) \/ CallbackReads(h)
  PROVE  Preserves
<1>1. Busy(h) /\ job[h].op \in FindOps
  BY DEF RegistrationReads, ConfirmationReads, CallbackReads, At, FindOps
<1>2. Sound(tables) /\ (job[h].alone => CurrentRows(h))
  BY <1>1 DEF StateInv, TablesInv, Good, CurrentInv
<1>3. \A e, n, c, op, a : /\ EmailHolders(tables, e) \subseteq LiveUsers(tables)
                          /\ NameHolders(tables, n) \subseteq LiveUsers(tables)
                          /\ TokenHolders(tables, c) \subseteq LiveUsers(tables)
                          /\ AccountHolders(tables, op, a) \subseteq LiveUsers(tables)
  BY DEF EmailHolders, NameHolders, TokenHolders, AccountHolders
<1>4. \A e, n, c, op, a : /\ getUserByEmail(tables, e) = FindFirst(EmailHolders(tables, e))
                          /\ getUserByUsername(tables, n) = FindFirst(NameHolders(tables, n))
                          /\ getUserByToken(tables, c) = FindFirst(TokenHolders(tables, c))
                          /\ getUserByAccount(op, a) = FindFirst(AccountHolders(tables, op, a))
  BY DEF EmailHolders, NameHolders, TokenHolders, AccountHolders, Link, getUserByEmail,
         getUserByUsername, getUserByToken, getUserByAccount, getUserByGoogleSub, getUserByGithubId
<1>5. ASSUME NEW name, NEW pc, NEW H, H \subseteq LiveUsers(tables),
             Read(h, name, UserRead(FindFirst(H)), pc)
      PROVE  GoesOn(h) /\ \E value : Learned(h, name, value) /\ IsOneOf(value, tables, H)
  BY <1>1, <1>2, <1>5, Learns, UserIsRead
<1>6. CASE RegistrationReads(h)
  <2> DEFINE ofEmail == EmailHolders(tables, Arg(h).email)  ofName == NameHolders(tables, Arg(h).name)
  <2>1. job[h].op = "registration"  BY <1>6 DEF RegistrationReads, At
  <2>2. \/ Read(h, "email", UserRead(FindFirst(ofEmail)), "create")
        \/ Read(h, "name", UserRead(FindFirst(ofName)), "create")
    BY <1>4, <1>6 DEF RegistrationReads
  <2>3. GoesOn(h) /\ \E value : \/ Learned(h, "email", value) /\ IsOneOf(value, tables, ofEmail)
                                \/ Learned(h, "name", value) /\ IsOneOf(value, tables, ofName)
    BY <1>3, <1>5, <2>2
  <2>4. ASSUME job[h].alone PROVE CurrentRows(h)'
    <3>1. Knows(h, "email", ofEmail) /\ Knows(h, "name", ofName)
      BY <1>2, <2>1, <2>4 DEF CurrentRows
    <3> HIDE DEF ofEmail, ofName
    <3>2. PICK value : \/ Learned(h, "email", value) /\ IsOneOf(value, tables, ofEmail)
                       \/ Learned(h, "name", value) /\ IsOneOf(value, tables, ofName)
      BY <2>3
    <3>3. PICK name \in {"email", "name"} :
          /\ Learned(h, name, value)
          /\ (name = "email" => IsOneOf(value, tables, ofEmail))
          /\ (name = "name" => IsOneOf(value, tables, ofName))
      BY <3>2
    <3>4. "email" \notin job'[h].todo =>
            "email" \in DOMAIN job'[h].got /\ IsOneOf(job'[h].got["email"], tables, ofEmail)
      BY <1>1, <2>3, <3>1, <3>3, StaysKnown
    <3>5. "name" \notin job'[h].todo =>
            "name" \in DOMAIN job'[h].got /\ IsOneOf(job'[h].got["name"], tables, ofName)
      BY <1>1, <2>3, <3>1, <3>3, StaysKnown
    <3> QED BY <2>1, <2>3, <3>4, <3>5 DEF CurrentRows, Knows, Got, Arg, GoesOn, ofEmail, ofName
  <2> QED BY <1>1, <2>3, <2>4, FindersInv
<1>7. CASE ConfirmationReads(h)
  <2> DEFINE H == TokenHolders(tables, Arg(h).code)
  <2>1. job[h].op \in {"confirm", "resend"}  BY <1>7 DEF ConfirmationReads, At
  <2>2. Read(h, "user", UserRead(FindFirst(H)), "decide")  BY <1>4, <1>7 DEF ConfirmationReads
  <2>3. GoesOn(h) /\ \E value : Learned(h, "user", value) /\ IsOneOf(value, tables, H)
    BY <1>3, <1>5, <2>2
  <2>4. CurrentRows(h)'
    BY <2>1, <2>3 DEF CurrentRows, Knows, Got, Arg, GoesOn, Learned
  <2> QED BY <1>1, <2>3, <2>4, FindersInv
<1>8. CASE CallbackReads(h)
  <2> DEFINE ofAccount == AccountHolders(tables, job[h].op, Arg(h).account)
             ofEmail == EmailHolders(tables, EmailOf[Arg(h).account])
  <2>1. job[h].op \in {"google", "github"}  BY <1>8 DEF CallbackReads, At
  <2>2. \/ Read(h, "account", UserRead(FindFirst(ofAccount)), "decide")
        \/ Read(h, "email", UserRead(FindFirst(ofEmail)), "decide")
    BY <1>4, <1>8 DEF CallbackReads
  <2>3. GoesOn(h) /\ \E value : \/ Learned(h, "email", value) /\ IsOneOf(value, tables, ofEmail)
                                \/ Learned(h, "account", value) /\ IsOneOf(value, tables, ofAccount)
    BY <1>3, <1>5, <2>2
  <2>4. ASSUME job[h].alone PROVE CurrentRows(h)'
    <3>1. Knows(h, "email", ofEmail) /\ Knows(h, "account", ofAccount)
      BY <1>2, <2>1, <2>4 DEF CurrentRows
    <3> HIDE DEF ofEmail, ofAccount
    <3>2. PICK value : \/ Learned(h, "email", value) /\ IsOneOf(value, tables, ofEmail)
                       \/ Learned(h, "account", value) /\ IsOneOf(value, tables, ofAccount)
      BY <2>3
    <3>3. PICK name \in {"email", "account"} :
          /\ Learned(h, name, value)
          /\ (name = "email" => IsOneOf(value, tables, ofEmail))
          /\ (name = "account" => IsOneOf(value, tables, ofAccount))
      BY <3>2
    <3>4. "email" \notin job'[h].todo =>
            "email" \in DOMAIN job'[h].got /\ IsOneOf(job'[h].got["email"], tables, ofEmail)
      BY <1>1, <2>3, <3>1, <3>3, StaysKnown
    <3>5. "account" \notin job'[h].todo =>
            "account" \in DOMAIN job'[h].got /\ IsOneOf(job'[h].got["account"], tables, ofAccount)
      BY <1>1, <2>3, <3>1, <3>3, StaysKnown
    <3> QED BY <2>1, <2>3, <3>4, <3>5 DEF CurrentRows, Knows, Got, Arg, GoesOn, ofEmail, ofAccount
  <2> QED BY <1>1, <2>3, <2>4, FindersInv
<1> QED BY <1>6, <1>7, <1>8

LEMMA Answers ==
  ASSUME StateInv, NEW h \in Slots, Busy(h), NEW endpoint, NEW result,
         Answer(h, endpoint, result), result \in endpoint, result # "Internal"
  PROVE  Preserves
<1>1. /\ job' = [job EXCEPT ![h] = Idle] /\ UNCHANGED others /\ UNCHANGED <<tables, issued>>
      /\ oops' = oops
  BY DEF Answer, Reply, Switch, others
<1>2. TablesInv' /\ IssuedInv'  BY <1>1 DEF StateInv, TablesInv, IssuedInv, others
<1>3. tables.codes \in Nat  BY DEF StateInv, TablesInv, Good, Sound
<1>4. EndsWell(h)  BY <1>1, <1>2, <1>3, NobodyLeaves DEF EndsWell
<1> QED BY <1>4, EndsInv

\* A handler at its next await, having learned nothing.
LEMMA Goes ==
  ASSUME StateInv, NEW h \in Slots, Busy(h), job[h].pc # "find", NEW pc, Goto(h, pc),
         UNCHANGED <<tables, issued, lapsed, now, scene>>
  PROVE  GoesOn(h) /\ job'[h].pc = pc
<1>1. DOMAIN job = Slots /\ JobOK(h)  BY DEF StateInv, JobsInv
<1>2. job'[h] = [job[h] EXCEPT !.pc = pc] /\ job' = [job EXCEPT ![h] = job'[h]]
      /\ UNCHANGED <<moves, faults, oops>>
  BY <1>1 DEF Goto
<1>3. /\ DOMAIN job'[h] = Fields /\ job'[h].pc = pc /\ job'[h].todo = job[h].todo
      /\ job'[h].op = job[h].op /\ job'[h].arg = job[h].arg /\ job'[h].alone = job[h].alone
      /\ job[h].todo = {}
  BY <1>1, <1>2 DEF JobOK, Fields
<1>4. job'[h] # Idle
  <2>1. DOMAIN Idle = {"op"}  BY DEF Idle
  <2> QED BY <1>3, <2>1 DEF Fields
<1> QED BY <1>2, <1>3, <1>4 DEF GoesOn, others

\* A request with a token at its guard, or loading.
LEMMA TokenReadsInv ==
  ASSUME StateInv, NEW h \in Slots,
         \/ GuardUser(h) \/ GuardSession(h)
         \/ RenewLoad(h) \/ TerminateLoad(h) \/ TerminateOthersLoad(h)
  PROVE  Preserves
<1> USE DEF TokenOps
<1>1. Busy(h) /\ job[h].op \in TokenOps /\ job[h].pc \in {"guardUser", "guardSession", "load"}
  BY DEF GuardUser, GuardSession, RenewLoad, TerminateLoad, TerminateOthersLoad, At
<1>2. \A result \in {"Unauthorized"} : Answer(h, {"Unauthorized"}, result) => Preserves
  BY <1>1, Answers
<1>3. ASSUME GoesOn(h) PROVE CurrentRows(h)'  BY <1>1, <1>3 DEF CurrentRows, GoesOn
<1>4. job[h].alone /\ job[h].pc = "load" => IsCurrent(tables, Arg(h).token)
  BY <1>1 DEF StateInv, CurrentInv, CurrentDecision
<1>5. CASE GuardUser(h)
  <2>1. CASE Refuse(h)  BY <1>2, <2>1 DEF Refuse
  <2>2. CASE Goto(h, "guardSession") /\ UNCHANGED <<tables, issued, lapsed, now, scene>>
    <3>1. GoesOn(h) /\ job'[h].pc = "guardSession"  BY <1>1, <2>2, Goes
    <3>2. CurrentDecision(h)'  BY <1>1, <3>1 DEF CurrentDecision, GoesOn
    <3> QED BY <1>1, <1>3, <3>1, <3>2, GoesOnInv
  <2> QED BY <1>5, <2>1, <2>2 DEF GuardUser
<1>6. CASE GuardSession(h)
  <2>1. CASE Refuse(h)  BY <1>2, <2>1 DEF Refuse
  <2>2. CASE /\ IsCurrent(tables, Arg(h).token)
             /\ Goto(h, IF job[h].op = "logout" THEN "write" ELSE "load")
             /\ UNCHANGED <<tables, issued, lapsed, now, scene>>
    <3>1. GoesOn(h) /\ job'[h].pc = (IF job[h].op = "logout" THEN "write" ELSE "load")
      BY <1>1, <2>2, Goes
    <3>2. CurrentDecision(h)'  BY <1>1, <2>2, <3>1 DEF CurrentDecision, GoesOn, Arg
    <3> QED BY <1>1, <1>3, <3>1, <3>2, GoesOnInv
  <2> QED BY <1>6, <2>1, <2>2 DEF GuardSession
<1>7. CASE RenewLoad(h)
  <2>1. job[h].op = "renew" /\ job[h].pc = "load"  BY <1>7 DEF RenewLoad, At
  <2>2. CASE Answer(h, renewTokens, "Unauthorized")
    BY <1>1, <2>2, Answers DEF renewTokens
  <2>3. CASE Read(h, "signed", {now}, "write")
    <3>1. GoesOn(h) /\ Learned(h, "signed", now)  BY <1>1, <2>3, Learns
    <3>2. now \in Nat /\ \A t \in issued : t.iat \in 0..now
      BY ScenesAssumption DEF StateInv, BoundsInv, IssuedInv
    <3>3. job[h].alone => CurrentDecision(h)'
      BY <1>4, <2>1, <3>1, <3>2 DEF CurrentDecision, GoesOn, Learned, Arg, Got
    <3>4. job'[h].got["signed"] \in 0..now  BY <3>1, <3>2 DEF Learned
    <3> QED BY <1>1, <1>3, <3>1, <3>3, <3>4, GoesOnInv
  <2> QED BY <1>7, <2>2, <2>3 DEF RenewLoad
<1>8. CASE TerminateLoad(h)
  <2>1. job[h].op = "terminate" /\ job[h].pc = "load"  BY <1>8 DEF TerminateLoad, At
  <2>2. CASE Answer(h, terminateDeviceById, "NotFound") \/ Answer(h, terminateDeviceById, "Forbidden")
    BY <1>1, <2>2, Answers DEF terminateDeviceById
  <2>3. ASSUME NEW k, IsDevice(tables, k), Read(h, "device", {k}, "write") PROVE Preserves
    <3>1. GoesOn(h) /\ Learned(h, "device", k)  BY <1>1, <2>3, Learns
    <3>2. job[h].alone => CurrentDecision(h)'
      BY <1>4, <2>1, <2>3, <3>1 DEF CurrentDecision, GoesOn, Learned, Arg, Got
    <3> QED BY <1>1, <1>3, <2>1, <3>1, <3>2, GoesOnInv
  <2> QED BY <1>8, <2>2, <2>3 DEF TerminateLoad, getDeviceById
<1>9. CASE TerminateOthersLoad(h)
  <2>1. job[h].op = "terminateOthers" /\ job[h].pc = "load"  BY <1>9 DEF TerminateOthersLoad, At
  <2>2. CASE Answer(h, terminateAllExcludeCurrent, "NotFound")
    BY <1>1, <2>2, Answers DEF terminateAllExcludeCurrent
  <2>3. ASSUME NEW K, Read(h, "devices", {K}, "write") PROVE Preserves
    <3>1. GoesOn(h)  BY <1>1, <2>3, Learns
    <3>2. job[h].alone => CurrentDecision(h)'
      BY <1>4, <2>1, <3>1 DEF CurrentDecision, GoesOn, Arg
    <3> QED BY <1>1, <1>3, <2>1, <3>1, <3>2, GoesOnInv
  <2> QED BY <1>9, <2>2, <2>3 DEF TerminateOthersLoad
<1> QED BY <1>5, <1>6, <1>7, <1>8, <1>9

LEMMA SessionReadsInv ==
  ASSUME StateInv, NEW h \in Slots,
         LoginReads(h) \/ RestoreReads(h) \/ ResetReads(h) \/ ModerationReads(h)
  PROVE  Preserves
<1>1. /\ Busy(h) /\ job[h].op \in {"login", "restore", "restoreConfirm", "ban", "unban"}
  <2>1. CASE ModerationReads(h)
    <3>1. PICK pick \in {<<"ban", TRUE>>, <<"unban", FALSE>>} : At(h, {pick[1]}, "find")
      BY <2>1 DEF ModerationReads
    <3>2. pick = <<"ban", TRUE>> \/ pick = <<"unban", FALSE>>  BY <3>1
    <3>3. pick[1] = "ban" \/ pick[1] = "unban"
      <4>1. CASE pick = <<"ban", TRUE>>  BY <4>1
      <4>2. CASE pick = <<"unban", FALSE>>  BY <4>2
      <4> QED BY <3>2, <4>1, <4>2
    <3> QED BY <3>1, <3>3 DEF At
  <2>2. CASE LoginReads(h) \/ RestoreReads(h) \/ ResetReads(h)
    BY <2>2 DEF LoginReads, RestoreReads, ResetReads, At
  <2> QED BY <2>1, <2>2
<1>2. Sound(tables) /\ (job[h].alone => CurrentRows(h))
  BY <1>1 DEF StateInv, TablesInv, Good, CurrentInv
<1>3. \A e, c : /\ EmailHolders(tables, e) \subseteq LiveUsers(tables)
                /\ ResetHolders(tables, c) \subseteq LiveUsers(tables)
                /\ getUserByEmail(tables, e) = FindFirst(EmailHolders(tables, e))
                /\ getUserByResetPasswordCode(tables, c) = FindFirst(ResetHolders(tables, c))
  BY DEF EmailHolders, ResetHolders, getUserByEmail, getUserByResetPasswordCode
<1>4. ASSUME NEW name, NEW pc, NEW H, H \subseteq LiveUsers(tables),
             Read(h, name, UserRead(FindFirst(H)), pc)
      PROVE  /\ GoesOn(h) /\ \E value : Learned(h, name, value) /\ IsOneOf(value, tables, H)
             /\ job'[h].pc = IF job[h].todo \ {name} = {} THEN pc ELSE job[h].pc
  BY <1>1, <1>2, <1>4, Learns, UserIsRead
<1>5. CASE LoginReads(h)
  <2> DEFINE H == EmailHolders(tables, Arg(h).email)
  <2>1. job[h].op = "login"  BY <1>5 DEF LoginReads, At
  <2>2. Read(h, "user", UserRead(FindFirst(H)), "open")  BY <1>3, <1>5 DEF LoginReads
  <2>3. GoesOn(h) /\ \E value : Learned(h, "user", value) /\ IsOneOf(value, tables, H)
    BY <1>3, <1>4, <2>2
  <2>4. CurrentRows(h)'  BY <2>1, <2>3 DEF CurrentRows, Knows, Got, Arg, GoesOn, Learned
  <2> QED BY <1>1, <2>1, <2>3, <2>4, FindersInv DEF FindOps
<1>6. CASE ResetReads(h)
  <2> DEFINE H == ResetHolders(tables, Arg(h).code)
  <2>1. job[h].op = "restoreConfirm"  BY <1>6 DEF ResetReads, At
  <2>2. Read(h, "user", UserRead(FindFirst(H)), "write")  BY <1>3, <1>6 DEF ResetReads
  <2>3. GoesOn(h) /\ \E value : Learned(h, "user", value) /\ IsOneOf(value, tables, H)
    BY <1>3, <1>4, <2>2
  <2>4. CurrentRows(h)'  BY <2>1, <2>3 DEF CurrentRows, Knows, Got, Arg, GoesOn, Learned
  <2> QED BY <1>1, <2>1, <2>3, <2>4, FindersInv DEF FindOps
<1>7. CASE RestoreReads(h)
  <2> DEFINE H == EmailHolders(tables, Arg(h).email)  u == Got(h, "user")
  <2>1. job[h].op = "restore"  BY <1>7 DEF RestoreReads, At
  <2>2. CASE job[h].pc = "find" /\ Read(h, "user", UserRead(FindFirst(H)), "load")
    <3>1. GoesOn(h) /\ (\E value : Learned(h, "user", value) /\ IsOneOf(value, tables, H))
          /\ job'[h].pc # "write"
      BY <1>3, <1>4, <2>2
    <3>2. CurrentRows(h)'  BY <2>1, <3>1 DEF CurrentRows, Knows, Got, Arg, GoesOn, Learned
    <3>3. CurrentDecision(h)'  BY <2>1, <3>1 DEF CurrentDecision, GoesOn, TokenOps
    <3> QED BY <1>1, <2>1, <3>1, <3>2, <3>3, GoesOnInv
  <2>3. CASE Answer(h, restorePassword, "NotFound") \/ Answer(h, restorePassword, "Unauthorized")
    BY <1>1, <2>3, Answers DEF restorePassword
  <2>4. CASE /\ job[h].pc = "load" /\ Exists(u)
             /\ Read(h, "code", {getResetPasswordByUserId(tables, u.id)}, "write")
    <3>1. GoesOn(h) /\ Learned(h, "code", getResetPasswordByUserId(tables, u.id))
      BY <1>1, <2>4, Learns
    <3>2. job[h].todo = {}  BY <1>1, <2>4 DEF StateInv, JobsInv, JobOK
    <3>3. job[h].alone => "user" \in DOMAIN job[h].got /\ IsOneOf(u, tables, H)
      BY <1>2, <2>1, <3>2 DEF CurrentRows, Knows
    <3>4. job[h].alone => "user" \in DOMAIN job'[h].got /\ job'[h].got["user"] = u
      BY <3>1, <3>3 DEF Learned, Got
    <3>5. job[h].alone => CurrentRows(h)'
      BY <2>1, <3>1, <3>3, <3>4 DEF CurrentRows, Knows, GoesOn, Arg, Got
    <3>6. job[h].alone => CurrentDecision(h)'
      BY <2>1, <2>4, <3>1, <3>4 DEF CurrentDecision, GoesOn, TokenOps, Learned, Got
    <3> QED BY <1>1, <2>1, <3>1, <3>5, <3>6, GoesOnInv
  <2> QED BY <1>3, <1>7, <2>2, <2>3, <2>4 DEF RestoreReads, At
<1>8. CASE ModerationReads(h)
  <2> DEFINE i == findUserById(tables, Arg(h).user)
  <2>1. job[h].op \in {"ban", "unban"} /\ job[h].pc = "find"
    <3>1. PICK pick \in {<<"ban", TRUE>>, <<"unban", FALSE>>} : At(h, {pick[1]}, "find")
      BY <1>8 DEF ModerationReads
    <3>2. pick = <<"ban", TRUE>> \/ pick = <<"unban", FALSE>>  BY <3>1
    <3>3. pick[1] = "ban" \/ pick[1] = "unban"
      <4>1. CASE pick = <<"ban", TRUE>>  BY <4>1
      <4>2. CASE pick = <<"unban", FALSE>>  BY <4>2
      <4> QED BY <3>2, <4>1, <4>2
    <3> QED BY <3>1, <3>3 DEF At
  <2>2. \/ \E endpoint \in {banUser, unbanUser}, result \in {"NotFound", "Success"} :
             Answer(h, endpoint, result)
        \/ /\ i # 0 /\ tables.user[i].banned # (job[h].op = "ban")
           /\ Read(h, "user", {i}, "write")
    <3>1. PICK ban \in BOOLEAN : LET pick == IF ban THEN <<"ban", TRUE>> ELSE <<"unban", FALSE>> IN
            /\ At(h, {pick[1]}, "find")
            /\ LET endpoint == IF pick[1] = "ban" THEN banUser ELSE unbanUser
               IN CASE i = 0 -> Answer(h, endpoint, "NotFound")
                    [] i # 0 /\ tables.user[i].banned = pick[2] -> Answer(h, endpoint, "Success")
                    [] OTHER -> Read(h, "user", {i}, "write")
      BY <1>8 DEF ModerationReads
    <3> HIDE DEF i
    <3>2. CASE ban  BY <3>1, <3>2 DEF At
    <3>3. CASE ~ban  BY <3>1, <3>3 DEF At
    <3> QED BY <3>2, <3>3
  <2>3. CASE \E endpoint \in {banUser, unbanUser}, result \in {"NotFound", "Success"} :
               Answer(h, endpoint, result)
    BY <1>1, <2>3, Answers DEF banUser, unbanUser
  <2>4. CASE /\ i # 0 /\ tables.user[i].banned # (job[h].op = "ban")
             /\ Read(h, "user", {i}, "write")
    <3>1. GoesOn(h) /\ Learned(h, "user", i)  BY <1>1, <2>4, Learns
    <3>2. IsUser(tables, i)  BY <2>4 DEF findUserById
    <3>3. tables.user[i] \in UserRows(MaxUsers)
      BY <1>2, <3>2, LiveFacts DEF IsUser, IsRow, LiveUsers
    <3>4. tables.user[i].banned \in BOOLEAN  BY <3>3 DEF UserRows
    <3> HIDE DEF i
    <3>5. tables.user[i].banned = (job[h].op = "unban")  BY <2>1, <2>4, <3>4
    <3>6. CurrentRows(h)'  BY <2>1, <3>1 DEF CurrentRows, GoesOn
    <3>7. CurrentDecision(h)'
      BY <2>1, <3>1, <3>2, <3>5 DEF CurrentDecision, GoesOn, TokenOps, Learned, Got
    <3> QED BY <1>1, <2>1, <3>1, <3>6, <3>7, GoesOnInv
  <2> QED BY <2>2, <2>3, <2>4
<1> QED BY <1>5, <1>6, <1>7, <1>8

(***************************************************************************)
(* Handlers that write.                                                    *)
(***************************************************************************)

\* Good tables, with the sessions of t and no other.
Continues(t, d) ==
  /\ Good(d) /\ d.codes >= t.codes /\ Len(d.user) <= MaxUsers /\ Len(d.device) = Len(t.device)
  /\ \A k \in LiveRows(d.device) : k \in LiveRows(t.device) /\ d.device[k] = t.device[k]

\* A confirmed user is in d too, unless h is not alone.
Spares(h, d) ==
  \A i \in LiveUsers(tables) : tables.user[i].confirmed /\ i \notin LiveUsers(d) => ~job[h].alone

LEMMA KeptContinues ==
  ASSUME StateInv, NEW d, Keeps(tables, d)
  PROVE  Continues(tables, d) /\ LiveUsers(d) = LiveUsers(tables)
BY DEF StateInv, TablesInv, Keeps, Continues

LEMMA MadeContinues ==
  ASSUME StateInv, Len(tables.user) < MaxUsers, NEW d, NEW row, Makes(tables, d, row)
  PROVE  Continues(tables, d) /\ LiveUsers(tables) \subseteq LiveUsers(d)
<1>1. Len(tables.user) \in Nat /\ MaxUsers \in Nat
  BY SeqFacts, IdentityBounds DEF StateInv, TablesInv, Good, Sound
<1> QED BY <1>1 DEF Makes, Continues

LEMMA Commits ==
  ASSUME StateInv, NEW h \in Slots, Busy(h), NEW new, NEW endpoint, Commit(h, new, endpoint),
         "Success" \in endpoint, job[h].alone => new # Thrown,
         new = Thrown \/ (Continues(tables, new) /\ Spares(h, new))
  PROVE  Preserves
<1>1. Good(tables) /\ TablesInv /\ IssuedInv /\ tables.codes \in Nat
  BY DEF StateInv, TablesInv, Good, Sound
<1>2. /\ job' = [job EXCEPT ![h] = Idle] /\ UNCHANGED others /\ issued' = issued
      /\ tables' = IF new = Thrown THEN tables ELSE new
  BY DEF Commit, Reply, others
<1>3. oops' = oops
  BY DEF Commit, Reply, Switch
<1>4. CASE new = Thrown
  <2>1. TablesInv' /\ IssuedInv'  BY <1>1, <1>2, <1>4 DEF TablesInv, IssuedInv, others
  <2>2. EndsWell(h)  BY <1>1, <1>2, <1>3, <1>4, <2>1, NobodyLeaves DEF EndsWell
  <2> QED BY <2>2, EndsInv
<1>5. CASE new # Thrown
  <2>1. tables' = new /\ Continues(tables, new) /\ Spares(h, new)  BY <1>2, <1>5
  <2>2. TablesInv'  BY <1>1, <2>1 DEF TablesInv, Continues
  <2>3. IssuedInv'  BY <1>1, <1>2, <2>1 DEF IssuedInv, Continues, others
  <2>4. EndsWell(h)
    BY <1>2, <1>3, <2>1, <2>2, <2>3 DEF EndsWell, Continues, Spares, IsUser, IsRow, LiveUsers
  <2> QED BY <2>4, EndsInv
<1> QED BY <1>4, <1>5

LEMMA KeepingCommits ==
  ASSUME StateInv, NEW h \in Slots, Busy(h), NEW new, NEW endpoint, Commit(h, new, endpoint),
         "Success" \in endpoint, job[h].alone => new # Thrown, Kept(tables, new)
  PROVE  Preserves
BY Commits, KeptContinues DEF Kept, Spares

\* A session is opened in tables d that this handler has made.
LEMMA OpeningCommits ==
  ASSUME StateInv, NEW h \in Slots, Busy(h), NEW new, NEW endpoint,
         CommitSession(h, new, Len(tables.device) + 1, now, endpoint),
         "Success" \in endpoint, job[h].alone => new # Thrown, Len(tables.device) < MaxDevices,
         \/ new = Thrown
         \/ \E d, s : /\ Continues(tables, d) /\ LiveUsers(tables) \subseteq LiveUsers(d)
                      /\ Opens(d, new, s) /\ s.iat = now
  PROVE  Preserves
<1> DEFINE k == Len(tables.device) + 1
<1>1. /\ Good(tables) /\ TablesInv /\ IssuedInv /\ tables.codes \in Nat /\ now \in Nat
      /\ Len(tables.device) \in Nat /\ DOMAIN tables.device = 1 .. Len(tables.device)
      /\ MaxDevices \in Nat /\ MaxUsers \in Nat
  BY SeqFacts, ScenesAssumption, IdentityBounds DEF StateInv, TablesInv, Good, Sound, BoundsInv
<1>2. /\ job' = [job EXCEPT ![h] = Idle] /\ UNCHANGED others
      /\ tables' = IF new = Thrown THEN tables ELSE new
      /\ issued' = IF new = Thrown THEN issued
                   ELSE issued \cup {[device |-> k, user |-> new.device[k].user, iat |-> now]}
  BY DEF CommitSession, Reply, others
<1>3. oops' = oops
  BY DEF CommitSession, Reply, Switch
<1>4. CASE new = Thrown
  <2>1. TablesInv' /\ IssuedInv'  BY <1>1, <1>2, <1>4 DEF TablesInv, IssuedInv, others
  <2>2. EndsWell(h)  BY <1>1, <1>2, <1>3, <1>4, <2>1, NobodyLeaves DEF EndsWell
  <2> QED BY <2>2, EndsInv
<1>5. CASE new # Thrown
  <2>1. PICK d, s : /\ Continues(tables, d) /\ LiveUsers(tables) \subseteq LiveUsers(d)
                    /\ Opens(d, new, s) /\ s.iat = now
    BY <1>5
  <2> DEFINE token == [device |-> k, user |-> new.device[k].user, iat |-> now]
  <2>2. tables' = new /\ issued' = issued \cup {token}  BY <1>2, <1>5
  <2> HIDE DEF k
  <2>3. /\ Good(new) /\ Len(new.device) = k /\ new.device[k] = s /\ new.user = d.user
        /\ LiveRows(new.device) = LiveRows(d.device) \cup {k} /\ new.codes >= tables.codes
        /\ \A l \in LiveRows(d.device) : new.device[l] = d.device[l]
        /\ Len(new.user) <= MaxUsers
    BY <2>1 DEF Opens, Continues, k
  <2>4. /\ k \in LiveRows(new.device) /\ k \in 1..Len(new.device) /\ k = Len(tables.device) + 1
        /\ Len(new.device) <= MaxDevices
    BY <1>1, <2>3 DEF k
  <2>5. TablesInv'  BY <2>2, <2>3, <2>4 DEF TablesInv
  <2>6. new.device[k].user \in 1..MaxUsers
    <3>1. IsUser(new, new.device[k].user)  BY <2>3 DEF Good, Sound
    <3>2. Len(new.user) \in Nat /\ DOMAIN new.user = 1..Len(new.user)
      BY <2>3, SeqFacts DEF Good, Sound
    <3> QED BY <1>1, <2>3, <3>1, <3>2 DEF IsUser, IsRow, LiveRows
  <2>7. issued' \subseteq [device : 1..Len(new.device), user : 1..MaxUsers, iat : 0..now]
    <3>1. token \in [device : 1..Len(new.device), user : 1..MaxUsers, iat : 0..now]
      BY <1>1, <2>4, <2>6
    <3>2. 1..Len(tables.device) \subseteq 1..Len(new.device)  BY <1>1, <2>3, <2>4
    <3> QED BY <1>1, <2>2, <3>1, <3>2 DEF IssuedInv
  <2>8. ASSUME NEW l \in LiveRows(new.device), NEW t \in issued', new.device[l].renewedAlone,
               t.device = l
        PROVE  t.iat <= new.device[l].iat
    <3>1. CASE t = token
      <4>1. l = k /\ t.iat = now  BY <2>8, <3>1
      <4> QED BY <1>1, <2>1, <2>3, <4>1
    <3>2. CASE t \in issued
      <4>1. l \in 1..Len(tables.device)  BY <1>1, <2>8, <3>2 DEF IssuedInv
      <4>2. l # k  BY <1>1, <2>4, <4>1
      <4>3. l \in LiveRows(tables.device) /\ new.device[l] = tables.device[l]
        BY <2>1, <2>3, <4>2 DEF Continues
      <4> QED BY <1>1, <2>8, <3>2, <4>3 DEF IssuedInv
    <3> QED BY <2>2, <2>8, <3>1, <3>2
  <2>9. IssuedInv'
    BY <1>2, <2>2, <2>7, <2>8 DEF IssuedInv, others
  <2>10. \A i \in LiveUsers(tables) : IsUser(tables', i)
    BY <2>1, <2>2, <2>3 DEF IsUser, IsRow, LiveUsers
  <2>11. EndsWell(h)  BY <1>2, <1>3, <2>2, <2>3, <2>5, <2>9, <2>10 DEF EndsWell
  <2> QED BY <2>11, EndsInv
<1> QED BY <1>4, <1>5

\* One who is alone knows whom he has found, and what he has decided on.
LEMMA Informed ==
  ASSUME StateInv, NEW h \in Slots, Busy(h), job[h].pc # "find"
  PROVE  /\ job[h].alone => CurrentDecision(h)
         /\ job[h].alone /\ job[h].op = "registration" =>
              /\ IsOneOf(Got(h, "email"), tables, EmailHolders(tables, Arg(h).email))
              /\ IsOneOf(Got(h, "name"), tables, NameHolders(tables, Arg(h).name))
         /\ job[h].alone /\ job[h].op \in {"confirm", "resend"} =>
              IsOneOf(Got(h, "user"), tables, TokenHolders(tables, Arg(h).code))
         /\ job[h].alone /\ job[h].op \in {"google", "github"} =>
              /\ IsOneOf(Got(h, "account"), tables, AccountHolders(tables, job[h].op, Arg(h).account))
              /\ IsOneOf(Got(h, "email"), tables, EmailHolders(tables, EmailOf[Arg(h).account]))
         /\ job[h].alone /\ job[h].op \in {"login", "restore"} =>
              IsOneOf(Got(h, "user"), tables, EmailHolders(tables, Arg(h).email))
         /\ job[h].alone /\ job[h].op = "restoreConfirm" =>
              IsOneOf(Got(h, "user"), tables, ResetHolders(tables, Arg(h).code))
<1>1. job[h].todo = {}  BY DEF StateInv, JobsInv, JobOK
<1>2. job[h].alone => CurrentRows(h) /\ CurrentDecision(h)  BY DEF StateInv, CurrentInv
<1> QED BY <1>1, <1>2 DEF CurrentRows, Knows

\* Tables are not an exception; a statement that finds what it needs does not throw.
LEMMA NotThrown ==
  ASSUME NEW d, DOMAIN d = Columns
  PROVE  d # Thrown
<1>1. DOMAIN Thrown = {"thrown"}  BY DEF Thrown
<1>2. "user" \in Columns  BY DEF Columns
<1> QED BY <1>1, <1>2

LEMMA SessionStatementsSucceed ==
  ASSUME NEW d, Sound(d)
  PROVE  /\ \A i, iat, pw, alone : IsUser(d, i) => createSession(d, i, iat, pw, alone) # Thrown
         /\ \A k, iat, alone : IsDevice(d, k) => updateLastActiveDate(d, k, iat, alone) # Thrown
         /\ \A k : IsDevice(d, k) => deleteDevice(d, k) # Thrown
         /\ \A K : deleteSessionsById(d, K) # Thrown
<1>1. DOMAIN d = Columns /\ d # Thrown  BY NotThrown DEF Sound
<1>2. \A i, iat, pw, alone : IsUser(d, i) => createSession(d, i, iat, pw, alone) # Thrown
  BY <1>1, NotThrown DEF createSession, Statement
<1>3. \A k, iat, alone : IsDevice(d, k) => updateLastActiveDate(d, k, iat, alone) # Thrown
  BY <1>1, NotThrown DEF updateLastActiveDate, Statement
<1>4. \A k : IsDevice(d, k) => deleteDevice(d, k) # Thrown
  BY <1>1, NotThrown DEF deleteDevice, Statement
<1>5. \A K : deleteSessionsById(d, K) # Thrown
  BY <1>1, NotThrown DEF deleteSessionsById, Statement
<1> QED BY <1>2, <1>3, <1>4, <1>5

LEMMA UserStatementsSucceed ==
  ASSUME NEW d, Sound(d), NEW i, IsUser(d, i)
  PROVE  /\ removeUserById(d, i) # Thrown
         /\ ~d.user[i].banned => banUserRow(d, i) # Thrown
         /\ d.user[i].banned => unbanUserRow(d, i) # Thrown
         /\ d.user[i].reset = 0 => createReset(d, i) # Thrown
         /\ \A c : i \in ResetHolders(d, c) => updateResetPasswordByCode(d, c) # Thrown
         /\ \A c : i \in TokenHolders(d, c) => updateConfirmationByToken(d, c) # Thrown
<1>1. DOMAIN d = Columns /\ d # Thrown  BY NotThrown DEF Sound
<1>2. removeUserById(d, i) # Thrown  BY <1>1, NotThrown DEF removeUserById, Statement
<1>3. /\ ~d.user[i].banned => banUserRow(d, i) # Thrown
      /\ d.user[i].banned => unbanUserRow(d, i) # Thrown
  BY <1>1, NotThrown DEF banUserRow, unbanUserRow, Statement
<1>4. \A H, f : WithNewCode(d, H, f) # Thrown  BY <1>1, NotThrown DEF WithNewCode
<1>5. d.user[i].reset = 0 => createReset(d, i) # Thrown  BY <1>1, <1>4 DEF createReset, Statement
<1>6. /\ \A c : i \in ResetHolders(d, c) => updateResetPasswordByCode(d, c) # Thrown
      /\ \A c : i \in TokenHolders(d, c) => updateConfirmationByToken(d, c) # Thrown
  BY <1>1, <1>4 DEF updateResetPasswordByCode, updateConfirmationByToken, Statement
<1> QED BY <1>2, <1>3, <1>5, <1>6

LEMMA PasswordResetSucceeds ==
  ASSUME NEW d, Sound(d), NEW i, NEW p, NEW c, i \in ResetHolders(d, c)
  PROVE  PasswordReset(d, i, p, c) # Thrown
<1> DEFINE changed == [d EXCEPT !.user[i].pw = p]
           users == [j \in DOMAIN changed.user |->
             IF j \in ResetHolders(changed, c) THEN [changed.user[j] EXCEPT !.reset = 0]
             ELSE changed.user[j]]
           reset == [changed EXCEPT !.user = users]
<1>1. /\ i \in LiveUsers(d) /\ d.user[i].reset = c /\ d.user[i] \in UserRows(MaxUsers)
      /\ i \in DOMAIN d.user /\ DOMAIN d = Columns
  BY LiveFacts DEF ResetHolders, Sound
<1>2. updatePassword(d, i, p) = changed
  <2>1. d # Thrown /\ IsUser(d, i)  BY <1>1, NotThrown DEF IsUser, IsRow, LiveUsers
  <2> QED BY <2>1 DEF updatePassword, Statement
<1>3. changed.user[i] = [d.user[i] EXCEPT !.pw = p] /\ DOMAIN changed.user = DOMAIN d.user
      /\ DOMAIN changed = DOMAIN d
  BY <1>1 DEF Columns
<1>4. changed.user[i].reset = c /\ changed.user[i].live
  <2>1. [d.user[i] EXCEPT !.pw = p].reset = d.user[i].reset
        /\ [d.user[i] EXCEPT !.pw = p].live = d.user[i].live /\ d.user[i].live
    BY <1>1 DEF UserRows
  <2> HIDE DEF changed
  <2> QED BY <1>1, <1>3, <2>1
<1>5. DOMAIN Thrown = {"thrown"}  BY DEF Thrown
<1>6. changed # Thrown  BY <1>1, <1>3, <1>5 DEF Columns
<1> HIDE DEF changed
<1>7. i \in ResetHolders(changed, c)
  BY <1>1, <1>3, <1>4 DEF ResetHolders, LiveUsers, LiveRows
<1>8. removeResetPasswordByCode(changed, c) = reset /\ DOMAIN reset = DOMAIN d
  BY <1>3, <1>6, <1>7 DEF removeResetPasswordByCode, Statement
<1> HIDE DEF reset
<1>9. reset # Thrown /\ DOMAIN [reset EXCEPT !.device = DeleteRows(@, DevicesOf(reset, i))] = Columns
  BY <1>1, <1>5, <1>8 DEF Columns
<1>10. PasswordReset(d, i, p, c) = [reset EXCEPT !.device = DeleteRows(@, DevicesOf(reset, i))]
  BY <1>2, <1>8, <1>9 DEF PasswordReset, deleteAllSessionsForUser, Statement
<1> QED BY <1>5, <1>9, <1>10 DEF Columns

LEMMA LoginEndsInv ==
  ASSUME StateInv, NEW h \in Slots, LoginEnds(h)
  PROVE  Preserves
<1> DEFINE u == Got(h, "user")  new == createSession(tables, u.id, now, Arg(h).pw, job[h].alone)
<1>1. Busy(h) /\ job[h].op = "login" /\ job[h].pc # "find"  BY DEF LoginEnds, At
<1>2. /\ Good(tables) /\ Sound(tables) /\ JobOK(h) /\ now \in Nat /\ TablesInv
      /\ Len(tables.user) <= MaxUsers
  BY <1>1, ScenesAssumption DEF StateInv, TablesInv, Good, JobsInv, BoundsInv
<1>3. CASE Answer(h, login, "Unauthorized")  BY <1>1, <1>3, Answers DEF login
<1>4. CASE /\ MayLogIn(u, Arg(h).pw) /\ Len(tables.device) < MaxDevices
           /\ CommitSession(h, new, Len(tables.device) + 1, now, login)
  <2>1. Arg(h).pw \in Passwords /\ job[h].alone \in BOOLEAN
    BY <1>1, <1>2 DEF JobOK, ArgOK, LoginDtos
  <2>2. job[h].alone => IsUser(tables, u.id) /\ u.row = tables.user[u.id]
    BY <1>1, <1>4, Informed DEF IsOneOf, EmailHolders, MayLogIn, Exists, IsUser, IsRow, LiveUsers
  <2>3. job[h].alone => Arg(h).pw = tables.user[u.id].pw  BY <1>4, <2>2 DEF MayLogIn
  <2>4. new = Thrown \/ Opens(tables, new, NewSession(u.id, now, Arg(h).pw, job[h].alone))
    BY <1>2, <2>1, <2>3, SessionMade
  <2>5. job[h].alone => new # Thrown  BY <1>2, <2>2, SessionStatementsSucceed
  <2>6. Continues(tables, tables)  BY <1>2 DEF Continues, Good, Sound
  <2>7. NewSession(u.id, now, Arg(h).pw, job[h].alone).iat = now  BY DEF NewSession
  <2> HIDE DEF new
  <2>8. "Success" \in login  BY DEF login
  <2> QED BY <1>1, <1>4, <2>4, <2>5, <2>6, <2>7, <2>8, OpeningCommits
<1> QED BY <1>3, <1>4 DEF LoginEnds

LEMMA RenewEndsInv ==
  ASSUME StateInv, NEW h \in Slots, RenewEnds(h)
  PROVE  Preserves
<1> DEFINE k == Arg(h).token.device
<1>1. Busy(h) /\ job[h].op = "renew" /\ job[h].pc = "write"  BY DEF RenewEnds, At
<1>2. PICK iat \in Got(h, "signed")..now :
        CommitSession(h, updateLastActiveDate(tables, k, iat, job[h].alone), k, iat, renewTokens)
  BY DEF RenewEnds
<1> DEFINE new == updateLastActiveDate(tables, k, iat, job[h].alone)
<1>3. /\ Good(tables) /\ Sound(tables) /\ JobOK(h) /\ now \in Nat /\ TablesInv /\ IssuedInv
      /\ tables.codes \in Nat
  BY <1>1, ScenesAssumption DEF StateInv, TablesInv, Good, Sound, JobsInv, BoundsInv
<1>4. /\ iat \in Nat /\ iat <= now /\ Got(h, "signed") <= iat /\ Got(h, "signed") \in Nat
      /\ job[h].alone \in BOOLEAN
  BY <1>1, <1>2, <1>3 DEF JobOK, ArgOK
<1>5. job[h].alone => /\ IsDevice(tables, k)
                      /\ \A t \in issued : t.device = k => t.iat <= Got(h, "signed")
  BY <1>1, Informed DEF CurrentDecision, TokenOps, IsCurrent, getDeviceById
<1>6. job[h].alone => new # Thrown  BY <1>3, <1>5, SessionStatementsSucceed
<1>7. new = Thrown \/ Renews(tables, new, k, iat, job[h].alone)  BY <1>3, <1>4, SessionRenewed
<1>8. /\ job' = [job EXCEPT ![h] = Idle] /\ UNCHANGED others
      /\ tables' = IF new = Thrown THEN tables ELSE new
      /\ issued' = IF new = Thrown THEN issued
                   ELSE issued \cup {[device |-> k, user |-> new.device[k].user, iat |-> iat]}
  BY <1>2 DEF CommitSession, Reply, others
<1>9. oops' = oops
  BY <1>2, <1>6 DEF CommitSession, Reply, Switch, renewTokens
<1> HIDE DEF new, k
<1>10. CASE new = Thrown
  <2>1. TablesInv' /\ IssuedInv'  BY <1>3, <1>8, <1>10 DEF TablesInv, IssuedInv, others
  <2>2. EndsWell(h)  BY <1>3, <1>8, <1>9, <1>10, <2>1, NobodyLeaves DEF EndsWell
  <2> QED BY <1>1, <2>2, EndsInv
<1>11. CASE new # Thrown
  <2> DEFINE token == [device |-> k, user |-> new.device[k].user, iat |-> iat]
  <2>1. Renews(tables, new, k, iat, job[h].alone) /\ tables' = new /\ issued' = issued \cup {token}
    BY <1>7, <1>8, <1>11
  <2>2. TablesInv'  BY <1>3, <2>1 DEF TablesInv, Renews
  <2>3. token \in [device : 1..Len(new.device), user : 1..MaxUsers, iat : 0..now]
    <3>1. IsUser(new, new.device[k].user) /\ k \in LiveRows(new.device) /\ Sound(new)
      BY <2>1 DEF Renews, Good, Sound
    <3>2. Len(new.user) \in Nat /\ DOMAIN new.user = 1..Len(new.user) /\ Len(new.user) <= MaxUsers
          /\ DOMAIN new.device = 1..Len(new.device) /\ MaxUsers \in Nat
      BY <1>3, <2>1, <3>1, SeqFacts, IdentityBounds DEF Sound, Renews, TablesInv
    <3> QED BY <1>3, <1>4, <3>1, <3>2 DEF IsUser, IsRow, LiveRows
  <2>4. issued' \subseteq [device : 1..Len(new.device), user : 1..MaxUsers, iat : 0..now]
    BY <1>3, <2>1, <2>3 DEF IssuedInv, Renews
  <2>5. ASSUME NEW l \in LiveRows(new.device), NEW t \in issued', new.device[l].renewedAlone,
               t.device = l
        PROVE  t.iat <= new.device[l].iat
    <3>1. \A other \in issued : other.iat \in Nat  BY <1>3 DEF IssuedInv
    <3>2. CASE l # k
      <4>1. t \in issued /\ l \in LiveRows(tables.device) /\ new.device[l] = tables.device[l]
        BY <2>1, <2>5, <3>2 DEF Renews
      <4> QED BY <1>3, <2>5, <4>1 DEF IssuedInv
    <3>3. CASE l = k
      <4>1. new.device[k].iat = iat /\ job[h].alone  BY <2>1, <2>5, <3>3 DEF Renews
      <4>2. CASE t = token  BY <1>4, <3>3, <4>1, <4>2
      <4>3. CASE t \in issued
        <5>1. t.iat <= Got(h, "signed")  BY <1>5, <2>5, <3>3, <4>1, <4>3 DEF k
        <5> QED BY <1>4, <3>1, <3>3, <4>1, <4>3, <5>1
      <4> QED BY <2>1, <2>5, <4>2, <4>3
    <3> QED BY <3>2, <3>3
  <2>6. IssuedInv'  BY <1>8, <2>1, <2>4, <2>5 DEF IssuedInv, others
  <2>7. \A i \in LiveUsers(tables) : IsUser(tables', i)
    BY <2>1 DEF Renews, IsUser, IsRow, LiveUsers
  <2>8. EndsWell(h)
    BY <1>3, <1>8, <1>9, <2>1, <2>2, <2>6, <2>7 DEF EndsWell, Renews
  <2> QED BY <1>1, <2>8, EndsInv
<1> QED BY <1>10, <1>11

LEMMA TokenEndsInv ==
  ASSUME StateInv, NEW h \in Slots, LogoutEnds(h) \/ TerminateEnds(h) \/ TerminateOthersEnds(h)
  PROVE  Preserves
<1>1. Busy(h) /\ job[h].op \in {"logout", "terminate", "terminateOthers"} /\ job[h].pc = "write"
  BY DEF LogoutEnds, TerminateEnds, TerminateOthersEnds, At
<1>2. Good(tables) /\ Sound(tables)  BY DEF StateInv, TablesInv, Good
<1>3. job[h].alone => CurrentDecision(h)  BY <1>1, Informed
<1>4. CASE LogoutEnds(h)
  <2>1. job[h].alone => IsDevice(tables, Arg(h).token.device)
    BY <1>1, <1>3 DEF CurrentDecision, TokenOps, IsCurrent, getDeviceById
  <2>2. job[h].alone => deleteDevice(tables, Arg(h).token.device) # Thrown
    BY <1>2, <2>1, SessionStatementsSucceed
  <2>3. Kept(tables, deleteDevice(tables, Arg(h).token.device))  BY <1>2, SessionsKept
  <2> QED BY <1>1, <1>4, <2>2, <2>3, KeepingCommits DEF LogoutEnds, logout
<1>5. CASE TerminateEnds(h)
  <2>1. job[h].alone => deleteDevice(tables, Got(h, "device")) # Thrown
    BY <1>1, <1>2, <1>3, <1>5, SessionStatementsSucceed DEF CurrentDecision, TerminateEnds, At
  <2>2. Kept(tables, deleteDevice(tables, Got(h, "device")))  BY <1>2, SessionsKept
  <2> QED BY <1>1, <1>5, <2>1, <2>2, KeepingCommits DEF TerminateEnds, terminateDeviceById
<1>6. CASE TerminateOthersEnds(h)
  <2>1. deleteSessionsById(tables, Got(h, "devices")) # Thrown
    BY <1>2, SessionStatementsSucceed
  <2>2. Kept(tables, deleteSessionsById(tables, Got(h, "devices")))
    BY <1>2, SessionsKept DEF Kept
  <2> QED BY <1>1, <1>6, <2>1, <2>2, KeepingCommits DEF TerminateOthersEnds, terminateAllExcludeCurrent
<1> QED BY <1>4, <1>5, <1>6

LEMMA RestoreEndsInv ==
  ASSUME StateInv, NEW h \in Slots, RestoreEnds(h)
  PROVE  Preserves
<1> DEFINE code == Got(h, "code")  u == Got(h, "user")
           new == IF code # 0 THEN updateResetPasswordByCode(tables, code)
                  ELSE createReset(tables, u.id)
<1>1. Busy(h) /\ job[h].op = "restore" /\ job[h].pc = "write"  BY DEF RestoreEnds, At
<1>2. Good(tables) /\ Sound(tables)  BY DEF StateInv, TablesInv, Good
<1>3. Kept(tables, new)  BY <1>2, CodesKept
<1>4. job[h].alone => new # Thrown
  <2> SUFFICES ASSUME job[h].alone PROVE new # Thrown
    OBVIOUS
  <2>1. /\ Exists(u) /\ IsOneOf(u, tables, EmailHolders(tables, Arg(h).email))
        /\ code = getResetPasswordByUserId(tables, u.id)
    BY <1>1, Informed DEF CurrentDecision
  <2>2. u.id \in LiveUsers(tables)  BY <2>1 DEF IsOneOf, EmailHolders, Exists
  <2>3. IsUser(tables, u.id)  BY <2>2 DEF IsUser, IsRow, LiveUsers
  <2>4. code = tables.user[u.id].reset  BY <2>1, <2>3 DEF getResetPasswordByUserId
  <2>5. u.id \in ResetHolders(tables, code)  BY <2>2, <2>4 DEF ResetHolders
  <2> HIDE DEF code
  <2> QED BY <1>2, <2>3, <2>4, <2>5, UserStatementsSucceed
<1>5. Commit(h, new, restorePassword)  BY DEF RestoreEnds
<1> HIDE DEF new
<1> QED BY <1>1, <1>3, <1>4, <1>5, KeepingCommits DEF restorePassword

LEMMA ResetEndsInv ==
  ASSUME StateInv, NEW h \in Slots, ResetEnds(h)
  PROVE  Preserves
<1> DEFINE u == Got(h, "user")  new == PasswordReset(tables, u.id, Arg(h).pw, Arg(h).code)
<1>1. Busy(h) /\ job[h].op = "restoreConfirm" /\ job[h].pc = "write"  BY DEF ResetEnds, At
<1>2. Good(tables) /\ Sound(tables) /\ JobOK(h)  BY <1>1 DEF StateInv, TablesInv, Good, JobsInv
<1>3. CASE \E result \in {"BadRequest", "Unauthorized"} : Answer(h, restorePasswordConfirmation, result)
  BY <1>1, <1>3, Answers DEF restorePasswordConfirmation
<1>4. CASE Exists(u) /\ Commit(h, new, restorePasswordConfirmation)
  <2>1. Kept(tables, new)  BY <1>1, <1>2, PasswordKept DEF JobOK, ArgOK
  <2>2. job[h].alone => u.id \in ResetHolders(tables, Arg(h).code)
    BY <1>1, <1>4, Informed DEF IsOneOf, Exists
  <2>3. job[h].alone => new # Thrown  BY <1>2, <2>2, PasswordResetSucceeds
  <2> HIDE DEF new
  <2> QED BY <1>1, <1>4, <2>1, <2>3, KeepingCommits DEF restorePasswordConfirmation
<1> QED BY <1>3, <1>4 DEF ResetEnds, handleUpdatePassword, PasswordReset

LEMMA BanEndsInv ==
  ASSUME StateInv, NEW h \in Slots, BanEnds(h) \/ UnbanEnds(h)
  PROVE  Preserves
<1> DEFINE i == Got(h, "user")
<1>1. Busy(h) /\ job[h].op \in {"ban", "unban"} /\ job[h].pc = "write"
  BY DEF BanEnds, UnbanEnds, At
<1>2. Good(tables) /\ Sound(tables)  BY DEF StateInv, TablesInv, Good
<1>3. job[h].alone => IsUser(tables, i) /\ tables.user[i].banned = (job[h].op = "unban")
  BY <1>1, Informed DEF CurrentDecision
<1>4. CASE BanEnds(h)
  <2>1. job[h].alone => banUserRow(tables, i) # Thrown
    BY <1>2, <1>3, <1>4, UserStatementsSucceed DEF BanEnds, At
  <2>2. Kept(tables, banUserRow(tables, i))  BY <1>2, ColumnsKept
  <2> QED BY <1>1, <1>4, <2>1, <2>2, KeepingCommits DEF BanEnds, banUser
<1>5. CASE UnbanEnds(h)
  <2>1. job[h].alone => unbanUserRow(tables, i) # Thrown
    BY <1>2, <1>3, <1>5, UserStatementsSucceed DEF UnbanEnds, At
  <2>2. Kept(tables, unbanUserRow(tables, i))  BY <1>2, ColumnsKept
  <2> QED BY <1>1, <1>5, <2>1, <2>2, KeepingCommits DEF UnbanEnds, unbanUser
<1> QED BY <1>4, <1>5

LEMMA DeleteUserEndsInv ==
  ASSUME StateInv, NEW h \in Slots, DeleteUserEnds(h)
  PROVE  Preserves
<1> DEFINE new == removeUser(tables, Arg(h).user)
<1>1. Busy(h)  BY DEF DeleteUserEnds, At
<1>2. Kept(tables, new)  BY ColumnsKept DEF StateInv, TablesInv
<1>3. CASE new # Thrown /\ Commit(h, new, deleteUser)
  BY <1>1, <1>2, <1>3, KeepingCommits DEF deleteUser
<1>4. CASE /\ job' = [g \in Slots |-> Idle]
           /\ UNCHANGED <<tables, issued, lapsed, now, scene, moves, faults, oops>>
  <2>1. TablesInv' /\ BoundsInv' /\ IssuedInv'
    BY <1>4 DEF StateInv, TablesInv, BoundsInv, IssuedInv
  <2>2. DOMAIN job' = Slots /\ \A g \in Slots : ~Busy(g)'  BY <1>4 DEF Busy
  <2>3. JobsInv' /\ AloneInv' /\ CurrentInv'  BY <2>2 DEF JobsInv, AloneInv, CurrentInv
  <2> QED BY <1>4, <2>1, <2>3, NobodyLeaves DEF StateInv, Preserves
<1> QED BY <1>3, <1>4 DEF DeleteUserEnds

LEMMA ConfirmationEndsInv ==
  ASSUME StateInv, NEW h \in Slots, ConfirmationEnds(h)
  PROVE  Preserves
<1> DEFINE u == Got(h, "user")  i == u.id  c == Arg(h).code
           confirmed == confirmUser(tables, i)
           new == removeConfirmationByToken(confirmed, c)
<1>1. Busy(h) /\ job[h].op = "confirm" /\ job[h].pc = "decide"  BY DEF ConfirmationEnds, At
<1>2. /\ Good(tables) /\ Sound(tables) /\ tables.codes \in Nat /\ DOMAIN tables = Columns
      /\ tables # Thrown
  BY NotThrown DEF StateInv, TablesInv, Good, Sound
<1>3. CASE \E result \in {"BadRequest", "Unauthorized", "NotFound"} :
             Answer(h, registrationConfirmation, result)
  BY <1>1, <1>3, Answers DEF registrationConfirmation
<1>4. CASE Exists(u) /\ Commit(h, new, registrationConfirmation)
  <2>1. Kept(tables, new)
    <3>1. Kept(tables, confirmed)  BY <1>2, ColumnsKept
    <3>2. CASE confirmed = Thrown
      BY <3>2 DEF removeConfirmationByToken, Statement, Kept
    <3>3. CASE Keeps(tables, confirmed)
      <4>1. Good(confirmed)  BY <3>3 DEF Keeps
      <4>2. Kept(confirmed, new)  BY <4>1, CodesKept
      <4> HIDE DEF confirmed, new
      <4> QED BY <1>2, <3>3, <4>2, KeepsOn DEF Kept
    <3> QED BY <3>1, <3>2, <3>3 DEF Kept
  <2>2. job[h].alone => new # Thrown
    <3> SUFFICES ASSUME job[h].alone PROVE new # Thrown
      OBVIOUS
    <3>1. i \in TokenHolders(tables, c)  BY <1>1, <1>4, Informed DEF IsOneOf, Exists
    <3>2. i \in LiveUsers(tables) /\ tables.user[i].token = c  BY <3>1 DEF TokenHolders
    <3>3. IsUser(tables, i) /\ i \in DOMAIN tables.user /\ tables.user[i].live
          /\ tables.user[i] \in UserRows(MaxUsers)
      BY <1>2, <3>2, LiveFacts DEF IsUser, IsRow, LiveUsers, LiveRows
    <3>4. confirmed = [tables EXCEPT !.user[i].confirmed = TRUE]
      BY <1>2, <3>3 DEF confirmUser, Statement
    <3>5. /\ DOMAIN confirmed = Columns /\ DOMAIN confirmed.user = DOMAIN tables.user
          /\ confirmed.user[i] = [tables.user[i] EXCEPT !.confirmed = TRUE]
      BY <1>2, <3>3, <3>4 DEF Columns
    <3>6. confirmed.user[i].live /\ confirmed.user[i].token = c
      BY <3>2, <3>3, <3>5 DEF UserRows
    <3> HIDE DEF confirmed
    <3>7. i \in TokenHolders(confirmed, c)
      BY <3>3, <3>5, <3>6 DEF TokenHolders, LiveUsers, LiveRows
    <3> QED BY <3>5, <3>7, NotThrown DEF removeConfirmationByToken, Statement
  <2> HIDE DEF new
  <2> QED BY <1>1, <1>4, <2>1, <2>2, KeepingCommits DEF registrationConfirmation
<1> QED BY <1>3, <1>4 DEF ConfirmationEnds, handleConfirm

LEMMA ResendingEndsInv ==
  ASSUME StateInv, NEW h \in Slots, ResendingEnds(h)
  PROVE  Preserves
<1> DEFINE u == Got(h, "user")  c == Arg(h).code  new == updateConfirmationByToken(tables, c)
<1>1. Busy(h) /\ job[h].op = "resend" /\ job[h].pc = "decide"  BY DEF ResendingEnds, At
<1>2. Good(tables) /\ Sound(tables)  BY DEF StateInv, TablesInv, Good
<1>3. CASE \E result \in {"BadRequest", "Unauthorized", "NotFound"} :
             Answer(h, registrationEmailResending, result)
  BY <1>1, <1>3, Answers DEF registrationEmailResending
<1>4. CASE Exists(u) /\ Commit(h, new, registrationEmailResending)
  <2>1. job[h].alone => u.id \in TokenHolders(tables, c)
    BY <1>1, <1>4, Informed DEF IsOneOf, Exists
  <2>2. job[h].alone => new # Thrown
    BY <1>2, <2>1, UserStatementsSucceed DEF TokenHolders, IsUser, IsRow, LiveUsers
  <2>3. Kept(tables, new)  BY <1>2, CodesKept
  <2> HIDE DEF new
  <2> QED BY <1>1, <1>4, <2>2, <2>3, KeepingCommits DEF registrationEmailResending
<1> QED BY <1>3, <1>4 DEF ResendingEnds

\* What executeTransaction begins with: the tables, without the user replaced.
LEMMA RegistrationSpares ==
  ASSUME StateInv, NEW h \in Slots, At(h, {"registration"}, "create"), ~Taken(h), job[h].alone
  PROVE  /\ userIdToDell(h) # 0 => /\ IsUser(tables, userIdToDell(h))
                                   /\ ~tables.user[userIdToDell(h)].confirmed
                                   /\ Exists(Replaced(h))
                                   /\ Replaced(h).row = tables.user[userIdToDell(h)]
         /\ \A j \in LiveUsers(tables) \ {userIdToDell(h)} : tables.user[j].email = Arg(h).email
              => {tables.user[j].how, How(h)} \cap {"raced", "crossed"} # {}
         /\ \A j \in LiveUsers(tables) \ {userIdToDell(h)} : tables.user[j].name = Arg(h).name
              => \/ "raced" \in {tables.user[j].how, How(h)}
                 \/ \E e \in Emails : BaseOf[e] \in LongBases
                                      /\ Arg(h).name = generateUniqUserName(e, 0)
<1> DEFINE byEmail == Got(h, "email")  byName == Got(h, "name")  i == userIdToDell(h)
<1>1. Busy(h) /\ job[h].op = "registration" /\ job[h].pc # "find"  BY DEF At
<1>2. Sound(tables) /\ SharedIn(tables)  BY DEF StateInv, TablesInv, Good
<1>3. /\ IsOneOf(byEmail, tables, EmailHolders(tables, Arg(h).email))
      /\ IsOneOf(byName, tables, NameHolders(tables, Arg(h).name))
  BY <1>1, Informed
<1>4. i # 0 => IsUser(tables, i) /\ Exists(Replaced(h)) /\ Replaced(h).row = tables.user[i]
               /\ ~tables.user[i].confirmed
  <2> SUFFICES ASSUME i # 0
               PROVE  IsUser(tables, i) /\ Exists(Replaced(h)) /\ Replaced(h).row = tables.user[i]
                      /\ ~tables.user[i].confirmed
    OBVIOUS
  <2>1. Replaced(h) \in {byEmail, byName} /\ i = Replaced(h).id  BY DEF Replaced, userIdToDell
  <2>2. Exists(Replaced(h))  BY <2>1 DEF Exists, Nobody
  <2>3. i \in LiveUsers(tables) /\ Replaced(h).row = tables.user[i]
    BY <1>3, <2>1, <2>2 DEF IsOneOf, Exists, EmailHolders, NameHolders
  <2>4. ~Replaced(h).row.confirmed  BY <2>1, <2>2 DEF Taken
  <2> QED BY <2>2, <2>3, <2>4 DEF IsUser, IsRow, LiveUsers
<1>5. /\ How(h) = (LET before == IF Exists(Replaced(h)) THEN Replaced(h).row.how ELSE "alone"
                   IN IF before = "raced" THEN "raced"
                      ELSE IF before = "crossed" \/ Crossed(h) THEN "crossed" ELSE "alone")
  BY <1>1 DEF How
<1>6. /\ Exists(Replaced(h)) /\ Replaced(h).row.how = "raced" => How(h) = "raced"
      /\ Exists(Replaced(h)) /\ Replaced(h).row.how = "crossed" => How(h) = "crossed"
      /\ Crossed(h) => How(h) \in {"raced", "crossed"}
  BY <1>5
<1>7. ASSUME NEW j \in LiveUsers(tables) \ {i}, tables.user[j].email = Arg(h).email
      PROVE  {tables.user[j].how, How(h)} \cap {"raced", "crossed"} # {}
  <2>1. /\ Exists(byEmail) /\ byEmail.id \in LiveUsers(tables)
        /\ tables.user[byEmail.id].email = Arg(h).email
    BY <1>3, <1>7 DEF IsOneOf, EmailHolders
  <2>2. CASE byEmail.id # i
    <3>1. Crossed(h)
      BY <2>1, <2>2 DEF Crossed, userIdToDell, Replaced
    <3> QED BY <1>6, <3>1
  <2>3. CASE byEmail.id = i
    <3>1. i \in LiveUsers(tables) /\ i # 0 /\ j # i
      BY <1>2, <1>7, <2>1, <2>3, LiveFacts
    <3>2. SharedIn(tables)!(i, j)  BY <1>2, <1>7, <3>1 DEF SharedIn
    <3>3. {tables.user[i].how, tables.user[j].how} \cap {"raced", "crossed"} # {}
      BY <1>7, <2>1, <2>3, <3>2
    <3> QED BY <1>4, <1>6, <3>1, <3>3
  <2> QED BY <2>2, <2>3
<1>8. ASSUME NEW j \in LiveUsers(tables) \ {i}, tables.user[j].name = Arg(h).name
      PROVE  \/ "raced" \in {tables.user[j].how, How(h)}
             \/ \E e \in Emails : BaseOf[e] \in LongBases /\ Arg(h).name = generateUniqUserName(e, 0)
  <2>1. /\ Exists(byName) /\ byName.id \in LiveUsers(tables)
        /\ tables.user[byName.id].name = Arg(h).name
    BY <1>3, <1>8 DEF IsOneOf, NameHolders
  <2>2. byName.id = i /\ i # 0 /\ j # i
    BY <1>2, <1>8, <2>1, LiveFacts DEF userIdToDell, Replaced
  <2>3. SharedIn(tables)!(i, j)  BY <1>2, <1>8, <2>1, <2>2 DEF SharedIn
  <2>4. CASE "raced" \in {tables.user[i].how, tables.user[j].how}
    BY <1>4, <1>6, <2>2, <2>4
  <2>5. CASE \E e \in Emails : BaseOf[e] \in LongBases
                               /\ tables.user[i].name = generateUniqUserName(e, i)
    <3>1. \A e \in Emails : BaseOf[e] \in LongBases =>
            generateUniqUserName(e, 0) = generateUniqUserName(e, i)
      BY DEF generateUniqUserName
    <3> QED BY <2>1, <2>2, <2>5, <3>1
  <2> QED BY <1>8, <2>1, <2>2, <2>3, <2>4, <2>5
<1> QED BY <1>4, <1>7, <1>8

\* How a user came to be is one of three.
LEMMA HowOK ==
  ASSUME NEW h
  PROVE  How(h) \in {"alone", "raced", "crossed"} /\ (~job[h].alone => How(h) = "raced")
BY DEF How

\* The row of a user who has just been made, by a callback or by a registration.
LinkedRow(email, name, how) == UserRow(email, name, None, TRUE, how)

LEMMA LinkedRowMade ==
  ASSUME NEW email \in Emails, NEW name \in AllNames(MaxUsers),
         NEW how \in {"alone", "raced", "crossed"}
  PROVE  LET row == LinkedRow(email, name, how) IN
           /\ row \in UserRows(MaxUsers) /\ row.email = email /\ row.name = name /\ row.how = how
           /\ row.google = None /\ row.github = None
BY DEF LinkedRow, UserRow, UserRows

PendingRow(email, name, pw, how, token) ==
  [UserRow(email, name, pw, FALSE, how) EXCEPT !.token = token]

LEMMA PendingRowMade ==
  ASSUME NEW email \in Emails, NEW name \in AllNames(MaxUsers), NEW pw \in Passwords \cup {None},
         NEW how \in {"alone", "raced", "crossed"}, NEW token \in Nat
  PROVE  LET row == PendingRow(email, name, pw, how, token) IN
           row \in UserRows(MaxUsers) /\ row.email = email /\ row.name = name /\ row.how = how
<1> DEFINE plain == UserRow(email, name, pw, FALSE, how)
<1>1. /\ plain \in UserRows(MaxUsers) /\ plain.email = email
      /\ plain.name = name /\ plain.how = how
  BY DEF UserRow, UserRows
<1>2. PendingRow(email, name, pw, how, token) = [plain EXCEPT !.token = token]  BY DEF PendingRow
<1> HIDE DEF plain
<1>3. Kin(plain, [plain EXCEPT !.token = token])  BY <1>1, RowsChange
<1> QED BY <1>1, <1>2, <1>3 DEF Kin

LEMMA NamesMade ==
  ASSUME NEW n \in Nat
  PROVE  /\ Names \subseteq AllNames(n)
         /\ \A e \in Emails, i \in 0..n : generateUniqUserName(e, i) \in AllNames(n)
<1>1. Names \subseteq AllNames(n)  BY DEF AllNames
<1>2. ASSUME NEW e \in Emails, NEW i \in 0..n PROVE generateUniqUserName(e, i) \in AllNames(n)
  BY DEF AllNames
<1> QED BY <1>1, <1>2

LEMMA RegistrationEndsInv ==
  ASSUME StateInv, NEW h \in Slots, RegistrationEnds(h)
  PROVE  Preserves
<1> DEFINE i == userIdToDell(h)  how == How(h)
           base == IF i = 0 THEN tables ELSE removeUserById(tables, i)
           new == createNotConfirmedUser(base, Arg(h).email, Arg(h).name, Arg(h).pw, how)
           row == [UserRow(Arg(h).email, Arg(h).name, Arg(h).pw, FALSE, how)
                     EXCEPT !.token = base.codes + 1]
<1>1. Busy(h) /\ job[h].op = "registration" /\ At(h, {"registration"}, "create")
  BY DEF RegistrationEnds, At
<1>2. /\ Good(tables) /\ Sound(tables) /\ JobOK(h) /\ Len(tables.user) \in Nat /\ MaxUsers \in Nat
      /\ tables # Thrown
  BY <1>1, NotThrown, SeqFacts, IdentityBounds DEF StateInv, TablesInv, Good, Sound, JobsInv
<1>3. CASE Answer(h, registration, "BadRequest")
  BY <1>1, <1>3, Answers DEF registration
<1>4. CASE /\ ~Taken(h) /\ Len(tables.user) < MaxUsers /\ Commit(h, new, registration)
  <2>1. base = Thrown \/ /\ Good(base) /\ base.codes = tables.codes
                         /\ Len(base.user) = Len(tables.user) /\ Len(base.device) = Len(tables.device)
                         /\ LiveUsers(base) = LiveUsers(tables) \ {i}
                         /\ \A j \in LiveUsers(base) : base.user[j] = tables.user[j]
                         /\ \A k \in LiveRows(base.device) :
                              k \in LiveRows(tables.device) /\ base.device[k] = tables.device[k]
    <3>1. CASE i = 0
      <4>1. LiveUsers(tables) = LiveUsers(tables) \ {i}  BY <1>2, <3>1, LiveFacts
      <4> QED BY <1>2, <3>1, <4>1
    <3>2. CASE i # 0  BY <1>2, <3>2, UserRemoved DEF Removes
    <3> QED BY <3>1, <3>2
  <2>2. job[h].alone => base # Thrown
    <3> HIDE DEF i
    <3>1. job[h].alone /\ i # 0 => removeUserById(tables, i) # Thrown
      BY <1>1, <1>2, <1>4, RegistrationSpares, UserStatementsSucceed DEF i
    <3> QED BY <1>2, <3>1
  <2>3. how \in {"alone", "raced", "crossed"} /\ (~job[h].alone => how = "raced")  BY HowOK
  <2>4. Arg(h).email \in Emails /\ Arg(h).name \in Names /\ Arg(h).pw \in Passwords
    BY <1>1, <1>2 DEF JobOK, ArgOK, RegistrationDtos
  <2>5. job[h].alone => /\ \A j \in LiveUsers(tables) \ {i} : tables.user[j].email = Arg(h).email
                             => {tables.user[j].how, how} \cap {"raced", "crossed"} # {}
                        /\ \A j \in LiveUsers(tables) \ {i} : tables.user[j].name = Arg(h).name
                             => \/ "raced" \in {tables.user[j].how, how}
                                \/ \E e \in Emails : BaseOf[e] \in LongBases
                                                     /\ Arg(h).name = generateUniqUserName(e, 0)
                        /\ i # 0 => ~tables.user[i].confirmed
    BY <1>1, <1>4, RegistrationSpares
  <2> HIDE DEF base, how, i
  <2>6. CASE base = Thrown
    <3>1. new = Thrown  BY <2>6 DEF createNotConfirmedUser, Statement
    <3> HIDE DEF new
    <3> QED BY <1>1, <1>4, <2>2, <2>6, <3>1, Commits DEF registration
  <2>7. CASE base # Thrown
    <3>1. Good(base) /\ Sound(base) /\ DOMAIN base = Columns /\ base.codes \in Nat
      BY <2>1, <2>7 DEF Good, Sound
    <3>2. /\ row \in UserRows(MaxUsers) /\ row.email = Arg(h).email /\ row.name = Arg(h).name
          /\ row.how = how
      <4>1. Arg(h).name \in AllNames(MaxUsers) /\ base.codes + 1 \in Nat
        BY <1>2, <2>4, <3>1, NamesMade
      <4>2. row = PendingRow(Arg(h).email, Arg(h).name, Arg(h).pw, how, base.codes + 1)
        BY DEF PendingRow
      <4>3. Arg(h).pw \in Passwords \cup {None}  BY <2>4
      <4> HIDE DEF row
      <4> QED BY <2>3, <2>4, <4>1, <4>2, <4>3, PendingRowMade
    <3>3. /\ DOMAIN new = Columns /\ new.codes = base.codes + 1 /\ new.device = base.device
          /\ new.user = Append(base.user, row)
      BY <2>7, <3>1 DEF createNotConfirmedUser, Statement, Columns
    <3> HIDE DEF new, row
    <3>4. new.codes \in Nat /\ new.codes >= base.codes  BY <3>1, <3>3
    <3>5. \A j \in LiveUsers(base) : base.user[j].email = row.email
            => {base.user[j].how, row.how} \cap {"raced", "crossed"} # {}
      BY <2>1, <2>3, <2>5, <2>7, <3>2
    <3>6. \A j \in LiveUsers(base) : base.user[j].name = row.name
            => \/ "raced" \in {base.user[j].how, row.how}
               \/ \E e \in Emails : BaseOf[e] \in LongBases /\ row.name = generateUniqUserName(e, 0)
      BY <2>1, <2>3, <2>5, <2>7, <3>2
    <3>7. Makes(base, new, row)
      BY <2>4, <3>1, <3>2, <3>3, <3>4, <3>5, <3>6, UserMade
    <3>8. Continues(tables, new)
      BY <1>2, <1>4, <2>1, <2>7, <3>7 DEF Makes, Continues
    <3>9. Spares(h, new)
      <4>1. \A j \in LiveUsers(tables) : j \notin LiveUsers(new) => j = i
        BY <2>1, <2>7, <3>7 DEF Makes
      <4>2. \A j \in LiveUsers(tables) : j # 0  BY <1>2, LiveFacts
      <4> QED BY <2>5, <4>1, <4>2 DEF Spares
    <3>10. new # Thrown  BY <3>3, NotThrown
    <3> QED BY <1>1, <1>4, <3>8, <3>9, <3>10, Commits DEF registration
  <2> QED BY <2>6, <2>7
<1> QED BY <1>3, <1>4 DEF RegistrationEnds, executeTransaction

\* An account is added to a user whom nothing like it is known of.
LEMMA AccountAdded ==
  ASSUME NEW d, Good(d), NEW op \in {"google", "github"}, NEW i, NEW a,
         op = "google" => a \in GoogleAccounts, op = "github" => a \in GithubAccounts
  PROVE  /\ Kept(d, addInfoToUser(d, op, i, a))
         /\ IsUser(d, i) /\ Link(d.user[i], op) = None
              /\ (\A j \in LiveUsers(d) : Link(d.user[j], op) # a)
            => addInfoToUser(d, op, i, a) # Thrown
<1>1. DOMAIN d = Columns /\ d # Thrown  BY NotThrown DEF Good, Sound
<1>2. Kept(d, addInfoToUser(d, op, i, a))  BY ColumnsKept DEF addInfoToUser
<1>3. CASE op = "google"
  BY <1>1, <1>2, <1>3, NotThrown DEF addInfoToUser, addGoogleInfoToUser, Statement, Link
<1>4. CASE op = "github"
  BY <1>1, <1>2, <1>4, NotThrown DEF addInfoToUser, addGithubInfoToUser, Statement, Link
<1> QED BY <1>3, <1>4

\* No user has the name that is made for a new one, unless it is cut.
LEMMA NameIsNew ==
  ASSUME StateInv, Len(tables.user) < MaxUsers, NEW e \in Emails
  PROVE  LET name == generateUniqUserName(e, Len(tables.user) + 1) IN
           \A j \in LiveUsers(tables) : tables.user[j].name = name =>
             BaseOf[e] \in LongBases /\ name = generateUniqUserName(e, 0)
<1> DEFINE m == Len(tables.user) + 1  name == generateUniqUserName(e, m)
<1>1. /\ Sound(tables) /\ Len(tables.user) \in Nat /\ MaxUsers \in Nat
      /\ DOMAIN tables.user = 1 .. Len(tables.user)
  BY SeqFacts, IdentityBounds DEF StateInv, TablesInv, Good, Sound
<1>2. m \in 1..MaxUsers  BY <1>1
<1>3. CASE BaseOf[e] \in LongBases  BY <1>3 DEF generateUniqUserName
<1>4. CASE BaseOf[e] \notin LongBases
  <2>1. name \notin Names  BY <1>2, <1>4, DigitsAssumption
  <2>2. name = <<BaseOf[e], m>>  BY <1>4 DEF generateUniqUserName
  <2>3. ASSUME NEW j \in LiveUsers(tables), tables.user[j].name = name PROVE FALSE
    <3>1. PICK f \in Emails : name = generateUniqUserName(f, j)
      BY <1>1, <2>1, <2>3 DEF Sound
    <3>2. BaseOf[f] = BaseOf[e] /\ j = m
      BY <1>4, <2>2, <3>1 DEF generateUniqUserName
    <3>3. j \in 1 .. Len(tables.user)  BY <1>1 DEF LiveUsers, LiveRows
    <3> QED BY <1>1, <3>2, <3>3
  <2> QED BY <2>3
<1> QED BY <1>3, <1>4

\* createUser without the account: good tables, with a user more.
LEMMA CallbackUserMade ==
  ASSUME StateInv, Len(tables.user) < MaxUsers, NEW e \in Emails,
         NEW how \in {"alone", "raced", "crossed"},
         EmailHolders(tables, e) # {} => how = "raced"
  PROVE  LET row == LinkedRow(e, generateUniqUserName(e, Len(tables.user) + 1), how)
         IN  /\ createUserByGoogle(tables, e, how) = createUserByGithub(tables, e, how)
             /\ Makes(tables, createUserByGoogle(tables, e, how), row)
             /\ row.google = None /\ row.github = None
<1> DEFINE m == Len(tables.user) + 1  name == generateUniqUserName(e, m)
           row == LinkedRow(e, name, how)
           made == createUserByGoogle(tables, e, how)
<1>1. /\ Good(tables) /\ DOMAIN tables = Columns /\ tables.codes \in Nat /\ tables # Thrown
      /\ Len(tables.user) \in Nat /\ MaxUsers \in Nat
  BY NotThrown, SeqFacts, IdentityBounds DEF StateInv, TablesInv, Good, Sound
<1>2. name \in AllNames(MaxUsers)
  <2>1. m \in 0..MaxUsers  BY <1>1
  <2> HIDE DEF m
  <2> QED BY <1>1, <2>1, NamesMade
<1>3. /\ row \in UserRows(MaxUsers) /\ row.email = e /\ row.name = name /\ row.how = how
      /\ row.google = None /\ row.github = None
  BY <1>2, LinkedRowMade
<1>4. made = createUserByGithub(tables, e, how)
  <2> DEFINE one == [tables EXCEPT !.user = Append(@, row)]
  <2> HIDE DEF one
  <2>1. createUserByGoogle(tables, e, how) = Statement(tables, TRUE, one)
    BY Zenon DEF createUserByGoogle, one, LinkedRow
  <2>2. createUserByGithub(tables, e, how) = Statement(tables, TRUE, one)
    BY Zenon DEF createUserByGithub, one, LinkedRow
  <2> QED BY <2>1, <2>2
<1>5. /\ DOMAIN made = Columns /\ made.codes = tables.codes /\ made.device = tables.device
      /\ made.user = Append(tables.user, row)
  <2>1. made = [tables EXCEPT !.user = Append(@, row)]  BY <1>1 DEF createUserByGoogle, Statement, LinkedRow
  <2> HIDE DEF made, row
  <2> QED BY <1>1, <2>1 DEF Columns
<1> HIDE DEF made, row
<1>6. \A j \in LiveUsers(tables) : tables.user[j].email = row.email
        => {tables.user[j].how, row.how} \cap {"raced", "crossed"} # {}
  BY <1>3 DEF EmailHolders
<1>7. \A j \in LiveUsers(tables) : tables.user[j].name = row.name
        => \/ "raced" \in {tables.user[j].how, row.how}
           \/ \E f \in Emails : BaseOf[f] \in LongBases /\ row.name = generateUniqUserName(f, 0)
  BY <1>3, NameIsNew
<1>8. \E f \in Emails : row.name = generateUniqUserName(f, Len(tables.user) + 1)  BY <1>3
<1>9. made.codes \in Nat /\ made.codes >= tables.codes  BY <1>1, <1>5
<1>10. Makes(tables, made, row)  BY <1>1, <1>3, <1>5, <1>6, <1>7, <1>8, <1>9, UserMade
<1> QED BY <1>3, <1>4, <1>10 DEF made, row

\* The session of a callback, in the tables d that it has made.
LEMMA CallbackSessionEnds ==
  ASSUME StateInv, NEW h \in Slots, Busy(h), NEW d, NEW i, NEW endpoint,
         CallbackSession(h, d, i, endpoint), "Success" \in endpoint,
         d = Thrown \/ (Continues(tables, d) /\ LiveUsers(tables) \subseteq LiveUsers(d)),
         job[h].alone => d # Thrown /\ IsUser(d, i)
  PROVE  Preserves
<1> DEFINE new == IF d = Thrown THEN Thrown ELSE createSession(d, i, now, None, job[h].alone)
<1>1. now \in Nat /\ job[h].alone \in BOOLEAN
  BY ScenesAssumption DEF StateInv, BoundsInv, JobsInv, JobOK
<1>2. \/ new = Thrown
      \/ \E s : Continues(tables, d) /\ LiveUsers(tables) \subseteq LiveUsers(d)
                /\ Opens(d, new, s) /\ s.iat = now
  <2>1. CASE d = Thrown  BY <2>1
  <2>2. CASE d # Thrown
    <3>1. Good(d) /\ Continues(tables, d) /\ LiveUsers(tables) \subseteq LiveUsers(d)
      BY <2>2 DEF Continues
    <3>2. new = createSession(d, i, now, None, job[h].alone)  BY <2>2
    <3>3. new = Thrown \/ Opens(d, new, NewSession(i, now, None, job[h].alone))
      BY <1>1, <3>1, <3>2, SessionMade
    <3>4. NewSession(i, now, None, job[h].alone).iat = now  BY DEF NewSession
    <3> HIDE DEF new
    <3> QED BY <3>1, <3>3, <3>4
  <2> QED BY <2>1, <2>2
<1>3. job[h].alone => new # Thrown
  BY SessionStatementsSucceed DEF Continues, Good
<1>4. Len(tables.device) < MaxDevices
      /\ CommitSession(h, new, Len(tables.device) + 1, now, endpoint)
  BY DEF CallbackSession
<1> HIDE DEF new
<1> QED BY <1>2, <1>3, <1>4, OpeningCommits

LEMMA ContinuesOn ==
  ASSUME NEW t, t.codes \in Nat, NEW d, Continues(t, d), NEW n, Keeps(d, n)
  PROVE  Continues(t, n) /\ LiveUsers(n) = LiveUsers(d)
BY DEF Continues, Keeps, Good, Sound

\* What a callback does with the user who has the address of its account.
LEMMA LinkedUser ==
  ASSUME StateInv, NEW h \in Slots, NEW op \in {"google", "github"}, At(h, {op}, "decide"),
         ~Exists(Got(h, "account")), Exists(Got(h, "email")), Link(Got(h, "email").row, op) = None
  PROVE  /\ linkUser(h) = Thrown \/ Keeps(tables, linkUser(h))
         /\ job[h].alone => linkUser(h) # Thrown /\ IsUser(linkUser(h), Got(h, "email").id)
<1> DEFINE u == Got(h, "email")  i == u.id  a == Arg(h).account
           linked == addInfoToUser(tables, op, i, a)
<1>1. Busy(h) /\ job[h].op = op /\ job[h].pc # "find"  BY DEF At
<1>2. Good(tables) /\ Sound(tables) /\ tables.codes \in Nat /\ JobOK(h)
  BY <1>1 DEF StateInv, TablesInv, Good, Sound, JobsInv
<1>3. (op = "google" => a \in GoogleAccounts) /\ (op = "github" => a \in GithubAccounts)
  BY <1>1, <1>2 DEF JobOK, ArgOK
<1>4. Kept(tables, linked)  BY <1>2, <1>3, AccountAdded
<1>5. job[h].alone => linked # Thrown /\ IsUser(tables, i)
  <2> SUFFICES ASSUME job[h].alone PROVE linked # Thrown /\ IsUser(tables, i)
    OBVIOUS
  <2>1. /\ IsOneOf(Got(h, "account"), tables, AccountHolders(tables, op, a))
        /\ IsOneOf(u, tables, EmailHolders(tables, EmailOf[a]))
    BY <1>1, Informed
  <2>2. \A j \in LiveUsers(tables) : Link(tables.user[j], op) # a
    BY <2>1 DEF IsOneOf, AccountHolders
  <2>3. IsUser(tables, i) /\ u.row = tables.user[i]
    BY <2>1 DEF IsOneOf, Exists, EmailHolders, IsUser, IsRow, LiveUsers
  <2>4. Link(tables.user[i], op) = None  BY <2>3
  <2> QED BY <1>2, <1>3, <2>2, <2>3, <2>4, AccountAdded
<1>6. linkUser(h) = IF u.row.confirmed THEN linked
                    ELSE IF linked = Thrown THEN Thrown ELSE confirmUser(linked, i)
  BY <1>1 DEF linkUser
<1> HIDE DEF linked, i
<1>7. CASE linked = Thrown
  <2>1. linkUser(h) = Thrown  BY <1>6, <1>7
  <2> QED BY <1>5, <1>7, <2>1
<1>8. CASE linked # Thrown
  <2>1. Keeps(tables, linked) /\ Good(linked) /\ LiveUsers(linked) = LiveUsers(tables)
    BY <1>4, <1>8 DEF Kept, Keeps
  <2>2. IsUser(linked, i) <=> IsUser(tables, i)  BY <2>1 DEF IsUser, IsRow, LiveUsers
  <2>3. Kept(linked, confirmUser(linked, i))  BY <2>1, ColumnsKept
  <2>4. IsUser(linked, i) => confirmUser(linked, i) # Thrown
    <3>1. DOMAIN linked = Columns /\ linked # Thrown  BY <2>1, NotThrown DEF Good, Sound
    <3> QED BY <3>1, NotThrown DEF confirmUser, Statement
  <2>5. Keeps(linked, confirmUser(linked, i)) => Keeps(tables, confirmUser(linked, i))
                                                 /\ LiveUsers(confirmUser(linked, i)) = LiveUsers(linked)
    BY <1>2, <2>1, KeepsOn DEF Keeps
  <2>6. CASE u.row.confirmed
    <3>1. linkUser(h) = linked  BY <1>6, <2>6
    <3> QED BY <1>5, <1>8, <2>1, <2>2, <3>1 DEF i
  <2>7. CASE ~u.row.confirmed
    <3>1. linkUser(h) = confirmUser(linked, i)  BY <1>6, <1>8, <2>7
    <3>2. job[h].alone => Keeps(linked, confirmUser(linked, i))
      BY <1>5, <2>2, <2>3, <2>4 DEF Kept
    <3>3. job[h].alone => IsUser(confirmUser(linked, i), i)
      BY <1>5, <2>2, <2>5, <3>2 DEF IsUser, IsRow, LiveUsers
    <3> QED BY <1>5, <2>2, <2>3, <2>4, <2>5, <3>1, <3>3 DEF Kept, i
  <2> QED BY <2>6, <2>7
<1> QED BY <1>7, <1>8

\* What a callback does when nobody has its account or the address of it.
LEMMA CreatedUser ==
  ASSUME StateInv, NEW h \in Slots, NEW op \in {"google", "github"}, At(h, {op}, "decide"),
         ~Exists(Got(h, "account")), ~Exists(Got(h, "email")), Len(tables.user) < MaxUsers
  PROVE  /\ createUser(h) = Thrown
            \/ (Continues(tables, createUser(h))
                /\ LiveUsers(tables) \subseteq LiveUsers(createUser(h)))
         /\ job[h].alone => createUser(h) # Thrown /\ IsUser(createUser(h), Len(tables.user) + 1)
<1> DEFINE a == Arg(h).account  e == EmailOf[a]  m == Len(tables.user) + 1
           made == createUserByGoogle(tables, e, How(h))
           row == LinkedRow(e, generateUniqUserName(e, m), How(h))
           new == addInfoToUser(made, op, m, a)
<1>1. Busy(h) /\ job[h].op = op /\ job[h].pc # "find"  BY DEF At
<1>2. Good(tables) /\ Sound(tables) /\ tables.codes \in Nat /\ JobOK(h)
  BY <1>1 DEF StateInv, TablesInv, Good, Sound, JobsInv
<1>3. (op = "google" => a \in GoogleAccounts) /\ (op = "github" => a \in GithubAccounts)
  BY <1>1, <1>2 DEF JobOK, ArgOK
<1>4. e \in Emails /\ a # None  BY <1>3, AccountsAssumption
<1>5. job[h].alone => /\ EmailHolders(tables, e) = {}
                      /\ \A j \in LiveUsers(tables) : Link(tables.user[j], op) # a
  BY <1>1, Informed DEF IsOneOf, AccountHolders
<1>6. How(h) \in {"alone", "raced", "crossed"} /\ (EmailHolders(tables, e) # {} => How(h) = "raced")
  BY <1>5, HowOK
<1>7. /\ made = createUserByGithub(tables, e, How(h)) /\ Makes(tables, made, row)
      /\ row.google = None /\ row.github = None
  BY <1>4, <1>6, CallbackUserMade
<1> HIDE DEF made, row
<1>8. Good(made) /\ Len(made.user) = m /\ made.user = Append(tables.user, row)
      /\ LiveUsers(made) = LiveUsers(tables) \cup {m}
      /\ \A j \in LiveUsers(tables) : made.user[j] = tables.user[j]
  BY <1>7 DEF Makes
<1>9. createUser(h) = new
  BY <1>1, <1>7, <1>8 DEF createUser, made
<1>10. Continues(tables, made) /\ LiveUsers(tables) \subseteq LiveUsers(made)
  BY <1>7, MadeContinues
<1>11. Kept(made, new)  BY <1>3, <1>8, AccountAdded
<1>12. made.user[m] = row
  BY <1>2, <1>8, SeqFacts DEF Sound
<1>13. job[h].alone => new # Thrown
  <2>1. Link(row, op) = None  BY <1>7 DEF Link
  <2>2. job[h].alone => \A j \in LiveUsers(made) : Link(made.user[j], op) # a
    BY <1>4, <1>5, <1>8, <1>12, <2>1
  <2>3. IsUser(made, m)  BY <1>8 DEF IsUser, IsRow, LiveUsers
  <2> HIDE DEF m
  <2> QED BY <1>3, <1>8, <1>12, <2>1, <2>2, <2>3, AccountAdded
<1> HIDE DEF new
<1>14. Keeps(made, new) => Continues(tables, new) /\ LiveUsers(new) = LiveUsers(made)
  BY <1>2, <1>10, ContinuesOn
<1>15. Keeps(made, new) => IsUser(new, m)  BY <1>8, <1>14 DEF IsUser, IsRow, LiveUsers
<1> QED BY <1>9, <1>10, <1>11, <1>13, <1>14, <1>15 DEF Kept

LEMMA CallbackEndsInv ==
  ASSUME StateInv, NEW h \in Slots, NEW op \in {"google", "github"}, NEW endpoint,
         {"Success", "BadRequest", "Unauthorized"} \subseteq endpoint, CallbackEnds(h, op, endpoint)
  PROVE  Preserves
<1> DEFINE owner == Got(h, "account")  u == Got(h, "email")
<1>1. Busy(h) /\ At(h, {op}, "decide") /\ job[h].op = op /\ job[h].pc # "find"
  BY DEF CallbackEnds, At
<1>2. Good(tables) /\ tables.codes \in Nat /\ Len(tables.user) <= MaxUsers
  BY DEF StateInv, TablesInv, Good, Sound
<1>3. CASE \E result \in {"BadRequest", "Unauthorized"} : Answer(h, endpoint, result)
  BY <1>1, <1>3, Answers
<1>4. CASE Exists(owner) /\ CallbackSession(h, tables, owner.id, endpoint)
  <2>1. Continues(tables, tables)  BY <1>2 DEF Continues, Good, Sound
  <2>2. tables # Thrown  BY <1>2, NotThrown DEF Good, Sound
  <2>3. job[h].alone => IsUser(tables, owner.id)
    BY <1>1, <1>4, Informed DEF IsOneOf, AccountHolders, Exists, IsUser, IsRow, LiveUsers
  <2> QED BY <1>1, <1>4, <2>1, <2>2, <2>3, CallbackSessionEnds
<1>5. CASE /\ ~Exists(owner) /\ Exists(u) /\ Link(u.row, op) = None
           /\ CallbackSession(h, linkUser(h), u.id, endpoint)
  <2>1. linkUser(h) = Thrown \/ Keeps(tables, linkUser(h))  BY <1>1, <1>5, LinkedUser
  <2>2. job[h].alone => linkUser(h) # Thrown /\ IsUser(linkUser(h), u.id)
    BY <1>1, <1>5, LinkedUser
  <2>3. linkUser(h) = Thrown \/ (Continues(tables, linkUser(h))
                                 /\ LiveUsers(tables) \subseteq LiveUsers(linkUser(h)))
    BY <2>1, KeptContinues
  <2> QED BY <1>1, <1>5, <2>2, <2>3, CallbackSessionEnds
<1>6. CASE /\ ~Exists(owner) /\ ~Exists(u) /\ Len(tables.user) < MaxUsers
           /\ CallbackSession(h, createUser(h), Len(tables.user) + 1, endpoint)
  BY <1>1, <1>6, CreatedUser, CallbackSessionEnds
<1> QED BY <1>3, <1>4, <1>5, <1>6 DEF CallbackEnds

(***************************************************************************)
(* Every step, and the theorems.                                           *)
(***************************************************************************)

LEMMA StepInv ==
  ASSUME StateInv, Next
  PROVE  Preserves
<1>1. ASSUME NEW h \in Slots, RegistrationRequests(h) \/ SessionRequests(h) PROVE Preserves
  BY <1>1, RequestsInv
<1>2. ASSUME NEW h \in Slots, RegistrationSteps(h) PROVE Preserves
  <2>1. CASE RegistrationReads(h) \/ ConfirmationReads(h) \/ CallbackReads(h)
    BY <2>1, RegistrationReadsInv
  <2>2. CASE RegistrationEnds(h)  BY <2>2, RegistrationEndsInv
  <2>3. CASE ConfirmationEnds(h)  BY <2>3, ConfirmationEndsInv
  <2>4. CASE ResendingEnds(h)  BY <2>4, ResendingEndsInv
  <2>5. CASE CallbackEnds(h, "google", googleAuthCallback)
    BY <2>5, CallbackEndsInv DEF googleAuthCallback
  <2>6. CASE CallbackEnds(h, "github", githubAuthCallback)
    BY <2>6, CallbackEndsInv DEF githubAuthCallback
  <2> QED BY <1>2, <2>1, <2>2, <2>3, <2>4, <2>5, <2>6 DEF RegistrationSteps
<1>3. ASSUME NEW h \in Slots, SessionSteps(h) PROVE Preserves
  <2>1. CASE LoginReads(h) \/ RestoreReads(h) \/ ResetReads(h) \/ ModerationReads(h)
    BY <2>1, SessionReadsInv
  <2>2. CASE GuardUser(h) \/ GuardSession(h) \/ RenewLoad(h) \/ TerminateLoad(h)
             \/ TerminateOthersLoad(h)
    BY <2>2, TokenReadsInv
  <2>3. CASE LoginEnds(h)  BY <2>3, LoginEndsInv
  <2>4. CASE RenewEnds(h)  BY <2>4, RenewEndsInv
  <2>5. CASE LogoutEnds(h) \/ TerminateEnds(h) \/ TerminateOthersEnds(h)
    BY <2>5, TokenEndsInv
  <2>6. CASE RestoreEnds(h)  BY <2>6, RestoreEndsInv
  <2>7. CASE ResetEnds(h)  BY <2>7, ResetEndsInv
  <2>8. CASE BanEnds(h) \/ UnbanEnds(h)  BY <2>8, BanEndsInv
  <2>9. CASE DeleteUserEnds(h)  BY <2>9, DeleteUserEndsInv
  <2> QED BY <1>3, <2>1, <2>2, <2>3, <2>4, <2>5, <2>6, <2>7, <2>8, <2>9 DEF SessionSteps
<1>4. ASSUME \/ \E h \in Slots : Fail(h) /\ UNCHANGED <<tables, issued, lapsed, now, scene>>
             \/ Restart /\ UNCHANGED <<tables, issued, lapsed, now, scene>>
             \/ \E c \in 1..tables.codes : Lapse(c)
             \/ Tick
      PROVE  Preserves
  BY <1>4, InterruptionsInv
<1> QED BY <1>1, <1>2, <1>3, <1>4 DEF Next

LEMMA InitState == Init => StateInv
<1> SUFFICES ASSUME Init PROVE StateInv
  OBVIOUS
<1>1. /\ scene \in Scenes /\ lapsed = {} /\ now = 0 /\ job = [h \in Slots |-> Idle]
      /\ moves = scene.moves /\ faults = scene.faults
      /\ scene.moves \in Nat /\ scene.faults \in Nat /\ scene.time \in Nat
      /\ MaxUsers \in Nat \ {0} /\ MaxDevices \in Nat \ {0}
  BY ScenesAssumption, IdentityBounds DEF Init, HandlersInit
<1>2. \A h \in Slots : ~Busy(h)  BY <1>1 DEF Busy
<1>3. JobsInv /\ AloneInv /\ CurrentInv  BY <1>1, <1>2 DEF JobsInv, AloneInv, CurrentInv
<1>4. BoundsInv  BY <1>1 DEF BoundsInv
<1>5. CASE tables = NoTables /\ issued = {}
  <2>1. /\ DOMAIN tables = Columns /\ tables.user = <<>> /\ tables.device = <<>>
        /\ tables.codes = 0
    BY <1>5 DEF NoTables, Columns
  <2>2. /\ tables.user \in Seq(Rows) /\ tables.device \in Seq(SessionRows)
        /\ Len(tables.user) = 0 /\ Len(tables.device) = 0
    BY <2>1
  <2>3. LiveUsers(tables) = {} /\ LiveRows(tables.device) = {}
    BY <2>1 DEF LiveUsers, LiveRows
  <2>4. Good(tables)
    BY <2>1, <2>2, <2>3 DEF Good, Sound, SharedIn, SessionsIn
  <2>5. TablesInv  BY <1>1, <2>2, <2>4 DEF TablesInv
  <2>6. IssuedInv  BY <1>5 DEF IssuedInv
  <2> QED BY <1>3, <1>4, <2>5, <2>6 DEF StateInv
<1>6. CASE WithMember
  <2>1. PICK e \in Emails, n \in Names, p \in Passwords :
          /\ tables = [user |-> <<UserRow(e, n, p, TRUE, "alone")>>,
                       device |-> <<[live |-> TRUE, user |-> 1, iat |-> 0, pw |-> p, alone |-> TRUE,
                                    renewedAlone |-> TRUE]>>,
                       codes |-> 1]
          /\ issued = {[device |-> 1, user |-> 1, iat |-> 0]}
    BY <1>6 DEF WithMember
  <2> DEFINE row == UserRow(e, n, p, TRUE, "alone")
             s == [live |-> TRUE, user |-> 1, iat |-> 0, pw |-> p, alone |-> TRUE,
                   renewedAlone |-> TRUE]
  <2>2. n \in AllNames(MaxUsers)  BY <1>1, NamesMade
  <2>3. row \in UserRows(MaxUsers) /\ row.live /\ row.name = n /\ row.pw = p
    BY <2>2 DEF UserRow, UserRows
  <2>4. s \in DeviceRows /\ s.live /\ s.user = 1 /\ s.pw = p /\ s.iat = 0  BY DEF DeviceRows
  <2>5. /\ DOMAIN tables = Columns /\ tables.user = <<row>> /\ tables.device = <<s>>
        /\ tables.codes = 1
    BY <2>1 DEF Columns
  <2> HIDE DEF row, s
  <2>6. /\ tables.user \in Seq(Rows) /\ Len(tables.user) = 1 /\ DOMAIN tables.user = {1}
        /\ tables.user[1] = row
    BY <2>3, <2>5 DEF Rows
  <2>7. /\ tables.device \in Seq(SessionRows) /\ Len(tables.device) = 1 /\ DOMAIN tables.device = {1}
        /\ tables.device[1] = s
    BY <2>4, <2>5 DEF SessionRows
  <2>8. LiveUsers(tables) = {1} /\ LiveRows(tables.device) = {1}
    BY <2>3, <2>4, <2>6, <2>7 DEF LiveUsers, LiveRows
  <2>9. Sound(tables)
    BY <2>3, <2>4, <2>5, <2>6, <2>7, <2>8 DEF Sound, IsUser, IsRow, LiveUsers
  <2>10. SharedIn(tables)  BY <2>8 DEF SharedIn
  <2>11. SessionsIn(tables)  BY <2>3, <2>4, <2>6, <2>7, <2>8 DEF SessionsIn
  <2>12. TablesInv  BY <1>1, <2>6, <2>7, <2>9, <2>10, <2>11 DEF TablesInv, Good
  <2>13. IssuedInv
    BY <1>1, <2>1, <2>4, <2>7, <2>8 DEF IssuedInv
  <2> QED BY <1>3, <1>4, <2>12, <2>13 DEF StateInv
<1> QED BY <1>5, <1>6 DEF Init

\* The inductive invariant: the tables are good, the latest token of a session is the
\* one that renewed it, and what a request alone has read is still so.
THEOREM IdentityKept == Spec => []IInv
<1>1. Init => IInv  BY InitState DEF IInv, ServerErrorOnlyByRace, Init, HandlersInit
<1>2. IInv /\ [Next]_vars => IInv'
  <2> SUFFICES ASSUME IInv, [Next]_vars PROVE IInv'
    OBVIOUS
  <2>1. CASE Next
    <3>1. Preserves  BY <2>1, StepInv DEF IInv
    <3> QED BY <3>1 DEF IInv, Preserves, ServerErrorOnlyByRace
  <2>2. CASE UNCHANGED vars
    BY <2>2 DEF vars, IInv, StateInv, TablesInv, BoundsInv, IssuedInv, JobsInv, JobOK, ArgOK,
                AloneInv, CurrentInv, CurrentRows, CurrentDecision, Knows, Busy, Got, Arg,
                ServerErrorOnlyByRace
  <2> QED BY <2>1, <2>2
<1> QED BY <1>1, <1>2, PTL DEF Spec

\* The type of the tables and of the requests, which keep their input and what they
\* have read from await to await.
THEOREM IdentityTyped == Spec => []TypeOK
<1>1. IInv => TypeOK
  <2> SUFFICES ASSUME IInv PROVE TypeOK
    OBVIOUS
  <2>1. /\ TablesInv /\ BoundsInv /\ IssuedInv /\ JobsInv /\ oops = {}
    BY DEF IInv, StateInv, ServerErrorOnlyByRace
  <2>2. /\ tables.user \in Seq(UserRows(MaxUsers) \cup {Gone})
        /\ tables.device \in Seq(DeviceRows \cup {Gone}) /\ tables.codes \in Nat
        /\ Len(tables.user) <= MaxUsers /\ Len(tables.device) <= MaxDevices
    BY <2>1 DEF TablesInv, Good, Sound, Rows, SessionRows
  <2>3. issued \subseteq [device : 1..MaxDevices, user : 1..MaxUsers, iat : 0..now]
    <3>1. Len(tables.device) \in Nat /\ MaxDevices \in Nat
      BY <2>2, SeqFacts, IdentityBounds
    <3>2. 1..Len(tables.device) \subseteq 1..MaxDevices  BY <2>2, <3>1
    <3> QED BY <2>1, <3>2 DEF IssuedInv
  <2>4. HandlersTypeOK(Ops)
    BY <2>1 DEF HandlersTypeOK, JobsInv, JobOK, Fields, Busy, BoundsInv
  <2> QED BY <2>1, <2>2, <2>3, <2>4 DEF TypeOK, BoundsInv
<1> QED BY <1>1, IdentityKept, PTL

\* Two users share an address or a name only when requests overlapped, or when a
\* registration that crossed two pending users removed one of them: the schema has
\* no unique index that says so.
THEOREM SharedByRace == Spec => []SharedOnlyByRace
<1>1. IInv => SharedOnlyByRace
  BY DEF IInv, StateInv, TablesInv, Good, SharedIn, SharedOnlyByRace, EmailSharedOnlyByRace,
         NameSharedOnlyByRace
<1> QED BY <1>1, IdentityKept, PTL

\* A password reset ends every session that was opened with the old password, save one
\* whose login was under way during the reset.
THEOREM OldPasswordEnds == Spec => []NoSessionWithOldPassword
<1>1. IInv => NoSessionWithOldPassword
  <2> SUFFICES ASSUME IInv PROVE NoSessionWithOldPassword
    OBVIOUS
  <2>1. SessionsIn(tables)  BY DEF IInv, StateInv, TablesInv, Good
  <2> QED BY <2>1 DEF SessionsIn, NoSessionWithOldPassword, LiveRows
<1> QED BY <1>1, IdentityKept, PTL

\* The guard of refresh tokens lets only the latest token of a session pass, when
\* every renewal of the session and the request itself overlapped no other.
THEOREM LatestTokenOnly == Spec => []OnlyLatestTokenPasses
<1>1. IInv => OnlyLatestTokenPasses
  <2> SUFFICES ASSUME IInv, NEW h \in Slots, Busy(h), job[h].op \in TokenOps,
                      job[h].pc \in {"load", "write"}, job[h].alone,
                      IsDevice(tables, Arg(h).token.device),
                      tables.device[Arg(h).token.device].renewedAlone,
                      NEW other \in issued, other.device = Arg(h).token.device
               PROVE  other.iat <= Arg(h).token.iat
    BY DEF OnlyLatestTokenPasses
  <2>1. IsCurrent(tables, Arg(h).token)
    BY DEF IInv, StateInv, CurrentInv, CurrentDecision
  <2>2. tables.device[Arg(h).token.device].iat = Arg(h).token.iat  BY <2>1 DEF IsCurrent
  <2>3. other.iat <= tables.device[Arg(h).token.device].iat
    BY DEF IInv, StateInv, IssuedInv, IsDevice, IsRow
  <2> QED BY <2>2, <2>3
<1> QED BY <1>1, IdentityKept, PTL

\* No request about identity that overlaps no other is answered 500: the controllers
\* know every result of the use cases, and no statement finds its row missing.
THEOREM ServerErrorByRace == Spec => []ServerErrorOnlyByRace
<1>1. IInv => ServerErrorOnlyByRace  BY DEF IInv
<1> QED BY <1>1, IdentityKept, PTL

\* A registration removes no confirmed user, unless it overlapped the confirmation.
THEOREM ConfirmedKept == Spec => ConfirmedStays
<1> DEFINE Stays == \A i \in LiveUsers(tables) :
                      tables.user[i].confirmed /\ ~IsUser(tables', i) => RaceEnds
<1>1. IInv /\ [Next]_vars => [Stays]_vars
  <2> SUFFICES ASSUME IInv, Next PROVE Stays
    OBVIOUS
  <2>1. Preserves  BY StepInv DEF IInv
  <2> QED BY <2>1 DEF Preserves
<1>2. Spec => [][Stays]_vars  BY <1>1, IdentityKept, PTL DEF Spec
<1> QED BY <1>2 DEF ConfirmedStays
===============================================================================
