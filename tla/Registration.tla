----------------------------- MODULE Registration -----------------------------
(***************************************************************************)
(* How users come to be: registration with e-mail confirmation, and the    *)
(* callbacks of Google and GitHub.                                         *)
(***************************************************************************)
EXTENDS IdentityState

\* Mutant: whoever holds the address or the name is replaced.
RegistersOver(h) == FALSE

\* The user exists already: one of the two read is confirmed.
Taken(h) ==
  \E name \in {"email", "name"} : Exists(Got(h, name)) /\ Got(h, name).row.confirmed

\* handleUser: the user whom the new one replaces, as he was read; the holder of
\* the name when the address and the name have different holders.
Replaced(h) == IF Exists(Got(h, "name")) THEN Got(h, "name") ELSE Got(h, "email")

Crossed(h) ==
  /\ Exists(Got(h, "email")) /\ Exists(Got(h, "name"))
  /\ Got(h, "email").id # Got(h, "name").id

\* Mutant: the pending holder of the address or name is left.
NobodyToDell(h) == 0

userIdToDell(h) == Replaced(h).id

\* How the user made now came to be.  Who takes the place of one that came to
\* be by a race takes that over: others of his address or name are left.
How(h) ==
  LET registers == job[h].op = "registration"
      before == IF registers /\ Exists(Replaced(h)) THEN Replaced(h).row.how ELSE "alone"
  IN IF ~job[h].alone \/ before = "raced" THEN "raced"
     ELSE IF before = "crossed" \/ (registers /\ Crossed(h)) THEN "crossed" ELSE "alone"

RegistrationDtos == [email : Emails, name : Names, pw : Passwords]

RegistrationReads(h) ==
  \/ /\ At(h, {"registration"}, "find") /\ "email" \in job[h].todo
     /\ Read(h, "email", UserRead(getUserByEmail(tables, Arg(h).email)), "create")
  \/ /\ At(h, {"registration"}, "find") /\ "name" \in job[h].todo
     /\ Read(h, "name", UserRead(getUserByUsername(tables, Arg(h).name)), "create")

\* executeTransaction.
executeTransaction(h) ==
  createNotConfirmedUser(
    IF userIdToDell(h) = 0 THEN tables ELSE removeUserById(tables, userIdToDell(h)),
    Arg(h).email, Arg(h).name, Arg(h).pw, How(h))

RegistrationEnds(h) ==
  /\ At(h, {"registration"}, "create")
  /\ IF Taken(h) THEN Answer(h, registration, "BadRequest")
     ELSE /\ Len(tables.user) < MaxUsers
          /\ Commit(h, executeTransaction(h), registration)

\* The link in the mail is opened, or asked for again.
ConfirmationReads(h) ==
  /\ At(h, {"confirm", "resend"}, "find")
  /\ Read(h, "user", UserRead(getUserByToken(tables, Arg(h).code)), "decide")

\* handleConfirm, one transaction.
handleConfirm(h) ==
  removeConfirmationByToken(confirmUser(tables, Got(h, "user").id), Arg(h).code)

ConfirmationEnds(h) ==
  /\ At(h, {"confirm"}, "decide")
  /\ LET u == Got(h, "user") IN
       CASE ~Exists(u) -> Answer(h, registrationConfirmation, "NotFound")
         [] Exists(u) /\ u.row.banned -> Answer(h, registrationConfirmation, "Unauthorized")
         [] Exists(u) /\ ~u.row.banned /\ Arg(h).late ->
              Answer(h, registrationConfirmation, "BadRequest")
         [] OTHER -> Commit(h, handleConfirm(h), registrationConfirmation)

ResendingEnds(h) ==
  /\ At(h, {"resend"}, "decide")
  /\ LET u == Got(h, "user") IN
       CASE ~Exists(u) -> Answer(h, registrationEmailResending, "NotFound")
         [] Exists(u) /\ u.row.banned -> Answer(h, registrationEmailResending, "Unauthorized")
         [] Exists(u) /\ ~u.row.banned /\ u.row.confirmed ->
              Answer(h, registrationEmailResending, "BadRequest")
         [] OTHER -> Commit(h, updateConfirmationByToken(tables, Arg(h).code),
                            registrationEmailResending)

(***************************************************************************)
(* Google and GitHub: the user of the account signs in, the user of its    *)
(* e-mail address is linked with it, or a user is made.                    *)
(***************************************************************************)

Link(row, op) == IF op = "google" THEN row.google ELSE row.github

getUserByAccount(op, a) ==
  IF op = "google" THEN getUserByGoogleSub(tables, a) ELSE getUserByGithubId(tables, a)

CallbackReads(h) ==
  \/ /\ At(h, {"google", "github"}, "find") /\ "account" \in job[h].todo
     /\ Read(h, "account", UserRead(getUserByAccount(job[h].op, Arg(h).account)), "decide")
  \/ /\ At(h, {"google", "github"}, "find") /\ "email" \in job[h].todo
     /\ Read(h, "email", UserRead(getUserByEmail(tables, EmailOf[Arg(h).account])), "decide")

\* googleHandleUser, githubHandleUser: the transaction, without the session.
addInfoToUser(d, op, i, a) ==
  IF op = "google" THEN addGoogleInfoToUser(d, i, a) ELSE addGithubInfoToUser(d, i, a)

linkUser(h) ==
  LET u == Got(h, "email")
      linked == addInfoToUser(tables, job[h].op, u.id, Arg(h).account)
  IN IF u.row.confirmed THEN linked ELSE
       IF linked = Thrown THEN Thrown ELSE confirmUser(linked, u.id)

createUser(h) ==
  LET e == EmailOf[Arg(h).account]
      made == IF job[h].op = "google" THEN createUserByGoogle(tables, e, How(h))
              ELSE createUserByGithub(tables, e, How(h))
  IN addInfoToUser(made, job[h].op, Len(made.user), Arg(h).account)

\* createSession, in the transaction of handleUser or alone.
CallbackSession(h, d, i, endpoint) ==
  /\ Len(tables.device) < MaxDevices
  /\ LET new == IF d = Thrown THEN Thrown
                ELSE createSession(d, i, now, None, job[h].alone)
     IN CommitSession(h, new, Len(tables.device) + 1, now, endpoint)

CallbackEnds(h, op, endpoint) ==
  /\ At(h, {op}, "decide")
  /\ LET owner == Got(h, "account")   u == Got(h, "email") IN
       CASE Exists(owner) ->
              IF owner.row.banned THEN Answer(h, endpoint, "Unauthorized")
              ELSE CallbackSession(h, tables, owner.id, endpoint)
         [] ~Exists(owner) /\ Exists(u) ->
              CASE Link(u.row, op) # None -> Answer(h, endpoint, "BadRequest")
                [] Link(u.row, op) = None /\ u.row.banned ->
                     Answer(h, endpoint, "Unauthorized")
                [] OTHER -> CallbackSession(h, linkUser(h), u.id, endpoint)
         [] OTHER -> /\ Len(tables.user) < MaxUsers
                     /\ CallbackSession(h, createUser(h), Len(tables.user) + 1, endpoint)

RegistrationRequests(h) ==
  \/ \E dto \in RegistrationDtos : Ask(h, "registration", dto, "find", {"email", "name"})
  \/ \E op \in {"confirm", "resend"}, c \in 1..tables.codes :
       Ask(h, op, [code |-> c, late |-> c \in lapsed], "find", {"user"})
  \/ \E a \in GoogleAccounts : Ask(h, "google", [account |-> a], "find", {"account", "email"})
  \/ \E a \in GithubAccounts : Ask(h, "github", [account |-> a], "find", {"account", "email"})

RegistrationSteps(h) ==
  \/ RegistrationReads(h) \/ RegistrationEnds(h)
  \/ ConfirmationReads(h) \/ ConfirmationEnds(h) \/ ResendingEnds(h)
  \/ CallbackReads(h)
  \/ CallbackEnds(h, "google", googleAuthCallback)
  \/ CallbackEnds(h, "github", githubAuthCallback)
===============================================================================
