------------------------------- MODULE Sessions -------------------------------
(***************************************************************************)
(* Signing in with a password, the sessions and their refresh tokens, the  *)
(* reset of a password, and what an administrator does to a user.          *)
(***************************************************************************)
EXTENDS IdentityState

(***************************************************************************)
(* Login.                                                                  *)
(***************************************************************************)

LoginDtos == [email : Emails, pw : Passwords]

LoginReads(h) ==
  /\ At(h, {"login"}, "find")
  /\ Read(h, "user", UserRead(getUserByEmail(tables, Arg(h).email)), "open")

MayLogIn(u, p) ==
  /\ Exists(u) /\ ~u.row.banned /\ u.row.confirmed
  /\ u.row.pw # None /\ u.row.pw = p

\* The token is signed some time after the row was read, then saved.
LoginEnds(h) ==
  /\ At(h, {"login"}, "open")
  /\ LET u == Got(h, "user") IN
       IF ~MayLogIn(u, Arg(h).pw) THEN Answer(h, login, "Unauthorized")
       ELSE /\ Len(tables.device) < MaxDevices
            /\ CommitSession(h, createSession(tables, u.id, now, Arg(h).pw, job[h].alone),
                             Len(tables.device) + 1, now, login)

(***************************************************************************)
(* The guard of a request with a refresh token: JwtRefreshTokenStrategy.   *)
(***************************************************************************)

TokenOps == {"renew", "logout", "terminate", "terminateOthers"}

\* The guard itself answers 401.
Refuse(h) == Answer(h, {"Unauthorized"}, "Unauthorized")

GuardUser(h) ==
  /\ At(h, TokenOps, "guardUser")
  /\ LET i == getUserById(tables, Arg(h).token.user) IN
       IF i = 0 \/ (i # 0 /\ tables.user[i].banned) THEN Refuse(h)
       ELSE Goto(h, "guardSession") /\ UNCHANGED <<tables, issued, lapsed, now, scene>>

\* Mutant: the session need only exist.
AnyToken(d, token) == getDeviceById(d, token.device) # 0

\* The session is there, last active when the token was signed, and his.
IsCurrent(d, token) ==
  /\ getDeviceById(d, token.device) # 0
  /\ d.device[token.device].iat = token.iat
  /\ d.device[token.device].user = token.user

GuardSession(h) ==
  /\ At(h, TokenOps, "guardSession")
  /\ IF ~IsCurrent(tables, Arg(h).token) THEN Refuse(h)
     ELSE /\ Goto(h, IF job[h].op = "logout" THEN "write" ELSE "load")
          /\ UNCHANGED <<tables, issued, lapsed, now, scene>>

\* RenewTokensUseCase: the session, a token signed now or later, the save.
RenewLoad(h) ==
  /\ At(h, {"renew"}, "load")
  /\ IF getDeviceById(tables, Arg(h).token.device) = 0
     THEN Answer(h, renewTokens, "Unauthorized")
     ELSE Read(h, "signed", {now}, "write")

RenewEnds(h) ==
  /\ At(h, {"renew"}, "write")
  /\ \E iat \in Got(h, "signed")..now :
       CommitSession(h, updateLastActiveDate(tables, Arg(h).token.device, iat, job[h].alone),
                     Arg(h).token.device, iat, renewTokens)

LogoutEnds(h) ==
  /\ At(h, {"logout"}, "write")
  /\ Commit(h, deleteDevice(tables, Arg(h).token.device), logout)

TerminateLoad(h) ==
  /\ At(h, {"terminate"}, "load")
  /\ LET k == getDeviceById(tables, Arg(h).other) IN
       IF k = 0 THEN Answer(h, terminateDeviceById, "NotFound")
       ELSE IF tables.device[k].user # Arg(h).token.user
            THEN Answer(h, terminateDeviceById, "Forbidden")
            ELSE Read(h, "device", {k}, "write")

TerminateEnds(h) ==
  /\ At(h, {"terminate"}, "write")
  /\ Commit(h, deleteDevice(tables, Got(h, "device")), terminateDeviceById)

TerminateOthersLoad(h) ==
  /\ At(h, {"terminateOthers"}, "load")
  /\ LET others == getDevicesByUserId(tables, Arg(h).token.user) \ {Arg(h).token.device} IN
       IF others = {} THEN Answer(h, terminateAllExcludeCurrent, "NotFound")
       ELSE Read(h, "devices", {others}, "write")

TerminateOthersEnds(h) ==
  /\ At(h, {"terminateOthers"}, "write")
  /\ Commit(h, deleteSessionsById(tables, Got(h, "devices")), terminateAllExcludeCurrent)

(***************************************************************************)
(* A forgotten password: a code by mail, a new password for the code.      *)
(***************************************************************************)

RestoreReads(h) ==
  \/ /\ At(h, {"restore"}, "find")
     /\ Read(h, "user", UserRead(getUserByEmail(tables, Arg(h).email)), "load")
  \/ /\ At(h, {"restore"}, "load")
     /\ LET u == Got(h, "user") IN
          CASE ~Exists(u) -> Answer(h, restorePassword, "NotFound")
            [] Exists(u) /\ u.row.banned -> Answer(h, restorePassword, "Unauthorized")
            [] OTHER -> Read(h, "code", {getResetPasswordByUserId(tables, u.id)}, "write")

\* The one code of the user is replaced, or made.
RestoreEnds(h) ==
  /\ At(h, {"restore"}, "write")
  /\ Commit(h, IF Got(h, "code") # 0 THEN updateResetPasswordByCode(tables, Got(h, "code"))
               ELSE createReset(tables, Got(h, "user").id), restorePassword)

ResetReads(h) ==
  /\ At(h, {"restoreConfirm"}, "find")
  /\ Read(h, "user", UserRead(getUserByResetPasswordCode(tables, Arg(h).code)), "write")

\* handleUpdatePassword, one transaction.
handleUpdatePassword(h) ==
  LET i == Got(h, "user").id
      reset == removeResetPasswordByCode(updatePassword(tables, i, Arg(h).pw), Arg(h).code)
  IN IF reset = Thrown THEN Thrown ELSE deleteAllSessionsForUser(reset, i)

ResetEnds(h) ==
  /\ At(h, {"restoreConfirm"}, "write")
  /\ LET u == Got(h, "user") IN
       CASE ~Exists(u) -> Answer(h, restorePasswordConfirmation, "BadRequest")
         [] Exists(u) /\ u.row.banned -> Answer(h, restorePasswordConfirmation, "Unauthorized")
         [] Exists(u) /\ ~u.row.banned /\ Arg(h).late ->
              Answer(h, restorePasswordConfirmation, "BadRequest")
         [] OTHER -> Commit(h, handleUpdatePassword(h), restorePasswordConfirmation)

(***************************************************************************)
(* An administrator bans, unbans and deletes.                              *)
(***************************************************************************)

ModerationReads(h) ==
  \E pick \in {<<"ban", TRUE>>, <<"unban", FALSE>>} :
    /\ At(h, {pick[1]}, "find")
    /\ LET i == findUserById(tables, Arg(h).user)
           endpoint == IF pick[1] = "ban" THEN banUser ELSE unbanUser
       IN CASE i = 0 -> Answer(h, endpoint, "NotFound")
            [] i # 0 /\ tables.user[i].banned = pick[2] -> Answer(h, endpoint, "Success")
            [] OTHER -> Read(h, "user", {i}, "write")

BanEnds(h) ==
  /\ At(h, {"ban"}, "write")
  /\ Commit(h, banUserRow(tables, Got(h, "user")), banUser)

UnbanEnds(h) ==
  /\ At(h, {"unban"}, "write")
  /\ Commit(h, unbanUserRow(tables, Got(h, "user")), unbanUser)

\* Success is answered as soon as the write is on its way; when it fails
\* nobody catches it and the process stops.
DeleteUserEnds(h) ==
  /\ At(h, {"deleteUser"}, "write")
  /\ LET new == removeUser(tables, Arg(h).user) IN
       IF new # Thrown THEN Commit(h, new, deleteUser)
       ELSE /\ job' = [g \in Slots |-> Idle]
            /\ UNCHANGED <<tables, issued, lapsed, now, scene, moves, faults, oops>>

SessionRequests(h) ==
  \/ \E dto \in LoginDtos : Ask(h, "login", dto, "find", {"user"})
  \/ \E token \in issued :
       \/ \E op \in TokenOps \ {"terminate"} : Ask(h, op, [token |-> token], "guardUser", {})
       \/ \E k \in DOMAIN tables.device :
            Ask(h, "terminate", [token |-> token, other |-> k], "guardUser", {})
  \/ \E e \in Emails : Ask(h, "restore", [email |-> e], "find", {"user"})
  \/ \E c \in 1..tables.codes, p \in Passwords :
       Ask(h, "restoreConfirm", [code |-> c, pw |-> p, late |-> c \in lapsed],
           "find", {"user"})
  \/ \E i \in DOMAIN tables.user :
       \/ \E op \in {"ban", "unban"} : Ask(h, op, [user |-> i], "find", {"user"})
       \/ Ask(h, "deleteUser", [user |-> i], "write", {})

SessionSteps(h) ==
  \/ LoginReads(h) \/ LoginEnds(h)
  \/ GuardUser(h) \/ GuardSession(h)
  \/ RenewLoad(h) \/ RenewEnds(h) \/ LogoutEnds(h)
  \/ TerminateLoad(h) \/ TerminateEnds(h)
  \/ TerminateOthersLoad(h) \/ TerminateOthersEnds(h)
  \/ RestoreReads(h) \/ RestoreEnds(h) \/ ResetReads(h) \/ ResetEnds(h)
  \/ ModerationReads(h) \/ BanEnds(h) \/ UnbanEnds(h) \/ DeleteUserEnds(h)
===============================================================================
