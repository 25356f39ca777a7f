------------------------------ MODULE UserTables ------------------------------
(***************************************************************************)
(* The gateway's tables about who a user is: User with the rows that hang  *)
(* on it one to one (confirmation token, reset code, Google and GitHub     *)
(* info, ban) and SecurityDevices; and the repositories over them, each    *)
(* method a function from tables to tables.  Neither e-mail nor name is    *)
(* unique in the schema.                                                   *)
(***************************************************************************)
EXTENDS Tables

CONSTANTS
  Emails, Names, Passwords,
  GoogleAccounts, GithubAccounts,
  EmailOf,      \* EmailOf[a]: the e-mail address account a is registered with
  BaseOf,       \* BaseOf[e]: the part of e before the @
  LongBases     \* bases so long that generateUniqUserName cuts its suffix off

None == "none"

ASSUME AccountsAssumption ==
  /\ None \notin GoogleAccounts \cup GithubAccounts
  /\ EmailOf \in [GoogleAccounts \cup GithubAccounts -> Emails]
  /\ GoogleAccounts \cap GithubAccounts = {}
  /\ LongBases \subseteq {BaseOf[e] : e \in Emails}

\* A row of User.  how is history: how it came to be.
UserRow(email, name, pw, confirmed, how) ==
  [live |-> TRUE, email |-> email, name |-> name, pw |-> pw, confirmed |-> confirmed,
   token |-> 0, reset |-> 0, google |-> None, github |-> None,
   banned |-> FALSE, deleted |-> FALSE, how |-> how]

\* generateUniqUserName: the base and 8 random digits, cut to 30 characters.
generateUniqUserName(email, id) ==
  <<BaseOf[email], IF BaseOf[email] \in LongBases THEN 0 ELSE id>>

AllNames(n) == Names \cup {generateUniqUserName(e, i) : e \in Emails, i \in 0..n}

UserRows(n) ==
  [live : {TRUE}, email : Emails, name : AllNames(n), pw : Passwords \cup {None},
   confirmed : BOOLEAN, token : Nat, reset : Nat,
   google : GoogleAccounts \cup {None}, github : GithubAccounts \cup {None},
   banned : BOOLEAN, deleted : BOOLEAN, how : {"alone", "raced", "crossed"}]

\* A session.  pw, alone and renewedAlone are history: the password it was
\* opened with, whether its login, and whether all its renewals, overlapped
\* no other handler.
DeviceRows ==
  [live : {TRUE}, user : Nat \ {0}, iat : Nat, pw : Passwords \cup {None},
   alone : BOOLEAN, renewedAlone : BOOLEAN]

IsUser(d, i) == IsRow(d.user, i)
IsDevice(d, k) == IsRow(d.device, k)
LiveUsers(d) == LiveRows(d.user)
DevicesOf(d, i) == {k \in LiveRows(d.device) : d.device[k].user = i}

(***************************************************************************)
(* UsersRepository.                                                        *)
(***************************************************************************)

getUserByEmail(d, e) == FindFirst({i \in LiveUsers(d) : d.user[i].email = e})
getUserByUsername(d, n) == FindFirst({i \in LiveUsers(d) : d.user[i].name = n})
getUserByToken(d, c) == FindFirst({i \in LiveUsers(d) : d.user[i].token = c})
getUserByResetPasswordCode(d, c) == FindFirst({i \in LiveUsers(d) : d.user[i].reset = c})
getUserByGoogleSub(d, a) == FindFirst({i \in LiveUsers(d) : d.user[i].google = a})
getUserByGithubId(d, a) == FindFirst({i \in LiveUsers(d) : d.user[i].github = a})
getUserById(d, i) == IF IsUser(d, i) THEN i ELSE 0

\* The user with a confirmation token that is new, d.codes + 1.
createNotConfirmedUser(d, e, n, p, how) ==
  Statement(d, TRUE,
    [d EXCEPT !.codes = @ + 1,
              !.user = Append(@, [UserRow(e, n, p, FALSE, how) EXCEPT !.token = d.codes + 1])])

createUserByGoogle(d, e, how) ==
  Statement(d, TRUE, [d EXCEPT !.user =
    Append(@, UserRow(e, generateUniqUserName(e, Len(d.user) + 1), None, TRUE, how))])

createUserByGithub(d, e, how) ==
  Statement(d, TRUE, [d EXCEPT !.user =
    Append(@, UserRow(e, generateUniqUserName(e, Len(d.user) + 1), None, TRUE, how))])

\* The rows that hang on the user go with it.
removeUserById(d, i) ==
  Statement(d, IsUser(d, i),
    [d EXCEPT !.user[i] = Gone, !.device = DeleteRows(@, DevicesOf(d, i))])

updatePassword(d, i, p) == Statement(d, IsUser(d, i), [d EXCEPT !.user[i].pw = p])
confirmUser(d, i) == Statement(d, IsUser(d, i), [d EXCEPT !.user[i].confirmed = TRUE])

\* userId and sub are unique.
addGoogleInfoToUser(d, i, a) ==
  Statement(d, /\ IsUser(d, i) /\ d.user[i].google = None
               /\ \A j \in LiveUsers(d) : d.user[j].google # a,
            [d EXCEPT !.user[i].google = a])

\* Mutant: the address of the account is kept in the place of its id.
AddGithubEmail(d, i, a) ==
  Statement(d, IsUser(d, i) /\ d.user[i].github = None, [d EXCEPT !.user[i].github = EmailOf[a]])

\* userId is unique, githubId is not.
addGithubInfoToUser(d, i, a) ==
  Statement(d, IsUser(d, i) /\ d.user[i].github = None, [d EXCEPT !.user[i].github = a])

(***************************************************************************)
(* UserConfirmationRepository, UserResetPasswordRepository.                *)
(***************************************************************************)

TokenHolders(d, c) == {i \in LiveUsers(d) : d.user[i].token = c}
ResetHolders(d, c) == {i \in LiveUsers(d) : d.user[i].reset = c}

\* The rows H carry a code that is new.
WithNewCode(d, H, field) ==
  [d EXCEPT !.codes = @ + 1,
            !.user = [i \in DOMAIN @ |->
              IF i \in H THEN [@[i] EXCEPT ![field] = d.codes + 1] ELSE @[i]]]

removeConfirmationByToken(d, c) ==
  Statement(d, TokenHolders(d, c) # {},
    [d EXCEPT !.user = [i \in DOMAIN @ |->
       IF i \in TokenHolders(d, c) THEN [@[i] EXCEPT !.token = 0] ELSE @[i]]])

updateConfirmationByToken(d, c) ==
  Statement(d, TokenHolders(d, c) # {}, WithNewCode(d, TokenHolders(d, c), "token"))

createReset(d, i) ==
  Statement(d, IsUser(d, i) /\ d.user[i].reset = 0, WithNewCode(d, {i}, "reset"))

removeResetPasswordByCode(d, c) ==
  Statement(d, ResetHolders(d, c) # {},
    [d EXCEPT !.user = [i \in DOMAIN @ |->
       IF i \in ResetHolders(d, c) THEN [@[i] EXCEPT !.reset = 0] ELSE @[i]]])

updateResetPasswordByCode(d, c) ==
  Statement(d, ResetHolders(d, c) # {}, WithNewCode(d, ResetHolders(d, c), "reset"))

getResetPasswordByUserId(d, i) == IF IsUser(d, i) THEN d.user[i].reset ELSE 0

(***************************************************************************)
(* SecurityDevicesRepository.                                              *)
(***************************************************************************)

createSession(d, i, iat, pw, alone) ==
  Statement(d, IsUser(d, i),
    [d EXCEPT !.device = Append(@, [live |-> TRUE, user |-> i, iat |-> iat,
                                    pw |-> pw, alone |-> alone, renewedAlone |-> alone])])

updateLastActiveDate(d, k, iat, alone) ==
  Statement(d, IsDevice(d, k),
    [d EXCEPT !.device[k].iat = iat, !.device[k].renewedAlone = @ /\ alone])

getDeviceById(d, k) == IF IsDevice(d, k) THEN k ELSE 0
getDevicesByUserId(d, i) == DevicesOf(d, i)
deleteDevice(d, k) == Statement(d, IsDevice(d, k), [d EXCEPT !.device[k] = Gone])

deleteSessionsById(d, K) ==
  Statement(d, TRUE, [d EXCEPT !.device = DeleteRows(@, K)])

\* Mutant: the sessions outlive the password they were opened with.
KeepSessions(d, i) == d

deleteAllSessionsForUser(d, i) ==
  Statement(d, TRUE, [d EXCEPT !.device = DeleteRows(@, DevicesOf(d, i))])

(***************************************************************************)
(* UsersGraphqlRepository.                                                 *)
(***************************************************************************)

findUserById(d, i) == IF IsUser(d, i) /\ ~d.user[i].deleted THEN i ELSE 0
removeUser(d, i) == Statement(d, IsUser(d, i), [d EXCEPT !.user[i].deleted = TRUE])
banUserRow(d, i) ==
  Statement(d, IsUser(d, i) /\ ~d.user[i].banned, [d EXCEPT !.user[i].banned = TRUE])
unbanUserRow(d, i) ==
  Statement(d, IsUser(d, i) /\ d.user[i].banned, [d EXCEPT !.user[i].banned = FALSE])
===============================================================================
