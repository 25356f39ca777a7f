------------------------------- MODULE Identity -------------------------------
(***************************************************************************)
(* Who is who: registration, accounts at Google and GitHub, sessions and   *)
(* moderation over one set of tables.                                      *)
(***************************************************************************)
EXTENDS Registration, Sessions

Next ==
  \/ \E h \in Slots : \/ RegistrationRequests(h) \/ RegistrationSteps(h)
                      \/ SessionRequests(h) \/ SessionSteps(h)
                      \/ Fail(h) /\ UNCHANGED <<tables, issued, lapsed, now, scene>>
  \/ Restart /\ UNCHANGED <<tables, issued, lapsed, now, scene>>
  \/ \E c \in 1..tables.codes : Lapse(c)
  \/ Tick

Spec == Init /\ [][Next]_vars

(***************************************************************************)
(* Properties.                                                             *)
(***************************************************************************)

EmailSharedOnlyByRace ==
  \A i, j \in LiveUsers(tables) :
    i # j /\ tables.user[i].email = tables.user[j].email
      => {tables.user[i].how, tables.user[j].how} \cap {"raced", "crossed"} # {}

NameSharedOnlyByRace ==
  \A i, j \in LiveUsers(tables) :
    i # j /\ tables.user[i].name = tables.user[j].name
      => \/ "raced" \in {tables.user[i].how, tables.user[j].how}
         \/ \E e \in Emails : BaseOf[e] \in LongBases
                              /\ tables.user[i].name = generateUniqUserName(e, i)

\* An e-mail address has one user, and so has a user name; the schema does
\* not say so.  Two share an address when their requests overlapped, or
\* when one registered with the address of one pending user and the name
\* of another, of whom only the second was removed; two share a name when
\* their requests overlapped or the name was cut from a long address.
\* Whoever later takes the place of one of the two shares with the other.
SharedOnlyByRace == EmailSharedOnlyByRace /\ NameSharedOnlyByRace

\* A step in which a request that overlapped another ends.
RaceEnds == \E h \in Slots : Busy(h) /\ ~job[h].alone /\ job'[h] = Idle

\* A confirmed user is not removed by a registration: one who confirms
\* while another registers with his address may be.
ConfirmedStays ==
  [][\A i \in LiveUsers(tables) :
       tables.user[i].confirmed /\ ~IsUser(tables', i) => RaceEnds]_vars

\* After a password reset no session lives on that was opened with the old
\* password, unless the login was under way during the reset.
NoSessionWithOldPassword ==
  \A k \in DOMAIN tables.device :
    LET s == tables.device[k] IN
      s.live /\ s.pw # None /\ s.pw # tables.user[s.user].pw => ~s.alone

\* A request gets past the guard of refresh tokens only with the latest
\* token of its session: one replaced by a renewal is not good again,
\* unless a renewal of the session overlapped something.
OnlyLatestTokenPasses ==
  \A h \in Slots :
    Busy(h) /\ job[h].op \in TokenOps /\ job[h].pc \in {"load", "write"} /\ job[h].alone =>
      LET token == Arg(h).token IN
        IsDevice(tables, token.device) /\ tables.device[token.device].renewedAlone =>
          \A other \in issued : other.device = token.device => other.iat <= token.iat

\* No request is answered 500 that overlapped no other: every result the
\* use cases yield is one its controller knows, and no statement throws.
ServerErrorOnlyByRace == oops = {}
===============================================================================
