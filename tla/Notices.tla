------------------------------- MODULE Notices -------------------------------
(***************************************************************************)
(* Notifications: payments emits what a user is to be told, at once or     *)
(* through a queue of 30 seconds; the gateway stores it and emits it to    *)
(* the user's sockets, which are those of NotificationWsGateway, a         *)
(* WsGateway like the messenger's.  The wording is left out: what is to be *)
(* told is the sequence of the users to tell something.                    *)
(***************************************************************************)
EXTENDS Sockets, Handlers, SequencesExt

VARIABLES
  mail,   \* [late, ready]: the delayed queue and that of the gateway
  notes,  \* the rows of Notification, oldest first
  fresh,  \* rows whose CreatedNotificationEvent has not been handled
  shown   \* history: [asked, rows] of each socket: in which state it was when
          \* its client asked for the list, and the rows it was given

noticeVars == <<mail, notes, fresh, shown>>

NoticesInit ==
  /\ mail = [late |-> <<>>, ready |-> <<>>]
  /\ notes = <<>> /\ fresh = {}
  /\ shown = [s \in Wires |-> [asked |-> "new", rows |-> {}]]

NoticesTypeOK(Users) ==
  /\ notes \in Seq([user : Users, isRead : BOOLEAN])
  /\ fresh \subseteq DOMAIN notes
  /\ \A s \in Wires :
       /\ shown[s].asked \in {"new", "checking", "open"} /\ shown[s].rows \subseteq DOMAIN notes
       /\ shown[s].rows # {} => shown[s].asked # "new"
       /\ \A n \in shown[s].rows : notes[n].user = wire[s].user

(***************************************************************************)
(* What payments emits.                                                    *)
(***************************************************************************)

\* A live row is due a week before its end and on the day before, then twice
\* when the provider will charge for the next period.
RemindersOf(row) ==
  IF row.left = 7 THEN <<row.user>>
  ELSE IF row.left = 1 /\ row.autoRenewal THEN <<row.user, row.user>>
  ELSE IF row.left = 1 THEN <<row.user>> ELSE <<>>

\* At midnight, of all live rows in one message.
checkAndNotifySubscriptionEnd(rows) ==
  LET data == FlattenSeq([i \in DOMAIN rows |-> RemindersOf(rows[i])]) IN
  /\ moves > 0 /\ moves' = moves - 1
  /\ mail' = [mail EXCEPT !.ready = IF data = <<>> THEN @ ELSE Append(@, data)]
  /\ UNCHANGED <<notes, fresh, shown, job, faults, oops>>

\* After a charge; the user need not be known to the gateway any more.
sendNotificationAfterSuccessPayment(u) ==
  /\ moves > 0 /\ moves' = moves - 1
  /\ mail' = [mail EXCEPT !.late = Append(@, <<u>>)]
  /\ UNCHANGED <<notes, fresh, shown, job, faults, oops>>

\* The delayed queue gives its oldest message to the other.
Ripen ==
  /\ mail.late # <<>>
  /\ mail' = [late |-> Tail(mail.late), ready |-> Append(mail.ready, Head(mail.late))]
  /\ UNCHANGED <<notes, fresh, shown, handlerVars>>

(***************************************************************************)
(* CreateNotificationUseCases, CreateNotificationsUseCases.                *)
(***************************************************************************)

TakeNotice(h) ==
  /\ mail.ready # <<>> /\ ~Busy(h)
  /\ mail' = [mail EXCEPT !.ready = Tail(@)]
  /\ job' = [job EXCEPT ![h] = Request("notice", Head(mail.ready), "find", {})]
  /\ UNCHANGED <<notes, fresh, shown, moves, faults, oops>>

\* Only users there are get one; they keep their order.
FindUsers(h, Users) ==
  LET valid == {i \in DOMAIN job[h].arg : job[h].arg[i] \in Users} IN
  /\ At(h, {"notice"}, "find")
  /\ IF valid = {} THEN Reply(h, "NotFound")
     ELSE \E o \in [1..Cardinality(valid) -> valid] :
            /\ \A i, j \in DOMAIN o : i < j => o[i] < o[j]
            /\ Learn(h, "users", [i \in DOMAIN o |-> job[h].arg[o[i]]], "write")
  /\ UNCHANGED noticeVars

\* Mutant: one event for all rows of a message.
PublishFirst(h) ==
  LET users == job[h].got["users"] IN
  /\ At(h, {"notice"}, "write")
  /\ notes' = notes \o [i \in DOMAIN users |-> [user |-> users[i], isRead |-> FALSE]]
  /\ fresh' = fresh \cup {Len(notes) + 1}
  /\ Reply(h, "Success")
  /\ UNCHANGED <<mail, shown>>

\* The rows of a message in one transaction, an event for each.
CreateNotices(h) ==
  LET users == job[h].got["users"] IN
  /\ At(h, {"notice"}, "write")
  /\ notes' = notes \o [i \in DOMAIN users |-> [user |-> users[i], isRead |-> FALSE]]
  /\ fresh' = fresh \cup (Len(notes) + 1)..Len(notes')
  /\ Reply(h, "Success")
  /\ UNCHANGED <<mail, shown>>

\* CreatedNotificationEventHandler: the row is read, then emitted.
PublishWs(n) ==
  /\ n \in fresh /\ fresh' = fresh \ {n}
  /\ Emit(userSockets[notes[n].user], <<"note", n>>)
  /\ UNCHANGED <<mail, notes, shown, handlerVars>>

\* The row cannot be read; the error is logged.
PublishFails(n) ==
  /\ n \in fresh /\ fresh' = fresh \ {n}
  /\ faults > 0 /\ faults' = faults - 1
  /\ UNCHANGED <<mail, notes, shown, socketVars, job, moves, oops>>

(***************************************************************************)
(* MarkNotificationAsReadUseCases, GetNotificationsByUserIdQueryCommand.   *)
(***************************************************************************)

\* n may be nobody's.
MarkRequests(h, u) ==
  /\ \E n \in 1..Len(notes) + 1 : Start(h, Request("mark", [user |-> u, note |-> n], "find", {}))
  /\ UNCHANGED noticeVars

MarkFinds(h) ==
  /\ At(h, {"mark"}, "find")
  /\ LET n == job[h].arg.note IN
     \/ n \notin DOMAIN notes /\ Reply(h, "NotFound")
     \/ n \in DOMAIN notes /\ notes[n].user # job[h].arg.user /\ Reply(h, "Forbidden")
     \/ n \in DOMAIN notes /\ notes[n].user = job[h].arg.user
        /\ IF notes[n].isRead THEN Reply(h, "Success") ELSE Goto(h, "write")
  /\ UNCHANGED noticeVars

MarkWrites(h) ==
  /\ At(h, {"mark"}, "write")
  /\ notes' = [notes EXCEPT ![job[h].arg.note].isRead = TRUE]
  /\ Reply(h, "Success")
  /\ UNCHANGED <<mail, fresh, shown>>

\* The client of a socket asks for the list, whether or not its token has been
\* checked; it will wait for the answer.
ListNotices(h, s) ==
  /\ Talks(s) /\ shown[s].asked = "new"
  /\ Start(h, Request("notices", s, "find", {}))
  /\ shown' = [shown EXCEPT ![s].asked = wire[s].state]
  /\ UNCHANGED <<mail, notes, fresh>>

\* All rows of the last month.
NoticesFound(h) ==
  /\ At(h, {"notices"}, "find")
  /\ Reply(h, "Success")
  /\ LET s == job[h].arg IN
     shown' = [shown EXCEPT ![s].rows = {n \in DOMAIN notes : notes[n].user = wire[s].user}]
  /\ UNCHANGED <<mail, notes, fresh>>

\* The steps of requests that emit nothing and are not the first.
NoticeStep(h, Users) ==
  FindUsers(h, Users) \/ CreateNotices(h) \/ MarkFinds(h) \/ MarkWrites(h) \/ NoticesFound(h)
===============================================================================
