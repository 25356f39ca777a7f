----------------------------- MODULE ChatsProofs -----------------------------
(* Two users have one chat, a message stays until its sender asks for its   *)
(* removal, files go with messages and addressees are told, for every value *)
(* of the constants of Chats.                                               *)
EXTENDS Chats, SequenceTheorems, FiniteSetTheorems, FunctionTheorems, TLAPS

(***************************************************************************)
(* Calls, and the handlers that wait for them.                             *)
(***************************************************************************)

CallFields == {"no", "op", "arg", "pc", "got", "answer"}
AnswerFields == {"res", "message", "chat", "page"}

CallsInv ==
  /\ made \in Nat
  /\ \A c \in calls :
       /\ DOMAIN c = CallFields /\ DOMAIN c.answer = AnswerFields
       /\ c.no \in 1..made /\ c.op \in MessengerOps \cup FileOps
       /\ c.answer.res \in AppResults \cup {"none"}
       /\ c.answer.res = "none" => c.answer = NoAnswer
  /\ \A c, d \in calls : c.no = d.no => c = d

Fields == {"op", "arg", "pc", "todo", "got", "alone"}
NoticeOps == {"notice", "mark", "notices"}

\* Handler h may wait for call c.
Fits(h, c) ==
  /\ job[h].op = "send" =>
       \/ c.op = "sendMessage" /\ c.arg.kind = Arg(h).kind
       \/ c.op \in {"uploadFile", "removeMessages"}
       \/ /\ c.op = "getChat" /\ Arg(h).wire # NoWire
          /\ "chat" \in DOMAIN job[h].got /\ job[h].got["chat"] = c.arg.chat
  /\ job[h].op = "read" => c.op = "readMessage"
  /\ job[h].op = "remove" =>
       c.op \in {"removeMessages", "deleteFiles"} /\ c.arg.messages = Arg(h).messages
  /\ job[h].op \in {"join", "leave"} => c.op = "getChat" /\ c.arg.chat = Arg(h).chat
  /\ job[h].op = "list" => c.op \in {"getChats", "getMessages"}

JobOK(h) ==
  /\ DOMAIN job[h] = Fields /\ job[h].op \in Ops /\ job[h].alone \in BOOLEAN
  /\ job[h].op = "send" =>
       /\ Arg(h).user \in Users /\ Arg(h).kind \in Kinds
       /\ Arg(h).wire \in Wires \cup {NoWire}
  /\ job[h].op \in {"send", "remove"} => job[h].pc \in {"find", "calls"}
  /\ job[h].op \in {"read", "join", "leave", "list"} => job[h].pc = "calls"
  /\ job[h].op \in NoticeOps => job[h].pc \in {"find", "write"}
  /\ job[h].op \in {"join", "leave"} => Arg(h).wire \in Wires

JobsInv == DOMAIN job = Slots /\ \A h \in Slots : Busy(h) => JobOK(h)

WaitsFor(h, n) == Busy(h) /\ job[h].pc = "calls" /\ job[h].todo = {n}

WaitInv ==
  \A h \in Slots : Busy(h) /\ job[h].pc = "calls" =>
    \E n \in 1..made : job[h].todo = {n} /\ \A c \in calls : c.no = n => Fits(h, c)

SceneInv ==
  /\ scene \in Scenes
  /\ moves \in Nat /\ faults \in 0..scene.faults /\ oops \subseteq Ops

(***************************************************************************)
(* Chats and messages.                                                     *)
(***************************************************************************)

IsSeq(s) == s \in Seq({s[i] : i \in DOMAIN s})

RowFields == {"live", "chat", "sender", "to", "kind", "readers"}

RowsInv ==
  /\ IsSeq(chats) /\ IsSeq(messages) /\ Len(messages) <= MaxMessages
  /\ \A x \in DOMAIN chats :
       /\ DOMAIN chats[x] = {"who", "alone"} /\ chats[x].alone \in BOOLEAN
       /\ \E u, v \in Users : chats[x].who = {u, v}
  /\ \A m \in DOMAIN messages :
       /\ DOMAIN messages[m] = RowFields /\ messages[m].live \in BOOLEAN
       /\ messages[m].chat \in DOMAIN chats
       /\ messages[m].sender \in Users /\ messages[m].to \in Users
       /\ messages[m].kind \in Kinds
       /\ messages[m].sender \in messages[m].readers /\ messages[m].readers \subseteq Users
       /\ {messages[m].sender, messages[m].to} \subseteq chats[messages[m].chat].who

\* A call that is to send a message, or has.
SendOK(c) ==
  /\ c.arg.user \in Users /\ c.arg.to \in Users /\ c.arg.kind \in Kinds
  /\ c.pc = "write" => c.got \in {0} \cup ChatsOf(c.arg.user, c.arg.to)
  /\ c.answer.res # "Success" => c.answer.message = 0
  /\ c.answer.res = "Success" =>
       /\ c.answer.message \in DOMAIN messages
       /\ messages[c.answer.message].kind = c.arg.kind
       /\ c.answer.chat \in DOMAIN chats

\* Messages that call c is to delete although their sender has not asked for it.
Unasked(c) == {m \in c.arg.messages : messages[m].sender = c.arg.user /\ m \notin asked}

RemoveOK(c) ==
  /\ c.arg.messages \subseteq DOMAIN messages
  /\ c.pc = "write" => \A m \in c.arg.messages :
                         messages[m].live => messages[m].sender = c.arg.user
  /\ c.answer.res = "Success" => \A m \in c.arg.messages : ~messages[m].live
  /\ \A m \in Unasked(c) : messages[m].kind = "file"

AskedOK(c) ==
  /\ c.op = "sendMessage" => SendOK(c)
  /\ c.op = "removeMessages" => RemoveOK(c)
  /\ c.op = "readMessage" => c.arg.user \in Users
  /\ c.op = "getChat" /\ c.answer.res = "Success" => c.arg.chat \in DOMAIN chats
  /\ c.op = "uploadFile" => c.arg.message \in DOMAIN messages
  /\ c.op = "deleteFiles" => \A m \in c.arg.messages : m \in DOMAIN messages /\ ~messages[m].live

LatestInv ==
  /\ latest = [message |-> latest.message, user |-> latest.user]
  /\ latest.user \in Users \cup {Stranger}
  /\ latest.message # 0 =>
       latest.message \in DOMAIN messages /\ messages[latest.message].kind = "file"

RemovesInv ==
  \A h \in Slots : Busy(h) /\ job[h].op = "remove" =>
    /\ Arg(h).user \in Users /\ Arg(h).messages \subseteq DOMAIN messages
    /\ \A m \in Arg(h).messages : messages[m].sender = Arg(h).user => m \in asked

DataInv ==
  /\ RowsInv /\ LatestInv /\ RemovesInv /\ \A c \in calls : AskedOK(c)
  /\ docs \subseteq DOMAIN messages /\ asked \subseteq DOMAIN messages

(***************************************************************************)
(* One chat of two users.                                                  *)
(***************************************************************************)

\* Who will write a chat of the two is not the only one who can.
ChatsInv ==
  /\ \A c \in calls : CallAt(c, "sendMessage", "write") /\ c.got = 0 =>
       \A x \in ChatsOf(c.arg.user, c.arg.to) : ~chats[x].alone
  /\ \A a, b \in DOMAIN chats :
       a # b /\ chats[a].who = chats[b].who => ~chats[a].alone \/ ~chats[b].alone

(***************************************************************************)
(* What is deleted unasked.                                                *)
(***************************************************************************)

Lost == {m \in DOMAIN messages : ~messages[m].live /\ m \notin asked}
InDanger == UNION {Unasked(c) : c \in {d \in calls : d.op = "removeMessages" /\ ~Answered(d)}}

LostInv ==
  /\ Cardinality(Lost \cup InDanger) <= Failures
  /\ \A m \in Lost : messages[m].kind = "file"

(***************************************************************************)
(* Files.                                                                  *)
(***************************************************************************)

Concerns(c, m) ==
  \/ c.op = "sendMessage" /\ c.answer.message = m
  \/ c.op = "uploadFile" /\ c.arg.message = m

\* A message deleted while a call about it was under way is known.
EarlyInv ==
  \A c \in calls, m \in DOMAIN messages : Concerns(c, m) => messages[m].live \/ m \in early

Awaited(c) == \E h \in Slots : WaitsFor(h, c.no)

Uploads(c, m) ==
  \/ c.op = "sendMessage" /\ c.answer.message = m
  \/ c.op = "uploadFile" /\ c.arg.message = m /\ ~Answered(c)

Deletes(c, m) ==
  \/ c.op = "removeMessages" /\ c.answer.res = "Success" /\ m \in c.arg.messages
  \/ c.op = "deleteFiles" /\ ~Answered(c) /\ m \in c.arg.messages

FilesInv ==
  Failures = 0 =>
    /\ \A c \in calls : Awaited(c)
    /\ \A c \in calls, h \in Slots :
         WaitsFor(h, c.no) /\ c.op = "removeMessages" => job[h].op = "remove"
    /\ \A m \in DOMAIN messages : messages[m].live /\ messages[m].kind = "file" =>
         m \in docs \/ \E c \in calls : Uploads(c, m)
    /\ \A m \in docs : messages[m].live \/ m \in early \/ \E c \in calls : Deletes(c, m)

(***************************************************************************)
(* What sockets are told.                                                  *)
(***************************************************************************)

Entered == {s \in Wires : wire[s].state \in {"open", "ghost"}}
HeardOK == DOMAIN heard = Wires /\ \A s \in Wires : DOMAIN heard[s] = {"since", "got"}

SocketsInv ==
  /\ DOMAIN wire = Wires /\ DOMAIN userSockets = Users /\ HeardOK
  /\ \A s \in Wires : /\ DOMAIN wire[s] = {"state", "user"} /\ wire[s].state \in States
                      /\ wire[s].state # "new" => wire[s].user \in Users
  /\ clients = {<<s, wire[s].user>> : s \in Entered}
  /\ \A u \in Users : userSockets[u] = {s \in Wires : <<s, u>> \in clients}
  /\ rooms \subseteq Wires \X DOMAIN chats

EventsInv ==
  \A e \in events \cup queue :
    /\ e = [message |-> e.message, to |-> e.to]
    /\ e.message \in DOMAIN messages /\ e.to = messages[e.message].to

(***************************************************************************)
(* Notifications.                                                          *)
(***************************************************************************)

Mails == Seq(Users \cup {Stranger})

NoticeJob(h) ==
  /\ job[h].op = "notice" =>
       Arg(h) \in Mails /\ (job[h].pc = "write" => job[h].got["users"] \in Seq(Users))
  /\ job[h].op = "notices" =>
       job[h].pc = "find" /\ Arg(h) \in Wires /\ shown[Arg(h)].asked # "new"

\* What the client of s was shown when, and whether it still can hear.
ShownOK(s) ==
  /\ DOMAIN shown[s] = {"asked", "rows"}
  /\ shown[s].asked # "new" => wire[s].state # "new"
  /\ shown[s].asked = "open" => wire[s].state \in {"open", "gone"}

MailInv ==
  /\ mail = [late |-> mail.late, ready |-> mail.ready]
  /\ mail.late \in Seq(Mails) /\ mail.ready \in Seq(Mails)

NoticesInv ==
  /\ MailInv
  /\ NoticesTypeOK(Users)
  /\ DOMAIN shown = Wires /\ \A s \in Wires : ShownOK(s)
  /\ \A h \in Slots : Busy(h) => NoticeJob(h)

(***************************************************************************)
(* What a step does to calls and requests.                                 *)
(***************************************************************************)

\* Request g goes on as it is; another one may have begun.
Stays(g) ==
  IF Busy(g) THEN job'[g] = job[g] \/ job'[g] = [job[g] EXCEPT !.alone = FALSE]
  ELSE job'[g] = Idle

OthersStay(h) == DOMAIN job' = Slots /\ \A g \in Slots \ {h} : Stays(g)

Rows == <<chats, messages, early, docs>>

\* What call n, made for h by taking the answers C, may be.
Sense(h, C, n) ==
  /\ n.op = "sendMessage" => n.arg.user \in Users /\ n.arg.to \in Users /\ n.arg.kind \in Kinds
  /\ n.op = "uploadFile" =>
       \E c \in C : /\ c.op = "sendMessage" /\ c.answer.res = "Success"
                    /\ n.arg.message = c.answer.message
  /\ n.op = "removeMessages" =>
       \/ Busy(h) /\ job[h].op = "remove" /\ n.arg = Arg(h)
       \/ /\ latest.message # 0 /\ n.arg = [user |-> latest.user, messages |-> {latest.message}]
          /\ faults' = faults - 1
  /\ n.op = "deleteFiles" =>
       \E c \in C : /\ c.op = "removeMessages" /\ c.answer.res = "Success"
                    /\ n.arg.messages = c.arg.messages
  /\ n.op = "readMessage" => n.arg.user \in Users
  /\ \A c \in C : /\ c.op = "sendMessage" /\ c.answer.res = "Success" =>
                       n.op = "uploadFile" \/ Arg(h).kind = "text"
                  /\ c.op = "removeMessages" /\ c.answer.res = "Success" => n.op = "deleteFiles"

\* Handler h makes call n.
MakesCall(h, C, n) ==
  /\ C \subseteq calls /\ \A c \in C : c \in AnswersTo(h) /\ Busy(h) /\ job[h].pc = "calls"
  /\ n = NewCall(n.op, n.arg, "find") /\ n.op \in MessengerOps \cup FileOps
  /\ made' = made + 1 /\ calls' = (calls \ C) \cup {n}
  /\ WaitsFor(h, n.no)' /\ JobOK(h)' /\ Fits(h, n)' /\ OthersStay(h)
  /\ C = {} /\ Busy(h) /\ job[h].pc = "calls" => faults' < faults
  /\ job'[h].op = "remove" => Busy(h) /\ job[h].op = "remove" /\ job'[h].arg = job[h].arg
  /\ Busy(h) => job'[h].op = job[h].op
  /\ Sense(h, C, n)
  /\ UNCHANGED <<Rows, asked, events, queue, socketVars, noticeVars, list>>

\* Handler h takes answer c, and the request ends.
TakesAnswer(h, c) ==
  /\ c \in AnswersTo(h) /\ Busy(h) /\ job[h].pc = "calls"
  /\ calls' = calls \ {c} /\ made' = made
  /\ job'[h] = Idle /\ OthersStay(h)
  /\ c.op = "sendMessage" /\ c.answer.res = "Success" => Arg(h).kind = "text"
  /\ c.op = "removeMessages" /\ c.answer.res = "Success" => job[h].op = "send"
  /\ UNCHANGED <<Rows, asked, latest, events, queue, faults>>

\* Call c goes on in its service and is d then.
GoesOn(c, d) ==
  /\ c \in calls /\ ~Answered(c)
  /\ DOMAIN d = CallFields /\ d.no = c.no /\ d.op = c.op /\ d.arg = c.arg
  /\ DOMAIN d.answer = AnswerFields /\ d.answer.res \in AppResults \cup {"none"}
  /\ d.answer.res = "none" => d.answer = NoAnswer
  /\ calls' = (calls \ {c}) \cup {d} /\ made' = made

\* Calls are left alone; request h begins, goes on or ends.
NoCall(h) ==
  /\ UNCHANGED <<made, calls, chats, messages, early>> /\ OthersStay(h)
  /\ \/ Stays(h)
     \/ /\ Busy(h) /\ job'[h] = Idle /\ (job[h].pc = "calls" => faults' < faults)
        /\ job[h].op \in NoticeOps => NoticesRun \/ faults' < faults
     \/ /\ ~Busy(h) /\ JobOK(h)' /\ job'[h].pc # "calls" /\ (job'[h].op = "remove" => RemoveRequests(h))
        /\ job'[h].op \in NoticeOps => NoticeRequests \/ NoticesRun
     \/ /\ Busy(h) /\ job[h].pc # "calls" /\ job'[h].pc # "calls" /\ JobOK(h)'
        /\ job'[h].op = job[h].op /\ job'[h].arg = job[h].arg /\ NoticesRun

CallsAndJobs == CallsInv /\ JobsInv /\ WaitInv /\ SceneInv /\ RemovesInv /\ LatestInv

USE DEF NoticeOps

LEMMA SceneBounds ==
  ASSUME scene \in Scenes
  PROVE  /\ scene.people \subseteq Users /\ scene.kinds \subseteq Kinds
         /\ scene.past \in 0 .. MaxMessages /\ scene.moves \in Nat /\ scene.faults \in Nat
         /\ scene.lists # {} => scene.past > 0
BY ScenesAssumption, ChatsBounds

\* Request h begins; the others overlap it.
Begun(h, op, arg, pc, todo) ==
  /\ ~Busy(h) /\ OthersStay(h) /\ DOMAIN job'[h] = Fields
  /\ job'[h].op = op /\ job'[h].arg = arg /\ job'[h].pc = pc /\ job'[h].todo = todo
  /\ job'[h].got = <<>> /\ job'[h].alone \in BOOLEAN /\ (Busy(h))'
  /\ faults' = faults /\ moves' = moves - 1 /\ oops' = oops

LEMMA Started ==
  ASSUME NEW h \in Slots, NEW op, NEW arg, NEW pc, NEW todo, JobsInv,
         \/ Start(h, Request(op, arg, pc, todo))
         \/ Start(h, [Request(op, arg, pc, todo) EXCEPT !.alone = FALSE])
  PROVE  Begun(h, op, arg, pc, todo)
<1> DEFINE r == Request(op, arg, pc, todo)
<1>1. ~Busy(h) /\ faults' = faults /\ moves' = moves - 1 /\ oops' = oops /\ DOMAIN job' = Slots
  BY DEF Start
<1>2. \E b \in BOOLEAN : job'[h] = [r EXCEPT !.alone = b]
  <2>1. CASE Start(h, r)
    <3>1. job'[h] = [r EXCEPT !.alone = @ /\ \A f \in Slots : ~Busy(f)]  BY <2>1 DEF Start
    <3> QED BY <3>1
  <2>2. CASE Start(h, [r EXCEPT !.alone = FALSE])
    <3>1. job'[h] = [[r EXCEPT !.alone = FALSE] EXCEPT !.alone = @ /\ \A f \in Slots : ~Busy(f)]
      BY <2>2 DEF Start
    <3>2. job'[h] = [r EXCEPT !.alone = FALSE]  BY <3>1 DEF Request
    <3> QED BY <3>2
  <2> QED BY <2>1, <2>2
<1>3. \A g \in Slots \ {h} : Stays(g)
  BY DEF Start, Stays, JobsInv, JobOK, Busy, Fields
<1>4. PICK b \in BOOLEAN : job'[h] = [op |-> op, arg |-> arg, pc |-> pc, todo |-> todo,
                                      got |-> <<>>, alone |-> b]
  BY <1>2 DEF Request
<1>5. DOMAIN job'[h] = Fields  BY <1>4 DEF Fields
<1>6. job'[h] # Idle  BY <1>4 DEF Idle
<1> QED BY <1>1, <1>3, <1>4, <1>5, <1>6 DEF OthersStay, Busy, Begun

LEMMA Replied ==
  ASSUME NEW h \in Slots, JobsInv, NEW a, Reply(h, a) \/ Abandon(h)
  PROVE  job'[h] = Idle /\ OthersStay(h) /\ faults' = faults /\ moves' = moves
<1>1. job' = [job EXCEPT ![h] = Idle] /\ faults' = faults /\ moves' = moves  BY DEF Reply, Abandon
<1> QED BY <1>1 DEF JobsInv, JobOK, OthersStay, Stays, Busy, Fields

\* Only request h changes.
LEMMA OnlyOne ==
  ASSUME NEW h \in Slots, JobsInv, NEW v, job' = [job EXCEPT ![h] = v]
  PROVE  OthersStay(h) /\ job'[h] = v
BY DEF JobsInv, JobOK, OthersStay, Stays, Busy, Fields

LEMMA JobUnchanged ==
  ASSUME JobsInv, job' = job PROVE \A g \in Slots : Stays(g) /\ OthersStay(g)
BY DEF JobsInv, JobOK, OthersStay, Stays, Busy, Fields

LEMMA NoneMade ==
  ASSUME NEW h \in Slots, OthersStay(h), UNCHANGED <<made, calls, chats, messages, early>>,
         ~Busy(h), JobOK(h)', job'[h].pc # "calls", job'[h].op = "remove" => RemoveRequests(h),
         job'[h].op \in NoticeOps => NoticeRequests \/ NoticesRun
  PROVE  NoCall(h)
BY DEF NoCall

LEMMA RequestSteps ==
  ASSUME CallsAndJobs, NEW h \in Slots,
         SendRequests(h) \/ ReadRequests(h) \/ RemoveRequests(h) \/ RoomRequests(h)
           \/ ListRequests(h)
  PROVE  NoCall(h) \/ \E n : MakesCall(h, {}, n)
<1> USE DEF CallsAndJobs
<1>0. scene.people \subseteq Users /\ scene.kinds \subseteq Kinds /\ Kinds = {"text", "file"}
  BY SceneBounds DEF SceneInv, Kinds
<1>1. CASE SendRequests(h)
  <2>1. PICK u \in scene.people, to \in scene.people \cup {Stranger}, kind \in scene.kinds,
             s \in Wires \cup {NoWire} :
          Ask(h, "send", [user |-> u, to |-> to, kind |-> kind, wire |-> s], "find")
    BY <1>1 DEF SendRequests
  <2>2. Start(h, Request("send", [user |-> u, to |-> to, kind |-> kind, wire |-> s], "find", {}))
    BY <2>1 DEF Ask
  <2>4. Begun(h, "send", [user |-> u, to |-> to, kind |-> kind, wire |-> s], "find", {})
    BY <2>2, Started
  <2>3. JobOK(h)' /\ job'[h].pc = "find" /\ ~Busy(h) /\ OthersStay(h) /\ job'[h].op = "send"
    BY <2>4, <1>0 DEF JobOK, Ops, Arg, Begun
  <2> QED BY <2>1, <2>3, NoneMade DEF Ask, messengerVars
<1>2. CASE RemoveRequests(h)
  <2>1. PICK u \in scene.people, M \in SUBSET DOMAIN messages :
          Ask(h, "remove", [user |-> u, messages |-> M], "find")
    BY <1>2 DEF RemoveRequests
  <2>2. Start(h, Request("remove", [user |-> u, messages |-> M], "find", {}))
    BY <2>1 DEF Ask
  <2>4. Begun(h, "remove", [user |-> u, messages |-> M], "find", {})
    BY <2>2, Started
  <2>3. JobOK(h)' /\ job'[h].pc = "find" /\ ~Busy(h) /\ OthersStay(h) /\ job'[h].op = "remove"
    BY <2>4 DEF JobOK, Ops, Arg, Begun
  <2> QED BY <1>2, <2>1, <2>3, NoneMade DEF Ask, messengerVars
<1>3. CASE ReadRequests(h)
  <2>1. PICK u \in scene.people, m \in DOMAIN messages :
          /\ Start(h, [Request("read", [user |-> u], "calls", {made + 1}) EXCEPT !.alone = FALSE])
          /\ Send("readMessage", [user |-> u, message |-> m], "find")
    BY <1>3 DEF ReadRequests
  <2> PICK n : n = NewCall("readMessage", [user |-> u, message |-> m], "find")  OBVIOUS
  <2>4. Begun(h, "read", [user |-> u], "calls", {made + 1})
    BY <2>1, Started
  <2>2. JobOK(h)' /\ WaitsFor(h, n.no)' /\ ~Busy(h) /\ OthersStay(h) /\ job'[h].op = "read"
    BY <2>1, <2>4 DEF Begun, Send, JobOK, Ops, Arg, WaitsFor, Busy, CallsInv, NewCall
  <2>3. MakesCall(h, {}, n)
    BY <2>1, <2>2, <1>3, <1>0 DEF ReadRequests, MakesCall, Send, NewCall, Fits, Arg, Sense, Rows, Rest, MessengerOps
  <2> QED BY <2>3
<1>4. CASE RoomRequests(h)
  <2>1. PICK s \in Wires, chat \in 1..Len(chats) + 1, op \in {"join", "leave"} :
          /\ Start(h, Request(op, [wire |-> s, chat |-> chat], "calls", {made + 1}))
          /\ Send("getChat", [chat |-> chat], "find")
    BY <1>4 DEF RoomRequests
  <2> PICK n : n = NewCall("getChat", [chat |-> chat], "find")  OBVIOUS
  <2>4. Begun(h, op, [wire |-> s, chat |-> chat], "calls", {made + 1})
    BY <2>1, Started
  <2>2. JobOK(h)' /\ WaitsFor(h, n.no)' /\ ~Busy(h) /\ OthersStay(h) /\ job'[h].op = op
        /\ job'[h].arg.chat = chat
    BY <2>1, <2>4 DEF Begun, Send, JobOK, Ops, Arg, WaitsFor, Busy, CallsInv, NewCall
  <2>3. MakesCall(h, {}, n)
    BY <2>1, <2>2, <1>4 DEF RoomRequests, MakesCall, Send, NewCall, Fits, Arg, Sense, Rows, Rest, MessengerOps
  <2> QED BY <2>3
<1>5. CASE ListRequests(h)
  <2> DEFINE op == IF list.kind = "chats" THEN "getChats" ELSE "getMessages"
             arg == [user |-> list.user, chat |-> list.chat, size |-> list.size,
                     after |-> IF list.seen = <<>> THEN 0 ELSE list.seen[Len(list.seen)]]
  <2> PICK n : n = NewCall(op, arg, "find")  OBVIOUS
  <2>1. Start(h, Request("list", <<>>, "calls", {made + 1})) /\ Send(op, arg, "find")
    BY <1>5 DEF ListRequests
  <2>3. op \in {"getChats", "getMessages"}  OBVIOUS
  <2> HIDE DEF op, arg
  <2>5. Begun(h, "list", <<>>, "calls", {made + 1})
    BY <2>1, Started
  <2>2. JobOK(h)' /\ WaitsFor(h, n.no)' /\ ~Busy(h) /\ OthersStay(h) /\ job'[h].op = "list"
    BY <2>1, <2>5 DEF Begun, Send, JobOK, Ops, Arg, WaitsFor, Busy, CallsInv, NewCall
  <2>4. MakesCall(h, {}, n)
    BY <2>1, <2>2, <2>3, <1>5 DEF ListRequests, MakesCall, Send, NewCall, Fits, Arg, Sense, Rows, Rest, MessengerOps
  <2> QED BY <2>4
<1> QED BY <1>1, <1>2, <1>3, <1>4, <1>5

\* The call an answered handler takes is the one it waits for, and fits.
LEMMA TakenFits ==
  ASSUME WaitInv, NEW h \in Slots, Busy(h), job[h].pc = "calls", NEW c \in AnswersTo(h)
  PROVE  c \in calls /\ Answered(c) /\ WaitsFor(h, c.no) /\ Fits(h, c)
BY DEF WaitInv, AnswersTo, WaitsFor

\* A handler asks for a call, whose answer it then waits for.
LEMMA Expects ==
  ASSUME NEW h \in Slots, JobsInv, Busy(h), NEW name, NEW value, NEW n,
         Expect(h, name, value, {n}), job[h].op \in {"send", "remove"}
  PROVE  /\ WaitsFor(h, n)' /\ JobOK(h)' /\ OthersStay(h) /\ faults' = faults
         /\ job'[h].op = job[h].op /\ job'[h].arg = job[h].arg
         /\ name \in DOMAIN job'[h].got /\ job'[h].got[name] = value
<1>1. job' = [job EXCEPT ![h].got = With(@, name, value), ![h].todo = {n}, ![h].pc = "calls"]
  BY DEF Expect
<1>2. JobOK(h) /\ DOMAIN job = Slots  BY DEF JobsInv
<1> DEFINE j == [job[h] EXCEPT !.got = With(@, name, value), !.todo = {n}, !.pc = "calls"]
<1>3. job' = [job EXCEPT ![h] = j] /\ job'[h] = j  BY <1>1, <1>2
<1>4. OthersStay(h)  BY <1>3, OnlyOne
<1>5. /\ j.op = job[h].op /\ j.arg = job[h].arg /\ j.alone = job[h].alone /\ j.todo = {n}
      /\ j.pc = "calls" /\ DOMAIN j = Fields /\ j.got = With(job[h].got, name, value)
  BY <1>2 DEF JobOK, Fields
<1>6. JobOK(h)'  BY <1>2, <1>3, <1>5 DEF JobOK, Arg
<1>7. j # Idle  BY <1>5 DEF Fields, Idle
<1> HIDE DEF j
<1> QED BY <1>3, <1>4, <1>5, <1>6, <1>7 DEF WaitsFor, Busy, Expect, With

LEMMA HandlerSteps ==
  ASSUME CallsAndJobs, NEW h \in Slots, Busy(h),
         SendFinds(h) \/ RemoveFinds(h) \/ Catches(h) \/ GatewayFails(h)
  PROVE  NoCall(h) \/ \E n : MakesCall(h, {}, n)
<1> USE DEF CallsAndJobs
<1>0. JobOK(h)  BY DEF JobsInv
<1>1. CASE SendFinds(h)
  <2>1. At(h, {"send"}, "find")  BY <1>1 DEF SendFinds
  <2>2. CASE Arg(h).to \notin Users
    <3>1. Answer(h, "NotFound") /\ Reply(h, "NotFound")  BY <1>1, <2>2 DEF SendFinds, Answer
    <3>2. job'[h] = Idle /\ OthersStay(h)  BY <3>1, Replied
    <3> QED BY <2>1, <3>1, <3>2 DEF NoCall, Answer, messengerVars, At
  <2>3. CASE Arg(h).to \in Users
    <3> DEFINE arg == [user |-> Arg(h).user, to |-> Arg(h).to, kind |-> Arg(h).kind]
    <3>1. Call(h, "to", Arg(h).to, "sendMessage", arg)  BY <1>1, <2>3 DEF SendFinds
    <3>2. PICK n : n = NewCall("sendMessage", arg, "find")  OBVIOUS
    <3>3. Expect(h, "to", Arg(h).to, {n.no})  BY <3>1, <3>2 DEF Call, NewCall
    <3>4. /\ WaitsFor(h, n.no)' /\ JobOK(h)' /\ OthersStay(h)
          /\ job'[h].op = "send" /\ job'[h].arg = job[h].arg
      BY <2>1, <3>3, Expects DEF At
    <3>5. n.arg.user \in Users /\ n.arg.to \in Users /\ n.arg.kind \in Kinds /\ n.op = "sendMessage"
          /\ n.arg.kind = Arg(h).kind
      BY <1>0, <2>1, <2>3, <3>2 DEF NewCall, JobOK, At
    <3>6. Fits(h, n)'  BY <3>4, <3>5 DEF Fits, Arg
    <3>7. Sense(h, {}, n)  BY <3>5 DEF Sense
    <3>8. /\ made' = made + 1 /\ calls' = calls \cup {n}
          /\ UNCHANGED <<Rows, asked, events, queue, socketVars, noticeVars, list>>
      BY <1>1, <2>3, <3>1, <3>2 DEF Call, Send, Rows, SendFinds
    <3>9. n = NewCall(n.op, n.arg, "find")  BY <3>2 DEF NewCall
    <3>10. job[h].pc # "calls"  BY <2>1 DEF At
    <3> QED BY <2>1, <3>4, <3>5, <3>6, <3>7, <3>8, <3>9, <3>10 DEF At, MakesCall, MessengerOps
  <2> QED BY <2>2, <2>3
<1>2. CASE RemoveFinds(h)
  <2>1. At(h, {"remove"}, "find")  BY <1>2 DEF RemoveFinds
  <2>2. Call(h, "user", Arg(h).user, "removeMessages", Arg(h))  BY <1>2 DEF RemoveFinds
  <2>3. PICK n : n = NewCall("removeMessages", Arg(h), "find")  OBVIOUS
  <2>4. Expect(h, "user", Arg(h).user, {n.no})  BY <2>2, <2>3 DEF Call, NewCall
  <2>5. /\ WaitsFor(h, n.no)' /\ JobOK(h)' /\ OthersStay(h)
        /\ job'[h].op = "remove" /\ job'[h].arg = job[h].arg
    BY <2>1, <2>4, Expects DEF At
  <2>6. n.op = "removeMessages" /\ n.arg = Arg(h)  BY <2>3 DEF NewCall
  <2>7. Fits(h, n)'  BY <2>5, <2>6 DEF Fits, Arg
  <2>8. Sense(h, {}, n)  BY <2>1, <2>6 DEF Sense, At
  <2>9. /\ made' = made + 1 /\ calls' = calls \cup {n}
        /\ UNCHANGED <<Rows, asked, events, queue, socketVars, noticeVars, list>>
    BY <1>2, <2>2, <2>3 DEF Call, Send, Rows, RemoveFinds
  <2>10. n = NewCall(n.op, n.arg, "find")  BY <2>3 DEF NewCall
  <2>11. job[h].pc # "calls"  BY <2>1 DEF At
  <2> QED BY <2>1, <2>5, <2>6, <2>7, <2>8, <2>9, <2>10, <2>11 DEF At, MakesCall, MessengerOps
<1>3. CASE Catches(h)
  <2> DEFINE arg == [user |-> latest.user, messages |-> {latest.message}]
  <2>1. PICK n : n = NewCall("removeMessages", arg, "find")  OBVIOUS
  <2>2. /\ job[h].op = "send" /\ latest.message # 0 /\ faults \in Nat /\ faults' = faults - 1
        /\ job' = [job EXCEPT ![h].todo = {made + 1}, ![h].pc = "calls"]
        /\ Send("removeMessages", arg, "find")
        /\ UNCHANGED <<Rows, asked, events, queue, socketVars, noticeVars, list>>
    BY <1>3, SceneBounds DEF Catches, At, Waits, SceneInv, Rest, Rows
  <2>3. n.no = made + 1 /\ n.op = "removeMessages" /\ n.arg = arg /\ n = NewCall(n.op, n.arg, "find")
    BY <2>1 DEF NewCall
  <2> DEFINE j == [job[h] EXCEPT !.todo = {n.no}, !.pc = "calls"]
  <2>4. job' = [job EXCEPT ![h] = j] /\ job'[h] = j  BY <2>2, <2>3 DEF JobsInv
  <2>5. OthersStay(h)  BY <2>4, OnlyOne
  <2>6. /\ j.op = job[h].op /\ j.arg = job[h].arg /\ j.alone = job[h].alone /\ j.todo = {n.no}
        /\ j.pc = "calls" /\ DOMAIN j = Fields
    BY <1>0 DEF JobOK, Fields
  <2>7. JobOK(h)'  BY <1>0, <2>2, <2>4, <2>6 DEF JobOK, Arg
  <2>8. j # Idle  BY <2>6 DEF Fields, Idle
  <2> HIDE DEF j
  <2>9. WaitsFor(h, n.no)' /\ Fits(h, n)' /\ job'[h].op # "remove" /\ job'[h].op = job[h].op
    BY <2>2, <2>3, <2>4, <2>6, <2>8 DEF WaitsFor, Busy, Fits
  <2>10. Sense(h, {}, n)  BY <2>2, <2>3 DEF Sense
  <2>11. made' = made + 1 /\ calls' = calls \cup {n}  BY <2>1, <2>2 DEF Send
  <2> QED BY <2>2, <2>3, <2>5, <2>7, <2>9, <2>10, <2>11 DEF MakesCall, MessengerOps
<1>4. CASE GatewayFails(h)
  <2>1. job' = [job EXCEPT ![h] = Idle] /\ faults' < faults
    BY <1>4, SceneBounds DEF GatewayFails, Fail, SceneInv
  <2>2. job'[h] = Idle /\ OthersStay(h)  BY <2>1, OnlyOne
  <2> QED BY <1>4, <2>1, <2>2 DEF NoCall, GatewayFails, messengerVars
<1> QED BY <1>1, <1>2, <1>3, <1>4

KnowsMore(h, name, value) ==
  /\ job'[h].op = job[h].op /\ job'[h].arg = job[h].arg
  /\ name \in DOMAIN job'[h].got /\ job'[h].got[name] = value

CallsNext(h, c, n, name, value) ==
  Sense(h, {c}, n) /\ (KnowsMore(h, name, value) => Fits(h, n)') => MakesCall(h, {c}, n)

\* The answer is taken and the handler calls again.
LEMMA CalledAgain ==
  ASSUME CallsAndJobs, NEW h \in Slots, Busy(h), job[h].pc = "calls", NEW c \in AnswersTo(h),
         NEW name, NEW value, NEW op \in MessengerOps \cup FileOps, NEW arg,
         CallAgain(h, c, name, value, op, arg),
         job[h].op \in {"send", "remove"}, UNCHANGED asked
  PROVE  \E n : n.op = op /\ n.arg = arg /\ CallsNext(h, c, n, name, value)
<1> USE DEF CallsAndJobs
<1>1. PICK n : n = NewCall(op, arg, "find")  OBVIOUS
<1>2. Expect(h, name, value, {n.no})  BY <1>1 DEF CallAgain, NewCall
<1>3. /\ WaitsFor(h, n.no)' /\ JobOK(h)' /\ OthersStay(h) /\ faults' = faults
      /\ job'[h].op = job[h].op /\ job'[h].arg = job[h].arg
      /\ name \in DOMAIN job'[h].got /\ job'[h].got[name] = value
  BY <1>2, Expects
<1>4. /\ made' = made + 1 /\ calls' = (calls \ {c}) \cup {n}
      /\ UNCHANGED <<Rows, asked, events, queue, socketVars, noticeVars, list>>
  BY <1>1 DEF CallAgain, Rows
<1>5. n.op = op /\ n.arg = arg /\ n = NewCall(n.op, n.arg, "find")  BY <1>1 DEF NewCall
<1>6. c \in calls  BY TakenFits
<1> QED BY <1>3, <1>4, <1>5, <1>6 DEF MakesCall, CallsNext, KnowsMore

LEMMA Forwarded ==
  ASSUME CallsAndJobs, NEW h \in Slots, Busy(h), job[h].pc = "calls", NEW c \in AnswersTo(h),
         \/ Forward(h, c)
         \/ /\ Reply(h, "Internal") \/ Abandon(h)
            /\ calls' = calls \ {c}
            /\ UNCHANGED <<made, chats, messages, early, events, queue, docs>>,
         UNCHANGED <<latest, asked>>,
         c.op = "sendMessage" /\ c.answer.res = "Success" => Arg(h).kind = "text",
         c.op = "removeMessages" /\ c.answer.res = "Success" => job[h].op = "send"
  PROVE  TakesAnswer(h, c)
<1>1. (\E res : Reply(h, res)) \/ Abandon(h)  BY DEF Forward
<1>2. job'[h] = Idle /\ OthersStay(h) /\ faults' = faults  BY <1>1, Replied DEF CallsAndJobs
<1> QED BY <1>2 DEF TakesAnswer, Forward, Rows

LEMMA AnswerSteps ==
  ASSUME CallsAndJobs, NEW h \in Slots, Busy(h), NEW c \in AnswersTo(h),
         \/ SendReturns(h, c) \/ UploadReturns(h, c) \/ ReadReturns(h, c)
         \/ RemoveReturns(h, c) \/ RoomReturns(h, c)
         \/ ChatsReturn(h, c) \/ MessagesReturn(h, c)
  PROVE  TakesAnswer(h, c) \/ \E n : MakesCall(h, {c}, n)
<1> USE DEF CallsAndJobs
<1>0. job[h].pc = "calls"
  BY DEF SendReturns, UploadReturns, ReadReturns, RemoveReturns, RoomReturns, ChatsReturn,
         MessagesReturn, Waits
<1>1. Fits(h, c)  BY <1>0, TakenFits
<1>2. JobOK(h)  BY DEF JobsInv
<1>3. CASE SendReturns(h, c)
  <2>1. job[h].op = "send" /\ c.op = "sendMessage" /\ Arg(h).kind \in {"text", "file"}
    BY <1>3, <1>2 DEF SendReturns, Waits, JobOK, Kinds
  <2>2. CASE c.answer.res # "Success"
    BY <1>0, <1>3, <2>1, <2>2, Forwarded DEF SendReturns, Rest
  <2>3. CASE c.answer.res = "Success" /\ Arg(h).kind = "file"
    <3>1. CallAgain(h, c, "message", c.answer.message, "uploadFile", [message |-> c.answer.message])
          /\ UNCHANGED asked
      BY <1>3, <2>3 DEF SendReturns
    <3>2. PICK n : /\ n.op = "uploadFile" /\ n.arg = [message |-> c.answer.message]
                   /\ CallsNext(h, c, n, "message", c.answer.message)
      BY <1>0, <2>1, <3>1, CalledAgain DEF FileOps
    <3>3. Sense(h, {c}, n)  BY <2>1, <2>3, <3>2 DEF Sense
    <3>4. KnowsMore(h, "message", c.answer.message) => Fits(h, n)'
      BY <2>1, <3>2 DEF Fits, KnowsMore
    <3> QED BY <3>2, <3>3, <3>4 DEF CallsNext
  <2>4. CASE /\ c.answer.res = "Success" /\ Arg(h).kind = "text"
             /\ Arg(h).wire = NoWire \/ isJoined(Arg(h).wire, c.answer.chat)
    <3>1. Forward(h, c) /\ UNCHANGED <<latest, asked>>
      BY <1>3, <2>4 DEF SendReturns, Rest
    <3> QED BY <1>0, <2>1, <2>4, <3>1, Forwarded
  <2>5. CASE /\ c.answer.res = "Success" /\ Arg(h).kind = "text"
             /\ Arg(h).wire # NoWire /\ ~isJoined(Arg(h).wire, c.answer.chat)
    <3>1. CallAgain(h, c, "chat", c.answer.chat, "getChat", [chat |-> c.answer.chat])
          /\ UNCHANGED asked
      BY <1>3, <2>5 DEF SendReturns
    <3>2. PICK n : /\ n.op = "getChat" /\ n.arg = [chat |-> c.answer.chat]
                   /\ CallsNext(h, c, n, "chat", c.answer.chat)
      BY <1>0, <2>1, <3>1, CalledAgain DEF MessengerOps
    <3>3. Sense(h, {c}, n)  BY <2>1, <2>5, <3>2 DEF Sense
    <3>4. KnowsMore(h, "chat", c.answer.chat) => Fits(h, n)'
      BY <2>1, <2>5, <3>2 DEF Fits, Arg, KnowsMore
    <3> QED BY <3>2, <3>3, <3>4 DEF CallsNext
  <2> QED BY <1>3, <2>1, <2>2, <2>3, <2>4, <2>5 DEF SendReturns
<1>4. CASE UploadReturns(h, c)
  <2>1. job[h].op = "send" /\ c.op \in {"uploadFile", "removeMessages"}  BY <1>4 DEF UploadReturns, Waits
  <2> QED BY <1>0, <1>4, <2>1, Forwarded DEF UploadReturns, Rest
<1>5. CASE ReadReturns(h, c)
  <2>1. job[h].op = "read" /\ c.op = "readMessage"  BY <1>1, <1>5 DEF ReadReturns, Waits, Fits
  <2> QED BY <1>0, <1>5, <2>1, Forwarded DEF ReadReturns, Rest
<1>6. CASE RemoveReturns(h, c)
  <2>1. job[h].op = "remove" /\ c.op \in {"removeMessages", "deleteFiles"}
        /\ c.arg.messages = Arg(h).messages
    BY <1>1, <1>6 DEF RemoveReturns, Waits, Fits
  <2>2. CASE c.op = "removeMessages" /\ c.answer.res = "Success"
    <3> PICK arg : arg = [messages |-> Arg(h).messages]  OBVIOUS
    <3>1. PICK yes : CallAgain(h, c, "removed", yes, "deleteFiles", arg) /\ UNCHANGED asked
      BY <1>6, <2>2 DEF RemoveReturns
    <3>2. PICK n : /\ n.op = "deleteFiles" /\ n.arg = arg
                   /\ CallsNext(h, c, n, "removed", yes)
      BY <1>0, <2>1, <3>1, CalledAgain DEF FileOps
    <3>3. Sense(h, {c}, n)  BY <2>1, <2>2, <3>2 DEF Sense
    <3>4. KnowsMore(h, "removed", yes) => Fits(h, n)'
      BY <2>1, <3>2 DEF Fits, Arg, KnowsMore
    <3> QED BY <3>2, <3>3, <3>4 DEF CallsNext
  <2>3. CASE ~(c.op = "removeMessages" /\ c.answer.res = "Success")
    BY <1>0, <1>6, <2>1, <2>3, Forwarded DEF RemoveReturns, Rest
  <2> QED BY <2>2, <2>3
<1>7. CASE RoomReturns(h, c)
  <2>1. c.op = "getChat" /\ Forward(h, c) /\ UNCHANGED <<latest, asked>>  BY <1>7 DEF RoomReturns, Rest
  <2> QED BY <1>0, <2>1, Forwarded
<1>8. CASE ChatsReturn(h, c) \/ MessagesReturn(h, c)
  <2>1. /\ c.op \in {"getChats", "getMessages"} /\ UNCHANGED <<latest, asked>>
        /\ \/ Forward(h, c)
           \/ /\ Reply(h, "Internal") /\ calls' = calls \ {c}
              /\ UNCHANGED <<made, chats, messages, early, events, queue, docs>>
    BY <1>8 DEF ChatsReturn, MessagesReturn, ShowPage, Rest
  <2> QED BY <1>0, <2>1, Forwarded
<1> QED BY <1>3, <1>4, <1>5, <1>6, <1>7, <1>8

\* Call c goes on in its service.
Serves(c) ==
  /\ c \in calls
  /\ \/ MessengerStep(c) /\ UNCHANGED <<docs, faults>>
     \/ QueryStep(c) /\ UNCHANGED <<docs, faults>>
     \/ FilesStep(c) /\ UNCHANGED faults
     \/ MessengerFails(c) /\ UNCHANGED docs /\ faults' < faults
     \/ FilesFail(c) /\ faults' < faults
  /\ UNCHANGED <<job, latest, asked, socketVars, noticeVars, list>>

\* The messenger stops; the gateway stops; neither has anything to do with it.
MessengerDown ==
  /\ MessengerStops /\ faults' < faults
  /\ UNCHANGED <<docs, job, latest, asked, socketVars, noticeVars, list>>

GatewayDown == GatewayRestarts /\ faults' < faults

Beside ==
  UNCHANGED <<made, calls, chats, messages, early, docs, job, latest, asked>>

CallSteps ==
  \/ \E h \in Slots : \E C, n : MakesCall(h, C, n)
  \/ \E h \in Slots : \E c : TakesAnswer(h, c)
  \/ \E h \in Slots : NoCall(h) /\ UNCHANGED docs
  \/ \E c : Serves(c)
  \/ \E c : Unheard(c)
  \/ MessengerDown \/ GatewayDown \/ Beside

LEMMA NoticesBegin ==
  ASSUME CallsAndJobs, NoticeRequests
  PROVE  Beside \/ \E h \in Slots : NoCall(h) /\ UNCHANGED docs
<1> USE DEF CallsAndJobs
<1>1. UNCHANGED <<made, calls, chats, messages, early, docs, latest, asked>>
  BY DEF NoticeRequests, messengerVars
<1>2. job' = job \/ \E h \in Slots : \E s, u : MarkRequests(h, u) \/ (s \in Wires /\ ListNotices(h, s))
  BY DEF NoticeRequests, checkAndNotifySubscriptionEnd, sendNotificationAfterSuccessPayment
<1>3. ASSUME NEW h \in Slots, NEW u, MarkRequests(h, u)
      PROVE  NoCall(h)
  <2>1. PICK n : Start(h, Request("mark", [user |-> u, note |-> n], "find", {}))
    BY <1>3 DEF MarkRequests
  <2>2. Begun(h, "mark", [user |-> u, note |-> n], "find", {})  BY <2>1, Started
  <2>3. JobOK(h)' /\ job'[h].pc = "find" /\ ~Busy(h) /\ OthersStay(h) /\ job'[h].op # "remove"
    BY <2>2 DEF JobOK, Ops, Arg, Begun
  <2> QED BY <1>1, <2>3, NoneMade
<1>4. ASSUME NEW h \in Slots, NEW s, ListNotices(h, s)
      PROVE  NoCall(h)
  <2>1. Start(h, Request("notices", s, "find", {}))  BY <1>4 DEF ListNotices
  <2>2. Begun(h, "notices", s, "find", {})  BY <2>1, Started
  <2>3. JobOK(h)' /\ job'[h].pc = "find" /\ ~Busy(h) /\ OthersStay(h) /\ job'[h].op # "remove"
    BY <2>2 DEF JobOK, Ops, Arg, Begun
  <2> QED BY <1>1, <2>3, NoneMade
<1> QED BY <1>1, <1>2, <1>3, <1>4 DEF Beside

LEMMA NoticesGoOn ==
  ASSUME CallsAndJobs, NoticesRun
  PROVE  Beside \/ \E h \in Slots : NoCall(h) /\ UNCHANGED docs
<1> USE DEF CallsAndJobs
<1>1. UNCHANGED <<made, calls, chats, messages, early, docs, latest, asked>>
  BY DEF NoticesRun, messengerVars
<1>2. \/ job' = job
      \/ \E h \in Slots : NoticeStep(h, Users) \/ TakeNotice(h)
  BY DEF NoticesRun, Ripen, PublishWs, PublishFails, handlerVars
<1>3. ASSUME NEW h \in Slots, TakeNotice(h)
      PROVE  NoCall(h)
  <2> DEFINE r == Request("notice", Head(mail.ready), "find", {})
  <2>1. ~Busy(h) /\ job' = [job EXCEPT ![h] = r]  BY <1>3 DEF TakeNotice
  <2>2. OthersStay(h) /\ job'[h] = r  BY <2>1, OnlyOne
  <2>3. JobOK(h)' /\ job'[h].pc = "find" /\ job'[h].op # "remove"  BY <2>2 DEF JobOK, Request, Fields, Ops, Arg
  <2> QED BY <1>1, <2>1, <2>2, <2>3, NoneMade
<1>4. ASSUME NEW h \in Slots, NoticeStep(h, Users)
      PROVE  NoCall(h)
  <2>1. Busy(h) /\ job[h].op \in NoticeOps /\ job[h].pc # "calls" /\ JobOK(h)
    BY <1>4 DEF NoticeStep, FindUsers, CreateNotices, MarkFinds, MarkWrites, NoticesFound, At, JobsInv
  <2>2. CASE \E a : Reply(h, a)
    BY <1>1, <2>1, <2>2, Replied DEF NoCall
  <2>3. CASE \E name, value : Learn(h, name, value, "write")
    <3>4. PICK name, value : Learn(h, name, value, "write")  BY <2>3
    <3> DEFINE pc == IF job[h].todo \ {name} = {} THEN "write" ELSE job[h].pc
               j == [job[h] EXCEPT !.got = With(@, name, value), !.todo = @ \ {name}, !.pc = pc]
    <3>5. job' = [job EXCEPT ![h] = j]  BY <2>1, <3>4 DEF Learn, JobsInv, JobOK, Fields
    <3>1. j.op = job[h].op /\ j.arg = job[h].arg /\ j.alone = job[h].alone /\ DOMAIN j = Fields
          /\ j.pc \in {"write", job[h].pc} /\ job' = [job EXCEPT ![h] = j]
      BY <2>1, <3>5 DEF JobOK, Fields
    <3> HIDE DEF j
    <3>2. OthersStay(h) /\ job'[h] = j  BY <3>1, OnlyOne
    <3>3. JobOK(h)' /\ job'[h].pc # "calls"  BY <2>1, <3>1, <3>2 DEF JobOK, Arg
    <3> QED BY <1>1, <2>1, <3>1, <3>2, <3>3 DEF NoCall
  <2>4. CASE Goto(h, "write")
    <3> DEFINE j == [job[h] EXCEPT !.pc = "write"]
    <3>5. job' = [job EXCEPT ![h] = j]  BY <2>1, <2>4 DEF Goto, JobsInv, JobOK, Fields
    <3>1. j.op = job[h].op /\ j.arg = job[h].arg /\ j.alone = job[h].alone /\ DOMAIN j = Fields
          /\ j.pc = "write" /\ job' = [job EXCEPT ![h] = j]
      BY <2>1, <3>5 DEF JobOK, Fields
    <3> HIDE DEF j
    <3>2. OthersStay(h) /\ job'[h] = j  BY <3>1, OnlyOne
    <3>3. JobOK(h)' /\ job'[h].pc # "calls"  BY <2>1, <3>1, <3>2 DEF JobOK, Arg
    <3> QED BY <1>1, <2>1, <3>1, <3>2, <3>3 DEF NoCall
  <2> QED BY <1>4, <2>2, <2>3, <2>4 DEF NoticeStep, FindUsers, CreateNotices, MarkFinds, MarkWrites, NoticesFound
<1> QED BY <1>1, <1>2, <1>3, <1>4 DEF Beside

LEMMA CallsMove ==
  ASSUME CallsAndJobs, [Next]_vars
  PROVE  CallSteps
<1> USE DEF CallsAndJobs
<1>0. faults \in Nat  BY SceneBounds DEF SceneInv
<1>1. CASE \E h \in Slots : ~Busy(h) /\ (SendRequests(h) \/ ReadRequests(h) \/ RemoveRequests(h)
                                          \/ RoomRequests(h) \/ ListRequests(h))
  <2>1. PICK h \in Slots : SendRequests(h) \/ ReadRequests(h) \/ RemoveRequests(h)
                           \/ RoomRequests(h) \/ ListRequests(h)
    BY <1>1
  <2>2. docs' = docs
    BY <2>1 DEF SendRequests, ReadRequests, RemoveRequests, RoomRequests, ListRequests, Ask
  <2> QED BY <2>1, <2>2, RequestSteps DEF CallSteps
<1>2. CASE \E h \in Slots : Busy(h) /\ (SendFinds(h) \/ RemoveFinds(h) \/ Catches(h) \/ GatewayFails(h))
  <2>1. PICK h \in Slots : Busy(h) /\ (SendFinds(h) \/ RemoveFinds(h) \/ Catches(h) \/ GatewayFails(h))
    BY <1>2
  <2>2. docs' = docs
    BY <2>1 DEF SendFinds, RemoveFinds, Catches, GatewayFails, Call, Answer
  <2> QED BY <2>1, <2>2, HandlerSteps DEF CallSteps
<1>3. CASE \E h \in Slots : Busy(h) /\ \E c \in AnswersTo(h) :
             \/ SendReturns(h, c) \/ UploadReturns(h, c) \/ ReadReturns(h, c)
             \/ RemoveReturns(h, c) \/ RoomReturns(h, c)
             \/ ChatsReturn(h, c) \/ MessagesReturn(h, c)
  BY <1>3, AnswerSteps DEF CallSteps
<1>4. CASE \/ \E s \in Wires : SocketStep(s) \/ CheckFails(s)
           \/ \E e \in queue : Deliver(e)
           \/ \E u \in scene.people : BanUser(u)
           \/ \E kind \in scene.lists : OpenList(kind[1], messages[1].sender, kind[2])
           \/ \E e \in events : Tell(e) /\ UNCHANGED <<docs, socketVars, handlerVars>> /\ Rest
           \/ UNCHANGED vars
  BY <1>4 DEF CallSteps, Beside, SocketStep, CheckFails, Deliver, BanUser, OpenList, Tell, vars,
       messengerVars, handlerVars, Rest
<1>5. CASE \E c \in calls : Unheard(c)
  BY <1>5 DEF CallSteps
<1>6. CASE NoticeRequests \/ NoticesRun
  BY <1>6, NoticesBegin, NoticesGoOn DEF CallSteps
<1>7. CASE ServicesRun
  <2>1. UNCHANGED <<job, faults, latest, asked, socketVars, noticeVars, list>> /\ Rest
    BY <1>7 DEF ServicesRun, handlerVars, Rest
  <2>2. CASE \E c \in calls : (MessengerStep(c) \/ QueryStep(c)) /\ UNCHANGED docs
    BY <2>1, <2>2 DEF CallSteps, Serves
  <2>3. CASE \E c \in calls : FilesStep(c)
    BY <2>1, <2>3 DEF CallSteps, Serves
  <2>4. CASE \E e \in events : Tell(e) /\ UNCHANGED docs
    BY <1>4, <2>4, <1>7 DEF ServicesRun
  <2> QED BY <1>7, <2>2, <2>3, <2>4 DEF ServicesRun
<1>8. CASE ServicesFail
  <2>1. UNCHANGED <<job, latest, asked, socketVars, noticeVars, list>> /\ faults' < faults
    BY <1>0, <1>8 DEF ServicesFail, Rest
  <2> QED BY <1>8, <2>1 DEF ServicesFail, CallSteps, Serves, MessengerDown
<1>9. CASE GatewayRestarts
  <2>1. faults' < faults  BY <1>0, <1>9 DEF GatewayRestarts
  <2> QED BY <1>9, <2>1 DEF CallSteps, GatewayDown
<1> QED
  BY <1>1, <1>2, <1>3, <1>4, <1>5, <1>6, <1>7, <1>8, <1>9 DEF Next

(***************************************************************************)
(* What a service does to the rows.                                        *)
(***************************************************************************)

\* Call c ends with a result alone, or goes on.
Ends(c, d, res) ==
  /\ GoesOn(c, d) /\ d.pc = c.pc /\ d.got = c.got
  /\ d.answer.res = res /\ d.answer.message = 0 /\ d.answer # NoAnswer

Advances(c, d, pc, got) == GoesOn(c, d) /\ d.pc = pc /\ d.got = got /\ d.answer = NoAnswer

LEMMA Finishes ==
  ASSUME CallsInv, NEW c \in calls, ~Answered(c), NEW res \in AppResults, Done(c, res), made' = made
  PROVE  \E d : Ends(c, d, res)
<1> DEFINE d == [c EXCEPT !.answer.res = res]
<1>1. DOMAIN c = CallFields /\ c.answer = NoAnswer  BY DEF CallsInv, Answered
<1>2. /\ DOMAIN d = CallFields /\ d.no = c.no /\ d.op = c.op /\ d.arg = c.arg /\ d.pc = c.pc
      /\ d.got = c.got /\ d.answer = [NoAnswer EXCEPT !.res = res]
  BY <1>1 DEF CallFields
<1>3. /\ DOMAIN d.answer = AnswerFields /\ d.answer.res = res /\ res # "none" /\ d.answer.message = 0
      /\ NoAnswer.res = "none"
  BY <1>2 DEF NoAnswer, AnswerFields, AppResults
<1>4. calls' = (calls \ {c}) \cup {d}  BY DEF Done, Replace
<1> HIDE DEF d
<1>5. d.answer # NoAnswer  BY <1>3
<1> QED BY <1>2, <1>3, <1>4, <1>5 DEF Ends, GoesOn

LEMMA Proceeds ==
  ASSUME CallsInv, NEW c \in calls, ~Answered(c), NEW pc, NEW got, Advance(c, pc, got), made' = made
  PROVE  \E d : Advances(c, d, pc, got)
<1> DEFINE d == [c EXCEPT !.pc = pc, !.got = got]
<1>1. DOMAIN c = CallFields /\ c.answer = NoAnswer  BY DEF CallsInv, Answered
<1>2. /\ DOMAIN d = CallFields /\ d.no = c.no /\ d.op = c.op /\ d.arg = c.arg /\ d.pc = pc
      /\ d.got = got /\ d.answer = NoAnswer
  BY <1>1 DEF CallFields
<1>3. DOMAIN NoAnswer = AnswerFields /\ NoAnswer.res = "none"  BY DEF NoAnswer, AnswerFields
<1>4. calls' = (calls \ {c}) \cup {d}  BY DEF Advance, Replace
<1> HIDE DEF d
<1> QED BY <1>2, <1>3, <1>4 DEF Advances, GoesOn

\* Call c answers with a message or a page.
Yields(c, d, message, chat, page) ==
  /\ GoesOn(c, d) /\ d.answer.res = "Success" /\ d.answer.message = message
  /\ d.answer.chat = chat /\ d.answer.page = page /\ d.pc = c.pc /\ d.got = c.got

LEMMA Yielded ==
  ASSUME CallsInv, NEW c \in calls, ~Answered(c), NEW m, NEW x, NEW page,
         Replace(c, [c EXCEPT !.answer = [res |-> "Success", message |-> m, chat |-> x, page |-> page]]),
         made' = made
  PROVE  \E d : Yields(c, d, m, x, page)
<1> DEFINE a == [res |-> "Success", message |-> m, chat |-> x, page |-> page]
           d == [c EXCEPT !.answer = a]
<1>1. DOMAIN c = CallFields  BY DEF CallsInv
<1>2. /\ DOMAIN d = CallFields /\ d.no = c.no /\ d.op = c.op /\ d.arg = c.arg /\ d.answer = a
      /\ d.pc = c.pc /\ d.got = c.got
  BY <1>1 DEF CallFields
<1>3. /\ DOMAIN a = AnswerFields /\ a.res = "Success" /\ a.res \in AppResults
      /\ a.message = m /\ a.chat = x /\ a.page = page
  BY DEF AnswerFields, AppResults
<1>4. calls' = (calls \ {c}) \cup {d}  BY DEF Replace
<1> HIDE DEF d, a
<1> QED BY <1>2, <1>3, <1>4 DEF Yields, GoesOn

LEMMA Shown ==
  ASSUME CallsInv, NEW c \in calls, ~Answered(c), NEW page, Show(c, page), made' = made
  PROVE  \E d : Yields(c, d, 0, 0, page)
<1>1. DOMAIN c = CallFields /\ c.answer = NoAnswer  BY DEF CallsInv, Answered
<1> DEFINE a == [[c.answer EXCEPT !.res = "Success"] EXCEPT !.page = page]
           d == [c EXCEPT !.answer = a]
<1>2. /\ DOMAIN d = CallFields /\ d.no = c.no /\ d.op = c.op /\ d.arg = c.arg /\ d.answer = a
      /\ d.pc = c.pc /\ d.got = c.got
  BY <1>1 DEF CallFields
<1>3. DOMAIN c.answer = AnswerFields /\ c.answer.message = 0 /\ c.answer.chat = 0
  BY <1>1 DEF NoAnswer, AnswerFields
<1>4. /\ DOMAIN a = AnswerFields /\ a.res = "Success" /\ a.res \in AppResults
      /\ a.message = 0 /\ a.chat = 0 /\ a.page = page
  BY <1>3 DEF AnswerFields, AppResults
<1>5. calls' = (calls \ {c}) \cup {d}
  BY <1>1 DEF Show, Replace, CallFields
<1> HIDE DEF d, a
<1> QED BY <1>2, <1>4, <1>5 DEF Yields, GoesOn

\* No row changes; what c may be then.
Quietly(c, d) ==
  /\ GoesOn(c, d) /\ UNCHANGED <<chats, messages, early, docs, events, queue>>
  /\ c.op = "sendMessage" =>
       /\ d.answer.res # "Success" /\ d.answer.message = 0
       /\ \/ d.pc = c.pc /\ d.got = c.got /\ Answered(d)
          \/ /\ c.pc = "find" /\ d.pc = "write" /\ ~Answered(d)
             /\ d.got \in FindFirst(ChatsOf(c.arg.user, c.arg.to))
  /\ c.op = "removeMessages" =>
       /\ d.answer.res # "Success"
       /\ \/ d.pc = c.pc
          \/ \A m \in c.arg.messages : IsRow(messages, m) => messages[m].sender = c.arg.user
  /\ c.op = "readMessage" => d.pc = c.pc \/ IsRow(messages, d.got)
  /\ c.op = "getChat" /\ d.answer.res = "Success" => c.arg.chat \in DOMAIN chats
  /\ c.op = "deleteFiles" /\ Answered(d) => c.arg.messages \cap docs = {} \/ faults' < faults
  /\ c.op = "uploadFile" => Answered(d) /\ faults' < faults

\* A message is created.
Creates(c, d) ==
  LET u == c.arg.user  v == c.arg.to
      chat == IF c.got = 0 THEN Len(chats) + 1 ELSE c.got
      alone == \A e \in calls \ {c} : ~CallAt(e, "sendMessage", "write") IN
  /\ CallAt(c, "sendMessage", "write")
  /\ Len(messages) + 1 <= MaxMessages
  /\ chats' = IF c.got = 0 THEN Append(chats, [who |-> {u, v}, alone |-> alone]) ELSE chats
  /\ messages' = Append(messages, [live |-> TRUE, chat |-> chat, sender |-> u, to |-> v,
                                   kind |-> c.arg.kind, readers |-> {u}])
  /\ Yields(c, d, Len(messages) + 1, chat, <<>>)
  /\ events' = events \cup {[message |-> Len(messages) + 1, to |-> v]}
  /\ UNCHANGED <<early, docs, queue>>

IsRead(c, d) ==
  /\ c.op = "readMessage" /\ IsRow(messages, c.got) /\ GoesOn(c, d)
  /\ messages' = [messages EXCEPT ![c.got].readers = @ \cup {c.arg.user}]
  /\ UNCHANGED <<chats, early, docs, events, queue>>

Removes(c, d) ==
  /\ CallAt(c, "removeMessages", "write") /\ Ends(c, d, "Success")
  /\ messages' = [m \in DOMAIN messages |->
       IF m \in c.arg.messages THEN [messages[m] EXCEPT !.live = FALSE] ELSE messages[m]]
  /\ early' = early \cup {m \in c.arg.messages : Touched(m)}
  /\ UNCHANGED <<chats, docs, events, queue>>

GivesFile(c, d) ==
  /\ c.op = "uploadFile" /\ Ends(c, d, "Success") /\ docs' = docs \cup {c.arg.message}
  /\ UNCHANGED <<chats, messages, early, events, queue>>

TakesFiles(c, d) ==
  /\ c.op = "deleteFiles" /\ Ends(c, d, "Success") /\ docs' = docs \ c.arg.messages
  /\ UNCHANGED <<chats, messages, early, events, queue>>

LEMMA ServiceSteps ==
  ASSUME CallsInv, NEW c, Serves(c)
  PROVE  \E d : \/ Quietly(c, d) \/ Creates(c, d) \/ IsRead(c, d) \/ Removes(c, d)
                \/ GivesFile(c, d) \/ TakesFiles(c, d)
<1>0. c \in calls  BY DEF Serves
<1>1. CASE FindChat(c) /\ UNCHANGED docs
  <2>1. CallAt(c, "sendMessage", "find") /\ made' = made /\ ~Answered(c)  BY <1>1 DEF FindChat, CallAt
  <2>2. PICK chat \in FindFirst(ChatsOf(c.arg.user, c.arg.to)) : Advance(c, "write", chat)
    BY <1>1 DEF FindChat
  <2>3. PICK d : Advances(c, d, "write", chat)  BY <1>0, <2>1, <2>2, Proceeds
  <2> QED BY <1>1, <2>1, <2>2, <2>3 DEF FindChat, Quietly, Advances, CallAt, NoAnswer, Answered
<1>2. CASE CreateMessage(c) /\ UNCHANGED docs
  <2>1. CallAt(c, "sendMessage", "write") /\ made' = made /\ ~Answered(c)  BY <1>2 DEF CreateMessage, CallAt
  <2> DEFINE chat == IF c.got = 0 THEN Len(chats) + 1 ELSE c.got
  <2>2. PICK d : Yields(c, d, Len(messages) + 1, chat, <<>>)
    BY <1>0, <1>2, <2>1, Yielded DEF CreateMessage
  <2>3. Creates(c, d)  BY <1>2, <2>2 DEF CreateMessage, Creates
  <2> QED BY <2>3
<1>3. CASE FindMessage(c) /\ UNCHANGED docs
  <2>1. CallAt(c, "readMessage", "find") /\ made' = made /\ ~Answered(c)  BY <1>3 DEF FindMessage, CallAt
  <2>2. \/ \E res \in AppResults : Done(c, res)
        \/ IsRow(messages, c.arg.message) /\ Advance(c, "write", c.arg.message)
    BY <1>3 DEF FindMessage, AppResults
  <2>3. CASE \E res \in AppResults : Done(c, res)
    <3>2. PICK res \in AppResults : Done(c, res)  BY <2>3
    <3>1. PICK d : Ends(c, d, res)  BY <1>0, <2>1, <3>2, Finishes
    <3> QED BY <1>3, <2>1, <3>1 DEF FindMessage, Quietly, Ends, CallAt
  <2>4. CASE IsRow(messages, c.arg.message) /\ Advance(c, "write", c.arg.message)
    <3>1. PICK d : Advances(c, d, "write", c.arg.message)  BY <1>0, <2>1, <2>4, Proceeds
    <3> QED BY <1>3, <2>1, <2>4, <3>1 DEF FindMessage, Quietly, Advances, CallAt
  <2> QED BY <2>2, <2>3, <2>4
<1>4. CASE CreateReadStatus(c) /\ UNCHANGED docs
  <2>1. CallAt(c, "readMessage", "write") /\ made' = made /\ ~Answered(c)
    BY <1>4 DEF CreateReadStatus, CallAt
  <2>2. PICK res \in {"Success", "Internal"} : Done(c, res)  BY <1>4 DEF CreateReadStatus
  <2>3. PICK d : Ends(c, d, res)  BY <1>0, <2>1, <2>2, Finishes DEF AppResults
  <2>4. Quietly(c, d) \/ IsRead(c, d)
    BY <1>4, <2>1, <2>3 DEF CreateReadStatus, Quietly, IsRead, Ends, CallAt
  <2> QED BY <2>4
<1>5. CASE FindMessages(c) /\ UNCHANGED docs
  <2>1. CallAt(c, "removeMessages", "find") /\ made' = made /\ ~Answered(c)
    BY <1>5 DEF FindMessages, CallAt
  <2>2. \/ \E res \in {"NotFound", "Forbidden"} : Done(c, res)
        \/ /\ Advance(c, "write", 0)
           /\ \A m \in c.arg.messages : IsRow(messages, m) => messages[m].sender = c.arg.user
    BY <1>5 DEF FindMessages
  <2>3. CASE \E res \in {"NotFound", "Forbidden"} : Done(c, res)
    <3>2. PICK res \in {"NotFound", "Forbidden"} : Done(c, res)  BY <2>3
    <3>1. PICK d : Ends(c, d, res)  BY <1>0, <2>1, <3>2, Finishes DEF AppResults
    <3> QED BY <1>5, <2>1, <3>1 DEF FindMessages, Quietly, Ends, CallAt
  <2>4. CASE /\ Advance(c, "write", 0)
             /\ \A m \in c.arg.messages : IsRow(messages, m) => messages[m].sender = c.arg.user
    <3>1. PICK d : Advances(c, d, "write", 0)  BY <1>0, <2>1, <2>4, Proceeds
    <3> QED BY <1>5, <2>1, <2>4, <3>1 DEF FindMessages, Quietly, Advances, CallAt, NoAnswer
  <2> QED BY <2>2, <2>3, <2>4
<1>6. CASE DeleteMessages(c) /\ UNCHANGED docs
  <2>1. CallAt(c, "removeMessages", "write") /\ made' = made /\ ~Answered(c)
    BY <1>6 DEF DeleteMessages, CallAt
  <2>2. PICK d : Ends(c, d, "Success")
    BY <1>0, <1>6, <2>1, Finishes DEF DeleteMessages, AppResults
  <2>3. Removes(c, d)  BY <1>6, <2>1, <2>2 DEF DeleteMessages, Removes
  <2> QED BY <2>3
<1>7. CASE GetChatById(c) /\ UNCHANGED docs
  <2>1. CallAt(c, "getChat", "find") /\ made' = made /\ ~Answered(c)  BY <1>7 DEF GetChatById, CallAt
  <2>2. PICK res \in {"Success", "NotFound"} :
          Done(c, res) /\ (res = "Success" => c.arg.chat \in DOMAIN chats)
    BY <1>7 DEF GetChatById
  <2>3. PICK d : Ends(c, d, res)  BY <1>0, <2>1, <2>2, Finishes DEF AppResults
  <2> QED BY <1>7, <2>1, <2>2, <2>3 DEF GetChatById, Quietly, Ends, CallAt
<1>8. CASE QueryStep(c) /\ UNCHANGED docs
  <2>1. /\ c.op \in {"getChats", "getMessages"} /\ ~Answered(c)
        /\ UNCHANGED <<made, chats, messages, early, events, queue>>
    BY <1>8 DEF QueryStep, ChatsFindCursor, ChatsRead, MessagesFindChat, MessagesFindCursor,
                MessagesRead, CallAt, Unchanged
  <2>2. \/ \E res \in AppResults : Done(c, res)
        \/ \E pc, got : Advance(c, pc, got)
        \/ \E page : Show(c, page)
    BY <1>8 DEF QueryStep, ChatsFindCursor, ChatsRead, MessagesFindChat, MessagesFindCursor,
                MessagesRead, AppResults
  <2>3. \E d : GoesOn(c, d)
    BY <1>0, <2>1, <2>2, Finishes, Proceeds, Shown DEF Ends, Advances, Yields
  <2> QED BY <1>8, <2>1, <2>3 DEF Quietly
<1>9. CASE uploadMessage(c)
  <2>1. c.op = "uploadFile" /\ made' = made /\ ~Answered(c) /\ Done(c, "Success")
    BY <1>9 DEF uploadMessage, CallAt
  <2>2. PICK d : Ends(c, d, "Success")  BY <1>0, <2>1, Finishes DEF AppResults
  <2>3. GivesFile(c, d)  BY <1>9, <2>1, <2>2 DEF uploadMessage, GivesFile
  <2> QED BY <2>3
<1>10. CASE findFiles(c)
  <2>1. CallAt(c, "deleteFiles", "find") /\ made' = made /\ ~Answered(c)  BY <1>10 DEF findFiles, CallAt
  <2>2. (c.arg.messages \cap docs = {} /\ Done(c, "Success")) \/ Advance(c, "write", 0)
    BY <1>10 DEF findFiles
  <2>3. CASE c.arg.messages \cap docs = {} /\ Done(c, "Success")
    <3>1. PICK d : Ends(c, d, "Success")  BY <1>0, <2>1, <2>3, Finishes DEF AppResults
    <3> QED BY <1>10, <2>1, <2>3, <3>1 DEF findFiles, Quietly, Ends, CallAt
  <2>4. CASE Advance(c, "write", 0)
    <3>1. PICK d : Advances(c, d, "write", 0)  BY <1>0, <2>1, <2>4, Proceeds
    <3> QED BY <1>10, <2>1, <3>1 DEF findFiles, Quietly, Advances, CallAt, Answered
  <2> QED BY <2>2, <2>3, <2>4
<1>11. CASE deleteFiles(c)
  <2>1. c.op = "deleteFiles" /\ made' = made /\ ~Answered(c) /\ Done(c, "Success")
    BY <1>11 DEF deleteFiles, CallAt
  <2>2. PICK d : Ends(c, d, "Success")  BY <1>0, <2>1, Finishes DEF AppResults
  <2>3. TakesFiles(c, d)  BY <1>11, <2>1, <2>2 DEF deleteFiles, TakesFiles
  <2> QED BY <2>3
<1>12. CASE MessengerFails(c) /\ UNCHANGED docs /\ faults' < faults
  <2>1. c.op \in MessengerOps /\ made' = made /\ ~Answered(c) /\ Done(c, "Internal")
    BY <1>12 DEF MessengerFails
  <2>2. PICK d : Ends(c, d, "Internal")  BY <1>0, <2>1, Finishes DEF AppResults
  <2> QED BY <1>12, <2>1, <2>2 DEF MessengerFails, Quietly, Ends, Answered, MessengerOps
<1>13. CASE FilesFail(c) /\ faults' < faults
  <2>1. c.op \in FileOps /\ made' = made /\ ~Answered(c)
    BY <1>13 DEF FilesFail
  <2>3. PICK res \in {"Success", "Internal"} : Done(c, res)  BY <1>13 DEF FilesFail
  <2>2. PICK d : Ends(c, d, res)  BY <1>0, <2>1, <2>3, Finishes DEF AppResults
  <2> QED BY <1>13, <2>1, <2>2 DEF FilesFail, Quietly, Ends, Answered, FileOps
<1> QED
  BY <1>1, <1>2, <1>3, <1>4, <1>5, <1>6, <1>7, <1>8, <1>9, <1>10, <1>11, <1>12, <1>13
  DEF Serves, MessengerStep, FilesStep

(***************************************************************************)
(* Calls and those who wait for them.                                      *)
(***************************************************************************)

\* Call c of the messenger, which stops, is d then.
Stopped(c, d) ==
  \/ d = c /\ (c.op \in MessengerOps => Answered(c))
  \/ /\ c.op \in MessengerOps /\ ~Answered(c)
     /\ DOMAIN d = CallFields /\ d.no = c.no /\ d.op = c.op /\ d.arg = c.arg /\ d.pc = c.pc
     /\ d.got = c.got /\ DOMAIN d.answer = AnswerFields /\ d.answer.res = "Internal"
     /\ d.answer.message = 0

LEMMA MessengerDowns ==
  ASSUME CallsInv, MessengerDown
  PROVE  /\ made' = made /\ UNCHANGED <<chats, messages, early, queue>> /\ events' = {}
         /\ \A d \in calls' : \E c \in calls : Stopped(c, d)
<1> DEFINE After(c) == IF c.op \in MessengerOps /\ ~Answered(c)
                       THEN [c EXCEPT !.answer.res = "Internal"] ELSE c
<1>1. calls' = {After(c) : c \in calls}  BY DEF MessengerDown, MessengerStops
<1>2. ASSUME NEW c \in calls PROVE Stopped(c, After(c))
  <2>1. CASE c.op \in MessengerOps /\ ~Answered(c)
    <3>1. DOMAIN c = CallFields /\ c.answer = NoAnswer  BY <2>1 DEF CallsInv, Answered
    <3> DEFINE d == [c EXCEPT !.answer.res = "Internal"]
    <3>2. /\ DOMAIN d = CallFields /\ d.no = c.no /\ d.op = c.op /\ d.arg = c.arg /\ d.pc = c.pc
          /\ d.got = c.got /\ d.answer = [c.answer EXCEPT !.res = "Internal"]
      BY <3>1 DEF CallFields
    <3>3. DOMAIN c.answer = AnswerFields /\ c.answer.message = 0  BY <3>1 DEF NoAnswer, AnswerFields
    <3>4. DOMAIN d.answer = AnswerFields /\ d.answer.res = "Internal" /\ d.answer.message = 0
      BY <3>2, <3>3 DEF AnswerFields
    <3>5. After(c) = d  BY <2>1
    <3> HIDE DEF d
    <3> QED BY <2>1, <3>2, <3>4, <3>5 DEF Stopped
  <2> QED BY <2>1 DEF Stopped
<1> QED BY <1>1, <1>2 DEF MessengerDown, MessengerStops

\* Where a call there is after a step comes from: it was there, as it is or
\* with another answer, or it has just been made.
ComesFrom(d) ==
  \/ d \in calls
  \/ \E c \in calls : ~Answered(c) /\ d.no = c.no /\ d.op = c.op /\ d.arg = c.arg
  \/ \E h \in Slots : \E C : MakesCall(h, C, d)

LEMMA CallsComeFrom ==
  ASSUME CallsAndJobs, CallSteps
  PROVE  \A d \in calls' : ComesFrom(d)
<1> USE DEF CallsAndJobs
<1>1. CASE \E h \in Slots : \E C, n : MakesCall(h, C, n)
  BY <1>1 DEF MakesCall, ComesFrom
<1>2. CASE \E h \in Slots : \E c : TakesAnswer(h, c)
  BY <1>2 DEF TakesAnswer, ComesFrom
<1>3. CASE \E h \in Slots : NoCall(h) /\ UNCHANGED docs
  BY <1>3 DEF NoCall, ComesFrom
<1>4. CASE \E c : Serves(c)
  <2>1. PICK c, d : GoesOn(c, d)
    BY <1>4, ServiceSteps DEF Quietly, Creates, IsRead, Removes, GivesFile, TakesFiles, Ends, Yields
  <2> QED BY <2>1 DEF GoesOn, ComesFrom
<1>5. CASE \E c : Unheard(c)
  BY <1>5 DEF Unheard, ComesFrom
<1>6. CASE MessengerDown
  BY <1>6, MessengerDowns DEF Stopped, ComesFrom
<1>7. CASE GatewayDown
  BY <1>7 DEF GatewayDown, GatewayRestarts, messengerVars, ComesFrom
<1>8. CASE Beside
  BY <1>8 DEF Beside, ComesFrom
<1> QED BY <1>1, <1>2, <1>3, <1>4, <1>5, <1>6, <1>7, <1>8 DEF CallSteps

LEMMA CallsStay ==
  ASSUME CallsAndJobs, CallSteps
  PROVE  CallsInv'
<1> USE DEF CallsAndJobs
<1> SUFFICES ASSUME TRUE PROVE
      /\ made' \in Nat
      /\ \A c \in calls' :
           /\ DOMAIN c = CallFields /\ DOMAIN c.answer = AnswerFields
           /\ c.no \in 1..made' /\ c.op \in MessengerOps \cup FileOps
           /\ c.answer.res \in AppResults \cup {"none"}
           /\ c.answer.res = "none" => c.answer = NoAnswer
      /\ \A c, d \in calls' : c.no = d.no => c = d
  BY DEF CallsInv
<1>1. CASE \E h \in Slots : \E C, n : MakesCall(h, C, n)
  <2>1. PICK h \in Slots : \E C, n : MakesCall(h, C, n)  BY <1>1
  <2>2. PICK C, n : MakesCall(h, C, n)  BY <2>1
  <2>3. /\ n = NewCall(n.op, n.arg, "find") /\ n.op \in MessengerOps \cup FileOps
        /\ made' = made + 1 /\ calls' = (calls \ C) \cup {n}
    BY <2>2 DEF MakesCall
  <2>4. /\ DOMAIN n = CallFields /\ DOMAIN n.answer = AnswerFields /\ n.no = made + 1
        /\ n.answer.res = "none" /\ n.answer = NoAnswer
    BY <2>3 DEF NewCall, CallFields, AnswerFields, NoAnswer
  <2> QED BY <2>3, <2>4 DEF CallsInv
<1>2. CASE \E h \in Slots : \E c : TakesAnswer(h, c)
  BY <1>2 DEF TakesAnswer, CallsInv
<1>3. CASE \E h \in Slots : NoCall(h) /\ UNCHANGED docs
  BY <1>3 DEF NoCall, CallsInv
<1>4. CASE \E c : Serves(c)
  <2>1. PICK c, d : GoesOn(c, d)
    BY <1>4, ServiceSteps DEF Quietly, Creates, IsRead, Removes, GivesFile, TakesFiles, Ends, Yields
  <2> QED BY <2>1 DEF GoesOn, CallsInv
<1>5. CASE \E c : Unheard(c)
  BY <1>5 DEF Unheard, CallsInv
<1>6. CASE MessengerDown
  <2>1. made' = made /\ \A d \in calls' : \E c \in calls : Stopped(c, d)  BY <1>6, MessengerDowns
  <2>2. ASSUME NEW d \in calls'
        PROVE  /\ DOMAIN d = CallFields /\ DOMAIN d.answer = AnswerFields
               /\ d.no \in 1..made /\ d.op \in MessengerOps \cup FileOps
               /\ d.answer.res \in AppResults \cup {"none"}
               /\ d.answer.res = "none" => d.answer = NoAnswer
    BY <2>1 DEF Stopped, CallsInv, AppResults
  <2> DEFINE After(c) == IF c.op \in MessengerOps /\ ~Answered(c)
                         THEN [c EXCEPT !.answer.res = "Internal"] ELSE c
  <2>3. calls' = {After(c) : c \in calls}  BY <1>6 DEF MessengerDown, MessengerStops
  <2>4. \A c \in calls : After(c).no = c.no  BY DEF CallsInv, CallFields
  <2> HIDE DEF After
  <2>5. \A c, d \in calls' : c.no = d.no => c = d  BY <2>3, <2>4 DEF CallsInv
  <2> QED BY <2>1, <2>2, <2>5 DEF CallsInv
<1>7. CASE GatewayDown
  BY <1>7 DEF GatewayDown, GatewayRestarts, messengerVars, CallsInv
<1>8. CASE Beside
  BY <1>8 DEF Beside, CallsInv
<1> QED BY <1>1, <1>2, <1>3, <1>4, <1>5, <1>6, <1>7, <1>8 DEF CallSteps

\* A request that goes on as it is, and what fits it.
LEMMA StaysSame ==
  ASSUME JobsInv, NEW g \in Slots, Stays(g)
  PROVE  /\ (Busy(g))' <=> Busy(g)
         /\ Busy(g) => /\ JobOK(g)' /\ DOMAIN job'[g] = Fields
                       /\ job'[g].op = job[g].op /\ job'[g].arg = job[g].arg
                       /\ job'[g].pc = job[g].pc /\ job'[g].todo = job[g].todo
                       /\ job'[g].got = job[g].got
<1>1. CASE ~Busy(g)  BY <1>1 DEF Stays, Busy
<1>2. CASE Busy(g)
  <2>1. JobOK(g)  BY <1>2 DEF JobsInv
  <2>2. /\ DOMAIN job'[g] = Fields /\ job'[g].alone \in BOOLEAN
        /\ job'[g].op = job[g].op /\ job'[g].arg = job[g].arg
        /\ job'[g].pc = job[g].pc /\ job'[g].todo = job[g].todo
        /\ job'[g].got = job[g].got
    BY <1>2, <2>1 DEF Stays, JobOK, Fields
  <2>3. (Busy(g))'  BY <2>2 DEF Busy, Idle, Fields
  <2>4. JobOK(g)'  BY <2>1, <2>2 DEF JobOK, Arg
  <2> QED BY <1>2, <2>2, <2>3, <2>4
<1> QED BY <1>1, <1>2

LEMMA FitsStays ==
  ASSUME JobsInv, NEW g \in Slots, Stays(g), Busy(g), NEW c, NEW d, Fits(g, c),
         d.op = c.op, d.arg = c.arg
  PROVE  Fits(g, d)'
<1>1. job'[g].op = job[g].op /\ job'[g].arg = job[g].arg /\ job'[g].got = job[g].got
  BY StaysSame
<1> QED BY <1>1 DEF Fits, Arg

\* All requests go on, but one.
LEMMA JobsMove ==
  ASSUME CallsAndJobs, CallSteps
  PROVE  /\ DOMAIN job' = Slots
         /\ \A g \in Slots :
              \/ Stays(g)
              \/ job'[g] = Idle
              \/ \E C, n : MakesCall(g, C, n)
              \/ /\ (JobOK(g))' /\ job'[g].pc # "calls"
                 /\ \/ ~Busy(g) /\ (job'[g].op = "remove" => RemoveRequests(g))
                    \/ Busy(g) /\ job'[g].op = job[g].op /\ job'[g].arg = job[g].arg
<1> USE DEF CallsAndJobs
<1>1. CASE \E h \in Slots : \E C, n : MakesCall(h, C, n)
  BY <1>1 DEF MakesCall, OthersStay
<1>2. CASE \E h \in Slots : \E c : TakesAnswer(h, c)
  BY <1>2 DEF TakesAnswer, OthersStay
<1>3. CASE \E h \in Slots : NoCall(h) /\ UNCHANGED docs
  BY <1>3 DEF NoCall, OthersStay
<1>4. CASE \/ \E c : Serves(c) \/ Unheard(c)
           \/ MessengerDown \/ Beside
  <2>1. job' = job  BY <1>4 DEF Serves, Unheard, MessengerDown, Beside, handlerVars
  <2> QED BY <2>1, JobUnchanged DEF JobsInv
<1>5. CASE GatewayDown
  BY <1>5 DEF GatewayDown, GatewayRestarts
<1> QED BY <1>1, <1>2, <1>3, <1>4, <1>5 DEF CallSteps

LEMMA JobsStay ==
  ASSUME CallsAndJobs, CallSteps
  PROVE  JobsInv'
<1> USE DEF CallsAndJobs
<1>1. DOMAIN job' = Slots  BY JobsMove
<1>2. ASSUME NEW g \in Slots, (Busy(g))' PROVE JobOK(g)'
  BY <1>2, JobsMove, StaysSame DEF Busy, MakesCall
<1> QED BY <1>1, <1>2 DEF JobsInv

LEMMA WaitsStay ==
  ASSUME CallsAndJobs, CallSteps
  PROVE  WaitInv'
<1> USE DEF CallsAndJobs
<1>0. made \in Nat /\ made' \in Nat /\ made <= made'
  <2>1. made \in Nat  BY DEF CallsInv
  <2>2. CASE \E c : Serves(c)
    <3>1. PICK c, d : GoesOn(c, d)
      BY <2>2, ServiceSteps DEF Quietly, Creates, IsRead, Removes, GivesFile, TakesFiles, Ends, Yields
    <3> QED BY <2>1, <3>1 DEF GoesOn
  <2>3. CASE MessengerDown
    BY <2>1, <2>3, MessengerDowns
  <2>4. CASE GatewayDown
    BY <2>1, <2>4 DEF GatewayDown, GatewayRestarts, messengerVars
  <2> QED
    BY <2>1, <2>2, <2>3, <2>4 DEF CallSteps, MakesCall, TakesAnswer, NoCall, Unheard, Beside
<1> SUFFICES ASSUME NEW h \in Slots, (Busy(h))', job'[h].pc = "calls"
             PROVE  \E n \in 1..made' : job'[h].todo = {n} /\ \A c \in calls' : c.no = n => Fits(h, c)'
  BY DEF WaitInv
<1>1. CASE Stays(h)
  <2>1. Busy(h) /\ job[h].pc = "calls" /\ job'[h].todo = job[h].todo  BY <1>1, StaysSame
  <2>2. PICK n \in 1..made : job[h].todo = {n} /\ \A c \in calls : c.no = n => Fits(h, c)
    BY <2>1 DEF WaitInv
  <2>3. ASSUME NEW d \in calls', d.no = n PROVE Fits(h, d)'
    <3>1. ~ \E g \in Slots : \E C : MakesCall(g, C, d)
      BY <2>3, <1>0 DEF MakesCall, NewCall
    <3>2. PICK c \in calls : c.no = n /\ d.op = c.op /\ d.arg = c.arg
      BY <2>3, <3>1, CallsComeFrom DEF ComesFrom
    <3> QED BY <1>1, <2>1, <2>2, <3>2, FitsStays
  <2>4. n \in 1..made'  BY <1>0
  <2> QED BY <2>1, <2>2, <2>3, <2>4
<1>2. CASE \E C, n : MakesCall(h, C, n)
  <2>1. PICK C, n : MakesCall(h, C, n)  BY <1>2
  <2>2. /\ n.no = made + 1 /\ made' = made + 1 /\ calls' = (calls \ C) \cup {n}
        /\ job'[h].todo = {n.no} /\ Fits(h, n)'
    BY <2>1 DEF MakesCall, NewCall, WaitsFor
  <2>3. \A c \in calls' : c.no = n.no => c = n  BY <2>2, <1>0 DEF CallsInv
  <2> QED BY <1>0, <2>2, <2>3
<1> QED BY <1>1, <1>2, JobsMove DEF Busy

(***************************************************************************)
(* The bounds, and the fields.                                             *)
(***************************************************************************)

BoundsChange ==
  \/ UNCHANGED <<moves, faults, oops>>
  \/ moves > 0 /\ moves' = moves - 1 /\ UNCHANGED <<faults, oops>>
  \/ faults > 0 /\ faults' = faults - 1 /\ UNCHANGED <<moves, oops>>
  \/ /\ UNCHANGED <<moves, faults>>
     /\ \E h \in Slots : Busy(h) /\ (oops' = oops \cup {job[h].op} \/ oops' = oops)

LatestChange ==
  \/ latest' = latest
  \/ latest' = [message |-> 0, user |-> Stranger]
  \/ \E u \in Users : latest' = [latest EXCEPT !.user = u]
  \/ \E c \in calls : /\ c.op = "sendMessage" /\ c.answer.res = "Success" /\ c.arg.kind = "file"
                      /\ latest' = [latest EXCEPT !.message = c.answer.message]

AskedChange == asked' = asked \/ \E h \in Slots : RemoveRequests(h)

LEMMA HistoriesMove ==
  ASSUME CallsAndJobs, [Next]_vars
  PROVE  BoundsChange /\ LatestChange /\ AskedChange /\ scene' = scene
<1> USE DEF CallsAndJobs
<1>0. scene.people \subseteq Users  BY SceneBounds DEF SceneInv
<1>1. ASSUME NEW h \in Slots, SendRequests(h)
      PROVE  BoundsChange /\ LatestChange /\ asked' = asked /\ scene' = scene
  BY <1>0, <1>1 DEF SendRequests, Ask, Start, BoundsChange, LatestChange
<1>2. ASSUME NEW h \in Slots, ReadRequests(h) \/ RoomRequests(h) \/ ListRequests(h)
      PROVE  BoundsChange /\ latest' = latest /\ asked' = asked /\ scene' = scene
  BY <1>2 DEF ReadRequests, RoomRequests, ListRequests, Rest, Start, BoundsChange
<1>3. ASSUME NEW h \in Slots, RemoveRequests(h)
      PROVE  BoundsChange /\ latest' = latest /\ scene' = scene
  BY <1>3 DEF RemoveRequests, Ask, Start, BoundsChange
<1>4. ASSUME NEW h \in Slots, Busy(h), SendFinds(h) \/ RemoveFinds(h)
      PROVE  BoundsChange /\ latest' = latest /\ asked' = asked /\ scene' = scene
  BY <1>4 DEF SendFinds, RemoveFinds, Answer, Reply, Call, Expect, BoundsChange
<1>5. ASSUME NEW h \in Slots, Catches(h) \/ GatewayFails(h)
      PROVE  BoundsChange /\ latest' = latest /\ asked' = asked /\ scene' = scene
  BY <1>5 DEF Catches, GatewayFails, Fail, Rest, BoundsChange
<1>6. ASSUME NEW h \in Slots, Busy(h), NEW c \in AnswersTo(h), Forward(h, c)
      PROVE  BoundsChange
  BY <1>6 DEF Forward, Reply, Abandon, BoundsChange
<1>7. ASSUME NEW h \in Slots, Busy(h), NEW c \in AnswersTo(h), SendReturns(h, c)
      PROVE  BoundsChange /\ LatestChange /\ asked' = asked /\ scene' = scene
  <2>1. c \in calls /\ Fits(h, c) /\ job[h].op = "send" /\ c.op = "sendMessage"
    BY <1>7, TakenFits DEF SendReturns, Waits
  <2>2. c.arg.kind = Arg(h).kind  BY <2>1 DEF Fits
  <2>3. BoundsChange
    BY <1>6, <1>7 DEF SendReturns, CallAgain, Expect, BoundsChange
  <2>4. LatestChange /\ asked' = asked /\ scene' = scene
    BY <1>7, <2>1, <2>2 DEF SendReturns, CallAgain, Rest, LatestChange
  <2> QED BY <2>3, <2>4
<1>8. ASSUME NEW h \in Slots, Busy(h), NEW c \in AnswersTo(h),
             \/ UploadReturns(h, c) \/ ReadReturns(h, c) \/ RemoveReturns(h, c)
             \/ RoomReturns(h, c) \/ ChatsReturn(h, c) \/ MessagesReturn(h, c)
      PROVE  BoundsChange /\ latest' = latest /\ asked' = asked /\ scene' = scene
  <2>1. BoundsChange
    BY <1>6, <1>8 DEF UploadReturns, Abandon, ReadReturns, RemoveReturns, CallAgain, Expect,
                      RoomReturns, ChatsReturn, MessagesReturn, ShowPage, Reply, BoundsChange
  <2>2. latest' = latest /\ asked' = asked /\ scene' = scene
    BY <1>8 DEF UploadReturns, ReadReturns, RemoveReturns, CallAgain, RoomReturns, ChatsReturn,
                MessagesReturn, ShowPage, Rest
  <2> QED BY <2>1, <2>2
<1>9. ASSUME \/ \E s \in Wires : SocketStep(s) \/ CheckFails(s)
             \/ \E e \in queue : Deliver(e)
             \/ \E c \in calls : Unheard(c)
             \/ \E u \in scene.people : BanUser(u)
             \/ \E kind \in scene.lists : OpenList(kind[1], messages[1].sender, kind[2])
             \/ UNCHANGED vars
      PROVE  BoundsChange /\ latest' = latest /\ asked' = asked /\ scene' = scene
  BY <1>9 DEF SocketStep, CheckFails, Deliver, Unheard, BanUser, OpenList, vars, handlerVars, Rest,
              BoundsChange
<1>10. ASSUME NoticeRequests
       PROVE  BoundsChange /\ latest' = latest /\ asked' = asked /\ scene' = scene
  BY <1>10 DEF NoticeRequests, checkAndNotifySubscriptionEnd, sendNotificationAfterSuccessPayment,
               MarkRequests, ListNotices, Start, BoundsChange
<1>11. ASSUME NoticesRun
       PROVE  BoundsChange /\ latest' = latest /\ asked' = asked /\ scene' = scene
  <2>1. ASSUME NEW h \in Slots, NoticeStep(h, Users) PROVE BoundsChange
    BY <2>1 DEF NoticeStep, FindUsers, CreateNotices, MarkFinds, MarkWrites, NoticesFound, Reply,
                Learn, Goto, At, BoundsChange
  <2>2. ASSUME NEW h \in Slots, TakeNotice(h) PROVE BoundsChange
    BY <2>2 DEF TakeNotice, BoundsChange
  <2>3. ASSUME Ripen PROVE BoundsChange
    BY <2>3 DEF Ripen, handlerVars, BoundsChange
  <2>4. ASSUME NEW n, PublishWs(n) \/ PublishFails(n) PROVE BoundsChange
    BY <2>4 DEF PublishWs, PublishFails, handlerVars, BoundsChange
  <2> QED BY <1>11, <2>1, <2>2, <2>3, <2>4 DEF NoticesRun
<1>12. ASSUME ServicesRun \/ ServicesFail
       PROVE  BoundsChange /\ latest' = latest /\ asked' = asked /\ scene' = scene
  BY <1>12 DEF ServicesRun, ServicesFail, handlerVars, Rest, BoundsChange
<1>13. ASSUME GatewayRestarts
       PROVE  BoundsChange /\ LatestChange /\ asked' = asked /\ scene' = scene
  BY <1>13 DEF GatewayRestarts, BoundsChange, LatestChange
<1> QED
  BY <1>1, <1>2, <1>3, <1>4, <1>5, <1>7, <1>8, <1>9, <1>10, <1>11, <1>12, <1>13
  DEF Next, LatestChange, AskedChange

LEMMA SceneStays ==
  ASSUME CallsAndJobs, [Next]_vars
  PROVE  SceneInv' /\ faults' <= faults
<1>1. BoundsChange /\ scene' = scene  BY HistoriesMove
<1>2. moves \in Nat /\ faults \in 0..scene.faults /\ scene.faults \in Nat /\ oops \subseteq Ops /\ scene \in Scenes
  BY SceneBounds DEF CallsAndJobs, SceneInv
<1>3. \A h \in Slots : Busy(h) => job[h].op \in Ops  BY DEF CallsAndJobs, JobsInv, JobOK
<1> QED BY <1>1, <1>2, <1>3 DEF BoundsChange, SceneInv

LEMMA RemovesStay ==
  ASSUME CallsAndJobs, RowsInv, [Next]_vars, DOMAIN messages \subseteq DOMAIN messages',
         \A m \in DOMAIN messages : messages'[m].sender = messages[m].sender,
         UNCHANGED messages \/ asked' = asked
  PROVE  RemovesInv' /\ asked \subseteq asked'
<1> USE DEF CallsAndJobs
<1>1. AskedChange /\ CallSteps  BY HistoriesMove, CallsMove
<1>2. asked \subseteq asked'  BY <1>1 DEF AskedChange, RemoveRequests
<1>3. ASSUME NEW h \in Slots, (Busy(h))', job'[h].op = "remove"
      PROVE  /\ job'[h].arg.user \in Users /\ job'[h].arg.messages \subseteq DOMAIN messages'
             /\ \A m \in job'[h].arg.messages : messages'[m].sender = job'[h].arg.user => m \in asked'
  <2>1. CASE Busy(h) /\ job[h].op = "remove" /\ job'[h].arg = job[h].arg
    BY <1>2, <2>1 DEF RemovesInv, Arg
  <2>2. CASE (~Busy(h) /\ RemoveRequests(h))
    <3>1. PICK u \in scene.people, M \in SUBSET DOMAIN messages :
            /\ Ask(h, "remove", [user |-> u, messages |-> M], "find")
            /\ asked' = asked \cup {m \in M : messages[m].sender = u}
      BY <2>2 DEF RemoveRequests
    <3>2. Start(h, Request("remove", [user |-> u, messages |-> M], "find", {})) /\ messages' = messages
      BY <3>1 DEF Ask, messengerVars
    <3>3. Begun(h, "remove", [user |-> u, messages |-> M], "find", {})  BY <3>2, Started
    <3>4. job'[h].arg = [user |-> u, messages |-> M] /\ u \in Users
      BY <3>3, SceneBounds DEF Begun, SceneInv
    <3> QED BY <3>1, <3>2, <3>4
  <2>3. job'[h] # Idle  BY <1>3 DEF Busy
  <2>4. Stays(h) \/ (\E C, n : MakesCall(h, C, n)) \/ (~Busy(h) /\ RemoveRequests(h))
        \/ (Busy(h) /\ job[h].op = "remove" /\ job'[h].arg = job[h].arg)
    BY <1>1, <1>3, <2>3, JobsMove
  <2>5. CASE Stays(h)  BY <1>3, <2>1, <2>5, StaysSame
  <2>6. CASE \E C, n : MakesCall(h, C, n)  BY <1>3, <2>1, <2>6 DEF MakesCall
  <2> QED BY <2>1, <2>2, <2>4, <2>5, <2>6
<1> QED BY <1>2, <1>3 DEF RemovesInv, Arg

(***************************************************************************)
(* Sequences.                                                              *)
(***************************************************************************)

LEMMA SeqDomain == ASSUME NEW s, IsSeq(s) PROVE Len(s) \in Nat /\ DOMAIN s = 1 .. Len(s)
BY LenProperties DEF IsSeq

LEMMA SeqChanged ==
  ASSUME NEW s, IsSeq(s), NEW t, t = [i \in DOMAIN s |-> t[i]]
  PROVE  IsSeq(t) /\ Len(t) = Len(s)
<1> DEFINE R == {t[i] : i \in DOMAIN t}
<1>1. Len(s) \in Nat /\ DOMAIN s = 1 .. Len(s)  BY SeqDomain
<1>2. DOMAIN t = 1 .. Len(s)  BY <1>1
<1>3. t \in [1 .. Len(s) -> R]  BY <1>1, <1>2
<1>4. t \in Seq(R)  BY <1>1, <1>3, IsASeq
<1>5. Len(t) \in Nat /\ DOMAIN t = 1 .. Len(t)  BY <1>4, LenProperties
<1> QED BY <1>1, <1>2, <1>4, <1>5 DEF IsSeq

LEMMA SeqAppended ==
  ASSUME NEW s, IsSeq(s), NEW e
  PROVE  /\ IsSeq(Append(s, e)) /\ Len(Append(s, e)) = Len(s) + 1
         /\ DOMAIN Append(s, e) = DOMAIN s \cup {Len(s) + 1} /\ Len(s) + 1 \notin DOMAIN s
         /\ \A i \in DOMAIN s : Append(s, e)[i] = s[i]
         /\ Append(s, e)[Len(s) + 1] = e
<1> DEFINE R == {s[i] : i \in DOMAIN s}  T == R \cup {e}  t == Append(s, e)
<1>1. s \in Seq(R) /\ Len(s) \in Nat /\ DOMAIN s = 1 .. Len(s)  BY SeqDomain DEF IsSeq
<1>2. s \in Seq(T)  BY <1>1, SeqMonotonic
<1>3. t \in Seq(T) /\ Len(t) = Len(s) + 1  BY <1>2
<1>4. \A i \in 1 .. Len(s) : t[i] = s[i]  BY <1>2
<1>5. t[Len(s) + 1] = e  BY <1>2
<1>6. DOMAIN t = 1 .. Len(s) + 1  BY <1>3, LenProperties
<1>7. T = {t[i] : i \in DOMAIN t}  BY <1>1, <1>4, <1>5, <1>6
<1> HIDE DEF T, t
<1>8. IsSeq(t)  BY <1>3, <1>7 DEF IsSeq
<1> QED BY <1>1, <1>3, <1>4, <1>5, <1>6, <1>8 DEF t

LEMMA OneMore ==
  ASSUME NEW s, IsSeq(s), NEW e
  PROVE  \A i \in DOMAIN Append(s, e) :
           (i \in DOMAIN s /\ Append(s, e)[i] = s[i]) \/ Append(s, e)[i] = e
BY SeqAppended

LEMMA TypedSeq ==
  ASSUME NEW s, IsSeq(s), NEW R, \A i \in DOMAIN s : s[i] \in R
  PROVE  s \in Seq(R)
<1>1. Len(s) \in Nat /\ DOMAIN s = 1..Len(s)  BY SeqDomain
<1>2. s = [i \in 1..Len(s) |-> s[i]]
  <2> PICK T : s \in Seq(T)  BY DEF IsSeq
  <2> QED BY SeqDef, <1>1
<1>3. s \in [1..Len(s) -> R]  BY <1>1, <1>2
<1> QED BY <1>1, <1>3, IsASeq

\* Sequences of one or two sequences.
LEMMA Flattened ==
  ASSUME NEW R, NEW n \in {1, 2}, NEW f \in [1..n -> Seq(R)]
  PROVE  FlattenSeq(f) \in Seq(R)
<1> DEFINE Def(g) == g = [i \in 1..n |-> IF i = 1 THEN f[i] ELSE g[i-1] \o f[i]]
           two == [i \in 1..n |-> IF i = 1 THEN f[1] ELSE f[1] \o f[2]]
<1>1. Len(f) = n  BY IsASeq, LenProperties
<1>2. Def(two)
  <2>1. \A i \in 1..n : i = 1 \/ i = 2  OBVIOUS
  <2>2. ASSUME NEW i \in 1..n, i # 1 PROVE i = 2 /\ i - 1 \in 1..n /\ i - 1 = 1
    BY <2>1, <2>2
  <2>3. ASSUME NEW i \in 1..n, i # 1 PROVE two[i-1] = f[1]
    BY <2>2, <2>3
  <2>4. ASSUME NEW i \in 1..n, i # 1 PROVE two[i] = two[i-1] \o f[i]
    <3>1. two[i] = f[1] \o f[2]  BY <2>4
    <3>2. f[i] = f[2]  BY <2>2, <2>4
    <3> HIDE DEF two
    <3> QED BY <2>3, <2>4, <3>1, <3>2
  <2>5. ASSUME NEW i \in 1..n, i = 1 PROVE two[i] = f[i]
    BY <2>5
  <2>6. two = [i \in 1..n |-> two[i]]  OBVIOUS
  <2> HIDE DEF two
  <2>7. \A i \in 1..n : two[i] = IF i = 1 THEN f[i] ELSE two[i-1] \o f[i]
     BY <2>4, <2>5
  <2> QED BY <2>6, <2>7, Zenon
<1>3. Def(CHOOSE g : Def(g))  BY <1>2
<1> PICK g : g = CHOOSE h : Def(h)  OBVIOUS
<1>4. Def(g)  BY <1>3
<1>5. \A i \in 1..n : g[i] = IF i = 1 THEN f[i] ELSE g[i-1] \o f[i]
   <2> DEFINE e(i) == IF i = 1 THEN f[i] ELSE g[i-1] \o f[i]
   <2>1. g = [i \in 1..n |-> e(i)]  BY <1>4
   <2> HIDE DEF e
   <2>2. \A i \in 1..n : g[i] = e(i)  BY <2>1
   <2> QED BY <2>2 DEF e
<1> HIDE DEF Def
<1>6. 1 \in 1..n /\ (n = 2 => 2 \in 1..n /\ 2 - 1 = 1)  OBVIOUS
<1>7. g[1] = f[1] /\ f[1] \in Seq(R) /\ (n = 2 => f[2] \in Seq(R)) BY <1>5, <1>6
<1>8. g[n] \in Seq(R)
  <2>1. CASE n = 1  BY <1>7, <2>1
  <2>2. CASE n = 2
    <3>1. \A i \in 1..n : i = 1 \/ g[i] = g[i-1] \o f[i]  BY <1>5
    <3> PICK k \in 1..n : k = 2  BY <1>6, <2>2
    <3> PICK j : j = k - 1  OBVIOUS
    <3>2. k # 1 /\ j = 1  OBVIOUS
    <3>3. g[k] = g[k-1] \o f[k]  BY <3>1, <3>2
    <3>4. g[k] = g[j] \o f[k] /\ j = 1  BY <3>2, <3>3
    <3>5. g[2] = f[1] \o f[2]  BY <1>7, <3>4
    <3> QED BY <1>7, <2>2, <3>5, ConcatProperties
  <2> QED BY <2>1, <2>2
<1>9. FlattenSeq(f) = g[n]
  <2>1. n # 0  OBVIOUS
  <2> QED BY <1>1, <2>1 DEF FlattenSeq, Def
<1> QED BY <1>8, <1>9

(***************************************************************************)
(* The rows.                                                               *)
(***************************************************************************)

\* Rows stay what they are, but may be deleted.
RowsGrow ==
  /\ DOMAIN messages \subseteq DOMAIN messages'
  /\ \A m \in DOMAIN messages :
       /\ messages'[m].sender = messages[m].sender /\ messages'[m].to = messages[m].to
       /\ messages'[m].kind = messages[m].kind /\ messages'[m].chat = messages[m].chat
       /\ messages'[m].live => messages[m].live
  /\ DOMAIN chats \subseteq DOMAIN chats' /\ \A x \in DOMAIN chats : chats'[x] = chats[x]

LEMMA RowSteps ==
  ASSUME CallsInv, CallSteps
  PROVE  UNCHANGED <<chats, messages>> \/ \E c, d : Creates(c, d) \/ IsRead(c, d) \/ Removes(c, d)
<1>1. CASE \E c : Serves(c)
  BY <1>1, ServiceSteps DEF Quietly, GivesFile, TakesFiles
<1>2. CASE MessengerDown
  BY <1>2, MessengerDowns
<1>3. CASE GatewayDown
  BY <1>3 DEF GatewayDown, GatewayRestarts, messengerVars
<1> QED BY <1>1, <1>2, <1>3 DEF CallSteps, MakesCall, Rows, TakesAnswer, NoCall, Unheard, Beside

LEMMA Created ==
  ASSUME CallsInv, DataInv, NEW c, NEW d, Creates(c, d)
  PROVE  LET m == Len(messages) + 1 IN
         /\ DOMAIN messages' = DOMAIN messages \cup {m} /\ m \notin DOMAIN messages
         /\ \A i \in DOMAIN messages : messages'[i] = messages[i]
         /\ messages'[m].kind = c.arg.kind /\ messages'[m].sender = c.arg.user
         /\ messages'[m].to = c.arg.to /\ messages'[m].live
         /\ RowsInv' /\ RowsGrow /\ messages'[m].chat = d.answer.chat
<1> DEFINE u == c.arg.user  v == c.arg.to  m == Len(messages) + 1
           chat == IF c.got = 0 THEN Len(chats) + 1 ELSE c.got
           alone == \A e \in calls \ {c} : ~CallAt(e, "sendMessage", "write")
           x == [who |-> {u, v}, alone |-> alone]
           row == [live |-> TRUE, chat |-> chat, sender |-> u, to |-> v,
                   kind |-> c.arg.kind, readers |-> {u}]
<1>1. /\ c \in calls /\ c.op = "sendMessage" /\ c.pc = "write" /\ m <= MaxMessages
      /\ chats' = IF c.got = 0 THEN Append(chats, x) ELSE chats
      /\ messages' = Append(messages, row) /\ Yields(c, d, m, chat, <<>>)
  BY DEF Creates, CallAt
<1>2. u \in Users /\ v \in Users /\ c.arg.kind \in Kinds /\ c.got \in {0} \cup ChatsOf(u, v)
  BY <1>1 DEF DataInv, AskedOK, SendOK
<1>3. RowsInv /\ IsSeq(chats) /\ IsSeq(messages)  BY DEF DataInv, RowsInv
<1>4. Len(chats) \in Nat /\ DOMAIN chats = 1 .. Len(chats)  BY <1>3, SeqDomain
<1>5. /\ x.who = {u, v} /\ x.alone \in BOOLEAN /\ DOMAIN x = {"who", "alone"}
      /\ row.live = TRUE /\ row.chat = chat /\ row.sender = u /\ row.to = v /\ row.kind = c.arg.kind
      /\ row.readers = {u} /\ DOMAIN row = RowFields
  BY DEF RowFields
<1> HIDE DEF x, row
<1>6. /\ IsSeq(chats') /\ DOMAIN chats \subseteq DOMAIN chats'
      /\ \A y \in DOMAIN chats : chats'[y] = chats[y]
      /\ \A y \in DOMAIN chats' \ DOMAIN chats : chats'[y] = x
      /\ chat \in DOMAIN chats' /\ {u, v} \subseteq chats'[chat].who
  <2>1. CASE c.got = 0
    <3>1. chats' = Append(chats, x)  BY <1>1, <2>1
    <3>2. /\ IsSeq(chats') /\ DOMAIN chats' = DOMAIN chats \cup {Len(chats) + 1}
          /\ \A i \in DOMAIN chats : chats'[i] = chats[i]
          /\ chats'[Len(chats) + 1] = x
      BY <1>3, <3>1, SeqAppended
    <3> QED BY <1>5, <2>1, <3>2
  <2>2. CASE c.got # 0
    BY <1>1, <1>2, <1>3, <2>2 DEF ChatsOf
  <2> QED BY <2>1, <2>2
<1>7. /\ IsSeq(messages') /\ Len(messages') = m
      /\ DOMAIN messages' = DOMAIN messages \cup {m} /\ m \notin DOMAIN messages
      /\ \A i \in DOMAIN messages : messages'[i] = messages[i]
      /\ messages'[m] = row
  BY <1>1, <1>3, SeqAppended
<1> HIDE DEF chat
<1>8. RowsGrow  BY <1>6, <1>7 DEF RowsGrow
<1>9. \A y \in DOMAIN chats' : /\ DOMAIN chats'[y] = {"who", "alone"} /\ chats'[y].alone \in BOOLEAN
                               /\ \E a, b \in Users : chats'[y].who = {a, b}
  BY <1>2, <1>3, <1>5, <1>6 DEF RowsInv
<1>10. \A i \in DOMAIN messages' :
       /\ DOMAIN messages'[i] = RowFields /\ messages'[i].live \in BOOLEAN
       /\ messages'[i].chat \in DOMAIN chats'
       /\ messages'[i].sender \in Users /\ messages'[i].to \in Users
       /\ messages'[i].kind \in Kinds
       /\ messages'[i].sender \in messages'[i].readers /\ messages'[i].readers \subseteq Users
       /\ {messages'[i].sender, messages'[i].to} \subseteq chats'[messages'[i].chat].who
  <2>1. ASSUME NEW i \in DOMAIN messages
        PROVE  /\ DOMAIN messages'[i] = RowFields /\ messages'[i].live \in BOOLEAN
               /\ messages'[i].chat \in DOMAIN chats'
               /\ messages'[i].sender \in Users /\ messages'[i].to \in Users
               /\ messages'[i].kind \in Kinds
               /\ messages'[i].sender \in messages'[i].readers /\ messages'[i].readers \subseteq Users
               /\ {messages'[i].sender, messages'[i].to} \subseteq chats'[messages'[i].chat].who
    BY <1>3, <1>6, <1>7 DEF RowsInv
  <2>2. /\ DOMAIN row = RowFields /\ row.live \in BOOLEAN /\ row.chat \in DOMAIN chats'
        /\ row.sender \in Users /\ row.to \in Users /\ row.kind \in Kinds
        /\ row.sender \in row.readers /\ row.readers \subseteq Users
        /\ {row.sender, row.to} \subseteq chats'[row.chat].who
    BY <1>2, <1>5, <1>6
  <2> QED BY <1>7, <2>1, <2>2
<1>11. RowsInv'  BY <1>1, <1>6, <1>7, <1>9, <1>10 DEF RowsInv
<1>12. d.answer.chat = chat  BY <1>1 DEF Yields, chat
<1> QED BY <1>5, <1>7, <1>8, <1>11, <1>12

\* Fields of messages change, but not those that say whose they are.
LEMMA RowsChanged ==
  ASSUME RowsInv, chats' = chats,
         messages' = [m \in DOMAIN messages |-> messages'[m]],
         \A m \in DOMAIN messages :
           LET old == messages[m]  new == messages'[m] IN
           /\ DOMAIN new = RowFields /\ new.sender = old.sender /\ new.to = old.to
           /\ new.kind = old.kind /\ new.chat = old.chat /\ (new.live => old.live)
           /\ new.live \in BOOLEAN
           /\ new.sender \in new.readers /\ new.readers \subseteq Users
  PROVE  RowsInv' /\ RowsGrow /\ DOMAIN messages' = DOMAIN messages
<1>1. IsSeq(messages') /\ Len(messages') = Len(messages)
  <2> PICK t : t = messages'  OBVIOUS
  <2>1. IsSeq(messages) /\ t = [m \in DOMAIN messages |-> t[m]]  BY DEF RowsInv
  <2> HIDE DEF RowsInv
  <2> QED BY <2>1, SeqChanged
<1>2. DOMAIN messages' = DOMAIN messages  OBVIOUS
<1> QED BY <1>1, <1>2 DEF RowsInv, RowsGrow

LEMMA RowsMove ==
  ASSUME CallsInv, DataInv, CallSteps
  PROVE  RowsInv' /\ RowsGrow
<1>0. RowsInv  BY DEF DataInv
<1>1. CASE UNCHANGED <<chats, messages>>
  BY <1>0, <1>1 DEF RowsInv, RowsGrow
<1>2. CASE \E c, d : Creates(c, d)
  BY <1>2, Created
<1>3. ASSUME NEW c, NEW d, IsRead(c, d) PROVE RowsInv' /\ RowsGrow
  <2>1. /\ c \in calls /\ c.op = "readMessage" /\ IsRow(messages, c.got) /\ chats' = chats
        /\ messages' = [messages EXCEPT ![c.got].readers = @ \cup {c.arg.user}]
    BY <1>3 DEF IsRead, GoesOn
  <2>2. c.arg.user \in Users  BY <2>1 DEF DataInv, AskedOK
  <2>3. c.got \in DOMAIN messages  BY <2>1 DEF IsRow, LiveRows
  <2> DEFINE row == [messages[c.got] EXCEPT !.readers = @ \cup {c.arg.user}]
  <2>4. messages' = [messages EXCEPT ![c.got] = row]  BY <2>1
  <2>5. LET old == messages[c.got] IN
        /\ DOMAIN row = RowFields /\ row.sender = old.sender /\ row.to = old.to
        /\ row.kind = old.kind /\ row.chat = old.chat /\ row.live = old.live
        /\ row.readers = old.readers \cup {c.arg.user}
    BY <1>0, <2>3 DEF RowsInv, RowFields
  <2> HIDE DEF row
  <2>6. /\ messages' = [m \in DOMAIN messages |-> messages'[m]]
        /\ \A m \in DOMAIN messages : messages'[m] = IF m = c.got THEN row ELSE messages[m]
    BY <1>0, <2>3, <2>4 DEF RowsInv, IsSeq
  <2>7. \A m \in DOMAIN messages :
          LET old == messages[m]  new == messages'[m] IN
          /\ DOMAIN new = RowFields /\ new.sender = old.sender /\ new.to = old.to
          /\ new.kind = old.kind /\ new.chat = old.chat /\ (new.live => old.live)
          /\ new.live \in BOOLEAN
          /\ new.sender \in new.readers /\ new.readers \subseteq Users
    BY <1>0, <2>2, <2>5, <2>6 DEF RowsInv
  <2> QED BY <1>0, <2>1, <2>6, <2>7, RowsChanged
<1>4. ASSUME NEW c, NEW d, Removes(c, d) PROVE RowsInv' /\ RowsGrow
  <2>1. /\ chats' = chats
        /\ messages' = [m \in DOMAIN messages |->
             IF m \in c.arg.messages THEN [messages[m] EXCEPT !.live = FALSE] ELSE messages[m]]
    BY <1>4 DEF Removes
  <2>2. ASSUME NEW m \in DOMAIN messages
        PROVE  LET old == messages[m]  new == messages'[m] IN
               /\ DOMAIN new = RowFields /\ new.sender = old.sender /\ new.to = old.to
               /\ new.kind = old.kind /\ new.chat = old.chat /\ (new.live => old.live)
               /\ new.live \in BOOLEAN
               /\ new.sender \in new.readers /\ new.readers \subseteq Users
    BY <1>0, <2>1 DEF RowsInv, RowFields
  <2>3. messages' = [m \in DOMAIN messages |-> messages'[m]]  BY <2>1
  <2> QED BY <1>0, <2>1, <2>2, <2>3, RowsChanged
<1> QED BY <1>1, <1>2, <1>3, <1>4, RowSteps

(***************************************************************************)
(* What calls ask for.                                                     *)
(***************************************************************************)

LEMMA AskedKept ==
  ASSUME RowsInv, RowsGrow, asked \subseteq asked', NEW c, AskedOK(c)
  PROVE  AskedOK(c)'
<1>1. c.op = "sendMessage" => SendOK(c)'
  BY DEF AskedOK, SendOK, ChatsOf, RowsGrow
<1>2. c.op = "removeMessages" => RemoveOK(c)'
  <2> SUFFICES ASSUME c.op = "removeMessages" PROVE RemoveOK(c)'  OBVIOUS
  <2>1. RemoveOK(c)  BY DEF AskedOK
  <2>2. \A m \in c.arg.messages : m \in DOMAIN messages  BY <2>1 DEF RemoveOK
  <2>3. Unasked(c)' \subseteq Unasked(c)  BY <2>2 DEF Unasked, RowsGrow
  <2> QED BY <2>1, <2>2, <2>3 DEF RemoveOK, RowsGrow, Unasked
<1> QED BY <1>1, <1>2 DEF AskedOK, RowsGrow

\* A call that has just been made.
LEMMA MadeOK ==
  ASSUME CallsInv, JobsInv, WaitInv, DataInv, NEW h \in Slots, NEW C, NEW n, MakesCall(h, C, n)
  PROVE  AskedOK(n)
<1>1. /\ n.pc = "find" /\ n.answer = NoAnswer /\ n.answer.res = "none" /\ n.answer.message = 0
      /\ C \subseteq calls /\ Sense(h, C, n)
  BY DEF MakesCall, NewCall, NoAnswer
<1>2. n.op = "sendMessage" => SendOK(n)  BY <1>1 DEF Sense, SendOK
<1>3. n.op = "removeMessages" => RemoveOK(n)
  <2>1. CASE Busy(h) /\ job[h].op = "remove" /\ n.arg = Arg(h)
    BY <1>1, <2>1 DEF DataInv, RemovesInv, RemoveOK, Unasked
  <2>2. CASE latest.message # 0 /\ n.arg = [user |-> latest.user, messages |-> {latest.message}]
    BY <1>1, <2>2 DEF DataInv, LatestInv, RemoveOK, Unasked
  <2> QED BY <1>1, <2>1, <2>2 DEF Sense
<1>4. n.op = "uploadFile" => n.arg.message \in DOMAIN messages
  BY <1>1 DEF Sense, DataInv, AskedOK, SendOK
<1>5. n.op = "deleteFiles" => \A m \in n.arg.messages : m \in DOMAIN messages /\ ~messages[m].live
  BY <1>1 DEF Sense, DataInv, AskedOK, RemoveOK
<1>6. n.op = "readMessage" => n.arg.user \in Users  BY <1>1 DEF Sense
<1> QED BY <1>1, <1>2, <1>3, <1>4, <1>5, <1>6 DEF AskedOK

\* A call that goes on.
LEMMA ServedOK ==
  ASSUME CallsInv, DataInv, NEW c, NEW d, RowsGrow, asked' = asked,
         Quietly(c, d) \/ Creates(c, d) \/ IsRead(c, d) \/ Removes(c, d) \/ GivesFile(c, d)
           \/ TakesFiles(c, d)
  PROVE  AskedOK(d)'
<1>0. /\ GoesOn(c, d) /\ c \in calls /\ ~Answered(c) /\ d.op = c.op /\ d.arg = c.arg
      /\ AskedOK(c) /\ RowsInv
  BY DEF Quietly, Creates, IsRead, Removes, GivesFile, TakesFiles, Ends, Yields, GoesOn, DataInv
<1>1. AskedOK(c)'  BY <1>0, AskedKept
<1>2. CASE Quietly(c, d)
  <2>1. c.op = "sendMessage" => SendOK(d)'
    BY <1>0, <1>2 DEF AskedOK, SendOK, Quietly, FindFirst, ChatsOf
  <2>2. c.op = "removeMessages" => RemoveOK(d)'
    <3> SUFFICES ASSUME c.op = "removeMessages" PROVE RemoveOK(d)'  OBVIOUS
    <3>1. RemoveOK(c)'  BY <1>1 DEF AskedOK
    <3>2. /\ d.answer.res # "Success" /\ messages' = messages
          /\ \/ d.pc = c.pc
             \/ \A m \in c.arg.messages : IsRow(messages, m) => messages[m].sender = c.arg.user
      BY <1>2 DEF Quietly
    <3>3. RemoveOK(c)  BY <1>0 DEF AskedOK
    <3> QED BY <1>0, <3>1, <3>2, <3>3 DEF RemoveOK, Unasked, IsRow, LiveRows
  <2>3. c.op = "getChat" /\ d.answer.res = "Success" => c.arg.chat \in DOMAIN chats'
    BY <1>2 DEF Quietly
  <2> QED BY <1>0, <1>1, <2>1, <2>2, <2>3 DEF AskedOK
<1>3. CASE Creates(c, d)
  <2>1. c.op = "sendMessage" /\ d.pc = c.pc /\ d.got = c.got /\ d.answer.res = "Success"
        /\ d.answer.message = Len(messages) + 1
    BY <1>3 DEF Creates, CallAt, Yields
  <2>2. /\ DOMAIN messages' = DOMAIN messages \cup {Len(messages) + 1} /\ RowsInv'
        /\ messages'[Len(messages) + 1].kind = c.arg.kind
        /\ messages'[Len(messages) + 1].chat = d.answer.chat
    BY <1>3, Created
  <2>3. SendOK(d)'  BY <1>0, <1>1, <2>1, <2>2 DEF AskedOK, SendOK, RowsInv
  <2> QED BY <1>0, <2>1, <2>3 DEF AskedOK
<1>4. CASE IsRead(c, d)
  BY <1>0, <1>1, <1>4 DEF IsRead, AskedOK
<1>5. CASE Removes(c, d)
  <2>1. /\ c.op = "removeMessages" /\ d.pc = c.pc
        /\ messages' = [m \in DOMAIN messages |->
             IF m \in c.arg.messages THEN [messages[m] EXCEPT !.live = FALSE] ELSE messages[m]]
    BY <1>5 DEF Removes, CallAt, Ends
  <2>2. RemoveOK(c)' /\ RemoveOK(c)  BY <1>0, <1>1, <2>1 DEF AskedOK
  <2>3. \A m \in DOMAIN messages : "live" \in DOMAIN messages[m]  BY <1>0 DEF RowsInv, RowFields
  <2>4. \A m \in c.arg.messages : ~messages'[m].live  BY <2>1, <2>2, <2>3 DEF RemoveOK
  <2>5. RemoveOK(d)'  BY <1>0, <2>1, <2>2, <2>4 DEF RemoveOK, Unasked
  <2> QED BY <1>0, <2>1, <2>5 DEF AskedOK
<1>6. CASE GivesFile(c, d) \/ TakesFiles(c, d)
  BY <1>0, <1>1, <1>6 DEF GivesFile, TakesFiles, AskedOK
<1> QED BY <1>2, <1>3, <1>4, <1>5, <1>6

LEMMA LatestStays ==
  ASSUME DataInv, RowsGrow, LatestChange
  PROVE  LatestInv'
<1>1. LatestInv  BY DEF DataInv
<1>2. CASE latest' = latest
  BY <1>1, <1>2 DEF LatestInv, RowsGrow
<1>3. CASE latest' = [message |-> 0, user |-> Stranger]
  BY <1>3 DEF LatestInv
<1>4. CASE \E u \in Users : latest' = [latest EXCEPT !.user = u]
  BY <1>1, <1>4 DEF LatestInv, RowsGrow
<1>5. CASE \E c \in calls : /\ c.op = "sendMessage" /\ c.answer.res = "Success" /\ c.arg.kind = "file"
                            /\ latest' = [latest EXCEPT !.message = c.answer.message]
  BY <1>1, <1>5 DEF LatestInv, RowsGrow, DataInv, AskedOK, SendOK
<1> QED BY <1>2, <1>3, <1>4, <1>5 DEF LatestChange

BaseInv == CallsInv /\ JobsInv /\ WaitInv /\ SceneInv /\ DataInv

LEMMA BaseMoves ==
  ASSUME BaseInv, [Next]_vars
  PROVE  CallsAndJobs /\ CallSteps /\ RowsGrow /\ asked \subseteq asked' /\ RowsInv' /\ SceneInv'
         /\ faults' <= faults /\ scene' = scene
<1>1. CallsAndJobs  BY DEF BaseInv, DataInv, CallsAndJobs
<1>2. CallSteps  BY <1>1, CallsMove
<1>3. RowsInv' /\ RowsGrow  BY <1>2, RowsMove DEF BaseInv
<1>4. SceneInv' /\ faults' <= faults /\ scene' = scene  BY <1>1, SceneStays, HistoriesMove
<1>5. asked \subseteq asked'  BY <1>1, HistoriesMove DEF AskedChange, RemoveRequests
<1> QED BY <1>1, <1>2, <1>3, <1>4, <1>5

LEMMA DataStays ==
  ASSUME BaseInv, [Next]_vars
  PROVE  DataInv'
<1>0. /\ CallsAndJobs /\ CallSteps /\ RowsGrow /\ asked \subseteq asked' /\ RowsInv' /\ RowsInv
      /\ CallsInv /\ DataInv /\ JobsInv /\ WaitInv
  BY BaseMoves DEF BaseInv, DataInv
<1>1. LatestChange /\ AskedChange  BY <1>0, HistoriesMove
<1>2. LatestInv'  BY <1>0, <1>1, LatestStays
<1>3. ASSUME NEW c \in calls PROVE AskedOK(c)'  BY <1>0, AskedKept DEF DataInv
<1>4. /\ \A c \in calls' : AskedOK(c)'
      /\ UNCHANGED messages \/ asked' = asked
      /\ docs' \subseteq DOMAIN messages'
  <2>0. docs \subseteq DOMAIN messages'  BY <1>0 DEF DataInv, RowsGrow
  <2>1. CASE \E h \in Slots : \E C, n : MakesCall(h, C, n)
    <3>1. PICK h \in Slots : \E C, n : MakesCall(h, C, n)  BY <2>1
    <3>2. PICK C, n : MakesCall(h, C, n)  BY <3>1
    <3>3. AskedOK(n)  BY <1>0, <3>2, MadeOK
    <3>4. AskedOK(n)'  BY <1>0, <3>3, AskedKept
    <3>5. calls' = (calls \ C) \cup {n} /\ UNCHANGED messages /\ docs' = docs
      BY <3>2 DEF MakesCall, Rows
    <3> QED BY <1>3, <2>0, <3>4, <3>5
  <2>2. CASE \E h \in Slots : \E c : TakesAnswer(h, c)
    BY <1>3, <2>0, <2>2 DEF TakesAnswer, Rows
  <2>3. CASE \E h \in Slots : NoCall(h) /\ UNCHANGED docs
    BY <1>3, <2>0, <2>3 DEF NoCall
  <2>4. CASE \E c : Serves(c)
    <3>1. PICK c : Serves(c)  BY <2>4
    <3>2. PICK d : \/ Quietly(c, d) \/ Creates(c, d) \/ IsRead(c, d) \/ Removes(c, d)
                   \/ GivesFile(c, d) \/ TakesFiles(c, d)
      BY <1>0, <3>1, ServiceSteps
    <3>3. asked' = asked /\ calls' = (calls \ {c}) \cup {d} /\ c \in calls
      BY <3>1, <3>2 DEF Serves, Quietly, Creates, IsRead, Removes, GivesFile, TakesFiles, Ends,
                        Yields, GoesOn
    <3>4. AskedOK(d)'  BY <1>0, <3>2, <3>3, ServedOK
    <3>5. docs' \subseteq docs \cup {m \in DOMAIN messages : TRUE}
      BY <1>0, <3>2, <3>3 DEF Quietly, Creates, IsRead, Removes, GivesFile, TakesFiles, DataInv, AskedOK
    <3>6. DOMAIN messages \subseteq DOMAIN messages'  BY <1>0 DEF RowsGrow
    <3> QED BY <1>3, <2>0, <3>3, <3>4, <3>5, <3>6
  <2>5. CASE \E c : Unheard(c)
    BY <1>3, <2>0, <2>5 DEF Unheard
  <2>6. CASE MessengerDown
    <3>1. UNCHANGED <<messages, chats>> /\ docs' = docs /\ asked' = asked
          /\ \A d \in calls' : \E c \in calls : Stopped(c, d)
      BY <1>0, <2>6, MessengerDowns DEF MessengerDown
    <3>2. ASSUME NEW d \in calls' PROVE AskedOK(d)'
      <4>1. PICK c \in calls : Stopped(c, d)  BY <3>1
      <4>2. AskedOK(c)'  BY <1>3
      <4> QED BY <4>1, <4>2 DEF Stopped, AskedOK, SendOK, RemoveOK, Unasked
    <3> QED BY <2>0, <3>1, <3>2
  <2>7. CASE GatewayDown
    BY <1>3, <2>0, <2>7 DEF GatewayDown, GatewayRestarts, messengerVars
  <2>8. CASE Beside
    BY <1>3, <2>0, <2>8 DEF Beside
  <2> QED BY <1>0, <2>1, <2>2, <2>3, <2>4, <2>5, <2>6, <2>7, <2>8 DEF CallSteps
<1>5. RemovesInv'  BY <1>0, <1>4, RemovesStay DEF RowsGrow
<1>6. asked' \subseteq DOMAIN messages'
  BY <1>0, <1>1 DEF AskedChange, RemoveRequests, DataInv, RowsGrow
<1> QED BY <1>0, <1>2, <1>4, <1>5, <1>6 DEF DataInv

LEMMA BaseStays ==
  ASSUME BaseInv, [Next]_vars
  PROVE  BaseInv'
<1>1. CallsAndJobs /\ CallSteps /\ SceneInv'  BY BaseMoves
<1> QED BY <1>1, CallsStay, JobsStay, WaitsStay, DataStays DEF BaseInv

(***************************************************************************)
(* The initial states.                                                     *)
(***************************************************************************)

\* The messages there are at first, and the chats they are in.
LEMMA PastRows ==
  ASSUME scene \in Scenes, Past
  PROVE  /\ RowsInv /\ made = 0 /\ calls = {} /\ early = {} /\ events = {} /\ queue = {}
         /\ \A m \in DOMAIN messages : messages[m].live /\ messages[m].kind = "text"
         /\ \A a, b \in DOMAIN chats : chats[a].who = chats[b].who => a = b
         /\ \A x \in DOMAIN chats : \E m \in DOMAIN messages : messages[m].chat = x
         /\ scene.past > 0 => 1 \in DOMAIN messages
<1>0. scene.people \subseteq Users /\ scene.past \in 0 .. MaxMessages /\ MaxMessages \in Nat
  BY SceneBounds, ChatsBounds
<1>14. PICK u \in scene.people : \E to \in [1..scene.past -> scene.people] :
        LET others == {to[i] : i \in 1..scene.past} IN
        \E with \in Bijection(1..Cardinality(others), others) :
          /\ chats = [i \in DOMAIN with |-> [who |-> {u, with[i]}, alone |-> TRUE]]
          /\ messages = [i \in 1..scene.past |->
               [live |-> TRUE, sender |-> u, to |-> to[i], kind |-> "text", readers |-> {u},
                chat |-> CHOOSE c \in DOMAIN with : with[c] = to[i]]]
  BY DEF Past
<1>1. PICK to \in [1..scene.past -> scene.people] :
        LET others == {to[i] : i \in 1..scene.past} IN
        \E with \in Bijection(1..Cardinality(others), others) :
          /\ chats = [i \in DOMAIN with |-> [who |-> {u, with[i]}, alone |-> TRUE]]
          /\ messages = [i \in 1..scene.past |->
               [live |-> TRUE, sender |-> u, to |-> to[i], kind |-> "text", readers |-> {u},
                chat |-> CHOOSE c \in DOMAIN with : with[c] = to[i]]]
  BY <1>14
<1> DEFINE others == {to[i] : i \in 1..scene.past}  n == Cardinality(others)
<1>2. PICK with \in Bijection(1..n, others) :
        /\ chats = [i \in DOMAIN with |-> [who |-> {u, with[i]}, alone |-> TRUE]]
        /\ messages = [i \in 1..scene.past |->
             [live |-> TRUE, sender |-> u, to |-> to[i], kind |-> "text", readers |-> {u},
              chat |-> CHOOSE c \in DOMAIN with : with[c] = to[i]]]
  BY <1>1
<1>3. n \in Nat
  <2>1. to \in Surjection(1..scene.past, others)  BY DEF Surjection
  <2>2. IsFiniteSet(1..scene.past)  BY <1>0, FS_Interval
  <2> HIDE DEF others
  <2>3. IsFiniteSet(others)  BY <2>1, <2>2, FS_Surjection
  <2> QED BY <2>3, FS_CardinalityType
<1>4. /\ with \in [1..n -> others] /\ \A t \in others : \E c \in 1..n : with[c] = t
      /\ \A a, b \in 1..n : with[a] = with[b] => a = b
  BY <1>2 DEF Bijection, Injection, Surjection, IsInjective
<1>5. others \subseteq scene.people  OBVIOUS
<1> HIDE DEF others, n
<1>6. /\ DOMAIN chats = 1..n
      /\ \A x \in 1..n : /\ chats[x].who = {u, with[x]} /\ chats[x].alone = TRUE
                         /\ DOMAIN chats[x] = {"who", "alone"} /\ with[x] \in Users
  BY <1>0, <1>2, <1>4, <1>5
<1>7. /\ DOMAIN messages = 1..scene.past
      /\ \A m \in 1..scene.past :
           /\ messages[m].live = TRUE /\ messages[m].sender = u /\ messages[m].to = to[m]
           /\ messages[m].kind = "text" /\ messages[m].readers = {u} /\ DOMAIN messages[m] = RowFields
           /\ messages[m].chat = CHOOSE c \in DOMAIN with : with[c] = to[m]
  BY <1>2 DEF RowFields
<1>8. ASSUME NEW m \in 1..scene.past
      PROVE  to[m] \in Users /\ messages[m].chat \in 1..n /\ with[messages[m].chat] = to[m]
  <2>1. to[m] \in others /\ to[m] \in Users  BY <1>0 DEF others
  <2>2. \E c \in DOMAIN with : with[c] = to[m]  BY <1>4, <2>1
  <2> DEFINE x == CHOOSE c \in DOMAIN with : with[c] = to[m]
  <2>3. x \in DOMAIN with /\ with[x] = to[m]  BY <2>2
  <2> QED BY <1>4, <1>7, <2>1, <2>3
<1>9. IsSeq(chats)
  <2> DEFINE R == {chats[i] : i \in DOMAIN chats}
  <2>1. chats \in [1..n -> R]  BY <1>2, <1>6
  <2> QED BY <1>3, <2>1, IsASeq DEF IsSeq
<1>10. IsSeq(messages) /\ Len(messages) = scene.past
  <2> DEFINE R == {messages[i] : i \in DOMAIN messages}
  <2>5. messages = [m \in 1..scene.past |-> messages[m]]  BY <1>2, Zenon
  <2>1. messages \in [1..scene.past -> R]  BY <1>7, <2>5
  <2>6. scene.past \in Nat  BY <1>0
  <2> HIDE DEF R
  <2>2. messages \in Seq(R)  BY ONLY <2>1, <2>6, IsASeq
  <2>3. Len(messages) \in Nat /\ DOMAIN messages = 1 .. Len(messages)  BY <2>2, LenProperties
  <2>4. IsSeq(messages)  BY <2>2 DEF IsSeq, R
  <2> QED BY <1>0, <1>7, <2>3, <2>4
<1>11. RowsInv
  <2>1. \A x \in DOMAIN chats :
          /\ DOMAIN chats[x] = {"who", "alone"} /\ chats[x].alone \in BOOLEAN
          /\ \E a, b \in Users : chats[x].who = {a, b}
    BY <1>0, <1>6
  <2>2. ASSUME NEW m \in DOMAIN messages
        PROVE  /\ DOMAIN messages[m] = RowFields /\ messages[m].live \in BOOLEAN
               /\ messages[m].chat \in DOMAIN chats
               /\ messages[m].sender \in Users /\ messages[m].to \in Users
               /\ messages[m].kind \in Kinds
               /\ messages[m].sender \in messages[m].readers /\ messages[m].readers \subseteq Users
               /\ {messages[m].sender, messages[m].to} \subseteq chats[messages[m].chat].who
    <3>1. /\ messages[m].live = TRUE /\ messages[m].sender = u /\ messages[m].to = to[m]
          /\ messages[m].kind = "text" /\ messages[m].readers = {u} /\ DOMAIN messages[m] = RowFields
      BY <1>7
    <3>2. to[m] \in Users /\ messages[m].chat \in 1..n /\ with[messages[m].chat] = to[m]
      BY <1>7, <1>8
    <3>3. chats[messages[m].chat].who = {u, to[m]}  BY <1>6, <3>2
    <3> QED BY <1>0, <1>6, <3>1, <3>2, <3>3 DEF Kinds
  <2> QED BY <1>0, <1>9, <1>10, <2>1, <2>2 DEF RowsInv
<1>12. ASSUME NEW a \in DOMAIN chats, NEW b \in DOMAIN chats, chats[a].who = chats[b].who
       PROVE  a = b
  <2>1. a \in 1..n /\ b \in 1..n /\ {u, with[a]} = {u, with[b]}  BY <1>6, <1>12
  <2>2. \A v, w : {u, v} = {u, w} => v = w  OBVIOUS
  <2>3. with[a] = with[b]  BY <2>1, <2>2
  <2> QED BY <1>4, <2>1, <2>3
<1>13. ASSUME NEW x \in DOMAIN chats PROVE \E m \in DOMAIN messages : messages[m].chat = x
  <2>1. with[x] \in others  BY <1>4, <1>6
  <2>2. PICK m \in 1..scene.past : to[m] = with[x]  BY <2>1 DEF others
  <2> QED BY <1>4, <1>6, <1>7, <1>8, <2>2
<1>15. made = 0 /\ calls = {} /\ early = {} /\ events = {} /\ queue = {}  BY DEF Past
<1> QED BY <1>0, <1>7, <1>11, <1>12, <1>13, <1>15

LEMMA BaseInit == Init => BaseInv
<1> SUFFICES ASSUME Init PROVE BaseInv  OBVIOUS
<1>1. /\ scene \in Scenes /\ Past /\ docs = {} /\ job = [h \in Slots |-> Idle]
      /\ moves = scene.moves /\ faults = scene.faults /\ oops = {}
      /\ latest = [message |-> 0, user |-> Stranger] /\ asked = {}
  BY DEF Init, HandlersInit
<1>2. RowsInv /\ made = 0 /\ calls = {}  BY <1>1, PastRows
<1>3. CallsInv  BY <1>2 DEF CallsInv
<1>4. JobsInv /\ WaitInv  BY <1>1 DEF JobsInv, WaitInv, Busy
<1>5. SceneInv  BY <1>1, SceneBounds DEF SceneInv
<1>6. LatestInv  BY <1>1 DEF LatestInv
<1>7. RemovesInv  BY <1>1 DEF RemovesInv, Busy
<1>8. DataInv  BY <1>1, <1>2, <1>6, <1>7 DEF DataInv
<1> QED BY <1>3, <1>4, <1>5, <1>8 DEF BaseInv

(***************************************************************************)
(* One chat of two users.                                                  *)
(***************************************************************************)

\* Who is to write a message was so before, or has just looked for the chat.
LEMMA WritersCome ==
  ASSUME BaseInv, [Next]_vars, NEW d \in calls', d.op = "sendMessage", d.pc = "write", ~Answered(d)
  PROVE  \/ d \in calls
         \/ /\ UNCHANGED chats
            /\ d.got \in FindFirst(ChatsOf(d.arg.user, d.arg.to))
<1>0. CallsAndJobs /\ CallSteps /\ CallsInv  BY BaseMoves DEF BaseInv
<1>1. CASE \E h \in Slots : \E C, n : MakesCall(h, C, n)
  BY <1>1 DEF MakesCall, NewCall
<1>2. CASE \E h \in Slots : \E c : TakesAnswer(h, c)
  BY <1>2 DEF TakesAnswer
<1>3. CASE \E h \in Slots : NoCall(h) /\ UNCHANGED docs
  BY <1>3 DEF NoCall
<1>4. CASE \E c : Serves(c)
  <2>1. PICK c : Serves(c)  BY <1>4
  <2>2. PICK e : \/ Quietly(c, e) \/ Creates(c, e) \/ IsRead(c, e) \/ Removes(c, e)
                 \/ GivesFile(c, e) \/ TakesFiles(c, e)
    BY <1>0, <2>1, ServiceSteps
  <2>3. calls' = (calls \ {c}) \cup {e} /\ e.op = c.op /\ e.arg = c.arg
    BY <2>2 DEF Quietly, Creates, IsRead, Removes, GivesFile, TakesFiles, Ends, Yields, GoesOn
  <2>4. CASE d = e
    BY <2>2, <2>3, <2>4 DEF Quietly, Creates, IsRead, Removes, GivesFile, TakesFiles, Ends, Yields,
       CallAt, Answered, NoAnswer
  <2> QED BY <2>3, <2>4
<1>5. CASE \E c : Unheard(c)
  BY <1>5 DEF Unheard
<1>6. CASE MessengerDown
  BY <1>0, <1>6, MessengerDowns DEF Stopped, Answered, NoAnswer
<1>7. CASE GatewayDown
  BY <1>7 DEF GatewayDown, GatewayRestarts, messengerVars
<1>8. CASE Beside
  BY <1>8 DEF Beside
<1> QED BY <1>0, <1>1, <1>2, <1>3, <1>4, <1>5, <1>6, <1>7, <1>8 DEF CallSteps

LEMMA ChatsStay ==
  ASSUME BaseInv, ChatsInv, [Next]_vars
  PROVE  ChatsInv'
<1>0. /\ CallsAndJobs /\ CallSteps /\ CallsInv /\ DataInv /\ RowsInv /\ RowsGrow
      /\ DOMAIN chats = 1 .. Len(chats) /\ Len(chats) \in Nat
  <2>1. CallsAndJobs /\ CallSteps /\ CallsInv /\ DataInv /\ RowsInv /\ RowsGrow
    BY BaseMoves DEF BaseInv, DataInv
  <2> QED BY <2>1, SeqDomain DEF RowsInv
<1>1. ASSUME NEW d \in calls', d.op = "sendMessage", d.pc = "write", ~Answered(d), d.got = 0, d \in calls
      PROVE  \A x \in ChatsOf(d.arg.user, d.arg.to) : ~chats[x].alone
  BY <1>1 DEF ChatsInv, CallAt
<1>2. ASSUME NEW d \in calls', d.op = "sendMessage", d.pc = "write", ~Answered(d), d.got = 0, d \notin calls
      PROVE  UNCHANGED chats /\ ChatsOf(d.arg.user, d.arg.to) = {}
  <2>1. UNCHANGED chats /\ 0 \in FindFirst(ChatsOf(d.arg.user, d.arg.to))  BY <1>2, WritersCome
  <2>2. 0 \notin DOMAIN chats  BY <1>0
  <2> QED BY <2>1, <2>2 DEF FindFirst, ChatsOf
<1>3. CASE UNCHANGED chats
  BY <1>1, <1>2, <1>3 DEF ChatsInv, CallAt, ChatsOf
<1>4. CASE ~UNCHANGED chats
  <2>1. PICK c, e : Creates(c, e)
    BY <1>0, <1>4, RowSteps DEF IsRead, Removes
  <2> DEFINE alone == \A f \in calls \ {c} : ~CallAt(f, "sendMessage", "write")
             x == [who |-> {c.arg.user, c.arg.to}, alone |-> alone]
             n == Len(chats) + 1
  <2>2. /\ CallAt(c, "sendMessage", "write") /\ c.got = 0 /\ chats' = Append(chats, x)
        /\ Yields(c, e, Len(messages) + 1, Len(chats) + 1, <<>>)
    BY <1>4, <2>1 DEF Creates
  <2>3. /\ DOMAIN chats' = DOMAIN chats \cup {n} /\ n \notin DOMAIN chats /\ chats'[n] = x
        /\ \A y \in DOMAIN chats : chats'[y] = chats[y]
    BY <1>0, <2>2, SeqAppended DEF RowsInv
  <2>4. chats'[n].who = {c.arg.user, c.arg.to} /\ chats'[n].alone = alone
    BY <2>3
  <2>5. calls' = (calls \ {c}) \cup {e} /\ Answered(e)
    BY <2>2 DEF Yields, GoesOn, Answered, NoAnswer
  <2>6. ASSUME NEW d \in calls', d.op = "sendMessage", d.pc = "write", ~Answered(d), d.got = 0
        PROVE  \A y \in DOMAIN chats' : {d.arg.user, d.arg.to} \subseteq chats'[y].who => ~chats'[y].alone
    <3>1. d \in calls \ {c}  BY <2>5, <2>6
    <3>2. ~alone  BY <2>6, <3>1 DEF CallAt
    <3>3. \A y \in ChatsOf(d.arg.user, d.arg.to) : ~chats[y].alone  BY <1>1, <2>6, <3>1
    <3> QED BY <2>3, <2>4, <3>2, <3>3 DEF ChatsOf
  <2>7. \A y \in ChatsOf(c.arg.user, c.arg.to) : ~chats[y].alone  BY <2>2 DEF ChatsInv, CallAt
  <2>8. \A y \in DOMAIN chats : chats[y].who = {c.arg.user, c.arg.to} => ~chats[y].alone
    BY <2>7 DEF ChatsOf
  <2> HIDE DEF alone, x, n
  <2>9. \A a, b \in DOMAIN chats' :
          a # b /\ chats'[a].who = chats'[b].who => ~chats'[a].alone \/ ~chats'[b].alone
    BY <2>3, <2>4, <2>8 DEF ChatsInv
  <2> QED BY <2>6, <2>9 DEF ChatsInv, CallAt, ChatsOf
<1> QED BY <1>3, <1>4

LEMMA ChatsInit == Init => ChatsInv
BY PastRows DEF Init, ChatsInv

LEMMA OneChat ==
  ASSUME RowsInv, ChatsInv
  PROVE  ChatOfTheTwo
<1>1. ASSUME NEW m \in DOMAIN messages
      PROVE  LET two == {messages[m].sender, messages[m].to}  who == chats[messages[m].chat].who IN
             two \subseteq who /\ (Cardinality(two) = 2 => who = two)
  <2> DEFINE u == messages[m].sender  v == messages[m].to
  <2>1. PICK a, b \in Users : chats[messages[m].chat].who = {a, b}  BY DEF RowsInv
  <2>2. {u, v} \subseteq {a, b}  BY <2>1 DEF RowsInv
  <2>3. Cardinality({u}) = 1  BY FS_Singleton
  <2>5. u = v => {u, v} = {u}  OBVIOUS
  <2>4. Cardinality({u, v}) = 2 => {u, v} = {a, b}  BY <2>2, <2>3, <2>5
  <2> QED BY <2>1, <2>2, <2>4
<1> QED BY <1>1 DEF ChatsInv, ChatOfTheTwo

\* A message is in a chat of its sender and its addressee and nobody else, and
\* two users have a second chat only when first messages overlapped, however
\* many users, requests, failures and restarts there are.
THEOREM ChatOfTheTwoAlways == Spec => []ChatOfTheTwo
<1>1. Init => BaseInv /\ ChatsInv  BY BaseInit, ChatsInit
<1>2. BaseInv /\ ChatsInv /\ [Next]_vars => (BaseInv /\ ChatsInv)'  BY BaseStays, ChatsStay
<1>3. BaseInv /\ ChatsInv => ChatOfTheTwo  BY OneChat DEF BaseInv, DataInv
<1> QED BY <1>1, <1>2, <1>3, PTL DEF Spec

(***************************************************************************)
(* What is deleted unasked.                                                *)
(***************************************************************************)

LEMMA LostIsFinite ==
  ASSUME BaseInv
  PROVE  /\ IsFiniteSet(Lost \cup InDanger) /\ Lost \cup InDanger \subseteq DOMAIN messages
         /\ Cardinality(Lost \cup InDanger) \in Nat
<1>1. IsSeq(messages) /\ \A c \in calls : c.op = "removeMessages" => c.arg.messages \subseteq DOMAIN messages
  BY DEF BaseInv, DataInv, RowsInv, AskedOK, RemoveOK
<1>2. Lost \cup InDanger \subseteq DOMAIN messages
  BY <1>1 DEF Lost, InDanger, Unasked
<1>3. DOMAIN messages = 1 .. Len(messages) /\ Len(messages) \in Nat  BY <1>1, SeqDomain
<1>4. IsFiniteSet(DOMAIN messages)  BY <1>3, FS_Interval
<1> QED BY <1>2, <1>4, FS_Subset, FS_CardinalityType

\* Messages no longer live were so before, or are deleted by a call that has
\* put them in danger.
LEMMA LostMoves ==
  ASSUME BaseInv, [Next]_vars
  PROVE  Lost' \subseteq Lost \cup InDanger
<1>0. /\ CallsAndJobs /\ CallSteps /\ CallsInv /\ RowsInv /\ RowsGrow /\ asked \subseteq asked' /\ DataInv
  BY BaseMoves DEF BaseInv, DataInv
<1> SUFFICES ASSUME NEW m \in DOMAIN messages', ~messages'[m].live, m \notin asked', m \notin Lost
             PROVE  m \in InDanger
  BY DEF Lost
<1>1. m \notin asked  BY <1>0
<1>2. ~UNCHANGED messages  BY <1>1 DEF Lost
<1>3. PICK c, d : Creates(c, d) \/ IsRead(c, d) \/ Removes(c, d)  BY <1>0, <1>2, RowSteps
<1>4. CASE Creates(c, d)
  BY <1>0, <1>1, <1>4, Created DEF Lost
<1>5. CASE IsRead(c, d)
  <2>1. messages' = [messages EXCEPT ![c.got].readers = @ \cup {c.arg.user}]  BY <1>5 DEF IsRead
  <2>2. m \in DOMAIN messages /\ DOMAIN messages[m] = RowFields  BY <1>0, <2>1 DEF RowsInv
  <2>3. messages'[m].live = messages[m].live  BY <2>1, <2>2 DEF RowFields
  <2> QED BY <1>1, <2>2, <2>3 DEF Lost
<1>6. CASE Removes(c, d)
  <2>1. /\ c \in calls /\ c.op = "removeMessages" /\ c.pc = "write" /\ ~Answered(c)
        /\ messages' = [i \in DOMAIN messages |->
             IF i \in c.arg.messages THEN [messages[i] EXCEPT !.live = FALSE] ELSE messages[i]]
    BY <1>6 DEF Removes, CallAt
  <2>2. m \in DOMAIN messages  BY <2>1
  <2>3. messages[m].live  BY <1>1, <2>2 DEF Lost
  <2>4. m \in c.arg.messages  BY <2>1, <2>2, <2>3
  <2>5. messages[m].sender = c.arg.user  BY <1>0, <2>1, <2>3, <2>4 DEF DataInv, AskedOK, RemoveOK
  <2>6. m \in Unasked(c)  BY <1>1, <2>4, <2>5 DEF Unasked
  <2> QED BY <2>1, <2>6 DEF InDanger
<1> QED BY <1>3, <1>4, <1>5, <1>6

LEMMA DangerMoves ==
  ASSUME BaseInv, [Next]_vars
  PROVE  \/ InDanger' \subseteq InDanger
         \/ InDanger' \subseteq InDanger \cup {latest.message} /\ faults' = faults - 1
<1>0. /\ CallsAndJobs /\ CallSteps /\ RowsGrow /\ asked \subseteq asked' /\ DataInv
  BY BaseMoves DEF BaseInv
<1>1. ASSUME NEW d, NEW c \in calls, c.op = "removeMessages", d.arg = c.arg
      PROVE  Unasked(d)' \subseteq Unasked(c)
  <2>1. \A m \in c.arg.messages : m \in DOMAIN messages  BY <1>0, <1>1 DEF DataInv, AskedOK, RemoveOK
  <2> QED BY <1>0, <1>1, <2>1 DEF Unasked, RowsGrow
<1>2. ASSUME NEW d \in calls', d.op = "removeMessages", ~Answered(d)
      PROVE  \/ Unasked(d)' \subseteq InDanger
             \/ Unasked(d)' \subseteq {latest.message} /\ faults' = faults - 1
  <2>1. CASE d \in calls
    BY <1>1, <1>2, <2>1 DEF InDanger
  <2>2. CASE \E c \in calls : ~Answered(c) /\ d.no = c.no /\ d.op = c.op /\ d.arg = c.arg
    BY <1>1, <1>2, <2>2 DEF InDanger
  <2>3. CASE \E h \in Slots : \E C : MakesCall(h, C, d)
    <3>1. PICK h \in Slots : \E C : MakesCall(h, C, d)  BY <2>3
    <3>2. PICK C : MakesCall(h, C, d)  BY <3>1
    <3>3. Sense(h, C, d) /\ messages' = messages /\ asked' = asked  BY <3>2 DEF MakesCall, Rows
    <3>4. CASE Busy(h) /\ job[h].op = "remove" /\ d.arg = Arg(h)
      <4>1. \A m \in d.arg.messages : messages[m].sender = d.arg.user => m \in asked
        BY <1>0, <3>4 DEF DataInv, RemovesInv
      <4> QED BY <3>3, <4>1 DEF Unasked
    <3>5. CASE /\ d.arg = [user |-> latest.user, messages |-> {latest.message}]
               /\ faults' = faults - 1
      BY <3>5 DEF Unasked
    <3> QED BY <1>2, <3>3, <3>4, <3>5 DEF Sense
  <2> QED BY <1>0, <2>1, <2>2, <2>3, CallsComeFrom DEF ComesFrom
<1>3. CASE faults' = faults - 1
  BY <1>2, <1>3 DEF InDanger
<1>4. CASE faults' # faults - 1
  BY <1>2, <1>4 DEF InDanger
<1> QED BY <1>3, <1>4

LEMMA LostStays ==
  ASSUME BaseInv, LostInv, [Next]_vars
  PROVE  LostInv'
<1> DEFINE S == Lost \cup InDanger
<1>0. BaseInv' /\ RowsGrow /\ DataInv /\ faults' <= faults /\ scene' = scene
  BY BaseStays, BaseMoves DEF BaseInv
<1>1. IsFiniteSet(S) /\ Cardinality(S) \in Nat /\ S \subseteq DOMAIN messages  BY LostIsFinite
<1>2. (IsFiniteSet(S))' /\ (Cardinality(S) \in Nat)'  BY <1>0, LostIsFinite, PTL
<1>3. faults \in Nat /\ faults' \in Nat /\ scene.faults \in Nat /\ faults <= scene.faults
  BY <1>0, SceneBounds DEF BaseInv, SceneInv
<1>4. Cardinality(S) <= scene.faults - faults  BY DEF LostInv, Failures
<1>5. \A m \in S : messages[m].kind = "file"
  BY <1>0 DEF LostInv, InDanger, DataInv, AskedOK, RemoveOK
<1>6. \A m \in Lost' : messages'[m].kind = "file"
  BY <1>0, <1>1, <1>5, LostMoves DEF RowsGrow
<1>7. (Cardinality(S))' <= scene.faults - faults'
  <2> PICK T : T = S  OBVIOUS
  <2> PICK U : U = S'  OBVIOUS
  <2> PICK f : f = latest.message  OBVIOUS
  <2>1. /\ IsFiniteSet(T) /\ Cardinality(T) \in Nat /\ Cardinality(T) <= scene.faults - faults
        /\ IsFiniteSet(U) /\ Cardinality(U) \in Nat
    BY <1>1, <1>2, <1>4
  <2>2. U \subseteq T \/ (U \subseteq T \cup {f} /\ faults' = faults - 1)
    BY LostMoves, DangerMoves
  <2>3. CASE U \subseteq T
    <3>1. Cardinality(U) <= Cardinality(T)  BY <2>1, <2>3, FS_Subset
    <3> QED BY <1>0, <1>3, <2>1, <3>1
  <2>4. CASE U \subseteq T \cup {f} /\ faults' = faults - 1
    <3>1. IsFiniteSet(T \cup {f}) /\ Cardinality(T \cup {f}) <= Cardinality(T) + 1
          /\ Cardinality(T \cup {f}) \in Nat
      BY <2>1, FS_AddElement, FS_CardinalityType
    <3>2. Cardinality(U) <= Cardinality(T \cup {f})  BY <2>4, <3>1, FS_Subset
    <3> QED BY <1>3, <2>1, <2>4, <3>1, <3>2
  <2> QED BY <2>2, <2>3, <2>4
<1> QED BY <1>0, <1>6, <1>7 DEF LostInv, Failures

LEMMA LostInit == Init => LostInv
<1> SUFFICES ASSUME Init PROVE LostInv  OBVIOUS
<1>1. scene \in Scenes /\ Past /\ faults = scene.faults  BY DEF Init, HandlersInit
<1>2. Lost = {} /\ InDanger = {}  BY <1>1, PastRows DEF Lost, InDanger
<1>3. Failures = 0 /\ Cardinality({}) = 0  BY <1>1, SceneBounds, FS_EmptySet DEF Failures
<1> QED BY <1>2, <1>3 DEF LostInv

\* A message is deleted because its sender asked for it; each failure takes one
\* more at most, and only one with a file.
THEOREM StaysUntilAskedForAlways == Spec => []StaysUntilAskedFor
<1>1. Init => BaseInv /\ LostInv  BY BaseInit, LostInit
<1>2. BaseInv /\ LostInv /\ [Next]_vars => (BaseInv /\ LostInv)'  BY BaseStays, LostStays
<1>3. BaseInv /\ LostInv => StaysUntilAskedFor
  <2> SUFFICES ASSUME BaseInv, LostInv PROVE StaysUntilAskedFor  OBVIOUS
  <2>1. IsFiniteSet(Lost \cup InDanger) /\ Cardinality(Lost \cup InDanger) \in Nat  BY LostIsFinite
  <2>2. IsFiniteSet(Lost) /\ Cardinality(Lost) \in Nat /\ Cardinality(Lost) <= Cardinality(Lost \cup InDanger)
    BY <2>1, FS_Subset, FS_CardinalityType
  <2>3. Cardinality(Lost) <= Failures
    BY <2>1, <2>2, SceneBounds DEF LostInv, Failures, BaseInv, SceneInv
  <2> QED BY <2>3 DEF StaysUntilAskedFor, LostInv, Lost
<1> QED BY <1>1, <1>2, <1>3, PTL DEF Spec

(***************************************************************************)
(* Files.                                                                  *)
(***************************************************************************)

\* A step of the services, of the call that goes on.
Steps(c, d) ==
  \/ Quietly(c, d) \/ Creates(c, d) \/ IsRead(c, d) \/ Removes(c, d) \/ GivesFile(c, d)
  \/ TakesFiles(c, d)

LEMMA StepGoesOn ==
  ASSUME NEW c, NEW d, Steps(c, d)
  PROVE  GoesOn(c, d)
BY DEF Steps, Quietly, Creates, IsRead, Removes, GivesFile, TakesFiles, Ends, Yields

\* Which step it may be, where nothing fails.
LEMMA FaultlessSteps ==
  ASSUME BaseInv, [Next]_vars, faults' = faults
  PROVE  \/ \E h \in Slots : \E C, n : MakesCall(h, C, n)
         \/ \E h \in Slots : \E c : TakesAnswer(h, c)
         \/ \E h \in Slots : NoCall(h) /\ UNCHANGED docs
         \/ \E c, d : Serves(c) /\ Steps(c, d)
         \/ \E c : Unheard(c)
         \/ Beside
<1>1. CallSteps /\ CallsInv /\ faults \in Nat  BY BaseMoves, SceneBounds DEF BaseInv, SceneInv
<1> QED BY <1>1, ServiceSteps DEF CallSteps, Steps, MessengerDown, GatewayDown

LEMMA EarlyStays ==
  ASSUME BaseInv, EarlyInv, [Next]_vars
  PROVE  EarlyInv'
<1>0. /\ CallsAndJobs /\ CallSteps /\ RowsGrow /\ DataInv /\ RowsInv /\ CallsInv
      /\ DOMAIN messages = 1 .. Len(messages) /\ Len(messages) \in Nat
      /\ DOMAIN messages' = 1 .. Len(messages')
  <2>1. CallsAndJobs /\ CallSteps /\ RowsGrow /\ DataInv /\ RowsInv /\ CallsInv /\ RowsInv'
    BY BaseMoves DEF BaseInv, DataInv
  <2>2. IsSeq(messages) /\ IsSeq(messages')  BY <2>1 DEF RowsInv
  <2> QED BY <2>1, <2>2, SeqDomain
<1>1. CASE UNCHANGED messages /\ early' = early
  <2> SUFFICES ASSUME NEW d \in calls', NEW m \in DOMAIN messages, Concerns(d, m)
               PROVE  messages[m].live \/ m \in early
    BY <1>1 DEF EarlyInv, Concerns
  <2>1. CASE d \in calls  BY <2>1 DEF EarlyInv
  <2>2. CASE \E h \in Slots : \E C : MakesCall(h, C, d)
    <3>1. PICK h \in Slots : \E C : MakesCall(h, C, d)  BY <2>2
    <3>2. PICK C : MakesCall(h, C, d)  BY <3>1
    <3>3. d.answer.message = 0 /\ Sense(h, C, d) /\ C \subseteq calls
      BY <3>2 DEF MakesCall, NewCall, NoAnswer
    <3>4. d.op = "uploadFile" /\ d.arg.message = m  BY <1>0, <3>3 DEF Concerns
    <3> QED BY <3>3, <3>4 DEF Sense, EarlyInv, Concerns
  <2>3. CASE d \notin calls /\ ~ \E h \in Slots : \E C : MakesCall(h, C, d)
    <3>1. d.answer.message = m \/ (d.op = "uploadFile" /\ d.arg.message = m)  BY DEF Concerns
    <3>2. CASE d.op = "uploadFile"
      <4>1. PICK c \in calls : d.op = c.op /\ d.arg = c.arg  BY <1>0, <2>3, CallsComeFrom DEF ComesFrom
      <4> QED BY <3>1, <3>2, <4>1 DEF EarlyInv, Concerns
    <3>3. CASE d.op = "sendMessage"
      <4>1. m # 0  BY <1>0
      <4>2. CASE \E c : Serves(c)
        <5>1. PICK c : Serves(c)  BY <4>2
        <5>2. PICK e : Steps(c, e)  BY <1>0, <5>1, ServiceSteps DEF Steps
        <5>3. e = d /\ c.op = "sendMessage"  BY <2>3, <3>3, <5>2, StepGoesOn DEF GoesOn
        <5>4. Quietly(c, e)
          BY <1>1, <5>2, <5>3, <1>0, Created DEF Steps, IsRead, Removes, CallAt, GivesFile, TakesFiles
        <5> QED BY <3>1, <3>3, <4>1, <5>3, <5>4 DEF Quietly
      <4>3. CASE MessengerDown
        BY <1>0, <2>3, <3>1, <3>3, <4>1, <4>3, MessengerDowns DEF Stopped
      <4> QED
        BY <1>0, <2>3, <4>2, <4>3 DEF CallSteps, MakesCall, TakesAnswer, NoCall, Unheard, Beside,
           GatewayDown, GatewayRestarts, messengerVars
    <3> QED BY <3>2, <3>3 DEF Concerns
  <2> QED BY <2>1, <2>2, <2>3
<1>2. CASE ~(UNCHANGED messages /\ early' = early)
  <2>1. PICK c, d : Serves(c) /\ Steps(c, d)
    <3>1. \E c : Serves(c)
      BY <1>0, <1>2, MessengerDowns
      DEF CallSteps, MakesCall, Rows, TakesAnswer, NoCall, Unheard, Beside, GatewayDown, GatewayRestarts,
          messengerVars
    <3> QED BY <1>0, <3>1, ServiceSteps DEF Steps
  <2>2. GoesOn(c, d) /\ calls' = (calls \ {c}) \cup {d} /\ d.op = c.op /\ d.arg = c.arg
    BY <2>1, StepGoesOn DEF GoesOn
  <2>3. Creates(c, d) \/ IsRead(c, d) \/ Removes(c, d)
    BY <1>2, <2>1 DEF Steps, Quietly, GivesFile, TakesFiles
  <2>4. CASE Creates(c, d)
    <3>1. d.answer.message = Len(messages) + 1 /\ early' = early /\ d.op = "sendMessage"
      BY <2>2, <2>4 DEF Creates, Yields, CallAt
    <3>2. /\ DOMAIN messages' = DOMAIN messages \cup {Len(messages) + 1}
          /\ \A i \in DOMAIN messages : messages'[i] = messages[i]
          /\ messages'[Len(messages) + 1].live
      BY <1>0, <2>4, Created
    <3> QED BY <2>2, <3>1, <3>2 DEF EarlyInv, Concerns
  <2>5. CASE IsRead(c, d)
    <3>1. messages' = [messages EXCEPT ![c.got].readers = @ \cup {c.arg.user}] /\ early' = early
          /\ c.op = "readMessage"
      BY <2>5 DEF IsRead
    <3>2. \A m \in DOMAIN messages : DOMAIN messages[m] = RowFields  BY <1>0 DEF RowsInv
    <3>3. \A m \in DOMAIN messages : messages'[m].live = messages[m].live
      BY <3>1, <3>2 DEF RowFields
    <3> QED BY <2>2, <3>1, <3>3 DEF EarlyInv, Concerns
  <2>6. CASE Removes(c, d)
    <3>1. /\ messages' = [m \in DOMAIN messages |->
               IF m \in c.arg.messages THEN [messages[m] EXCEPT !.live = FALSE] ELSE messages[m]]
          /\ early' = early \cup {m \in c.arg.messages : Touched(m)} /\ c.op = "removeMessages"
      BY <2>6 DEF Removes, CallAt
    <3> SUFFICES ASSUME NEW e \in calls', NEW m \in DOMAIN messages, Concerns(e, m)
                 PROVE  messages'[m].live \/ m \in early'
      BY <3>1 DEF EarlyInv, Concerns
    <3>2. e \in calls  BY <2>2, <3>1 DEF Concerns
    <3>3. Touched(m)  BY <3>2 DEF Concerns, Touched
    <3> QED BY <3>1, <3>2, <3>3 DEF EarlyInv
  <2> QED BY <2>3, <2>4, <2>5, <2>6
<1> QED BY <1>1, <1>2

\* A handler that waits for a sent message, or for a removal.
LEMMA WhoWaits ==
  ASSUME BaseInv, NEW h \in Slots, NEW c \in AnswersTo(h), Busy(h), job[h].pc = "calls"
  PROVE  /\ c \in calls /\ Answered(c) /\ WaitsFor(h, c.no) /\ Fits(h, c)
         /\ c.op = "sendMessage" => Arg(h).kind = c.arg.kind
         /\ \A d \in calls : WaitsFor(h, d.no) => d = c
<1>1. WaitInv /\ CallsInv /\ JobOK(h)  BY DEF BaseInv, JobsInv
<1>2. c \in calls /\ Answered(c) /\ WaitsFor(h, c.no) /\ Fits(h, c)  BY <1>1, TakenFits
<1>3. job[h].op \in Ops \ NoticeOps  BY <1>1 DEF JobOK
<1>4. c.op = "sendMessage" => Arg(h).kind = c.arg.kind
  BY <1>2, <1>3 DEF Fits, Ops
<1>5. \A d \in calls : WaitsFor(h, d.no) => d = c  BY <1>1, <1>2 DEF WaitsFor, CallsInv
<1> QED BY <1>2, <1>4, <1>5

\* The four parts of FilesInv.
Await(C) == \A c \in C : Awaited(c)
RemovesWait(C) ==
  \A c \in C, h \in Slots : WaitsFor(h, c.no) /\ c.op = "removeMessages" => job[h].op = "remove"
HasFile(C) ==
  \A m \in DOMAIN messages : messages[m].live /\ messages[m].kind = "file" =>
    m \in docs \/ \E c \in C : Uploads(c, m)
HasMessage(C) ==
  \A m \in docs : messages[m].live \/ m \in early \/ \E c \in C : Deletes(c, m)

LEMMA FilesWhenCalled ==
  ASSUME BaseInv, Await(calls), RemovesWait(calls), HasFile(calls), HasMessage(calls),
         faults' = faults, NEW h \in Slots, NEW C, NEW n, MakesCall(h, C, n)
  PROVE  Await(calls)' /\ RemovesWait(calls)' /\ HasFile(calls)' /\ HasMessage(calls)'
<1>0. /\ calls' = (calls \ C) \cup {n} /\ C \subseteq calls /\ OthersStay(h) /\ WaitsFor(h, n.no)'
      /\ Sense(h, C, n) /\ UNCHANGED Rows /\ n.no = made + 1 /\ n.answer = NoAnswer
      /\ (\A c \in C : c \in AnswersTo(h) /\ Busy(h) /\ job[h].pc = "calls")
      /\ (C = {} => ~(Busy(h) /\ job[h].pc = "calls")) /\ faults \in Nat
      /\ (Busy(h) => job'[h].op = job[h].op)
  BY SceneBounds DEF MakesCall, NewCall, BaseInv, SceneInv
<1>1. JobsInv /\ CallsInv /\ WaitInv /\ DataInv  BY DEF BaseInv
<1>2. ASSUME NEW g \in Slots \ {h}, NEW k
      PROVE  WaitsFor(g, k)' <=> WaitsFor(g, k)
  BY <1>0, <1>1, StaysSame DEF WaitsFor, OthersStay
<1>3. ASSUME NEW c \in C, NEW d \in calls, WaitsFor(h, d.no) PROVE d = c
  BY <1>0, <1>3, WhoWaits
<1>4. ASSUME NEW c \in C
      PROVE  /\ Answered(c) /\ C = {c} /\ (c.op = "sendMessage" => Arg(h).kind = c.arg.kind)
             /\ c \in calls /\ WaitsFor(h, c.no)
  BY <1>0, <1>3, WhoWaits
<1>5. Await(calls)'
  <2>1. Awaited(n)'  BY <1>0 DEF Awaited
  <2>2. ASSUME NEW c \in calls \ C PROVE Awaited(c)'
    <3>1. PICK g \in Slots : WaitsFor(g, c.no)  BY DEF Await, Awaited
    <3>2. g # h  BY <1>0, <1>3, <3>1 DEF WaitsFor
    <3> QED BY <1>2, <3>1, <3>2 DEF Awaited
  <2> QED BY <1>0, <2>1, <2>2 DEF Await
<1>6. RemovesWait(calls)'
  <2> SUFFICES ASSUME NEW c \in calls', NEW g \in Slots, WaitsFor(g, c.no)', c.op = "removeMessages"
               PROVE  job'[g].op = "remove"
    BY DEF RemovesWait
  <2>1. CASE g = h
    <3>1. c.no = n.no  BY <1>0, <2>1 DEF WaitsFor
    <3>2. c = n  BY <1>0, <1>1, <3>1 DEF CallsInv
    <3> QED BY <1>0, <2>1, <3>2 DEF Sense
  <2>2. CASE g # h
    <3>1. WaitsFor(g, c.no)  BY <1>2, <2>2
    <3>2. c.no \in 1..made  BY <1>1, <3>1 DEF WaitInv, WaitsFor
    <3>3. c \in calls  BY <1>0, <1>1, <3>2 DEF CallsInv
    <3>4. job[g].op = "remove"  BY <3>1, <3>3 DEF RemovesWait
    <3>5. Stays(g) /\ Busy(g)  BY <1>0, <2>2, <3>1 DEF OthersStay, WaitsFor
    <3> QED BY <1>1, <3>4, <3>5, StaysSame
  <2> QED BY <2>1, <2>2
<1>7. HasFile(calls)'
  <2> SUFFICES ASSUME NEW m \in DOMAIN messages, messages[m].live, messages[m].kind = "file", m \notin docs
               PROVE  \E c \in calls' : Uploads(c, m)
    BY <1>0 DEF HasFile, Rows, Uploads
  <2>1. PICK c \in calls : Uploads(c, m)  BY DEF HasFile
  <2>2. CASE c \in C
    <3>1. Answered(c) /\ C = {c} /\ (c.op = "sendMessage" => Arg(h).kind = c.arg.kind)  BY <1>4, <2>2
    <3>2. c.op = "sendMessage" /\ c.answer.message = m  BY <2>1, <3>1 DEF Uploads
    <3>3. m # 0
      BY <1>1, SeqDomain DEF DataInv, RowsInv
    <3>4. c.answer.res = "Success" /\ messages[m].kind = c.arg.kind
      BY <1>1, <3>2, <3>3 DEF DataInv, AskedOK, SendOK
    <3>5. n.op = "uploadFile" /\ n.arg.message = m
      BY <1>0, <2>2, <3>1, <3>2, <3>4 DEF Sense
    <3> QED BY <1>0, <3>5 DEF Uploads, Answered
  <2> QED BY <1>0, <2>1, <2>2
<1>8. HasMessage(calls)'
  <2> SUFFICES ASSUME NEW m \in docs, ~messages[m].live, m \notin early
               PROVE  \E c \in calls' : Deletes(c, m)
    BY <1>0 DEF HasMessage, Rows, Deletes
  <2>1. PICK c \in calls : Deletes(c, m)  BY DEF HasMessage
  <2>2. CASE c \in C
    <3>1. Answered(c) /\ C = {c}  BY <1>4, <2>2
    <3>2. c.op = "removeMessages" /\ c.answer.res = "Success" /\ m \in c.arg.messages
      BY <2>1, <3>1 DEF Deletes
    <3>3. n.op = "deleteFiles" /\ n.arg.messages = c.arg.messages
      BY <1>0, <2>2, <3>1, <3>2 DEF Sense
    <3> QED BY <1>0, <3>2, <3>3 DEF Deletes, Answered
  <2> QED BY <1>0, <2>1, <2>2
<1> QED BY <1>5, <1>6, <1>7, <1>8

LEMMA FilesWhenAnswered ==
  ASSUME BaseInv, Await(calls), RemovesWait(calls), HasFile(calls), HasMessage(calls),
         NEW h \in Slots, NEW c, TakesAnswer(h, c)
  PROVE  Await(calls)' /\ RemovesWait(calls)' /\ HasFile(calls)' /\ HasMessage(calls)'
<1>0. /\ calls' = calls \ {c} /\ job'[h] = Idle /\ OthersStay(h) /\ UNCHANGED Rows
      /\ c \in AnswersTo(h) /\ Busy(h) /\ job[h].pc = "calls"
      /\ (c.op = "sendMessage" /\ c.answer.res = "Success" => Arg(h).kind = "text")
      /\ (c.op = "removeMessages" /\ c.answer.res = "Success" => job[h].op = "send")
  BY DEF TakesAnswer
<1>1. JobsInv /\ CallsInv /\ WaitInv /\ DataInv  BY DEF BaseInv
<1>2. /\ c \in calls /\ Answered(c) /\ WaitsFor(h, c.no)
      /\ (c.op = "sendMessage" => Arg(h).kind = c.arg.kind)
      /\ \A d \in calls : WaitsFor(h, d.no) => d = c
  BY <1>0, WhoWaits
<1>3. ASSUME NEW g \in Slots \ {h}, NEW k
      PROVE  (WaitsFor(g, k)' <=> WaitsFor(g, k)) /\ (Busy(g) => job'[g].op = job[g].op)
  BY <1>0, <1>1, StaysSame DEF WaitsFor, OthersStay
<1>4. \A k : ~WaitsFor(h, k)'  BY <1>0 DEF WaitsFor, Busy
<1>5. Await(calls)'
  BY <1>0, <1>2, <1>3 DEF Await, Awaited
<1>6. RemovesWait(calls)'
  <2> SUFFICES ASSUME NEW d \in calls', NEW g \in Slots, WaitsFor(g, d.no)', d.op = "removeMessages"
               PROVE  job'[g].op = "remove"
    BY DEF RemovesWait
  <2>1. g # h  BY <1>4
  <2>2. WaitsFor(g, d.no) /\ d \in calls  BY <1>0, <1>3, <2>1
  <2>3. job[g].op = "remove" /\ Busy(g)  BY <2>2 DEF RemovesWait, WaitsFor
  <2> QED BY <1>3, <2>1, <2>3
<1>7. HasFile(calls)'
  <2> SUFFICES ASSUME NEW m \in DOMAIN messages, messages[m].live, messages[m].kind = "file",
                      Uploads(c, m)
               PROVE  FALSE
    BY <1>0 DEF HasFile, Rows, Uploads
  <2>1. c.op = "sendMessage" /\ c.answer.message = m  BY <1>2 DEF Uploads
  <2>2. m # 0  BY <1>1, SeqDomain DEF DataInv, RowsInv
  <2> QED BY <1>0, <1>1, <1>2, <2>1, <2>2 DEF DataInv, AskedOK, SendOK
<1>8. HasMessage(calls)'
  <2>1. \A m : ~Deletes(c, m)  BY <1>0, <1>2 DEF Deletes, RemovesWait
  <2> QED BY <1>0, <2>1 DEF HasMessage, Rows, Deletes
<1> QED BY <1>5, <1>6, <1>7, <1>8

LEMMA FilesWhenServed ==
  ASSUME BaseInv, EarlyInv, Await(calls), RemovesWait(calls), HasFile(calls), HasMessage(calls),
         faults' = faults, NEW c, NEW d, Serves(c), Steps(c, d)
  PROVE  Await(calls)' /\ RemovesWait(calls)' /\ HasFile(calls)' /\ HasMessage(calls)'
<1>0. /\ c \in calls /\ ~Answered(c) /\ d.no = c.no /\ d.op = c.op /\ d.arg = c.arg
      /\ calls' = (calls \ {c}) \cup {d} /\ job' = job /\ faults \in Nat
  BY StepGoesOn, SceneBounds DEF GoesOn, Serves, BaseInv, SceneInv
<1>1. /\ JobsInv /\ CallsInv /\ DataInv /\ RowsInv /\ c.answer = NoAnswer /\ AskedOK(c)
      /\ c.answer.message = 0 /\ c.answer.res # "Success"
  BY <1>0 DEF BaseInv, DataInv, Answered, NoAnswer
<1>2. Await(calls)'  BY <1>0 DEF Await, Awaited, WaitsFor, Busy
<1>3. RemovesWait(calls)'  BY <1>0 DEF RemovesWait, WaitsFor, Busy
<1>4. DOMAIN messages = 1 .. Len(messages)  BY <1>1, SeqDomain DEF RowsInv
<1>5. CASE Quietly(c, d)
  <2>1. UNCHANGED <<messages, early, docs>> /\ c.op # "uploadFile"
        /\ (c.op = "deleteFiles" /\ Answered(d) => c.arg.messages \cap docs = {})
    BY <1>0, <1>5 DEF Quietly
  <2>2. \A m \in DOMAIN messages : ~Uploads(c, m)
    BY <1>1, <1>4, <2>1 DEF Uploads
  <2>3. \A m \in docs : Deletes(c, m) => Deletes(d, m)
    BY <1>0, <1>1, <2>1 DEF Deletes
  <2>4. HasFile(calls)'  BY <1>0, <2>1, <2>2 DEF HasFile, Uploads
  <2>5. HasMessage(calls)'  BY <1>0, <2>1, <2>3 DEF HasMessage, Deletes
  <2> QED BY <1>2, <1>3, <2>4, <2>5
<1>6. CASE Creates(c, d)
  <2> DEFINE k == Len(messages) + 1
  <2>1. c.op = "sendMessage" /\ d.answer.message = k /\ UNCHANGED <<early, docs>>
    BY <1>6 DEF Creates, CallAt, Yields
  <2>2. /\ DOMAIN messages' = DOMAIN messages \cup {k}
        /\ \A i \in DOMAIN messages : messages'[i] = messages[i]
    BY <1>1, <1>6, Created
  <2>3. Uploads(d, k)  BY <1>0, <2>1 DEF Uploads
  <2>4. \A m \in DOMAIN messages : ~Uploads(c, m)
    BY <1>1, <1>4, <2>1 DEF Uploads
  <2>5. HasFile(calls)'  BY <1>0, <2>1, <2>2, <2>3, <2>4 DEF HasFile, Uploads
  <2>6. \A m : ~Deletes(c, m)  BY <2>1 DEF Deletes
  <2>7. docs \subseteq DOMAIN messages  BY <1>1 DEF DataInv
  <2>8. HasMessage(calls)'  BY <1>0, <2>1, <2>2, <2>6, <2>7 DEF HasMessage, Deletes
  <2> QED BY <1>2, <1>3, <2>5, <2>8
<1>7. CASE IsRead(c, d)
  <2>1. /\ c.op = "readMessage" /\ UNCHANGED <<early, docs>>
        /\ messages' = [messages EXCEPT ![c.got].readers = @ \cup {c.arg.user}]
    BY <1>7 DEF IsRead
  <2>2. \A m \in DOMAIN messages : DOMAIN messages[m] = RowFields  BY <1>1 DEF RowsInv
  <2>3. /\ DOMAIN messages' = DOMAIN messages
        /\ \A m \in DOMAIN messages : /\ messages'[m].live = messages[m].live
                                      /\ messages'[m].kind = messages[m].kind
    BY <2>1, <2>2 DEF RowFields
  <2>4. \A m : ~Uploads(c, m) /\ ~Deletes(c, m)  BY <2>1 DEF Uploads, Deletes
  <2>5. docs \subseteq DOMAIN messages  BY <1>1 DEF DataInv
  <2>6. HasFile(calls)'  BY <1>0, <2>1, <2>3, <2>4 DEF HasFile, Uploads
  <2>7. HasMessage(calls)'  BY <1>0, <2>1, <2>3, <2>4, <2>5 DEF HasMessage, Deletes
  <2> QED BY <1>2, <1>3, <2>6, <2>7
<1>8. CASE Removes(c, d)
  <2>1. /\ c.op = "removeMessages" /\ d.answer.res = "Success" /\ docs' = docs
        /\ messages' = [m \in DOMAIN messages |->
             IF m \in c.arg.messages THEN [messages[m] EXCEPT !.live = FALSE] ELSE messages[m]]
        /\ early \subseteq early'
    BY <1>8 DEF Removes, CallAt, Ends
  <2>2. \A m \in DOMAIN messages : DOMAIN messages[m] = RowFields  BY <1>1 DEF RowsInv
  <2>3. /\ DOMAIN messages' = DOMAIN messages
        /\ \A m \in DOMAIN messages : /\ messages'[m].live => messages[m].live
                                      /\ messages'[m].kind = messages[m].kind
                                      /\ m \notin c.arg.messages => messages'[m] = messages[m]
    BY <2>1, <2>2 DEF RowFields
  <2>4. \A m : ~Uploads(c, m) /\ ~Deletes(c, m)  BY <1>1, <2>1 DEF Uploads, Deletes
  <2>5. docs \subseteq DOMAIN messages  BY <1>1 DEF DataInv
  <2>6. \A m \in c.arg.messages : Deletes(d, m)  BY <1>0, <2>1 DEF Deletes
  <2>7. HasFile(calls)'  BY <1>0, <2>1, <2>3, <2>4 DEF HasFile, Uploads
  <2>8. HasMessage(calls)'  BY <1>0, <2>1, <2>3, <2>4, <2>5, <2>6 DEF HasMessage, Deletes
  <2> QED BY <1>2, <1>3, <2>7, <2>8
<1>9. CASE GivesFile(c, d)
  <2>1. /\ c.op = "uploadFile" /\ docs' = docs \cup {c.arg.message}
        /\ UNCHANGED <<messages, early>>
    BY <1>9 DEF GivesFile
  <2>2. c.arg.message \in DOMAIN messages  BY <1>1, <2>1 DEF AskedOK
  <2>3. messages[c.arg.message].live \/ c.arg.message \in early
    BY <1>0, <2>1, <2>2 DEF EarlyInv, Concerns
  <2>4. \A m : Uploads(c, m) => m = c.arg.message  BY <2>1 DEF Uploads
  <2>5. \A m : ~Deletes(c, m)  BY <2>1 DEF Deletes
  <2>6. HasFile(calls)'  BY <1>0, <2>1, <2>4 DEF HasFile, Uploads
  <2>7. HasMessage(calls)'  BY <1>0, <2>1, <2>3, <2>5 DEF HasMessage, Deletes
  <2> QED BY <1>2, <1>3, <2>6, <2>7
<1>10. CASE TakesFiles(c, d)
  <2>1. /\ c.op = "deleteFiles" /\ docs' = docs \ c.arg.messages
        /\ UNCHANGED <<messages, early>>
    BY <1>10 DEF TakesFiles
  <2>2. \A m \in c.arg.messages : ~messages[m].live  BY <1>1, <2>1 DEF AskedOK
  <2>3. \A m : ~Uploads(c, m)  BY <2>1 DEF Uploads
  <2>4. \A m : Deletes(c, m) => m \in c.arg.messages  BY <2>1 DEF Deletes
  <2>5. HasFile(calls)'  BY <1>0, <2>1, <2>2, <2>3 DEF HasFile, Uploads
  <2>6. HasMessage(calls)'  BY <1>0, <2>1, <2>4 DEF HasMessage, Deletes
  <2> QED BY <1>2, <1>3, <2>5, <2>6
<1> QED BY <1>5, <1>6, <1>7, <1>8, <1>9, <1>10 DEF Steps

LEMMA FilesParts ==
  FilesInv <=> (Failures = 0 => /\ Await(calls) /\ RemovesWait(calls)
                                /\ HasFile(calls) /\ HasMessage(calls))
BY DEF FilesInv, Await, RemovesWait, HasFile, HasMessage

LEMMA NothingFails ==
  ASSUME BaseInv, [Next]_vars, Failures' = 0
  PROVE  faults' = faults /\ Failures = 0
<1>1. SceneInv' /\ SceneInv /\ faults' <= faults /\ scene' = scene  BY BaseMoves DEF BaseInv
<1>2. faults \in 0..scene.faults /\ faults' \in 0..scene.faults /\ scene.faults \in Nat
  BY <1>1, SceneBounds DEF SceneInv
<1> QED BY <1>1, <1>2 DEF Failures

LEMMA FilesStay ==
  ASSUME BaseInv, EarlyInv, FilesInv, [Next]_vars
  PROVE  FilesInv'
<1> SUFFICES ASSUME Failures' = 0
             PROVE  Await(calls)' /\ RemovesWait(calls)' /\ HasFile(calls)' /\ HasMessage(calls)'
  BY DEF FilesInv, Await, RemovesWait, HasFile, HasMessage
<1>1. faults' = faults /\ Failures = 0  BY NothingFails
<1>2. Await(calls) /\ RemovesWait(calls) /\ HasFile(calls) /\ HasMessage(calls)  BY <1>1, FilesParts
<1>3. JobsInv /\ faults \in Nat  BY SceneBounds DEF BaseInv, SceneInv
<1>4. CASE \E h \in Slots : \E C, n : MakesCall(h, C, n)
  BY <1>1, <1>2, <1>4, FilesWhenCalled
<1>5. CASE \E h \in Slots : \E c : TakesAnswer(h, c)
  BY <1>2, <1>5, FilesWhenAnswered
<1>6. CASE \E h \in Slots : NoCall(h) /\ UNCHANGED docs
  <2>1. PICK h \in Slots : NoCall(h) /\ UNCHANGED docs  BY <1>6
  <2>2. UNCHANGED <<calls, messages, early, docs>> /\ OthersStay(h)  BY <2>1 DEF NoCall
  <2>3. ASSUME NEW g \in Slots, NEW k
        PROVE  (WaitsFor(g, k)' <=> WaitsFor(g, k)) /\ (WaitsFor(g, k) => job'[g].op = job[g].op)
    <3>1. CASE Stays(g)  BY <1>3, <3>1, StaysSame DEF WaitsFor
    <3>2. CASE ~Stays(g)
      <4>1. g = h  BY <2>2, <3>2 DEF OthersStay
      <4>2. ~(Busy(g) /\ job[g].pc = "calls") /\ ~((Busy(g))' /\ job'[g].pc = "calls")
        BY <1>1, <1>3, <2>1, <3>2, <4>1 DEF NoCall, Busy
      <4> QED BY <4>2 DEF WaitsFor
    <3> QED BY <3>1, <3>2
  <2>4. Await(calls)' /\ RemovesWait(calls)'  BY <1>2, <2>2, <2>3 DEF Await, Awaited, RemovesWait
  <2>5. HasFile(calls)' /\ HasMessage(calls)'
    BY <1>2, <2>2 DEF HasFile, HasMessage, Uploads, Deletes
  <2> QED BY <2>4, <2>5
<1>7. CASE \E c, d : Serves(c) /\ Steps(c, d)
  BY <1>1, <1>2, <1>7, FilesWhenServed
<1>8. CASE \E c : Unheard(c)
  BY <1>2, <1>8 DEF Unheard, Await, Awaited, WaitsFor
<1>9. CASE Beside
  BY <1>2, <1>9 DEF Beside, Await, Awaited, RemovesWait, WaitsFor, Busy, HasFile, HasMessage,
     Uploads, Deletes
<1> QED BY <1>1, <1>4, <1>5, <1>6, <1>7, <1>8, <1>9, FaultlessSteps

LEMMA FilesInit == Init => EarlyInv /\ FilesInv
<1> SUFFICES ASSUME Init PROVE EarlyInv /\ FilesInv  OBVIOUS
<1>1. /\ calls = {} /\ docs = {}
      /\ \A m \in DOMAIN messages : messages[m].live /\ messages[m].kind = "text"
  BY PastRows DEF Init
<1> QED BY <1>1 DEF EarlyInv, FilesInv

\* When nothing is under way and nothing has failed, a message sent with a file
\* has it, and a file has its message, unless that was removed while its file
\* was on the way.
THEOREM FilesGoWithMessagesAlways == Spec => []FilesGoWithMessages
<1>1. Init => BaseInv /\ EarlyInv /\ FilesInv  BY BaseInit, FilesInit
<1>2. BaseInv /\ EarlyInv /\ FilesInv /\ [Next]_vars => (BaseInv /\ EarlyInv /\ FilesInv)'
  BY BaseStays, EarlyStays, FilesStay
<1>3. FilesInv => FilesGoWithMessages  BY DEF FilesInv, FilesGoWithMessages, Quiet
<1> QED BY <1>1, <1>2, <1>3, PTL DEF Spec

(***************************************************************************)
(* The sockets.                                                            *)
(***************************************************************************)

\* What a step does to the sockets.
SocketMoves ==
  \/ UNCHANGED socketVars
  \/ \E s \in Wires : \E u \in Users : Connect(s, u)
  \/ \E s \in Wires : Accept(s, [messages |-> Len(messages), notes |-> Len(notes)])
  \/ \E s \in Wires : Refuse(s) \/ Disconnect(s)
  \/ SocketsStop /\ faults' < faults
  \/ \E s \in Wires : \E x \in DOMAIN chats : joinRoom(s, x) \/ leaveRoom(s, x)
  \/ \E S, m : Emit(S, m)

LEMMA RoomsChange ==
  ASSUME BaseInv, NEW h \in Slots, NEW c \in AnswersTo(h), RoomReturns(h, c)
  PROVE  \/ UNCHANGED socketVars
         \/ \E s \in Wires : \E x \in DOMAIN chats : joinRoom(s, x) \/ leaveRoom(s, x)
<1>1. /\ Busy(h) /\ job[h].pc = "calls" /\ c.op = "getChat" /\ c \in calls
      /\ JobsInv /\ WaitInv /\ DataInv
  BY DEF RoomReturns, AnswersTo, BaseInv
<1>2. Fits(h, c) /\ JobOK(h)  BY <1>1, TakenFits DEF JobsInv
<1>3. CASE c.answer.res # "Success"
  BY <1>3 DEF RoomReturns
<1>4. CASE c.answer.res = "Success"
  <2> DEFINE chat == IF job[h].op = "send" THEN job[h].got["chat"] ELSE Arg(h).chat
  <2>1. c.arg.chat \in DOMAIN chats  BY <1>1, <1>4 DEF DataInv, AskedOK
  <2>2. job[h].op \in {"send", "join", "leave"}
    BY <1>1, <1>2 DEF Fits, JobOK, Ops, NoticeOps
  <2>3. Arg(h).wire \in Wires /\ chat = c.arg.chat
    BY <1>1, <1>2, <2>2 DEF Fits, JobOK
  <2>4. joinRoom(Arg(h).wire, chat) \/ leaveRoom(Arg(h).wire, chat)
    BY <1>4 DEF RoomReturns
  <2> QED BY <2>1, <2>3, <2>4
<1> QED BY <1>3, <1>4

LEMMA SocketsMove ==
  ASSUME BaseInv, [Next]_vars
  PROVE  SocketMoves
<1>0. faults \in Nat /\ scene.people \subseteq Users  BY SceneBounds DEF BaseInv, SceneInv
<1>1. CASE \E h \in Slots : SendRequests(h) \/ ReadRequests(h) \/ RemoveRequests(h)
                              \/ RoomRequests(h) \/ ListRequests(h)
  BY <1>1 DEF SendRequests, ReadRequests, RemoveRequests, RoomRequests, ListRequests, Ask, SocketMoves
<1>2. CASE \E h \in Slots : SendFinds(h) \/ RemoveFinds(h) \/ Catches(h) \/ GatewayFails(h)
  BY <1>2 DEF SendFinds, RemoveFinds, Catches, GatewayFails, Call, Answer, SocketMoves
<1>3. CASE \E h \in Slots : \E c \in AnswersTo(h) :
             \/ SendReturns(h, c) \/ UploadReturns(h, c) \/ ReadReturns(h, c)
             \/ RemoveReturns(h, c) \/ RoomReturns(h, c)
             \/ ChatsReturn(h, c) \/ MessagesReturn(h, c)
  <2>5. PICK h \in Slots : \E c \in AnswersTo(h) :
             \/ SendReturns(h, c) \/ UploadReturns(h, c) \/ ReadReturns(h, c)
             \/ RemoveReturns(h, c) \/ RoomReturns(h, c)
             \/ ChatsReturn(h, c) \/ MessagesReturn(h, c)
    BY <1>3
  <2>1. PICK c \in AnswersTo(h) :
             \/ SendReturns(h, c) \/ UploadReturns(h, c) \/ ReadReturns(h, c)
             \/ RemoveReturns(h, c) \/ RoomReturns(h, c)
             \/ ChatsReturn(h, c) \/ MessagesReturn(h, c)
    BY <2>5
  <2>2. CASE SendReturns(h, c) \/ UploadReturns(h, c) \/ ReadReturns(h, c)
    BY <2>2 DEF SendReturns, UploadReturns, ReadReturns, CallAgain, SocketMoves
  <2>3. CASE RemoveReturns(h, c) \/ ChatsReturn(h, c) \/ MessagesReturn(h, c)
    BY <2>3 DEF RemoveReturns, ChatsReturn, MessagesReturn, ShowPage, Rest, CallAgain, SocketMoves
  <2>4. CASE RoomReturns(h, c)
    BY <2>1, <2>4, RoomsChange DEF SocketMoves
  <2> QED BY <2>1, <2>2, <2>3, <2>4
<1>4. CASE \E s \in Wires : SocketStep(s) \/ CheckFails(s)
  BY <1>0, <1>4 DEF SocketStep, CheckFails, SocketMoves
<1>5. CASE \E e \in queue : Deliver(e)
  BY <1>5 DEF Deliver, SocketMoves
<1>6. CASE \/ \E c \in calls : Unheard(c)
           \/ \E u \in scene.people : BanUser(u)
           \/ \E kind \in scene.lists : OpenList(kind[1], messages[1].sender, kind[2])
           \/ NoticeRequests \/ ServicesRun \/ ServicesFail
           \/ UNCHANGED vars
  BY <1>6 DEF Unheard, BanUser, OpenList, NoticeRequests, ServicesRun, ServicesFail, vars, SocketMoves
<1>7. CASE NoticesRun
  BY <1>7 DEF NoticesRun, PublishWs, PublishFails, SocketMoves
<1>8. CASE GatewayRestarts
  BY <1>0, <1>8 DEF GatewayRestarts, SocketMoves
<1> QED BY <1>1, <1>2, <1>3, <1>4, <1>5, <1>6, <1>7, <1>8 DEF Next

\* The state of wire s changes, and nothing of the others.
Changes(s, state, user) ==
  /\ DOMAIN wire' = Wires /\ \A r \in Wires : DOMAIN wire'[r] = {"state", "user"}
  /\ wire'[s].state = state /\ wire'[s].user = user
  /\ \A r \in Wires \ {s} : wire'[r] = wire[r]

LEMMA StateChanges ==
  ASSUME SocketsInv, NEW s \in Wires, NEW state, SetState(s, state)
  PROVE  Changes(s, state, wire[s].user)
<1> DEFINE w == [wire[s] EXCEPT !.state = state]
<1>1. wire' = [wire EXCEPT ![s] = w]  BY DEF SetState, SocketsInv
<1>2. DOMAIN w = {"state", "user"} /\ w.state = state /\ w.user = wire[s].user  BY DEF SocketsInv
<1> HIDE DEF w
<1> QED BY <1>1, <1>2 DEF Changes, SocketsInv

LEMMA SocketsStay ==
  ASSUME SocketsInv, SocketMoves, DOMAIN chats \subseteq DOMAIN chats'
  PROVE  SocketsInv'
<1>1. CASE UNCHANGED socketVars
  BY <1>1 DEF socketVars, SocketsInv, HeardOK, Entered
<1>2. ASSUME NEW s \in Wires, NEW u \in Users, Connect(s, u)
      PROVE  SocketsInv'
  <2>1. wire[s].state = "new" /\ Changes(s, "checking", u)
    BY <1>2 DEF Connect, Changes, SocketsInv
  <2>2. Entered' = Entered /\ s \notin Entered  BY <2>1 DEF Entered, Changes
  <2>3. UNCHANGED <<clients, userSockets, rooms, heard>>  BY <1>2 DEF Connect
  <2>4. clients' = {<<r, wire'[r].user>> : r \in Entered'}
    BY <2>1, <2>2, <2>3 DEF Changes, Entered, SocketsInv
  <2> QED BY <2>1, <2>3, <2>4 DEF Changes, States, HeardOK, SocketsInv
<1>3. ASSUME NEW s \in Wires, NEW there, Accept(s, there)
      PROVE  SocketsInv'
  <2> PICK state : state = IF wire[s].state = "left" THEN "ghost" ELSE "open"  OBVIOUS
  <2> PICK u : u = wire[s].user  OBVIOUS
  <2>1. /\ wire[s].state \in {"checking", "left"} /\ Changes(s, state, u) /\ u \in Users
        /\ state \in {"open", "ghost"}
    BY <1>3, StateChanges DEF Accept, SocketsInv
  <2>2. Entered' = Entered \cup {s} /\ s \notin Entered  BY <2>1 DEF Entered, Changes
  <2>3. clients' = clients \cup {<<s, u>>} /\ rooms' = rooms
    BY <1>3 DEF Accept
  <2>4. clients' = {<<r, wire'[r].user>> : r \in Entered'}
    BY <2>1, <2>2, <2>3 DEF Changes, Entered, SocketsInv
  <2>5. userSockets' = [userSockets EXCEPT ![u] = @ \cup {s}] /\ DOMAIN userSockets' = Users
    BY <1>3 DEF Accept, SocketsInv
  <2>6. \A v \in Users : userSockets'[v] = {r \in Wires : <<r, v>> \in clients'}
    BY <2>1, <2>3, <2>5 DEF SocketsInv
  <2>7. HeardOK'  BY <1>3 DEF Accept, HeardOK, SocketsInv
  <2> QED BY <2>1, <2>3, <2>4, <2>5, <2>6, <2>7 DEF Changes, States, SocketsInv
<1>4. ASSUME NEW s \in Wires, Refuse(s) \/ Disconnect(s)
      PROVE  SocketsInv'
  <2> PICK state : state = IF Disconnect(s) /\ wire[s].state = "checking" THEN "left" ELSE "gone"
    OBVIOUS
  <2>1. /\ Changes(s, state, wire[s].user) /\ wire[s].state # "new" /\ state \in {"left", "gone"}
        /\ clearClient(s) /\ rooms' = {r \in rooms : r[1] # s} /\ heard' = heard
    <3>1. CASE Refuse(s)
      BY <3>1, StateChanges DEF Refuse, Disconnect, Talks
    <3>2. CASE Disconnect(s)
      BY <3>2, StateChanges DEF Disconnect, Talks
    <3> QED BY <1>4, <3>1, <3>2
  <2>2. Entered' = Entered \ {s}  BY <2>1 DEF Entered, Changes
  <2>3. clients' = {p \in clients : p[1] # s}  BY <2>1 DEF clearClient
  <2>4. clients' = {<<r, wire'[r].user>> : r \in Entered'}
    BY <2>1, <2>2, <2>3 DEF Changes, Entered, SocketsInv
  <2>5. /\ DOMAIN userSockets' = Users
        /\ \A v \in Users : userSockets'[v] = IF <<s, v>> \in clients THEN userSockets[v] \ {s}
                                              ELSE userSockets[v]
    BY <2>1 DEF clearClient, SocketsInv
  <2>6. \A v \in Users : userSockets'[v] = {r \in Wires : <<r, v>> \in clients'}
    BY <2>3, <2>5 DEF SocketsInv
  <2>7. rooms' \subseteq Wires \X DOMAIN chats'  BY <2>1 DEF SocketsInv
  <2> QED BY <2>1, <2>4, <2>5, <2>6, <2>7 DEF Changes, States, HeardOK, SocketsInv
<1>5. CASE SocketsStop
  <2>1. /\ DOMAIN wire' = Wires
        /\ \A s \in Wires : /\ DOMAIN wire'[s] = {"state", "user"} /\ wire'[s].user = wire[s].user
                            /\ wire'[s].state = IF wire[s].state = "new" THEN "new" ELSE "gone"
    BY <1>5 DEF SocketsStop, SocketsInv
  <2>2. Entered' = {}  BY <2>1 DEF Entered
  <2>3. /\ clients' = {} /\ rooms' = {} /\ heard' = heard /\ DOMAIN userSockets' = Users
        /\ \A u \in Users : userSockets'[u] = {}
    BY <1>5 DEF SocketsStop, SocketsInv
  <2> QED BY <2>1, <2>2, <2>3 DEF States, HeardOK, SocketsInv
<1>6. ASSUME NEW s \in Wires, NEW x \in DOMAIN chats, joinRoom(s, x) \/ leaveRoom(s, x)
      PROVE  SocketsInv'
  <2>1. rooms' \subseteq Wires \X DOMAIN chats'  BY <1>6 DEF joinRoom, leaveRoom, SocketsInv
  <2> QED BY <1>6, <2>1 DEF joinRoom, leaveRoom, SocketsInv, HeardOK, Entered
<1>7. ASSUME NEW S, NEW m, Emit(S, m)
      PROVE  SocketsInv'
  <2>1. HeardOK'  BY <1>7 DEF Emit, SocketsInv, HeardOK
  <2> QED BY <1>7, <2>1 DEF Emit, SocketsInv, Entered
<1> QED BY <1>1, <1>2, <1>3, <1>4, <1>5, <1>6, <1>7 DEF SocketMoves

\* Who can hear afterwards could before, or has been entered just now.
HearsOn(s) ==
  \/ /\ wire[s].state = "open" /\ wire'[s].user = wire[s].user
     /\ heard'[s].since = heard[s].since /\ heard[s].got \subseteq heard'[s].got
  \/ /\ wire[s].state = "checking" /\ wire'[s].user = wire[s].user
     /\ heard'[s].since = [messages |-> Len(messages), notes |-> Len(notes)]

LivesOn(s) ==
  wire[s].state # "new" =>
    /\ wire'[s].user = wire[s].user /\ wire'[s].state # "new"
    /\ wire[s].state \in {"open", "gone"} => wire'[s].state \in {"open", "gone"}

LEMMA Hearers ==
  ASSUME SocketsInv, SocketMoves
  PROVE  \A s \in Wires : LivesOn(s) /\ (wire'[s].state = "open" => HearsOn(s))
<1>1. CASE UNCHANGED socketVars
  BY <1>1 DEF socketVars, HearsOn, LivesOn
<1>2. ASSUME NEW s \in Wires, NEW u \in Users, Connect(s, u)
      PROVE  /\ wire[s].state = "new" /\ Changes(s, "checking", u) /\ heard' = heard
    BY <1>2 DEF Connect, Changes, SocketsInv
<1>3. ASSUME NEW s \in Wires, Accept(s, [messages |-> Len(messages), notes |-> Len(notes)])
      PROVE  \A r \in Wires : LivesOn(r) /\ (wire'[r].state = "open" => HearsOn(r))
  <2> PICK state : state = IF wire[s].state = "left" THEN "ghost" ELSE "open"  OBVIOUS
  <2>1. wire[s].state \in {"checking", "left"} /\ Changes(s, state, wire[s].user)
    BY <1>3, StateChanges DEF Accept
  <2>2. /\ heard'[s].since = [messages |-> Len(messages), notes |-> Len(notes)]
        /\ \A r \in Wires \ {s} : heard'[r] = heard[r]
    BY <1>3 DEF Accept, SocketsInv, HeardOK
  <2> QED BY <2>1, <2>2 DEF Changes, HearsOn, LivesOn
<1>4. ASSUME NEW s \in Wires, Refuse(s) \/ Disconnect(s)
      PROVE  \E state : /\ Changes(s, state, wire[s].user) /\ wire[s].state # "new"
                        /\ state \in {"left", "gone"} /\ heard' = heard
                        /\ wire[s].state \in {"open", "gone"} => state = "gone"
  <2>1. CASE Refuse(s)
    BY <2>1, StateChanges DEF Refuse
  <2>2. CASE Disconnect(s)
    BY <2>2, StateChanges DEF Disconnect, Talks
  <2> QED BY <1>4, <2>1, <2>2
<1>5. CASE SocketsStop
  <2>1. \A s \in Wires : wire'[s].user = wire[s].user
                         /\ wire'[s].state = IF wire[s].state = "new" THEN "new" ELSE "gone"
    BY <1>5 DEF SocketsStop, SocketsInv
  <2> QED BY <2>1 DEF LivesOn
<1>6. CASE \E s \in Wires : \E x \in DOMAIN chats : joinRoom(s, x) \/ leaveRoom(s, x)
  BY <1>6 DEF joinRoom, leaveRoom, HearsOn, LivesOn
<1>7. ASSUME NEW S, NEW m, Emit(S, m)
      PROVE  wire' = wire /\ \A s \in Wires : /\ heard'[s].since = heard[s].since
                                              /\ heard[s].got \subseteq heard'[s].got
  BY <1>7 DEF Emit, SocketsInv, HeardOK
<1>8. ASSUME NEW s \in Wires, NEW state, NEW u, Changes(s, state, u), heard' = heard, state # "open", state # "new",
             wire[s].state # "new" => u = wire[s].user,
             wire[s].state \in {"open", "gone"} => state \in {"open", "gone"}
      PROVE  \A r \in Wires : LivesOn(r) /\ (wire'[r].state = "open" => HearsOn(r))
  BY <1>8 DEF Changes, HearsOn, LivesOn
<1> QED BY <1>1, <1>2, <1>3, <1>4, <1>5, <1>6, <1>7, <1>8 DEF SocketMoves, HearsOn, LivesOn

\* What a step does to events.
EventMoves ==
  \/ UNCHANGED <<events, queue>>
  \/ \E c, d : Creates(c, d)
  \/ \E e \in events : Tell(e)
  \/ \E e \in queue : Deliver(e)
  \/ events' = {} /\ queue' = queue /\ faults' < faults

LEMMA EventsMove ==
  ASSUME BaseInv, [Next]_vars
  PROVE  EventMoves
<1>0. faults \in Nat /\ CallsInv  BY SceneBounds DEF BaseInv, SceneInv
<1>1. CASE \E h \in Slots : SendRequests(h) \/ ReadRequests(h) \/ RemoveRequests(h)
                              \/ RoomRequests(h) \/ ListRequests(h)
  <2>1. CASE \E h \in Slots : SendRequests(h) \/ RemoveRequests(h)
    BY <2>1 DEF SendRequests, RemoveRequests, Ask, messengerVars, EventMoves
  <2>2. CASE \E h \in Slots : ReadRequests(h) \/ RoomRequests(h) \/ ListRequests(h)
    BY <2>2 DEF ReadRequests, RoomRequests, ListRequests, EventMoves
  <2> QED BY <1>1, <2>1, <2>2
<1>2. CASE \E h \in Slots : SendFinds(h) \/ RemoveFinds(h) \/ Catches(h) \/ GatewayFails(h)
  BY <1>2 DEF SendFinds, RemoveFinds, Catches, GatewayFails, Call, Answer, messengerVars, EventMoves
<1>3. CASE \E h \in Slots : \E c \in AnswersTo(h) :
             \/ SendReturns(h, c) \/ UploadReturns(h, c) \/ ReadReturns(h, c)
             \/ RemoveReturns(h, c) \/ RoomReturns(h, c)
             \/ ChatsReturn(h, c) \/ MessagesReturn(h, c)
  <2>5. PICK h \in Slots : \E c \in AnswersTo(h) :
             \/ SendReturns(h, c) \/ UploadReturns(h, c) \/ ReadReturns(h, c)
             \/ RemoveReturns(h, c) \/ RoomReturns(h, c)
             \/ ChatsReturn(h, c) \/ MessagesReturn(h, c)
    BY <1>3
  <2>1. PICK c \in AnswersTo(h) :
             \/ SendReturns(h, c) \/ UploadReturns(h, c) \/ ReadReturns(h, c)
             \/ RemoveReturns(h, c) \/ RoomReturns(h, c)
             \/ ChatsReturn(h, c) \/ MessagesReturn(h, c)
    BY <2>5
  <2>2. CASE SendReturns(h, c) \/ UploadReturns(h, c) \/ ReadReturns(h, c)
    BY <2>2 DEF SendReturns, UploadReturns, ReadReturns, CallAgain, Forward, EventMoves
  <2>3. CASE RemoveReturns(h, c) \/ RoomReturns(h, c) \/ ChatsReturn(h, c) \/ MessagesReturn(h, c)
    BY <2>3 DEF RemoveReturns, RoomReturns, ChatsReturn, MessagesReturn, ShowPage, CallAgain, Forward,
       EventMoves
  <2> QED BY <2>1, <2>2, <2>3
<1>4. CASE \/ \E s \in Wires : SocketStep(s) \/ CheckFails(s)
           \/ \E c \in calls : Unheard(c)
           \/ \E u \in scene.people : BanUser(u)
           \/ \E kind \in scene.lists : OpenList(kind[1], messages[1].sender, kind[2])
           \/ NoticeRequests \/ NoticesRun \/ GatewayRestarts
           \/ UNCHANGED vars
  BY <1>4 DEF SocketStep, CheckFails, Unheard, BanUser, OpenList, NoticeRequests, NoticesRun,
     GatewayRestarts, vars, messengerVars, EventMoves
<1>5. CASE \E e \in queue : Deliver(e)
  BY <1>5 DEF EventMoves
<1>6. CASE \E c : Serves(c)
  <2>1. PICK c : Serves(c)  BY <1>6
  <2>2. PICK d : \/ Quietly(c, d) \/ Creates(c, d) \/ IsRead(c, d) \/ Removes(c, d)
                 \/ GivesFile(c, d) \/ TakesFiles(c, d)
    BY <1>0, <2>1, ServiceSteps
  <2> QED BY <2>2 DEF Quietly, IsRead, Removes, GivesFile, TakesFiles, EventMoves
<1>7. CASE ServicesRun
  <2>1. UNCHANGED <<faults, job, latest, asked, socketVars, noticeVars, list>>
    BY <1>7 DEF ServicesRun, handlerVars, Rest
  <2>2. CASE \E c \in calls : (MessengerStep(c) \/ QueryStep(c)) /\ UNCHANGED docs
    BY <1>6, <2>1, <2>2 DEF Serves
  <2>3. CASE \E c \in calls : FilesStep(c)
    BY <1>6, <2>1, <2>3 DEF Serves
  <2>4. CASE \E e \in events : Tell(e)
    BY <2>4 DEF EventMoves
  <2> QED BY <1>7, <2>2, <2>3, <2>4 DEF ServicesRun
<1>8. CASE ServicesFail
  <2>1. UNCHANGED <<job, latest, asked, socketVars, noticeVars, list>> /\ faults' < faults
    BY <1>0, <1>8 DEF ServicesFail, Rest
  <2> QED BY <1>6, <1>8, <2>1 DEF ServicesFail, Serves, MessengerStops, EventMoves
<1> QED BY <1>1, <1>2, <1>3, <1>4, <1>5, <1>7, <1>8 DEF Next

LEMMA EventsStay ==
  ASSUME BaseInv, EventsInv, [Next]_vars
  PROVE  EventsInv'
<1>0. RowsGrow /\ EventMoves /\ CallsInv /\ DataInv  BY BaseMoves, EventsMove DEF BaseInv
<1>1. ASSUME NEW e \in events \cup queue
      PROVE  /\ e = [message |-> e.message, to |-> e.to]
             /\ e.message \in DOMAIN messages' /\ e.to = messages'[e.message].to
  BY <1>0 DEF EventsInv, RowsGrow
<1>2. CASE events' \cup queue' \subseteq events \cup queue
  BY <1>1, <1>2 DEF EventsInv
<1>3. CASE \E c, d : Creates(c, d)
  <2>1. PICK c, d : Creates(c, d)  BY <1>3
  <2> PICK m : m = Len(messages) + 1  OBVIOUS
  <2> PICK n : n = [message |-> m, to |-> c.arg.to]  OBVIOUS
  <2>2. m \in DOMAIN messages' /\ messages'[m].to = c.arg.to  BY <1>0, <2>1, Created
  <2>3. n.message = m /\ n.to = c.arg.to  OBVIOUS
  <2>4. events' = events \cup {n} /\ queue' = queue  BY <2>1 DEF Creates
  <2> QED BY <1>1, <2>2, <2>3, <2>4 DEF EventsInv
<1> QED BY <1>0, <1>2, <1>3 DEF EventMoves, Tell, Deliver

LEMMA MessagesTold ==
  ASSUME BaseInv, SocketsInv, EventsInv, Failures = 0 => MessagesAreTold, [Next]_vars
  PROVE  (Failures = 0 => MessagesAreTold)'
<1> SUFFICES ASSUME Failures' = 0 PROVE MessagesAreTold'  OBVIOUS
<1>0. /\ RowsGrow /\ EventMoves /\ SocketMoves /\ CallsInv /\ DataInv /\ RowsInv
      /\ MessagesAreTold /\ faults' = faults /\ faults \in Nat /\ EventsInv'
      /\ \A s \in Wires : wire'[s].state = "open" => HearsOn(s)
  BY BaseMoves, EventsMove, SocketsMove, Hearers, NothingFails, EventsStay, SceneBounds
     DEF BaseInv, DataInv, SceneInv
<1>1. DOMAIN messages = 1 .. Len(messages) /\ Len(messages) \in Nat  BY <1>0, SeqDomain DEF RowsInv
<1> SUFFICES ASSUME NEW m \in DOMAIN messages', NEW s \in Wires,
                    messages'[m].live, chats'[messages'[m].chat].who # {messages'[m].sender},
                    \A e \in events' \cup queue' : e.message # m,
                    wire'[s].state = "open", wire'[s].user = messages'[m].to, heard'[s].since.messages < m
             PROVE  <<"message", m>> \in heard'[s].got
  BY DEF MessagesAreTold
<1>2. HearsOn(s)  BY <1>0
<1>3. m \in DOMAIN messages
  <2>1. CASE \E c, d : Creates(c, d)
    <3>1. PICK c, d : Creates(c, d)  BY <2>1
    <3> PICK n : n = Len(messages) + 1  OBVIOUS
    <3>2. DOMAIN messages' = DOMAIN messages \cup {n}  BY <1>0, <3>1, Created
    <3>3. [message |-> n, to |-> c.arg.to] \in events'  BY <3>1 DEF Creates
    <3> QED BY <3>2, <3>3
  <2>2. CASE ~\E c, d : Creates(c, d)
    BY <1>0, <2>2, RowSteps, BaseMoves DEF IsRead, Removes
  <2> QED BY <2>1, <2>2
<1>4. wire[s].state = "open" /\ wire[s].user = messages[m].to /\ heard[s].since.messages < m
      /\ heard[s].got \subseteq heard'[s].got
  BY <1>0, <1>1, <1>2, <1>3 DEF HearsOn, RowsGrow
<1>5. messages[m].live /\ chats[messages[m].chat].who # {messages[m].sender}
  BY <1>0, <1>3 DEF RowsGrow, RowsInv
<1>6. CASE \A e \in events \cup queue : e.message # m
  BY <1>0, <1>3, <1>4, <1>5, <1>6 DEF MessagesAreTold
<1>7. ASSUME NEW e \in events \cup queue, e.message = m
      PROVE  <<"message", m>> \in heard'[s].got
  <2>1. e.to = messages[m].to  BY <1>7 DEF EventsInv
  <2>2. CASE Tell(e) /\ e \in events
    BY <1>3, <1>5, <1>7, <2>1, <2>2, <1>0 DEF Tell, CanBeShown, IsRow, LiveRows, RowsInv
  <2>3. CASE Deliver(e) /\ e \in queue
    BY <1>0, <1>4, <1>7, <2>1, <2>3 DEF Deliver, Emit, SocketsInv, HeardOK, Talks, Entered
  <2>4. CASE ~(Tell(e) /\ e \in events) /\ ~(Deliver(e) /\ e \in queue)
    <3>1. CASE \E x \in events : Tell(x)
      BY <1>7, <2>4, <3>1 DEF Tell
    <3>2. CASE \E x \in queue : Deliver(x)
      BY <1>7, <2>4, <3>2 DEF Deliver
    <3>3. CASE events \subseteq events' /\ queue \subseteq queue'
      BY <1>7, <3>3
    <3>4. (\E c, d : Creates(c, d)) => events \subseteq events' /\ queue \subseteq queue'
      BY DEF Creates
    <3>5. ~(faults' < faults)  BY <1>0
    <3> QED BY <1>0, <3>1, <3>2, <3>3, <3>4, <3>5 DEF EventMoves
  <2> QED BY <2>2, <2>3, <2>4
<1> QED BY <1>6, <1>7

(***************************************************************************)
(* What a step does to notifications.                                      *)
(***************************************************************************)

\* No request about notifications begins or goes on, nor ends but by a failure.
NoticeKept ==
  /\ DOMAIN job' = Slots
  /\ \A g \in Slots :
       /\ (Busy(g))' /\ job'[g].op \in NoticeOps => Busy(g) /\ Stays(g)
       /\ Busy(g) /\ job[g].op \in NoticeOps => Stays(g) \/ faults' < faults

NoticeMoves ==
  \/ UNCHANGED noticeVars /\ NoticeKept
  \/ NoticeRequests \/ NoticesRun \/ GatewayRestarts

LEMMA NoticesKeep ==
  ASSUME BaseInv, CallSteps, ~NoticeRequests, ~NoticesRun, ~GatewayRestarts
  PROVE  NoticeKept
<1>0. JobsInv  BY DEF BaseInv
<1>1. ASSUME NEW g \in Slots, Stays(g)
      PROVE  (Busy(g))' /\ job'[g].op \in NoticeOps => Busy(g)
  BY <1>0, <1>1, StaysSame
<1>2. CASE \E h \in Slots : \E C, n : MakesCall(h, C, n)
  <2>1. PICK h \in Slots : \E C, n : MakesCall(h, C, n)  BY <1>2
  <2>2. /\ OthersStay(h) /\ (Busy(h))' /\ job'[h].pc = "calls" /\ JobOK(h)'
        /\ (Busy(h) => job'[h].op = job[h].op)
    BY <2>1 DEF MakesCall, WaitsFor
  <2>3. job'[h].op \notin NoticeOps  BY <2>2 DEF JobOK
  <2> QED BY <1>1, <2>2, <2>3 DEF NoticeKept, OthersStay
<1>3. CASE \E h \in Slots : \E c : TakesAnswer(h, c)
  <2>1. PICK h \in Slots : \E c : TakesAnswer(h, c)  BY <1>3
  <2>2. OthersStay(h) /\ Busy(h) /\ job[h].pc = "calls" /\ job'[h] = Idle /\ JobOK(h)
    BY <1>0, <2>1 DEF TakesAnswer, JobsInv
  <2>3. job[h].op \notin NoticeOps /\ ~(Busy(h))'  BY <2>2 DEF JobOK, Busy
  <2> QED BY <1>1, <2>2, <2>3 DEF NoticeKept, OthersStay
<1>4. CASE \E h \in Slots : NoCall(h)
  <2>1. PICK h \in Slots : NoCall(h)  BY <1>4
  <2>2. OthersStay(h)  BY <2>1 DEF NoCall
  <2>3. Stays(h) \/ (/\ (Busy(h))' /\ job'[h].op \in NoticeOps => FALSE
                     /\ Busy(h) /\ job[h].op \in NoticeOps => faults' < faults)
    BY <2>1 DEF NoCall, Busy
  <2> QED BY <1>1, <2>2, <2>3 DEF NoticeKept, OthersStay
<1>5. CASE \/ \E c : Serves(c) \/ Unheard(c)
           \/ MessengerDown \/ Beside
  <2>1. job' = job  BY <1>5 DEF Serves, Unheard, MessengerDown, Beside, handlerVars
  <2> QED BY <1>0, <1>1, <2>1, JobUnchanged DEF NoticeKept, JobsInv
<1> QED BY <1>2, <1>3, <1>4, <1>5 DEF CallSteps, GatewayDown

LEMMA NoticesMove ==
  ASSUME BaseInv, [Next]_vars
  PROVE  NoticeMoves
<1>0. CallSteps  BY BaseMoves
<1> SUFFICES ASSUME ~NoticeRequests, ~NoticesRun, ~GatewayRestarts PROVE UNCHANGED noticeVars
  BY <1>0, NoticesKeep DEF NoticeMoves
<1>1. CASE \E h \in Slots : SendRequests(h) \/ ReadRequests(h) \/ RemoveRequests(h)
                              \/ RoomRequests(h) \/ ListRequests(h)
  BY <1>1 DEF SendRequests, ReadRequests, RemoveRequests, RoomRequests, ListRequests, Ask, Rest
<1>2. CASE \E h \in Slots : SendFinds(h) \/ RemoveFinds(h) \/ Catches(h) \/ GatewayFails(h)
  BY <1>2 DEF SendFinds, RemoveFinds, Catches, GatewayFails, Call, Answer, Rest
<1>3. CASE \E h \in Slots : \E c \in AnswersTo(h) :
             \/ SendReturns(h, c) \/ UploadReturns(h, c) \/ ReadReturns(h, c)
             \/ RemoveReturns(h, c) \/ RoomReturns(h, c)
             \/ ChatsReturn(h, c) \/ MessagesReturn(h, c)
  <2>1. CASE \E h \in Slots : \E c \in AnswersTo(h) :
               SendReturns(h, c) \/ UploadReturns(h, c) \/ ReadReturns(h, c)
    BY <2>1 DEF SendReturns, UploadReturns, ReadReturns, CallAgain, Rest
  <2>2. CASE \E h \in Slots : \E c \in AnswersTo(h) : RemoveReturns(h, c) \/ RoomReturns(h, c)
    BY <2>2 DEF RemoveReturns, RoomReturns, CallAgain, Rest
  <2>3. CASE \E h \in Slots : \E c \in AnswersTo(h) : ChatsReturn(h, c) \/ MessagesReturn(h, c)
    BY <2>3 DEF ChatsReturn, MessagesReturn, ShowPage, Rest
  <2> QED BY <1>3, <2>1, <2>2, <2>3
<1>4. CASE \/ \E s \in Wires : SocketStep(s) \/ CheckFails(s)
           \/ \E e \in queue : Deliver(e)
           \/ \E c \in calls : Unheard(c)
           \/ \E u \in scene.people : BanUser(u)
           \/ \E kind \in scene.lists : OpenList(kind[1], messages[1].sender, kind[2])
           \/ ServicesRun \/ ServicesFail
           \/ UNCHANGED vars
  BY <1>4 DEF SocketStep, CheckFails, Deliver, Unheard, BanUser, OpenList, ServicesRun, ServicesFail,
     vars, Rest
<1> QED BY <1>1, <1>2, <1>3, <1>4 DEF Next

(***************************************************************************)
(* The queues of notifications.                                            *)
(***************************************************************************)

LEMMA Reminders ==
  ASSUME NEW row, row.user \in Users \cup {Stranger}
  PROVE  RemindersOf(row) \in Mails
<1> PICK u : u = row.user  OBVIOUS
<1>1. <<>> \in Mails /\ <<u>> \in Mails /\ <<u, u>> \in Mails  BY DEF Mails
<1> QED BY <1>1, Zenon DEF RemindersOf

LEMMA Posted ==
  ASSUME mail = [late |-> mail.late, ready |-> mail.ready], mail.late \in Seq(Mails),
         mail.ready \in Seq(Mails), NEW n \in {1, 2},
         NEW rows, DOMAIN rows = 1..n, \A i \in 1..n : rows[i].user \in Users \cup {Stranger},
         checkAndNotifySubscriptionEnd(rows)
  PROVE  mail' = [late |-> mail'.late, ready |-> mail'.ready] /\ mail'.late \in Seq(Mails)
         /\ mail'.ready \in Seq(Mails)
<1> DEFINE f == [i \in DOMAIN rows |-> RemindersOf(rows[i])]
<1>1. f \in [1..n -> Mails]  BY Reminders
<1> PICK data : data = FlattenSeq(f)  OBVIOUS
<1>2. data \in Mails  BY <1>1, Flattened DEF Mails
<1>3. mail' = [mail EXCEPT !.ready = IF data = <<>> THEN @ ELSE Append(@, data)]
  BY DEF checkAndNotifySubscriptionEnd
<1>4. Append(mail.ready, data) \in Seq(Mails)  BY <1>2, AppendProperties
<1> QED BY <1>3, <1>4

LEMMA MailStays ==
  ASSUME BaseInv, MailInv, [Next]_vars
  PROVE  MailInv'
<1>0. NoticeMoves /\ scene.people \subseteq Users
  BY NoticesMove, SceneBounds DEF BaseInv, SceneInv
<1>1. CASE mail' = mail  BY <1>1 DEF MailInv
<1>2. ASSUME NEW row \in [user : scene.people \cup {Stranger}, left : {1, 7}, autoRenewal : BOOLEAN],
             checkAndNotifySubscriptionEnd(<<row>>)
      PROVE  MailInv'
  <2> DEFINE rows == <<row>>
  <2>1. DOMAIN rows = 1..1 /\ \A i \in 1..1 : rows[i].user \in Users \cup {Stranger}
    BY <1>0
  <2> HIDE DEF rows
  <2>2. checkAndNotifySubscriptionEnd(rows)  BY <1>2 DEF rows
  <2> QED BY <2>1, <2>2, Posted DEF MailInv
<1>3. ASSUME NEW users \in Injection(1..2, scene.people \cup {Stranger}),
             checkAndNotifySubscriptionEnd(
               [i \in 1..2 |-> [user |-> users[i], left |-> 7, autoRenewal |-> TRUE]])
      PROVE  MailInv'
  <2> DEFINE rows == [i \in 1..2 |-> [user |-> users[i], left |-> 7, autoRenewal |-> TRUE]]
  <2>1. DOMAIN rows = 1..2 /\ \A i \in 1..2 : rows[i].user \in Users \cup {Stranger}
    BY <1>0 DEF Injection, IsInjective
  <2> HIDE DEF rows
  <2>2. checkAndNotifySubscriptionEnd(rows)  BY <1>3 DEF rows
  <2> QED BY <2>1, <2>2, Posted DEF MailInv
<1>4. ASSUME NEW u \in scene.people, sendNotificationAfterSuccessPayment(u)
      PROVE  MailInv'
  <2>1. mail' = [mail EXCEPT !.late = Append(@, <<u>>)]
    BY <1>4 DEF sendNotificationAfterSuccessPayment
  <2>2. <<u>> \in Mails  BY <1>0 DEF Mails
  <2>3. Append(mail.late, <<u>>) \in Seq(Mails)  BY <2>2, AppendProperties DEF MailInv
  <2> QED BY <2>1, <2>3 DEF MailInv
<1>5. CASE NoticeRequests
  BY <1>1, <1>2, <1>3, <1>4, <1>5 DEF NoticeRequests, MarkRequests, ListNotices, noticeVars
<1>6. CASE Ripen
  <2>1. /\ mail.late # <<>> /\ mail.late \in Seq(Mails) /\ mail.ready \in Seq(Mails)
        /\ mail' = [late |-> Tail(mail.late), ready |-> Append(mail.ready, Head(mail.late))]
    BY <1>6 DEF Ripen, MailInv
  <2>2. Head(mail.late) \in Mails /\ Tail(mail.late) \in Seq(Mails)
    BY <2>1, HeadTailProperties
  <2>3. Append(mail.ready, Head(mail.late)) \in Seq(Mails)  BY <2>1, <2>2, AppendProperties
  <2> QED BY <2>1, <2>2, <2>3 DEF MailInv
<1>7. ASSUME NEW h \in Slots, TakeNotice(h)
      PROVE  MailInv'
  <2>1. mail.ready # <<>> /\ mail.ready \in Seq(Mails) /\ mail' = [mail EXCEPT !.ready = Tail(@)]
    BY <1>7 DEF TakeNotice, MailInv
  <2>2. Tail(mail.ready) \in Seq(Mails)  BY <2>1, HeadTailProperties
  <2> QED BY <2>1, <2>2 DEF MailInv
<1>8. CASE NoticesRun
  <2>1. CASE \E h \in Slots : NoticeStep(h, Users)
    BY <1>1, <2>1 DEF NoticeStep, FindUsers, CreateNotices, MarkFinds, MarkWrites, NoticesFound, noticeVars
  <2>2. CASE \E n \in fresh : PublishWs(n) \/ PublishFails(n)
    BY <1>1, <2>2 DEF PublishWs, PublishFails
  <2> QED BY <1>6, <1>7, <1>8, <2>1, <2>2 DEF NoticesRun
<1>9. CASE GatewayRestarts  BY <1>1, <1>9 DEF GatewayRestarts
<1> QED BY <1>0, <1>1, <1>5, <1>8, <1>9 DEF NoticeMoves, noticeVars

(***************************************************************************)
(* The rows of notifications.                                              *)
(***************************************************************************)

Notes == [user : Users, isRead : BOOLEAN]

\* Rows are added and marked; none changes its user.
NotesGrow ==
  /\ notes' \in Seq(Notes) /\ fresh' \subseteq DOMAIN notes' /\ DOMAIN notes \subseteq DOMAIN notes'
  /\ \A n \in DOMAIN notes : notes'[n].user = notes[n].user

LEMMA NotesAdded ==
  ASSUME notes \in Seq(Notes), fresh \subseteq DOMAIN notes, NEW h \in Slots, CreateNotices(h),
         job[h].got["users"] \in Seq(Users)
  PROVE  NotesGrow /\ fresh' = fresh \cup (DOMAIN notes' \ DOMAIN notes)
<1> PICK users : users = job[h].got["users"]  OBVIOUS
<1> DEFINE more == [i \in DOMAIN users |-> [user |-> users[i], isRead |-> FALSE]]
<1>1. users \in Seq(Users) /\ DOMAIN users = 1..Len(users) /\ Len(users) \in Nat
  BY LenProperties
<1>2. more \in [1..Len(users) -> Notes]  BY <1>1 DEF Notes
<1>3. more \in Seq(Notes)  BY <1>1, <1>2, IsASeq
<1>4. notes' = notes \o more /\ fresh' = fresh \cup (Len(notes) + 1)..Len(notes')
  BY DEF CreateNotices
<1> HIDE DEF more
<1>5. /\ notes' \in Seq(Notes) /\ Len(notes') = Len(notes) + Len(more)
      /\ Len(notes) \in Nat /\ Len(more) \in Nat
      /\ \A i \in 1..Len(notes) : notes'[i] = notes[i]
  BY <1>3, <1>4, ConcatProperties, LenProperties
<1>6. DOMAIN notes = 1..Len(notes) /\ DOMAIN notes' = 1..Len(notes')
  BY <1>5, LenProperties
<1> QED BY <1>4, <1>5, <1>6 DEF NotesGrow

LEMMA NotesMarked ==
  ASSUME notes \in Seq(Notes), fresh \subseteq DOMAIN notes, NEW h \in Slots, MarkWrites(h)
  PROVE  NotesGrow /\ DOMAIN notes' = DOMAIN notes /\ fresh' = fresh
<1> PICK k : k = job[h].arg.note  OBVIOUS
<1>1. notes' = [notes EXCEPT ![k].isRead = TRUE] /\ fresh' = fresh  BY DEF MarkWrites
<1>2. DOMAIN notes = 1..Len(notes) /\ Len(notes) \in Nat /\ \A n \in DOMAIN notes : notes[n] \in Notes
  BY LenProperties, ElementOfSeq
<1>3. ASSUME NEW n \in DOMAIN notes
      PROVE  notes'[n] \in Notes /\ notes'[n].user = notes[n].user
  BY <1>1, <1>2 DEF Notes
<1>4. notes' = [n \in DOMAIN notes |-> notes'[n]]  BY <1>1
<1>5. notes' \in [1..Len(notes) -> Notes]  BY <1>2, <1>3, <1>4
<1>6. notes' \in Seq(Notes) /\ DOMAIN notes' = DOMAIN notes  BY <1>2, <1>5, IsASeq
<1> QED BY <1>1, <1>3, <1>6 DEF NotesGrow

LEMMA NotesMove ==
  ASSUME BaseInv, NoticesInv, [Next]_vars
  PROVE  /\ NotesGrow
         /\ \/ UNCHANGED notes /\ fresh \subseteq fresh'
            \/ UNCHANGED notes /\ \E n \in fresh : PublishWs(n) /\ fresh' = fresh \ {n}
            \/ fresh' = fresh \cup (DOMAIN notes' \ DOMAIN notes)
            \/ faults' < faults
<1>0. /\ NoticeMoves /\ faults \in Nat
      /\ notes \in Seq(Notes) /\ fresh \subseteq DOMAIN notes
      /\ \A h \in Slots : Busy(h) => NoticeJob(h)
  BY NoticesMove, SceneBounds DEF BaseInv, SceneInv, NoticesInv, NoticesTypeOK, Notes
<1>1. UNCHANGED notes /\ fresh' \subseteq fresh => NotesGrow
  BY <1>0 DEF NotesGrow
<1>2. CASE UNCHANGED <<notes, fresh>>
  BY <1>1, <1>2
<1>3. CASE NoticeRequests
  BY <1>2, <1>3 DEF NoticeRequests, checkAndNotifySubscriptionEnd,
     sendNotificationAfterSuccessPayment, MarkRequests, ListNotices, noticeVars
<1>4. ASSUME NEW h \in Slots, NoticeStep(h, Users)
      PROVE  NotesGrow /\ fresh' = fresh \cup (DOMAIN notes' \ DOMAIN notes)
  <2>1. CASE FindUsers(h, Users) \/ MarkFinds(h) \/ NoticesFound(h)
    BY <1>1, <2>1 DEF FindUsers, MarkFinds, NoticesFound, noticeVars
  <2>2. CASE CreateNotices(h)
    BY <1>0, <2>2, NotesAdded DEF NoticeJob, CreateNotices, At
  <2>3. CASE MarkWrites(h)
    BY <1>0, <2>3, NotesMarked
  <2> QED BY <1>4, <2>1, <2>2, <2>3 DEF NoticeStep
<1>5. CASE NoticesRun
  <2>1. CASE \E h \in Slots : NoticeStep(h, Users)
    BY <1>4, <2>1
  <2>2. CASE Ripen \/ \E h \in Slots : TakeNotice(h)
    BY <1>2, <2>2 DEF Ripen, TakeNotice
  <2>3. CASE \E n \in fresh : PublishWs(n)
    BY <1>1, <2>3 DEF PublishWs
  <2>4. CASE \E n \in fresh : PublishFails(n)
    BY <1>0, <1>1, <2>4 DEF PublishFails
  <2> QED BY <1>5, <2>1, <2>2, <2>3, <2>4 DEF NoticesRun
<1>6. CASE GatewayRestarts
  BY <1>0, <1>1, <1>6 DEF GatewayRestarts
<1> QED BY <1>0, <1>2, <1>3, <1>5, <1>6 DEF NoticeMoves, noticeVars

(***************************************************************************)
(* What clients were shown.                                                *)
(***************************************************************************)

ShownType(s) ==
  /\ shown[s].asked \in {"new", "checking", "open"} /\ shown[s].rows \subseteq DOMAIN notes
  /\ shown[s].rows # {} => shown[s].asked # "new"
  /\ \A n \in shown[s].rows : notes[n].user = wire[s].user

\* No client's answer is under way.
Served(s) == \A h \in Slots : At(h, {"notices"}, "find") => Arg(h) # s

UsersNotes(s) == {n \in DOMAIN notes : notes[n].user = wire[s].user}

\* What was shown stays; the list shows all there is.
ShowsMore(s) ==
  /\ shown[s].asked # "new" => shown'[s].asked = shown[s].asked
  /\ shown[s].rows \subseteq shown'[s].rows

LEMMA Listed ==
  ASSUME SocketsInv, NoticesInv, JobsInv, UNCHANGED <<socketVars, notes>>,
         NEW h \in Slots, NEW s \in Wires, ListNotices(h, s)
  PROVE  /\ DOMAIN shown' = Wires /\ (Busy(h))' /\ NoticeJob(h)' /\ ~Served(s)'
         /\ \A r \in Wires : ShownOK(r)' /\ ShownType(r)' /\ ShowsMore(r) /\ (r # s => shown'[r] = shown[r])
<1>1. /\ DOMAIN shown = Wires /\ \A r \in Wires : ShownOK(r) /\ ShownType(r)
  BY DEF NoticesInv, NoticesTypeOK, ShownType
<1>2. /\ shown[s].asked = "new" /\ wire[s].state \in {"checking", "open"}
      /\ shown' = [shown EXCEPT ![s].asked = wire[s].state]
      /\ Start(h, Request("notices", s, "find", {}))
  BY DEF ListNotices, Talks
<1>3. /\ DOMAIN shown' = Wires /\ DOMAIN shown'[s] = {"asked", "rows"}
      /\ shown'[s].asked = wire[s].state /\ shown'[s].rows = shown[s].rows
      /\ \A r \in Wires \ {s} : shown'[r] = shown[r]
  BY <1>1, <1>2 DEF ShownOK
<1>4. wire' = wire /\ notes' = notes  BY DEF socketVars
<1>5. \A r \in Wires : ShownOK(r)' /\ ShownType(r)' /\ ShowsMore(r)
  BY <1>1, <1>2, <1>3, <1>4 DEF ShownOK, ShownType, ShowsMore
<1>6. Begun(h, "notices", s, "find", {})  BY <1>2, Started
<1>7. (Busy(h))' /\ NoticeJob(h)' /\ ~Served(s)'
  BY <1>2, <1>3, <1>6 DEF Begun, NoticeJob, Served, At, Arg
<1> QED BY <1>3, <1>5, <1>7

LEMMA ListShown ==
  ASSUME NoticesInv, NEW h \in Slots, NoticesFound(h)
  PROVE  /\ DOMAIN shown' = Wires /\ Arg(h) \in Wires /\ shown'[Arg(h)].rows = UsersNotes(Arg(h))
         /\ DOMAIN shown'[Arg(h)] = {"asked", "rows"} /\ shown[Arg(h)].asked # "new"
         /\ shown'[Arg(h)].asked = shown[Arg(h)].asked
         /\ \A r \in Wires \ {Arg(h)} : shown'[r] = shown[r]
<1>1. /\ DOMAIN shown = Wires /\ \A r \in Wires : ShownOK(r)
      /\ Busy(h) /\ job[h].op = "notices" /\ NoticeJob(h)
  BY DEF NoticesInv, NoticesFound, At
<1> PICK s : s = Arg(h)  OBVIOUS
<1>2. s \in Wires /\ shown[s].asked # "new"  BY <1>1 DEF NoticeJob
<1>3. shown' = [shown EXCEPT ![s].rows = UsersNotes(s)]
  BY DEF NoticesFound, UsersNotes, Arg
<1> QED BY <1>1, <1>2, <1>3 DEF ShownOK

LEMMA ListFound ==
  ASSUME NoticesInv, UNCHANGED <<socketVars, notes>>, NEW h \in Slots, NoticesFound(h)
  PROVE  \A r \in Wires : /\ ShownOK(r)' /\ ShownType(r)' /\ ShowsMore(r)
                          /\ shown'[r].asked = shown[r].asked
<1>1. DOMAIN shown = Wires /\ \A r \in Wires : ShownOK(r) /\ ShownType(r)
  BY DEF NoticesInv, NoticesTypeOK, ShownType
<1>2. wire' = wire /\ notes' = notes  BY DEF socketVars
<1> QED BY <1>1, <1>2, ListShown DEF ShownOK, ShownType, ShowsMore, UsersNotes

(***************************************************************************)
(* Requests about notifications.                                           *)
(***************************************************************************)

LEMMA NoticeJobKept ==
  ASSUME JobsInv, NEW g \in Slots, Stays(g), Busy(g) => NoticeJob(g),
         \A s \in Wires : shown[s].asked # "new" => shown'[s].asked = shown[s].asked
  PROVE  (Busy(g))' => NoticeJob(g)'
<1>1. (Busy(g))' <=> Busy(g)  BY StaysSame
<1>2. CASE Busy(g)
  <2>1. /\ job'[g].op = job[g].op /\ job'[g].arg = job[g].arg /\ job'[g].pc = job[g].pc
        /\ job'[g].got = job[g].got
    BY <1>2, StaysSame
  <2> QED BY <1>2, <2>1 DEF NoticeJob, Arg
<1> QED BY <1>1, <1>2

LEMMA PlacesCounted ==
  ASSUME NEW R, NEW s \in Seq(R), NEW places, places \subseteq DOMAIN s
  PROVE  Cardinality(places) \in Nat
<1>1. DOMAIN s = 1..Len(s) /\ Len(s) \in Nat  BY LenProperties
<1>2. IsFiniteSet(1..Len(s))  BY <1>1, FS_Interval
<1>3. IsFiniteSet(places)  BY <1>1, <1>2, FS_Subset
<1> QED BY <1>3, FS_CardinalityType

\* The users found to be told something.
LEMMA UsersFound ==
  ASSUME JobsInv, NEW h \in Slots, FindUsers(h, Users), NoticeJob(h)
  PROVE  OthersStay(h) /\ ((Busy(h))' => NoticeJob(h)')
<1>1. Busy(h) /\ job[h].op = "notice" /\ Arg(h) \in Mails /\ JobOK(h)
  BY DEF FindUsers, At, NoticeJob, JobsInv
<1> PICK arg : arg = job[h].arg  OBVIOUS
<1> DEFINE valid == {i \in DOMAIN arg : arg[i] \in Users}
<1>2. CASE Reply(h, "NotFound")
  BY <1>2, Replied DEF Busy
<1>3. ASSUME NEW o \in [1..Cardinality(valid) -> valid],
             Learn(h, "users", [i \in DOMAIN o |-> arg[o[i]]], "write")
      PROVE  OthersStay(h) /\ ((Busy(h))' => NoticeJob(h)')
  <2> DEFINE n == Cardinality(valid)  users == [i \in DOMAIN o |-> arg[o[i]]]
  <2>1. arg \in Seq(Users \cup {Stranger})  BY <1>1 DEF Arg, Mails
  <2>2. n \in Nat
    <3> PICK R : arg \in Seq(R)  BY <2>1
    <3> PICK places : places = valid  OBVIOUS
    <3>1. places \subseteq DOMAIN arg  OBVIOUS
    <3>2. Cardinality(places) \in Nat  BY <3>1, PlacesCounted
    <3> QED BY <3>2
  <2>3. users \in [1..n -> Users]  OBVIOUS
  <2> HIDE DEF users, n
  <2>4. users \in Seq(Users)  BY <2>2, <2>3, IsASeq
  <2> DEFINE pc == IF job[h].todo \ {"users"} = {} THEN "write" ELSE job[h].pc
             j == [job[h] EXCEPT !.got = With(@, "users", users), !.todo = @ \ {"users"}, !.pc = pc]
  <2>5. job' = [job EXCEPT ![h] = j]  BY <1>1, <1>3 DEF users, Learn, JobsInv, JobOK, Fields
  <2>6. j.op = "notice" /\ j.arg = arg /\ j.got = With(job[h].got, "users", users)
    BY <1>1 DEF JobOK, Fields
  <2> HIDE DEF j
  <2>7. OthersStay(h) /\ job'[h] = j  BY <2>5, OnlyOne
  <2>8. With(job[h].got, "users", users)["users"] = users  BY DEF With
  <2> QED BY <1>1, <2>4, <2>6, <2>7, <2>8 DEF NoticeJob, Arg
<1> QED BY <1>2, <1>3 DEF FindUsers

\* Handler h may change what it does; the lists being read are read on.
Reading(h) ==
  /\ OthersStay(h) /\ ((Busy(h))' => NoticeJob(h)')
  /\ Busy(h) /\ job[h].op = "notices" => NoticesFound(h)

LEMMA NoticeRequestsRead ==
  ASSUME BaseInv, SocketsInv, NoticesInv, NoticeRequests
  PROVE  job' = job \/ \E h \in Slots : Reading(h)
<1>0. JobsInv  BY DEF BaseInv
<1>1. ASSUME NEW h \in Slots, NEW u, MarkRequests(h, u)
      PROVE  Reading(h)
  <2>1. PICK n : Start(h, Request("mark", [user |-> u, note |-> n], "find", {}))
    BY <1>1 DEF MarkRequests
  <2>2. Begun(h, "mark", [user |-> u, note |-> n], "find", {})  BY <1>0, <2>1, Started
  <2> QED BY <2>2 DEF Begun, Reading, NoticeJob
<1>2. ASSUME NEW h \in Slots, NEW s \in Wires, ListNotices(h, s), UNCHANGED socketVars
      PROVE  Reading(h)
  <2>1. Start(h, Request("notices", s, "find", {})) /\ notes' = notes  BY <1>2 DEF ListNotices
  <2>2. Begun(h, "notices", s, "find", {})  BY <1>0, <2>1, Started
  <2>3. NoticeJob(h)'  BY <1>0, <1>2, <2>1, Listed
  <2> QED BY <2>2, <2>3 DEF Begun, Reading
<1> QED BY <1>1, <1>2 DEF NoticeRequests, checkAndNotifySubscriptionEnd,
     sendNotificationAfterSuccessPayment

LEMMA NoticesRead ==
  ASSUME BaseInv, SocketsInv, NoticesInv, NoticesRun
  PROVE  job' = job \/ \E h \in Slots : Reading(h)
<1>0. JobsInv /\ \A h \in Slots : Busy(h) => NoticeJob(h)  BY DEF BaseInv, NoticesInv
<1>1. ASSUME NEW h \in Slots, TakeNotice(h)
      PROVE  Reading(h)
  <2> DEFINE r == Request("notice", Head(mail.ready), "find", {})
  <2>1. ~Busy(h) /\ job' = [job EXCEPT ![h] = r] /\ mail.ready # <<>>  BY <1>1 DEF TakeNotice
  <2>2. Head(mail.ready) \in Mails  BY <2>1, HeadTailProperties DEF NoticesInv, MailInv
  <2>3. r.op = "notice" /\ r.arg \in Mails /\ r.pc = "find"  BY <2>2 DEF Request
  <2> HIDE DEF r
  <2>4. OthersStay(h) /\ job'[h] = r  BY <1>0, <2>1, OnlyOne
  <2> QED BY <2>1, <2>3, <2>4 DEF Reading, NoticeJob, Arg
<1>2. ASSUME NEW h \in Slots, NoticeStep(h, Users)
      PROVE  Reading(h)
  <2>0. Busy(h) /\ JobOK(h) /\ NoticeJob(h)
    BY <1>0, <1>2 DEF NoticeStep, FindUsers, CreateNotices, MarkFinds, MarkWrites, NoticesFound, At, JobsInv
  <2>1. CASE FindUsers(h, Users)
    BY <1>0, <2>0, <2>1, UsersFound DEF FindUsers, At, Reading
  <2>2. CASE NoticesFound(h)
    BY <1>0, <2>2, Replied DEF NoticesFound, Reading, Busy
  <2>3. CASE CreateNotices(h) \/ MarkWrites(h)
    BY <1>0, <2>3, Replied DEF CreateNotices, MarkWrites, At, Reading, Busy
  <2>4. CASE MarkFinds(h)
    <3>1. job[h].op = "mark" /\ Busy(h)  BY <2>4 DEF MarkFinds, At
    <3>2. CASE \E a : Reply(h, a)
      BY <1>0, <3>1, <3>2, Replied DEF Reading, Busy
    <3>3. CASE Goto(h, "write")
      <4> DEFINE j == [job[h] EXCEPT !.pc = "write"]
      <4>1. job' = [job EXCEPT ![h] = j]  BY <2>0, <3>3 DEF Goto, JobsInv, JobOK, Fields
      <4>2. j.op = "mark"  BY <2>0, <3>1 DEF JobOK, Fields
      <4> HIDE DEF j
      <4>3. OthersStay(h) /\ job'[h] = j  BY <1>0, <4>1, OnlyOne
      <4> QED BY <3>1, <4>2, <4>3 DEF Reading, NoticeJob
    <3> QED BY <2>4, <3>2, <3>3 DEF MarkFinds
  <2> QED BY <1>2, <2>1, <2>2, <2>3, <2>4 DEF NoticeStep
<1> QED BY <1>1, <1>2 DEF NoticesRun, Ripen, PublishWs, PublishFails, handlerVars

ShownMove ==
  /\ DOMAIN shown' = Wires
  /\ \A s \in Wires : /\ ShownOK(s)' /\ ShownType(s)' /\ ShowsMore(s)
                      /\ shown'[s].asked = "open" /\ Served(s)' => shown[s].asked = "open"

LEMMA ShownMoves ==
  ASSUME BaseInv, SocketsInv, NoticesInv, [Next]_vars
  PROVE  ShownMove
<1>0. /\ NoticeMoves /\ NotesGrow /\ JobsInv
      /\ \A s \in Wires : LivesOn(s)
      /\ DOMAIN shown = Wires /\ \A s \in Wires : ShownOK(s) /\ ShownType(s)
  BY NoticesMove, SocketsMove, NotesMove, Hearers DEF BaseInv, NoticesInv, NoticesTypeOK, ShownType
<1>1. CASE shown' = shown
  <2>1. \A s \in Wires : ShownOK(s)'
    BY <1>0, <1>1 DEF LivesOn, ShownOK
  <2>2. \A s \in Wires : ShownType(s)' /\ ShowsMore(s)
    BY <1>0, <1>1 DEF LivesOn, NotesGrow, ShownOK, ShownType, ShowsMore
  <2> QED BY <1>0, <1>1, <2>1, <2>2 DEF ShownMove
<1>2. ASSUME NEW h \in Slots, NEW s \in Wires, ListNotices(h, s), UNCHANGED socketVars
      PROVE  ShownMove
  BY <1>0, <1>2, Listed DEF ListNotices, ShownMove
<1>3. ASSUME NEW h \in Slots, NoticesFound(h), UNCHANGED socketVars
      PROVE  ShownMove
  BY <1>0, <1>3, ListFound, ListShown DEF NoticesFound, ShownMove
<1>4. CASE NoticeRequests
  <2>1. shown' = shown \/ \E h \in Slots : \E s \in Wires : ListNotices(h, s)
    BY <1>4 DEF NoticeRequests, checkAndNotifySubscriptionEnd,
       sendNotificationAfterSuccessPayment, MarkRequests, noticeVars
  <2>2. UNCHANGED socketVars  BY <1>4 DEF NoticeRequests
  <2> QED BY <1>1, <1>2, <2>1, <2>2
<1>5. CASE NoticesRun
  <2>1. shown' = shown \/ \E h \in Slots : NoticesFound(h) /\ UNCHANGED socketVars
    BY <1>5 DEF NoticesRun, NoticeStep, FindUsers, CreateNotices, MarkFinds, MarkWrites,
       noticeVars, Ripen, TakeNotice, PublishWs, PublishFails
  <2> QED BY <1>1, <1>3, <2>1
<1>6. CASE UNCHANGED noticeVars \/ GatewayRestarts
  BY <1>1, <1>6 DEF noticeVars, GatewayRestarts
<1> QED BY <1>0, <1>4, <1>5, <1>6 DEF NoticeMoves

LEMMA NoticesStay ==
  ASSUME BaseInv, SocketsInv, NoticesInv, [Next]_vars
  PROVE  NoticesInv'
<1>0. /\ MailInv' /\ NotesGrow /\ JobsInv /\ NoticeMoves /\ DOMAIN shown' = Wires
      /\ \A s \in Wires : ShownOK(s)' /\ ShownType(s)' /\ ShowsMore(s)
      /\ \A h \in Slots : Busy(h) => NoticeJob(h)
  BY MailStays, NotesMove, NoticesMove, ShownMoves DEF ShownMove, BaseInv, NoticesInv
<1>1. NoticesTypeOK(Users)'
  BY <1>0 DEF NotesGrow, Notes, NoticesTypeOK, ShownType
<1>2. ASSUME NEW g \in Slots, Stays(g)
      PROVE  (Busy(g))' => NoticeJob(g)'
  BY <1>0, <1>2, NoticeJobKept DEF ShowsMore
<1>3. ASSUME NEW g \in Slots PROVE (Busy(g))' => NoticeJob(g)'
  <2>1. CASE NoticeKept
    <3>1. CASE job'[g].op \in NoticeOps
      BY <1>2, <2>1, <3>1 DEF NoticeKept
    <3>2. CASE job'[g].op \notin NoticeOps
      BY <3>2 DEF NoticeJob
    <3> QED BY <3>1, <3>2
  <2>2. CASE job' = job
    BY <1>0, <1>2, <2>2, JobUnchanged
  <2>3. CASE \E h \in Slots : Reading(h)
    BY <1>2, <2>3 DEF Reading, OthersStay
  <2>4. CASE GatewayRestarts
    BY <2>4 DEF GatewayRestarts, Busy
  <2> QED BY <1>0, <2>1, <2>2, <2>3, <2>4, NoticeRequestsRead, NoticesRead DEF NoticeMoves
<1> QED BY <1>0, <1>1, <1>3 DEF NoticesInv

\* A client whose answer came has all his notifications.
LEMMA ServedMoves ==
  ASSUME BaseInv, SocketsInv, NoticesInv, [Next]_vars, faults' = faults
  PROVE  \A s \in Wires :
           Served(s)' => Served(s) \/ (UsersNotes(s) \subseteq shown'[s].rows /\ notes' = notes)
<1>0. JobsInv /\ NoticeMoves /\ faults \in Nat  BY NoticesMove, SceneBounds DEF BaseInv, SceneInv
<1> SUFFICES ASSUME NEW s \in Wires, Served(s)', NEW g \in Slots,
                    Busy(g), job[g].op = "notices", job[g].pc = "find", Arg(g) = s
             PROVE  UsersNotes(s) \subseteq shown'[s].rows /\ notes' = notes
  BY DEF Served, At
<1>1. ~Stays(g)
  BY <1>0, StaysSame DEF Served, At, Arg
<1>2. \E h \in Slots : Reading(h)
  <2>1. ~NoticeKept  BY <1>0, <1>1 DEF NoticeKept
  <2>2. ~GatewayRestarts  BY <1>0 DEF GatewayRestarts
  <2>3. job' # job  BY <1>0, <1>1, JobUnchanged
  <2> QED BY <1>0, <2>1, <2>2, <2>3, NoticeRequestsRead, NoticesRead DEF NoticeMoves
<1>3. NoticesFound(g)  BY <1>1, <1>2 DEF Reading, OthersStay
<1> QED BY <1>3, ListShown DEF NoticesFound

(***************************************************************************)
(* Who is told.                                                            *)
(***************************************************************************)

LEMMA NoticesTold ==
  ASSUME BaseInv, SocketsInv, NoticesInv, Failures = 0 => NoticesAreTold, [Next]_vars
  PROVE  (Failures = 0 => NoticesAreTold)'
<1> SUFFICES ASSUME Failures' = 0 PROVE NoticesAreTold'  OBVIOUS
<1>0. /\ NoticesAreTold /\ faults' = faults /\ faults \in Nat
      /\ NotesGrow /\ ShownMove
      /\ \/ UNCHANGED notes /\ fresh \subseteq fresh'
         \/ UNCHANGED notes /\ \E n \in fresh : PublishWs(n) /\ fresh' = fresh \ {n}
         \/ fresh' = fresh \cup (DOMAIN notes' \ DOMAIN notes)
  BY NothingFails, NotesMove, ShownMoves, SceneBounds DEF BaseInv, SceneInv
<1>1. /\ \A s \in Wires : wire'[s].state = "open" => HearsOn(s)
      /\ \A s \in Wires :
           Served(s)' => Served(s) \/ (UsersNotes(s) \subseteq shown'[s].rows /\ notes' = notes)
  BY <1>0, SocketsMove, Hearers, ServedMoves
<1>2. /\ notes \in Seq(Notes) /\ DOMAIN notes = 1..Len(notes) /\ Len(notes) \in Nat
      /\ fresh \subseteq DOMAIN notes
  BY LenProperties DEF NoticesInv, NoticesTypeOK, Notes
<1> SUFFICES ASSUME NEW n \in DOMAIN notes' \ fresh', NEW s \in Wires,
                    wire'[s].state = "open", wire'[s].user = notes'[n].user
             PROVE  /\ heard'[s].since.notes < n => <<"note", n>> \in heard'[s].got
                    /\ shown'[s].asked = "open" /\ Served(s)' =>
                         <<"note", n>> \in heard'[s].got \/ n \in shown'[s].rows
  BY DEF NoticesAreTold, Served
<1>3. HearsOn(s)  BY <1>1
<1>4. n \in DOMAIN notes /\ notes'[n].user = notes[n].user  BY <1>0 DEF NotesGrow
<1>5. CASE n \in fresh
  <2>1. PublishWs(n)  BY <1>0, <1>5
  <2>2. wire' = wire /\ Emit(userSockets[notes[n].user], <<"note", n>>)
    BY <2>1 DEF PublishWs, Emit
  <2>3. s \in userSockets[notes[n].user] /\ Talks(s)
    <3>1. notes[n].user \in Users /\ wire[s].user = notes[n].user /\ wire[s].state = "open"
      <4>1. notes[n] \in Notes  BY <1>2, <1>4, ElementOfSeq
      <4>2. notes[n].user \in Users  BY <4>1 DEF Notes
      <4> QED BY <1>4, <2>2, <4>2
    <3> QED BY <3>1 DEF SocketsInv, Entered, Talks
  <2>4. heard'[s] = [heard[s] EXCEPT !.got = @ \cup {<<"note", n>>}]
    BY <2>2, <2>3 DEF Emit
  <2> QED BY <2>4 DEF SocketsInv, HeardOK
<1>6. CASE n \notin fresh
  <2>1. CASE /\ wire[s].state = "open" /\ wire'[s].user = wire[s].user
             /\ heard'[s].since = heard[s].since /\ heard[s].got \subseteq heard'[s].got
    <3>1. /\ heard[s].since.notes < n => <<"note", n>> \in heard[s].got
          /\ shown[s].asked = "open" /\ Served(s) => <<"note", n>> \in heard[s].got \/ n \in shown[s].rows
      BY <1>0, <1>4, <1>6, <2>1 DEF NoticesAreTold, Served
    <3>2. n \in UsersNotes(s)  BY <1>4, <2>1 DEF UsersNotes
    <3>3. shown[s].rows \subseteq shown'[s].rows
          /\ (shown'[s].asked = "open" /\ Served(s)' => shown[s].asked = "open")
      BY <1>0 DEF ShownMove, ShowsMore
    <3> QED BY <1>1, <2>1, <3>1, <3>2, <3>3
  <2>2. CASE /\ wire[s].state = "checking"
             /\ heard'[s].since = [messages |-> Len(messages), notes |-> Len(notes)]
    <3>1. ~(heard'[s].since.notes < n)  BY <1>2, <1>4, <2>2
    <3>2. shown[s].asked # "open"  BY <2>2 DEF NoticesInv, ShownOK
    <3> QED BY <1>0, <3>1, <3>2 DEF ShownMove
  <2> QED BY <1>3, <2>1, <2>2 DEF HearsOn
<1> QED BY <1>5, <1>6

ToldInv ==
  /\ BaseInv /\ SocketsInv /\ EventsInv /\ NoticesInv
  /\ Failures = 0 => MessagesAreTold
  /\ Failures = 0 => NoticesAreTold

LEMMA ToldInit == Init => ToldInv
<1> SUFFICES ASSUME Init PROVE ToldInv  OBVIOUS
<1>1. /\ wire = [s \in Wires |-> [state |-> "new", user |-> Stranger]]
      /\ clients = {} /\ rooms = {} /\ userSockets = [u \in Users |-> {}]
      /\ heard = [s \in Wires |-> [since |-> [messages |-> 0, notes |-> 0], got |-> {}]]
      /\ job = [h \in Slots |-> Idle]
      /\ mail = [late |-> <<>>, ready |-> <<>>] /\ notes = <<>> /\ fresh = {}
      /\ shown = [s \in Wires |-> [asked |-> "new", rows |-> {}]]
      /\ events = {} /\ queue = {}
  BY PastRows DEF Init, SocketsInit, NoticesInit, HandlersInit
<1>2. SocketsInv
  <2>1. DOMAIN wire = Wires /\ \A s \in Wires : DOMAIN wire[s] = {"state", "user"} /\ wire[s].state = "new"
    BY <1>1
  <2>2. HeardOK  BY <1>1 DEF HeardOK
  <2>3. Entered = {}  BY <2>1 DEF Entered
  <2> QED BY <1>1, <2>1, <2>2, <2>3 DEF SocketsInv, States
<1>3. EventsInv  BY <1>1 DEF EventsInv
<1>4. NoticesInv
  <2>1. MailInv  BY <1>1 DEF MailInv
  <2>2. NoticesTypeOK(Users)  BY <1>1 DEF NoticesTypeOK
  <2>3. DOMAIN shown = Wires /\ \A s \in Wires : ShownOK(s)  BY <1>1 DEF ShownOK
  <2>4. \A h \in Slots : ~Busy(h)  BY <1>1 DEF Busy
  <2> QED BY <2>1, <2>2, <2>3, <2>4 DEF NoticesInv
<1>5. MessagesAreTold /\ NoticesAreTold
  BY <1>1 DEF MessagesAreTold, NoticesAreTold
<1> QED BY <1>2, <1>3, <1>4, <1>5, BaseInit DEF ToldInv

LEMMA ToldStays ==
  ASSUME ToldInv, [Next]_vars
  PROVE  ToldInv'
<1>1. DOMAIN chats \subseteq DOMAIN chats' /\ SocketMoves
  BY BaseMoves, SocketsMove DEF ToldInv, RowsGrow
<1>2. BaseInv' /\ SocketsInv' /\ EventsInv' /\ NoticesInv'
  BY <1>1, BaseStays, SocketsStay, EventsStay, NoticesStay DEF ToldInv
<1>3. (Failures = 0 => MessagesAreTold)' /\ (Failures = 0 => NoticesAreTold)'
  BY MessagesTold, NoticesTold DEF ToldInv
<1> QED BY <1>2, <1>3 DEF ToldInv

\* Whoever was connected before a message or a notification was made for him,
\* and still is, has been told of it when all events are handled and nothing has
\* failed.  New messages and notifications wait as events, which reach every
\* socket in the maps; who is entered in them later was not there before.
THEOREM AddresseeIsToldAlways == Spec => []AddresseeIsTold
<1>1. Init => ToldInv  BY ToldInit
<1>2. ToldInv /\ [Next]_vars => ToldInv'  BY ToldStays
<1>3. ToldInv => AddresseeIsTold  BY DEF ToldInv, AddresseeIsTold
<1> QED BY <1>1, <1>2, <1>3, PTL DEF Spec

(***************************************************************************)
(* Types.                                                                  *)
(***************************************************************************)

RecordsInv ==
  /\ \A x \in DOMAIN chats : chats[x] = [who |-> chats[x].who, alone |-> chats[x].alone]
  /\ \A m \in DOMAIN messages :
       LET row == messages[m] IN
       row = [live |-> row.live, chat |-> row.chat, sender |-> row.sender, to |-> row.to,
              kind |-> row.kind, readers |-> row.readers]

LEMMA RecordsInit == Init => RecordsInv
<1> SUFFICES ASSUME Init PROVE RecordsInv  OBVIOUS
<1>1. PICK u \in scene.people : \E to \in [1..scene.past -> scene.people] :
        LET others == {to[i] : i \in 1..scene.past} IN
        \E with \in Bijection(1..Cardinality(others), others) :
          /\ chats = [i \in DOMAIN with |-> [who |-> {u, with[i]}, alone |-> TRUE]]
          /\ messages = [i \in 1..scene.past |->
               [live |-> TRUE, sender |-> u, to |-> to[i], kind |-> "text", readers |-> {u},
                chat |-> CHOOSE c \in DOMAIN with : with[c] = to[i]]]
  BY DEF Init, Past
<1>2. PICK to \in [1..scene.past -> scene.people] :
        LET others == {to[i] : i \in 1..scene.past} IN
        \E with \in Bijection(1..Cardinality(others), others) :
          /\ chats = [i \in DOMAIN with |-> [who |-> {u, with[i]}, alone |-> TRUE]]
          /\ messages = [i \in 1..scene.past |->
               [live |-> TRUE, sender |-> u, to |-> to[i], kind |-> "text", readers |-> {u},
                chat |-> CHOOSE c \in DOMAIN with : with[c] = to[i]]]
  BY <1>1
<1> DEFINE others == {to[i] : i \in 1..scene.past}
<1>3. PICK with \in Bijection(1..Cardinality(others), others) :
        /\ chats = [i \in DOMAIN with |-> [who |-> {u, with[i]}, alone |-> TRUE]]
        /\ messages = [i \in 1..scene.past |->
             [live |-> TRUE, sender |-> u, to |-> to[i], kind |-> "text", readers |-> {u},
              chat |-> CHOOSE c \in DOMAIN with : with[c] = to[i]]]
  BY <1>2
<1> QED BY <1>3 DEF RecordsInv

LEMMA RecordsStay ==
  ASSUME BaseInv, RecordsInv, [Next]_vars
  PROVE  RecordsInv'
<1>0. CallSteps /\ CallsInv /\ IsSeq(chats) /\ IsSeq(messages)
  BY BaseMoves DEF BaseInv, DataInv, RowsInv
<1>1. CASE UNCHANGED <<chats, messages>>  BY <1>1 DEF RecordsInv
<1>2. ASSUME NEW c, NEW d, Creates(c, d) PROVE RecordsInv'
  <2> DEFINE chat == IF c.got = 0 THEN Len(chats) + 1 ELSE c.got
             x(alone) == [who |-> {c.arg.user, c.arg.to}, alone |-> alone]
             row == [live |-> TRUE, chat |-> chat, sender |-> c.arg.user, to |-> c.arg.to,
                     kind |-> c.arg.kind, readers |-> {c.arg.user}]
  <2> PICK alone : alone = \A e \in calls \ {c} : ~CallAt(e, "sendMessage", "write")  OBVIOUS
  <2>1. /\ chats' = chats \/ chats' = Append(chats, x(alone))
        /\ messages' = Append(messages, row)
    BY <1>2 DEF Creates
  <2>2. /\ x(alone) = [who |-> x(alone).who, alone |-> x(alone).alone]
        /\ row = [live |-> row.live, chat |-> row.chat, sender |-> row.sender, to |-> row.to,
                  kind |-> row.kind, readers |-> row.readers]
    OBVIOUS
  <2> HIDE DEF x, row
  <2>3. \A y \in DOMAIN chats' : (y \in DOMAIN chats /\ chats'[y] = chats[y]) \/ chats'[y] = x(alone)
    <3>1. CASE chats' = chats  BY <3>1
    <3>2. CASE chats' = Append(chats, x(alone))
      <4> PICK e : e = x(alone)  OBVIOUS
      <4>1. IsSeq(chats) /\ chats' = Append(chats, e)  BY <1>0, <3>2
      <4> HIDE DEF x
      <4> QED BY <4>1, OneMore
    <3> QED BY <2>1, <3>1, <3>2
  <2>4. \A m \in DOMAIN messages' :
          (m \in DOMAIN messages /\ messages'[m] = messages[m]) \/ messages'[m] = row
    BY <1>0, <2>1, SeqAppended
  <2> QED BY <2>2, <2>3, <2>4 DEF RecordsInv
<1>3. ASSUME NEW c, NEW d, IsRead(c, d) PROVE RecordsInv'
  BY <1>3 DEF IsRead, RecordsInv
<1>4. ASSUME NEW c, NEW d, Removes(c, d) PROVE RecordsInv'
  BY <1>4 DEF Removes, RecordsInv
<1> QED BY <1>0, <1>1, <1>2, <1>3, <1>4, RowSteps

LEMMA TypesHold ==
  ASSUME ToldInv, RecordsInv
  PROVE  TypeOK
<1>0. /\ CallsInv /\ JobsInv /\ SceneInv /\ RowsInv /\ LatestInv /\ SocketsInv /\ NoticesInv
      /\ docs \subseteq DOMAIN messages /\ asked \subseteq DOMAIN messages
      /\ IsSeq(messages) /\ IsSeq(chats) /\ EventsInv
  BY DEF ToldInv, BaseInv, DataInv, RowsInv
<1>1. DOMAIN messages \subseteq 1..MaxMessages
  BY <1>0, SeqDomain, ChatsBounds DEF RowsInv
<1>2. MessengerTypeOK
  <2>1. chats \in Seq([who : (SUBSET Users) \ {{}}, alone : BOOLEAN])
    <3>1. ASSUME NEW x \in DOMAIN chats
          PROVE  chats[x] \in [who : (SUBSET Users) \ {{}}, alone : BOOLEAN]
      <4>1. chats[x].who \in (SUBSET Users) \ {{}} /\ chats[x].alone \in BOOLEAN
        BY <1>0 DEF RowsInv
      <4> QED BY <4>1 DEF RecordsInv
    <3> PICK s : s = chats  OBVIOUS
    <3> PICK R : R = [who : (SUBSET Users) \ {{}}, alone : BOOLEAN]  OBVIOUS
    <3>2. IsSeq(s) /\ \A x \in DOMAIN s : s[x] \in R  BY <1>0, <3>1
    <3>3. s \in Seq(R)  BY <3>2, TypedSeq
    <3> QED BY <3>3
  <2>2. messages \in Seq([live : BOOLEAN, chat : DOMAIN chats, sender : Users, to : Users,
                          kind : Kinds, readers : SUBSET Users])
    <3>1. ASSUME NEW m \in DOMAIN messages
          PROVE  messages[m] \in [live : BOOLEAN, chat : DOMAIN chats, sender : Users, to : Users,
                                  kind : Kinds, readers : SUBSET Users]
      BY <1>0 DEF RowsInv, RecordsInv
    <3> PICK s : s = messages  OBVIOUS
    <3> PICK R : R = [live : BOOLEAN, chat : DOMAIN chats, sender : Users, to : Users,
                      kind : Kinds, readers : SUBSET Users]
      OBVIOUS
    <3>2. IsSeq(s) /\ \A m \in DOMAIN s : s[m] \in R  BY <1>0, <3>1
    <3>3. s \in Seq(R)  BY <3>2, TypedSeq
    <3> QED BY <3>3
  <2>3. ASSUME NEW e \in events \cup queue PROVE e \in Events
    <3>1. e = [message |-> e.message, to |-> e.to] /\ e.message \in 1..MaxMessages /\ e.to \in Users
      BY <1>0, <1>1 DEF EventsInv, RowsInv
    <3> QED BY <3>1 DEF Events
  <2> QED BY <1>0, <2>1, <2>2, <2>3 DEF MessengerTypeOK, CallsInv, RowsInv
<1>3. SocketsTypeOK(Users, DOMAIN chats)
  BY <1>0 DEF SocketsInv, SocketsTypeOK, Entered
<1>4. latest.message \in 0..MaxMessages /\ latest.user \in Users \cup {Stranger}
  BY <1>0, <1>1, ChatsBounds DEF LatestInv
<1>5. HandlersTypeOK(Ops)
  BY <1>0, SceneBounds DEF JobsInv, JobOK, SceneInv, HandlersTypeOK, Busy, Fields
<1> QED BY <1>0, <1>2, <1>3, <1>4, <1>5 DEF TypeOK, NoticesInv

\* The state of the gateway's sockets, of its handlers, of the messenger's rows
\* and events, and of the notifications has its type; in particular the two maps
\* of sockets agree, and whoever has sent a message has read it.
THEOREM ChatsTyped == Spec => []TypeOK
<1>1. Init => ToldInv /\ RecordsInv  BY ToldInit, RecordsInit
<1>2. ToldInv /\ RecordsInv /\ [Next]_vars => (ToldInv /\ RecordsInv)'
  BY ToldStays, RecordsStay DEF ToldInv
<1>3. ToldInv /\ RecordsInv => TypeOK  BY TypesHold
<1> QED BY <1>1, <1>2, <1>3, PTL DEF Spec
===============================================================================
