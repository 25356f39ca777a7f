-------------------------------- MODULE Chats --------------------------------
(***************************************************************************)
(* The gateway's side of the messenger: its use cases call the messenger   *)
(* service and the files service, its sockets are told what happened.      *)
(***************************************************************************)
EXTENDS Messenger, Notices, Functions

CONSTANTS
  Stranger,  \* the id of nobody
  NoWire,    \* a request over HTTP
  Scenes     \* what a behaviour is about, see Init

VARIABLES
  latest,    \* the fields newMessageId and currentUserId of the one
             \* SendMessageUseCase, [message, user]
  asked,     \* history: messages whose sender asked for their removal
  banned,    \* users banned
  list,      \* a list of chats or messages being read, see OpenList
  scene      \* what this behaviour is about, and its bounds

vars == <<messengerVars, docs, socketVars, handlerVars, latest, asked, banned, list, noticeVars, scene>>

Ops == {"send", "read", "remove", "join", "leave", "list", "notice", "mark", "notices"}

ListKinds == {"chats", "messages"}

\* The operations requested, the kinds of message sent, the lists read and the
\* size of their pages (by who sent the first messages, while one is sent in
\* his chats, or removed); who takes part; how many messages there are at
\* first; the bounds, of which wires is that on the sockets opened; whether
\* users are banned.
ASSUME ScenesAssumption ==
  Scenes \subseteq [ops : SUBSET Ops, kinds : SUBSET Kinds,
                    lists : SUBSET (ListKinds \X {1, 2}), people : SUBSET Users, past : Nat,
                    moves : Nat, faults : Nat, wires : Nat, bans : BOOLEAN]
ASSUME ChatsBounds ==
  /\ MaxMessages \in Nat /\ Stranger \notin Users /\ NoWire \notin Wires
  /\ \A x \in Scenes : x.past <= MaxMessages /\ (x.lists # {} => x.past > 0)

\* Messages with text from one user to others, in their chats.  He has a chat
\* with himself only if he wrote to himself before he had any other.
Past ==
  /\ \E u \in scene.people : \E to \in [1..scene.past -> scene.people] :
     LET others == {to[i] : i \in 1..scene.past} IN
     /\ u \in others => to[1] = u
     /\ \E with \in Bijection(1..Cardinality(others), others) :
          /\ chats = [i \in DOMAIN with |-> [who |-> {u, with[i]}, alone |-> TRUE]]
          /\ messages = [i \in 1..scene.past |->
               [live |-> TRUE, sender |-> u, to |-> to[i], kind |-> "text", readers |-> {u},
                chat |-> CHOOSE c \in DOMAIN with : with[c] = to[i]]]
  /\ made = 0 /\ calls = {} /\ early = {} /\ events = {} /\ queue = {}

Init ==
  /\ scene \in Scenes
  /\ Past /\ docs = {} /\ SocketsInit(Users, Stranger)
  /\ HandlersInit(scene.moves, scene.faults)
  /\ latest = [message |-> 0, user |-> Stranger] /\ asked = {} /\ banned = {}
  /\ list = [open |-> FALSE] /\ NoticesInit

Arg(h) == job[h].arg

\* A request of the scene, where a list is opened first.
Ask(h, op, arg, pc) ==
  /\ op \in scene.ops /\ (scene.lists = {} \/ list.open)
  /\ Start(h, Request(op, arg, pc, {}))
  /\ UNCHANGED <<messengerVars, docs, socketVars, banned, list, noticeVars, scene>>

\* The handler calls a service and waits for the answer.
Call(h, name, value, op, arg) ==
  /\ Expect(h, name, value, {made + 1})
  /\ Send(op, arg, "find")
  /\ UNCHANGED <<chats, messages, early, events, queue, docs, socketVars, banned, list, noticeVars, scene>>

Answer(h, result) ==
  /\ Reply(h, result)
  /\ UNCHANGED <<messengerVars, docs, socketVars, latest, asked, banned, list, noticeVars, scene>>

\* The call of request h with this operation has been answered.
Waits(h, op) == Busy(h) /\ job[h].op = op /\ job[h].pc = "calls"
AnswersTo(h) == {c \in calls : Answered(c) /\ c.no \in job[h].todo}

\* The answer is taken and the handler calls again.
CallAgain(h, c, name, value, op, arg) ==
  /\ Expect(h, name, value, {made + 1})
  /\ made' = made + 1
  /\ calls' = (calls \ {c}) \cup {NewCall(op, arg, "find")}
  /\ UNCHANGED <<chats, messages, early, events, queue, docs, socketVars, banned, list, noticeVars, scene>>

\* The answer is taken and the request ends with it.
Forward(h, c) ==
  /\ IF c.answer.res = "Internal" THEN Abandon(h) ELSE Reply(h, c.answer.res)
  /\ calls' = calls \ {c}
  /\ UNCHANGED <<made, chats, messages, early, events, queue, docs>>

Rest == UNCHANGED <<latest, asked, banned, list, noticeVars, scene>>

(***************************************************************************)
(* SendMessageUseCase.                                                     *)
(***************************************************************************)

\* Messages with text are sent by a socket, those with a file over HTTP.
SendRequests(h) ==
  \E u \in scene.people, to \in scene.people \cup {Stranger}, kind \in scene.kinds,
     s \in Wires \cup {NoWire} :
    /\ IF s = NoWire THEN kind = "file" \/ scene.wires = 0
       ELSE kind = "text" /\ Talks(s) /\ wire[s].user = u /\ u \notin banned
    /\ scene.lists # {} => to # Stranger /\ list.open /\ list.user \in {u, to}
    /\ Ask(h, "send", [user |-> u, to |-> to, kind |-> kind, wire |-> s], "find")
    /\ latest' = [latest EXCEPT !.user = u]
    /\ UNCHANGED asked

SendFinds(h) ==
  /\ At(h, {"send"}, "find")
  /\ IF Arg(h).to \notin Users THEN Answer(h, "NotFound")
     ELSE /\ Call(h, "to", Arg(h).to, "sendMessage",
                  [user |-> Arg(h).user, to |-> Arg(h).to, kind |-> Arg(h).kind])
          /\ UNCHANGED <<latest, asked>>

\* A text is sent; a file is uploaded, its message kept in the fields.
SendReturns(h, c) ==
  /\ Waits(h, "send") /\ c.op = "sendMessage"
  /\ \/ /\ c.answer.res # "Success" /\ Forward(h, c) /\ UNCHANGED socketVars /\ Rest
     \/ /\ c.answer.res = "Success" /\ Arg(h).kind = "file"
        /\ CallAgain(h, c, "message", c.answer.message, "uploadFile",
                     [message |-> c.answer.message])
        /\ latest' = [latest EXCEPT !.message = c.answer.message]
        /\ UNCHANGED asked
     \/ /\ c.answer.res = "Success" /\ Arg(h).kind = "text"
        /\ Arg(h).wire = NoWire \/ isJoined(Arg(h).wire, c.answer.chat)
        /\ Forward(h, c) /\ UNCHANGED socketVars /\ Rest
     \/ /\ c.answer.res = "Success" /\ Arg(h).kind = "text"
        /\ Arg(h).wire # NoWire /\ ~isJoined(Arg(h).wire, c.answer.chat)
        /\ CallAgain(h, c, "chat", c.answer.chat, "getChat", [chat |-> c.answer.chat])
        /\ UNCHANGED <<latest, asked>>

UploadReturns(h, c) ==
  /\ Waits(h, "send") /\ c.op \in {"uploadFile", "removeMessages"}
  /\ IF c.op = "uploadFile" THEN Forward(h, c)
     ELSE /\ Abandon(h) /\ calls' = calls \ {c}
          /\ UNCHANGED <<made, chats, messages, early, events, queue, docs>>
  /\ UNCHANGED socketVars /\ Rest

\* Something was thrown: the catch block removes the message the fields name,
\* whichever that is by now, as the user they name.
Catches(h) ==
  /\ At(h, {"send"}, "find") \/ (Waits(h, "send") /\ \A c \in calls :
                                   c.no \in job[h].todo => c.op = "uploadFile")
  /\ latest.message # 0
  /\ faults > 0 /\ faults' = faults - 1
  /\ job' = [job EXCEPT ![h].todo = {made + 1}, ![h].pc = "calls"]
  /\ Send("removeMessages", [user |-> latest.user, messages |-> {latest.message}], "find")
  /\ UNCHANGED <<chats, messages, early, events, queue, docs, socketVars, moves, oops>>
  /\ Rest

(***************************************************************************)
(* ReadMessageUseCase, RemoveMessagesUseCase.                              *)
(***************************************************************************)

ReadRequests(h) ==
  \E u \in scene.people \ banned, m \in DOMAIN messages :
    /\ "read" \in scene.ops
    /\ Start(h, [Request("read", [user |-> u], "calls", {made + 1}) EXCEPT !.alone = FALSE])
    /\ Send("readMessage", [user |-> u, message |-> m], "find")
    /\ UNCHANGED <<chats, messages, early, events, queue, docs, socketVars>> /\ Rest

ReadReturns(h, c) ==
  /\ Waits(h, "read")
  /\ Forward(h, c) /\ UNCHANGED socketVars /\ Rest

RemoveRequests(h) ==
  \E u \in scene.people, M \in (SUBSET DOMAIN messages) \ {{}} :
    /\ scene.lists # {} => \E m \in LiveRows(messages) : M = {m} /\ messages[m].sender = u
    /\ Ask(h, "remove", [user |-> u, messages |-> M], "find")
    /\ asked' = asked \cup {m \in M : messages[m].sender = u}
    /\ UNCHANGED latest

RemoveFinds(h) ==
  /\ At(h, {"remove"}, "find")
  /\ Call(h, "user", Arg(h).user, "removeMessages", Arg(h))
  /\ UNCHANGED <<latest, asked>>

RemoveReturns(h, c) ==
  /\ Waits(h, "remove")
  /\ \/ /\ c.op = "removeMessages" /\ c.answer.res = "Success"
        /\ CallAgain(h, c, "removed", TRUE, "deleteFiles", [messages |-> Arg(h).messages])
        /\ UNCHANGED <<latest, asked>>
     \/ /\ c.op = "deleteFiles" \/ c.answer.res # "Success"
        /\ Forward(h, c) /\ UNCHANGED socketVars /\ Rest

(***************************************************************************)
(* The rooms of MessengerWsGateway.                                        *)
(***************************************************************************)

RoomRequests(h) ==
  \E s \in Wires, chat \in 1..Len(chats) + 1 :
    /\ Talks(s) /\ wire[s].user \notin banned
    /\ \/ "join" \in scene.ops /\ ~isJoined(s, chat)
          /\ Start(h, Request("join", [wire |-> s, chat |-> chat], "calls", {made + 1}))
       \/ "leave" \in scene.ops /\ isJoined(s, chat)
          /\ Start(h, Request("leave", [wire |-> s, chat |-> chat], "calls", {made + 1}))
    /\ Send("getChat", [chat |-> chat], "find")
    /\ UNCHANGED <<chats, messages, early, events, queue, docs, socketVars>> /\ Rest

RoomReturns(h, c) ==
  /\ Busy(h) /\ job[h].pc = "calls" /\ c.op = "getChat"
  /\ Forward(h, c)
  /\ IF c.answer.res # "Success" THEN UNCHANGED socketVars
     ELSE LET chat == IF job[h].op = "send" THEN job[h].got["chat"] ELSE Arg(h).chat IN
          IF job[h].op = "leave" THEN leaveRoom(Arg(h).wire, chat) ELSE joinRoom(Arg(h).wire, chat)
  /\ Rest

(***************************************************************************)
(* GetUserChatsQueryUseCase, GetChatMessagesQueryUseCase: a list is read   *)
(* page by page, each after the last entry of the one before.              *)
(*   kind, user, chat, size   the query                                    *)
(*   seen, over     the entries shown, and that the last page was not full *)
(*   was            history: the entries at first, a chat with its newest  *)
(*                  message                                                *)
(*   since          history: how many messages there were then             *)
(***************************************************************************)

OpenList(kind, u, size) ==
  /\ ~list.open
  /\ \E chat \in IF kind = "chats" THEN {0} ELSE DOMAIN chats :
       list' = [open |-> TRUE, kind |-> kind, user |-> u, chat |-> chat, size |-> size,
                seen |-> <<>>, over |-> FALSE, since |-> Len(messages),
                was |-> IF kind = "messages" THEN [m \in MessagesOf(chat) |-> m]
                        ELSE [x \in ChatsOf(u, u) |-> LastMessage(x)]]
  /\ UNCHANGED <<messengerVars, docs, socketVars, handlerVars, latest, asked, banned, noticeVars, scene>>

ListRequests(h) ==
  /\ list.open /\ ~list.over
  /\ \A g \in Slots : Busy(g) => job[g].op # "list"
  /\ Start(h, Request("list", <<>>, "calls", {made + 1}))
  /\ Send(IF list.kind = "chats" THEN "getChats" ELSE "getMessages",
          [user |-> list.user, chat |-> list.chat, size |-> list.size,
           after |-> IF list.seen = <<>> THEN 0 ELSE list.seen[Len(list.seen)]], "find")
  /\ UNCHANGED <<chats, messages, early, events, queue, docs, socketVars>> /\ Rest

ShowPage(h, c) ==
  /\ Forward(h, c)
  /\ list' = IF c.answer.res # "Success" THEN list
             ELSE [list EXCEPT !.seen = @ \o c.answer.page,
                               !.over = Len(c.answer.page) < list.size]
  /\ UNCHANGED <<socketVars, latest, asked, banned, noticeVars, scene>>

\* The other participant of each chat is looked up: to have none throws.  A
\* chat with a user who was deleted is left out, as is a message whose file
\* does not come; neither happens here.
ChatsReturn(h, c) ==
  /\ Waits(h, "list") /\ c.op = "getChats"
  /\ IF \E i \in DOMAIN c.answer.page : WithOneself(c.answer.page[i])
     THEN /\ Reply(h, "Internal") /\ calls' = calls \ {c}
          /\ UNCHANGED <<made, chats, messages, early, events, queue, docs, socketVars>> /\ Rest
     ELSE ShowPage(h, c)
MessagesReturn(h, c) ==
  Waits(h, "list") /\ c.op = "getMessages" /\ ShowPage(h, c)

(***************************************************************************)
(* NewMessageEventHandler of the gateway.                                  *)
(***************************************************************************)

\* handleMessage tries five times to get the file.
Deliver(e) ==
  /\ e \in queue
  /\ queue' = queue \ {e}
  /\ \/ /\ messages[e.message].kind = "text" \/ e.message \in docs
        /\ Emit(userSockets[e.to] \cup InRoom(messages[e.message].chat), <<"message", e.message>>)
        /\ UNCHANGED faults
     \/ /\ messages[e.message].kind = "file" /\ e.message \notin docs
        /\ faults > 0 /\ faults' = faults - 1
        /\ UNCHANGED socketVars
  /\ UNCHANGED <<made, calls, chats, messages, early, events, docs, job, moves, oops>> /\ Rest

(***************************************************************************)
(* Notifications.                                                          *)
(***************************************************************************)

\* Payments tells, of one row that is due or of two, which makes at most two
\* notifications; a user marks one and asks for his list.
NoticeRequests ==
  /\ \/ /\ "notice" \in scene.ops
        /\ \/ \E row \in [user : scene.people \cup {Stranger}, left : {1, 7}, autoRenewal : BOOLEAN] :
                checkAndNotifySubscriptionEnd(<<row>>)
           \/ \E users \in Injection(1..2, scene.people \cup {Stranger}) :
                checkAndNotifySubscriptionEnd(
                  [i \in 1..2 |-> [user |-> users[i], left |-> 7, autoRenewal |-> TRUE]])
     \/ "notice" \in scene.ops /\ \E u \in scene.people : sendNotificationAfterSuccessPayment(u)
     \/ "mark" \in scene.ops /\ \E h \in Slots, u \in scene.people : MarkRequests(h, u)
     \/ "notices" \in scene.ops /\ \E h \in Slots, s \in Wires : ListNotices(h, s)
  /\ UNCHANGED <<messengerVars, docs, socketVars, latest, asked, banned, list, scene>>

NoticesRun ==
  /\ \/ \E h \in Slots : NoticeStep(h, Users) /\ UNCHANGED socketVars
     \/ (Ripen \/ \E h \in Slots : TakeNotice(h)) /\ UNCHANGED socketVars
     \/ \E n \in fresh : PublishWs(n) \/ PublishFails(n)
  /\ UNCHANGED <<messengerVars, docs, latest, asked, banned, list, scene>>

(***************************************************************************)
(* Connections, failures.                                                  *)
(***************************************************************************)

SocketStep(s) ==
  /\ \/ /\ Cardinality({r \in Wires : wire[r].state # "new"}) < scene.wires
        /\ \E u \in scene.people : Connect(s, u)
     \/ wire[s].user \notin banned /\ Accept(s, [messages |-> Len(messages), notes |-> Len(notes)])
     \/ wire[s].user \in banned /\ Refuse(s)
     \/ Disconnect(s)
  /\ UNCHANGED <<messengerVars, docs, handlerVars>> /\ Rest

\* The database fails under the check of a token.
CheckFails(s) ==
  /\ faults > 0 /\ faults' = faults - 1 /\ Refuse(s)
  /\ UNCHANGED <<messengerVars, docs, job, moves, oops>> /\ Rest

BanUser(u) ==
  /\ scene.bans /\ moves > 0 /\ moves' = moves - 1
  /\ u \notin banned /\ banned' = banned \cup {u}
  /\ UNCHANGED <<messengerVars, docs, socketVars, job, faults, oops, latest, asked, list, noticeVars, scene>>

\* An await fails or times out without a message to remove.
GatewayFails(h) ==
  /\ Fail(h)
  /\ job[h].op = "send" =>
       latest.message = 0 \/ \E c \in calls : c.no \in job[h].todo /\ c.op \in MessengerOps
  /\ UNCHANGED <<messengerVars, docs, socketVars>> /\ Rest

\* The caller waits no longer.
Unheard(c) ==
  /\ c \in calls /\ Answered(c)
  /\ \A h \in Slots : Busy(h) => c.no \notin job[h].todo
  /\ calls' = calls \ {c}
  /\ UNCHANGED <<made, chats, messages, early, events, queue, docs, socketVars, handlerVars>>
  /\ Rest

GatewayRestarts ==
  /\ faults > 0 /\ faults' = faults - 1
  /\ job' = [h \in Slots |-> Idle]
  /\ SocketsStop
  /\ latest' = [message |-> 0, user |-> Stranger]
  /\ fresh' = {}
  /\ UNCHANGED <<messengerVars, docs, moves, oops, asked, banned, list, mail, notes, shown, scene>>

ServicesFail ==
  /\ faults > 0 /\ faults' = faults - 1
  /\ \/ (\E c \in calls : MessengerFails(c)) /\ UNCHANGED docs
     \/ MessengerStops /\ UNCHANGED docs
     \/ \E c \in calls : FilesFail(c)
  /\ UNCHANGED <<socketVars, job, moves, oops>> /\ Rest

ServicesRun ==
  /\ \/ (\E c \in calls : MessengerStep(c) \/ QueryStep(c)) /\ UNCHANGED docs
     \/ (\E e \in events : Tell(e)) /\ UNCHANGED docs
     \/ \E c \in calls : FilesStep(c)
  /\ UNCHANGED <<socketVars, handlerVars>> /\ Rest

Next ==
  \/ \E h \in {g \in Slots : ~Busy(g) /\ moves > 0} :
       \/ SendRequests(h) \/ ReadRequests(h) \/ RemoveRequests(h) \/ RoomRequests(h)
       \/ ListRequests(h)
  \/ \E h \in {g \in Slots : Busy(g)} :
       \/ SendFinds(h) \/ RemoveFinds(h) \/ Catches(h) \/ GatewayFails(h)
       \/ \E c \in AnswersTo(h) :
            \/ SendReturns(h, c) \/ UploadReturns(h, c) \/ ReadReturns(h, c)
            \/ RemoveReturns(h, c) \/ RoomReturns(h, c)
            \/ ChatsReturn(h, c) \/ MessagesReturn(h, c)
  \/ \E s \in Wires : SocketStep(s) \/ CheckFails(s)
  \/ \E e \in queue : Deliver(e)
  \/ \E c \in calls : Unheard(c)
  \/ \E u \in scene.people : BanUser(u)
  \/ \E kind \in scene.lists : OpenList(kind[1], messages[1].sender, kind[2])
  \/ NoticeRequests \/ NoticesRun
  \/ ServicesRun \/ ServicesFail \/ GatewayRestarts

Spec == Init /\ [][Next]_vars

(***************************************************************************)
(* Properties.                                                             *)
(***************************************************************************)

TypeOK ==
  /\ MessengerTypeOK
  /\ docs \subseteq DOMAIN messages /\ asked \subseteq DOMAIN messages
  /\ SocketsTypeOK(Users, DOMAIN chats)
  /\ latest.message \in 0..MaxMessages /\ latest.user \in Users \cup {Stranger}
  /\ HandlersTypeOK(Ops) /\ NoticesTypeOK(Users)

Failures == scene.faults - faults

\* A message is deleted because its sender asked for it.  Otherwise a send
\* that failed has taken it along, which may be another's, or one answered
\* long before: the fields naming it are shared by all requests and never
\* reset.  So each failure takes one message at most, and only with a file.
StaysUntilAskedFor ==
  LET lost == {m \in DOMAIN messages : ~messages[m].live /\ m \notin asked} IN
  /\ Cardinality(lost) <= Failures
  /\ \A m \in lost : messages[m].kind = "file"

\* A message is in a chat of its sender and its addressee and of nobody else,
\* unless it was sent to oneself; two users have a second chat only when first
\* messages overlapped.
ChatOfTheTwo ==
  /\ \A m \in DOMAIN messages :
       LET two == {messages[m].sender, messages[m].to}  who == chats[messages[m].chat].who IN
       two \subseteq who /\ (Cardinality(two) = 2 => who = two)
  /\ \A a, b \in DOMAIN chats :
       a # b /\ chats[a].who = chats[b].who => ~chats[a].alone \/ ~chats[b].alone

Quiet == calls = {} /\ \A h \in Slots : ~Busy(h)

\* Two services and no transaction: when nothing is under way and nothing has
\* failed, a message sent with a file has it, and a file has its message,
\* unless the message was removed while its file was on the way.
FilesGoWithMessages ==
  Quiet /\ Failures = 0 =>
    /\ \A m \in DOMAIN messages : messages[m].live /\ messages[m].kind = "file" => m \in docs
    /\ \A m \in docs : messages[m].live \/ m \in early

MessagesAreTold ==
  \A m \in DOMAIN messages, s \in Wires :
    LET row == messages[m] IN
    /\ row.live /\ chats[row.chat].who # {row.sender}
    /\ \A e \in events \cup queue : e.message # m
    /\ wire[s].state = "open" /\ wire[s].user = row.to /\ heard[s].since.messages < m
    => <<"message", m>> \in heard[s].got

\* A client who asked for his list once his token was checked has each row in
\* the list or from the socket.  One who asked as soon as he was connected may
\* have missed those emitted while the token was being checked.
NoticesAreTold ==
  \A n \in DOMAIN notes \ fresh, s \in Wires :
    wire[s].state = "open" /\ wire[s].user = notes[n].user =>
      /\ heard[s].since.notes < n => <<"note", n>> \in heard[s].got
      /\ shown[s].asked = "open" /\ (\A h \in Slots : At(h, {"notices"}, "find") => Arg(h) # s)
           => <<"note", n>> \in heard[s].got \/ n \in shown[s].rows

\* Whoever was connected before a message or a notification was made for him,
\* and still is, has been told of it when all events are handled and nothing
\* has failed: checks of tokens, disconnections, bans and joined rooms take no
\* part in it.
AddresseeIsTold == Failures = 0 => MessagesAreTold /\ NoticesAreTold

TimesSeen(x) == Cardinality({i \in DOMAIN list.seen : list.seen[i] = x})
IsSeen(x) == \E i \in DOMAIN list.seen : list.seen[i] = x

\* What happened to an entry while the list was read.
NewsIn(x) == \E m \in DOMAIN messages : m > list.since /\ messages[m].chat = x
Emptied(x) == MessagesOf(x) = {}
Shortened(x) == \E m \in DOMAIN messages : messages[m].chat = x /\ ~messages[m].live

\* Who reads his chats, or the messages of one, to the end has seen all that
\* stayed as they were meanwhile, and saw each once.  The time of the entry a
\* page begins after is read anew, so chats are skipped when the newest
\* message of a chat seen was deleted, and shown again when it got another or
\* lost its last; messages are shown again when one seen was deleted.  A page
\* with a chat with oneself, or of its messages, is answered with 500: no such
\* list is read to its end unless what cannot be shown is skipped or removed.
ReaderSeesAll ==
  list.open /\ list.over =>
    \A x \in DOMAIN list.was :
      IF list.kind = "messages"
      THEN messages[x].live =>
             /\ IsSeen(x)
             /\ TimesSeen(x) = 1 \/ \E m \in DOMAIN messages \ LiveRows(messages) : IsSeen(m)
      ELSE ~NewsIn(x) /\ LastMessage(x) = list.was[x] =>
             /\ IsSeen(x) \/ \E y \in DOMAIN chats : IsSeen(y) /\ Shortened(y)
             /\ \/ TimesSeen(x) <= 1
                \/ \E y \in DOMAIN chats : IsSeen(y) /\ (NewsIn(y) \/ Emptied(y))
==============================================================================
