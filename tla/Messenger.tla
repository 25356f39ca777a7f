------------------------------ MODULE Messenger ------------------------------
(***************************************************************************)
(* The messenger service: chats of two users, their messages, who has read *)
(* them.  It is called over TCP; a call runs from await to await while     *)
(* others run, and goes on when its caller no longer waits.  A new message *)
(* is told to the gateway through a queue; that one was read is told too,  *)
(* which changes nothing here and is left out.                             *)
(***************************************************************************)
EXTENDS Tables, FiniteSets, Endpoints

CONSTANTS
  Users,
  MaxMessages   \* bound on the messages ever created

VARIABLES
  made,      \* how many calls were made so far
  calls,     \* the calls under way or answered, of the files service too
  chats,     \* [who: its participants; alone: made by no overlapping calls]
  messages,  \* [live, chat, sender, to, kind, readers]; to is history, and
             \* what a deleted row held is kept as history
  early,     \* history: messages deleted while a call about them was under way
  events,    \* new messages the service has not told of yet, [message, to]
  queue      \* those told, which the gateway has not handled yet

messengerVars == <<made, calls, chats, messages, early, events, queue>>

Kinds == {"text", "file"}
NoAnswer == [res |-> "none", message |-> 0, chat |-> 0, page |-> <<>>]
Answered(c) == c.answer # NoAnswer

Events == [message : 1..MaxMessages, to : Users]

MessengerTypeOK ==
  /\ made \in Nat
  /\ \A c \in calls : c.no \in 1..made /\ c.answer.res \in AppResults \cup {"none"}
  /\ chats \in Seq([who : (SUBSET Users) \ {{}}, alone : BOOLEAN])
  /\ messages \in Seq([live : BOOLEAN, chat : DOMAIN chats, sender : Users, to : Users,
                       kind : Kinds, readers : SUBSET Users])
  /\ \A m \in DOMAIN messages : messages[m].sender \in messages[m].readers
  /\ events \subseteq Events /\ queue \subseteq Events

\* A call is made.
NewCall(op, arg, pc) ==
  [no |-> made + 1, op |-> op, arg |-> arg, pc |-> pc, got |-> 0, answer |-> NoAnswer]

Send(op, arg, pc) ==
  /\ made' = made + 1
  /\ calls' = calls \cup {NewCall(op, arg, pc)}

CallAt(c, op, pc) == c \in calls /\ c.op = op /\ c.pc = pc /\ ~Answered(c)
Replace(c, d) == calls' = (calls \ {c}) \cup {d}
Advance(c, pc, got) == Replace(c, [c EXCEPT !.pc = pc, !.got = got])
Done(c, res) == Replace(c, [c EXCEPT !.answer.res = res])

(***************************************************************************)
(* SendMessageUseCase.                                                     *)
(***************************************************************************)

\* Mutant: only the chats the sender himself began are looked at.
BegunBy(u, v) == {c \in DOMAIN chats : \E m \in DOMAIN messages :
                    messages[m].chat = c /\ messages[m].sender = u /\ messages[m].to = v}

\* getChatByUserIds: a chat each of the two is in; to oneself any chat will do.
ChatsOf(u, v) == {c \in DOMAIN chats : {u, v} \subseteq chats[c].who}

FindChat(c) ==
  /\ CallAt(c, "sendMessage", "find")
  /\ \E chat \in FindFirst(ChatsOf(c.arg.user, c.arg.to)) : Advance(c, "write", chat)
  /\ UNCHANGED <<made, chats, messages, early, events, queue>>

\* createChatWithParticipants or createMessage; the sender has read it.
CreateMessage(c) ==
  LET u == c.arg.user  v == c.arg.to
      m == Len(messages) + 1
      chat == IF c.got = 0 THEN Len(chats) + 1 ELSE c.got
      alone == \A d \in calls \ {c} : ~CallAt(d, "sendMessage", "write")
  IN /\ CallAt(c, "sendMessage", "write")
     /\ m <= MaxMessages
     /\ chats' = IF c.got = 0 THEN Append(chats, [who |-> {u, v}, alone |-> alone]) ELSE chats
     /\ messages' = Append(messages, [live |-> TRUE, chat |-> chat, sender |-> u, to |-> v,
                                      kind |-> c.arg.kind, readers |-> {u}])
     /\ events' = events \cup {[message |-> m, to |-> v]}
     /\ Replace(c, [c EXCEPT !.answer = [res |-> "Success", message |-> m,
                                         chat |-> chat, page |-> <<>>]])
     /\ UNCHANGED <<made, early, queue>>

(***************************************************************************)
(* ReadMessageUseCase, RemoveMessagesUseCase, GetChatByIdQueryUseCase.     *)
(***************************************************************************)

FindMessage(c) ==
  LET m == c.arg.message  u == c.arg.user IN
  /\ CallAt(c, "readMessage", "find")
  /\ CASE ~IsRow(messages, m) -> Done(c, "NotFound")
       [] IsRow(messages, m) /\ u \notin chats[messages[m].chat].who -> Done(c, "Forbidden")
       [] IsRow(messages, m) /\ u \in messages[m].readers -> Done(c, "Success")
       [] OTHER -> Advance(c, "write", m)
  /\ UNCHANGED <<made, chats, messages, early, events, queue>>

\* createMessageReadStatus: one row for a user and a message.
CreateReadStatus(c) ==
  LET m == c.got  u == c.arg.user IN
  /\ CallAt(c, "readMessage", "write")
  /\ IF IsRow(messages, m) /\ u \notin messages[m].readers
     THEN /\ messages' = [messages EXCEPT ![m].readers = @ \cup {u}]
          /\ Done(c, "Success")
     ELSE Done(c, "Internal") /\ UNCHANGED messages
  /\ UNCHANGED <<made, chats, early, events, queue>>

\* Mutant: whoever knows the messages may delete them.
FindAnyMessages(c) ==
  /\ CallAt(c, "removeMessages", "find")
  /\ Advance(c, "write", 0)
  /\ UNCHANGED <<made, chats, messages, early, events, queue>>

FindMessages(c) ==
  LET found == {m \in c.arg.messages : IsRow(messages, m)} IN
  /\ CallAt(c, "removeMessages", "find")
  /\ CASE found = {} -> Done(c, "NotFound")
       [] \E m \in found : messages[m].sender # c.arg.user -> Done(c, "Forbidden")
       [] OTHER -> Advance(c, "write", 0)
  /\ UNCHANGED <<made, chats, messages, early, events, queue>>

\* A call about message m is under way.
Touched(m) ==
  \E c \in calls : \/ c.op = "sendMessage" /\ c.answer.message = m
                   \/ c.op = "uploadFile" /\ c.arg.message = m

DeleteMessages(c) ==
  /\ CallAt(c, "removeMessages", "write")
  /\ messages' = [m \in DOMAIN messages |->
       IF m \in c.arg.messages THEN [messages[m] EXCEPT !.live = FALSE] ELSE messages[m]]
  /\ early' = early \cup {m \in c.arg.messages : Touched(m)}
  /\ Done(c, "Success")
  /\ UNCHANGED <<made, chats, events, queue>>

\* The check whether the user takes part is an assignment, so it never fails.
GetChatById(c) ==
  /\ CallAt(c, "getChat", "find")
  /\ Done(c, IF c.arg.chat \in DOMAIN chats THEN "Success" ELSE "NotFound")
  /\ UNCHANGED <<made, chats, messages, early, events, queue>>

\* A chat with oneself has two rows of participants, both of the one user:
\* whatever looks for the other one finds none.
WithOneself(chat) == \E u \in chats[chat].who : chats[chat].who = {u}

(***************************************************************************)
(* NewMessageEventHandler: the message is read again as the user told      *)
(* would see it, and put into the queue.                                   *)
(***************************************************************************)

\* It must still be there, and have a second participant to show.
CanBeShown(e) ==
  LET who == chats[messages[e.message].chat].who IN
  IsRow(messages, e.message) /\ e.to \in who /\ who # {messages[e.message].sender}

Tell(e) ==
  /\ e \in events
  /\ events' = events \ {e}
  /\ queue' = IF CanBeShown(e) THEN queue \cup {e} ELSE queue
  /\ UNCHANGED <<made, calls, chats, messages, early>>

MessengerStep(c) ==
  \/ FindChat(c) \/ CreateMessage(c) \/ FindMessage(c) \/ CreateReadStatus(c)
  \/ FindMessages(c) \/ DeleteMessages(c) \/ GetChatById(c)

MessengerOps == {"sendMessage", "readMessage", "removeMessages", "getChat", "getChats",
                 "getMessages"}

\* Its database fails under a call.
MessengerFails(c) ==
  /\ c.op \in MessengerOps /\ ~Answered(c) /\ Done(c, "Internal")
  /\ UNCHANGED <<made, chats, messages, early, events, queue>>

\* The process stops: calls under way and events not told yet are lost.
MessengerStops ==
  /\ events # {} \/ \E c \in calls : c.op \in MessengerOps /\ ~Answered(c)
  /\ events' = {}
  /\ calls' = {IF c.op \in MessengerOps /\ ~Answered(c) THEN [c EXCEPT !.answer.res = "Internal"]
               ELSE c : c \in calls}
  /\ UNCHANGED <<made, chats, messages, early, queue>>

(***************************************************************************)
(* The lists: a user's chats, the one with the newest message first, and   *)
(* the messages of a chat, newest first.  A page is asked for after an     *)
(* entry, whose time is read anew for every page.  Messages are numbered   *)
(* in the order of their times; none share a millisecond here.             *)
(***************************************************************************)

MessagesOf(chat) == {m \in LiveRows(messages) : messages[m].chat = chat}

\* The newest message of a chat; 0 (null) when there is none.
LastMessage(chat) == CHOOSE m \in FindFirst(MessagesOf(chat)) : \A n \in MessagesOf(chat) : n <= m

\* The rows of the join: a chat with each row of a participant who is the user.
Joined(R) == (R \X {1}) \cup ({x \in R : WithOneself(x)} \X {2})

\* Chats without a message come before all others: nulls first.
ListedBefore(a, b) ==
  LET last(row) == LastMessage(row[1]) IN
  last(a) = 0 \/ (last(b) # 0 /\ last(a) > last(b))

\* order by and limit.
PagesOf(R, Before(_, _), limit) ==
  LET n == Cardinality(R) IN
  {SubSeq(o, 1, IF n < limit THEN n ELSE limit) : o \in {p \in [1..n -> R] :
     \A i, j \in 1..n : i < j => p[i] # p[j] /\ (Before(p[j], p[i]) => Before(p[i], p[j]))}}

Show(c, page) == Replace(c, [c EXCEPT !.answer.res = "Success", !.answer.page = page])

Unchanged == UNCHANGED <<made, chats, messages, early, events, queue>>

\* getChatsByUserId: the time of the chat the page begins after, if it has one.
ChatsFindCursor(c) ==
  /\ CallAt(c, "getChats", "find")
  /\ Advance(c, "rows", IF c.arg.after = 0 THEN 0 ELSE LastMessage(c.arg.after))
  /\ Unchanged

\* Mutant: the chat the page begins after is among them.
FromCursor(u, time) == {x \in ChatsOf(u, u) : time # 0 => LastMessage(x) \in 1..time}

\* The user's chats that are older.
PastCursor(u, time) == {x \in ChatsOf(u, u) : time # 0 => LastMessage(x) \in 1..time - 1}

ChatsRead(c) ==
  /\ CallAt(c, "getChats", "rows")
  /\ \E rows \in PagesOf(Joined(PastCursor(c.arg.user, c.got)), ListedBefore, c.arg.size) :
       Show(c, [i \in DOMAIN rows |-> rows[i][1]])
  /\ Unchanged

\* GetChatMessagesUseCase.
MessagesFindChat(c) ==
  /\ CallAt(c, "getMessages", "find")
  /\ CASE c.arg.chat \notin DOMAIN chats -> Done(c, "NotFound")
       [] c.arg.chat \in DOMAIN chats /\ c.arg.user \notin chats[c.arg.chat].who ->
            Done(c, "Forbidden")
       [] OTHER -> Advance(c, "cursor", 0)
  /\ Unchanged

\* getChatMessages: one that was deleted has no time.
MessagesFindCursor(c) ==
  /\ CallAt(c, "getMessages", "cursor")
  /\ Advance(c, "rows", IF IsRow(messages, c.arg.after) THEN c.arg.after ELSE 0)
  /\ Unchanged

\* Each is shown with the other participant: to find none throws.
MessagesRead(c) ==
  LET R == {m \in MessagesOf(c.arg.chat) : c.got # 0 => m < c.got} IN
  /\ CallAt(c, "getMessages", "rows")
  /\ IF R # {} /\ WithOneself(c.arg.chat) THEN Done(c, "Internal")
     ELSE \E page \in PagesOf(R, >, c.arg.size) : Show(c, page)
  /\ Unchanged

QueryStep(c) ==
  \/ ChatsFindCursor(c) \/ ChatsRead(c)
  \/ MessagesFindChat(c) \/ MessagesFindCursor(c) \/ MessagesRead(c)

(***************************************************************************)
(* The files service's part: a voice or picture message has a document,    *)
(* with the message's id, and a file in S3, which comes before the         *)
(* document and goes with it.  What an upload throws is logged and         *)
(* answered with null, so the caller learns nothing of it; a deletion      *)
(* that throws answers nothing at all, which is a 500 to the caller.       *)
(***************************************************************************)

VARIABLE docs   \* messages that have a document

FileOps == {"uploadFile", "deleteFiles"}

\* UploadMessageUseCase.
uploadMessage(c) ==
  /\ CallAt(c, "uploadFile", "find")
  /\ docs' = docs \cup {c.arg.message}
  /\ Done(c, "Success")
  /\ UNCHANGED <<made, chats, messages, early, events, queue>>

\* DeleteMessageUseCase: the documents found, then all of them deleted.
findFiles(c) ==
  /\ CallAt(c, "deleteFiles", "find")
  /\ IF c.arg.messages \cap docs = {} THEN Done(c, "Success") ELSE Advance(c, "write", 0)
  /\ UNCHANGED <<made, chats, messages, early, events, queue, docs>>

\* Mutant: the documents stay.
keepFiles(c) ==
  /\ CallAt(c, "deleteFiles", "write")
  /\ Done(c, "Success")
  /\ UNCHANGED <<made, chats, messages, early, events, queue, docs>>

deleteFiles(c) ==
  /\ CallAt(c, "deleteFiles", "write")
  /\ docs' = docs \ c.arg.messages
  /\ Done(c, "Success")
  /\ UNCHANGED <<made, chats, messages, early, events, queue>>

\* MongoDB or S3 fails under a call.
FilesFail(c) ==
  /\ c.op \in FileOps /\ ~Answered(c)
  /\ Done(c, IF c.op = "uploadFile" THEN "Success" ELSE "Internal")
  /\ UNCHANGED <<made, chats, messages, early, events, queue, docs>>

FilesStep(c) == uploadMessage(c) \/ findFiles(c) \/ deleteFiles(c)
==============================================================================
