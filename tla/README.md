# Somegram backend: a TLA+ model

The repository is a NestJS monorepo of four services that share Postgres and
Mongo databases and talk over TCP and RabbitMQ. This directory models its core
logic in TLA+, checks the models with TLC and proves what matters most with
TLAPS. `PROJECT.json` maps every definition to the source lines it stands for
and lists runs, mutants, hazards and theorems.

## 1. The system

| component | state it keeps | operations | hard behaviour |
|---|---|---|---|
| **payments** (`apps/payments`) | `Subscription` rows, `PaymentTransaction` rows | PayPal and Stripe webhooks, buy, autorenewal on/off, midnight job, reminders | handlers interleave at awaits over whole-row writes; two providers acting on their own; redelivery, reordering, crash |
| **gateway / subscriptions** | account type and end date on `User` | end dates emitted by payments (RabbitMQ), webhook endpoints | end dates applied out of order; profile filling over them |
| **gateway / users** | `User`, profile, `UserFollow`, avatar | fill profile, follow, avatar, ban, delete, lists | check-then-write on user names without a unique constraint |
| **gateway / auth, security devices** | codes, provider accounts, sessions (`SecurityDevices`) | register, confirm, restore password, login (also Google, GitHub), refresh, logout, terminate | double registration, refresh against logout, one-time codes |
| **gateway / posts** | posts, comments, likes | create, update, delete, like, comment, feeds page by page | like toggles read then write; photos kept by another service; cursors over changing data |
| **gateway / notification** | notifications, maps of sockets | create, list, mark, connect, disconnect | a socket is open while its token is checked |
| **gateway / messenger** | two fields of a singleton use case | send, read, remove, rooms | fields shared by requests across awaits |
| **messenger** (`apps/messenger`) | chats, messages | send, read, remove, lists | two first messages create two chats |
| **files** (`apps/files`) | documents (MongoDB), files (S3) | save, delete | documents without files and the reverse |
| **country catalogue, libs** | none of their own | reads, result types | none |

Interactions: the gateway forwards a webhook to payments and turns the answer
into an HTTP status, which decides whether the provider delivers again. Payments
emits end dates and notifications to the gateway without waiting for an answer;
the gateway derives the account type. Changing a user name makes the gateway
send a command to payments and wait. Posts and avatars call the files service;
the gateway's messenger calls the messenger and files services and hears of new
messages through a queue.

What makes each correct: in payments one live subscription per user, a row
retired here is over at its provider, nobody loses paid time, every charge is
recorded and every expired row ended; the account type agrees with the last end
date told; one account per name and address, a code works once, a token that was
replaced is refused; photos follow their posts; one like per user; one chat per
pair; who was connected is told; and who reads a list to its end has seen it all.

Two modelling decisions run through all modules. Node runs one continuation at a
time, so a handler is cut **only at awaits**, and only at those whose effect
another handler can see. And the properties tell **races from everything else**:
this code has few transactions and fewer unique constraints, so most promises
break when requests about one thing overlap. History variables (`clash`,
`past`, `alone`, `how`) remember that handlers overlapped, and a property says
that nothing *but* such an overlap, or an exception it names, breaks the promise.
What such a property catches is a sequence of requests, failures and late
answers that breaks it without any overlap.

## 2. The modules

| part | modules | composition |
|---|---|---|
| payments | `Subscription`, `PaymentsState`, `PayPalWebhooks`, `StripeWebhooks`, `SubscriptionCommands`, `SubscriptionCron`, `PaymentProvider` | `Payments` |
| account | `EndDates` (what payments promises), `Account` | `SubscriptionSystem` = `Payments` + `Account` |
| common | `Tables`, `Handlers`, `Endpoints` | used by the three below |
| identity | `UserTables`, `IdentityState`, `Registration`, `Sessions` | `Identity` |
| social | `SocialTables`, `SocialState`, `FilesService`, `Posts`, `Followings`, `Feeds`, `ListQueries`, `Lists` | `Social` |
| messaging | `Messenger`, `Sockets`, `Notices` | `Chats` |
| instances | `MCPayments`, `MCAccount`, `MCSubscriptionSystem`, `MCIdentity`, `MCSocial`, `MCChats` | |
| proofs | `PaymentsInvariants`, `PaymentsRaces`, `SystemProofs`, `AccountProofs`, `SocialProofs`, `PhotosProofs`, `IdentityProofs`, `ChatsProofs` | |

The order of work was: payments, which moves money, with its invariants proved;
the account, which rests on what payments promises, with the refinement; then the
components that hold no money, in the order of their concurrency: identity, posts
and files, messaging and sockets, lists. The proofs of the races of payments and
of the account, of likes and of avatars came next, then those of identity.

## 3. The modules and the code

### Payments

`Payments` is the composition; the modules below it share the variables that
`PaymentsState` declares.

**`Subscription`** is one row and `SubscriptionEntity`'s pure operations. A row
keeps what guards read: `status`, `autoRenewal`, `end`
(`endDateOfSubscription`, 0 for NULL) and `linked` (whether
`paymentSystemSubId` is set), and `name`, the username each row has of its own: no
guard reads it, but every whole row written carries it back. A rename
(`UpdateUsername`) writes it to one live row; a Pending row keeps the name it was
created with.

| variable | code |
|---|---|
| `row` | the `Subscription` table |
| `txns` | `PaymentTransaction` rows of successful charges, named by the instant of the charge |
| `job[h]` | a handler in flight: where it waits (`pc`), its event or command, the row object as it is in memory, and the rival row it found |
| `cron` | the midnight job in flight, with the batch it read |
| `remote`, `hooks`, `charged` | external: the provider's subscriptions, webhooks not yet acknowledged, money taken |
| `told` | the end date last emitted to the gateway |
| `clash` | history: users two of whose handlers ever overlapped |

Reading the row and computing its new value is one step (`Start`); then come, as
`pc`s, the steps of `PaymentService.handleActiveSubscription` (`find`, `revoke`,
`retire`), the provider call of a command (`call`), the write of the **whole** row
as read earlier (`write`, `updateSub`), the transaction (`record`) and the
message to the gateway (`tell`). `PayPalWebhooks`, `StripeWebhooks` and
`SubscriptionCommands` say, per handler, when it starts, when it returns early and
what row it will write. `SubscriptionCron` is `disableSubscription`: the batch is read
(`CronRead`), the suspended ones are cancelled at PayPal (`CronRevoke`), the rows are
written (`CronWrite`), and only then is the gateway told (`CronTell`); a failed
await or a restart may come before each. `Written`
distinguishes the one handler that writes three columns (`updateSubscription`)
from those that write all.

Errors are modelled as answered. A PayPal handler's error becomes a 500 and the
event stays in `hooks`; the Stripe adapter drops its handler's result, so the
event is gone (`Abort`). PayPal's refusal to cancel throws, Stripe's is an unread
`false` (`RevokeRival`). `Fail` is a rejected await anywhere, `Crash` a restart,
`Acknowledge` may leave the event to be delivered again.

**`PaymentProvider`** is external: inferred from the events the code subscribes
to and the calls it makes. `hooks` is a set, so events come in any order and as
late as may be.

### Account and the subscription system

**`Account`** is the gateway's side. `queue` holds the messages of payments, each
about one or several users; a handler copies a message, reads the users
(`ReadUsers`), writes each account's type and date (`UpdateAccountType`) and
sends mail (`HandleEvents`, no state). `FillProfile`, `CheckName`,
`UpdateUserProfileInfo`, `UpdateUsername` are `FillingUserProfileUseCase`, which
writes back the account columns it read. `nameTold` is the name last sent to payments
about a user: what payments does with it is `UpdateUsername` of
`SubscriptionCommands`, on a row. `past` is history: users two of whose
handlers overlapped, missed messages, renames whose request was lost, names asked
for by two at a time, and in `over` users whose last date told was past when it was
told. Payments appears only as `PaymentsTells`, which tells any
end dates that **`EndDates`** allows: at most a period ahead of the clock.

**`SubscriptionSystem`** instantiates `Account` (`Gw`) beside `Payments`: the
handler's `tell` and the midnight job's (`CronTell`) each append a message
(`EmitOne`, `EmitMany`), everything else leaves the other side alone. `hooked`
remembers rows that a webhook, not the midnight job, made Canceled; `untold` those
that a midnight ended and stopped, or failed, before it told of them (`LeftUntold`).
`astray`
remembers users who were told about another row than their live one: the date of
a row that is over while another row of theirs is live (`ToldAside`: the declined
first payment of a second subscription, a cancellation that comes late), or a row
that a late SUSPENDED makes live and that nobody tells of (`RevivedLate`).
`KeepsEndDatesPromise` is `EndDates!Spec` as a property of the composition: what
`Account` assumes, `Payments` keeps. It is checked and proved.

### Handlers, tables, answers

`Handlers` is the request in flight used by the rest: its operation, argument,
the await it stands at, the parts of a `Promise.all` not yet answered (`todo`),
what its reads returned (`got`) and whether it was ever `alone`. `Tables` has
rows as positions of a sequence, never reused; a repository method is a function
from tables to tables, `Thrown` when a statement finds no row to change or breaks
a constraint. `Endpoints` has the controllers' switches: a result
that an endpoint does not list becomes a 500, recorded in `oops` when the request
overlapped nothing and nothing failed.

### Identity

`UserTables` has `User` with its one-to-one rows and `SecurityDevices`.
`Registration` is registration (with removal of pending users of that address or
name), confirmation, resending, and the Google and GitHub callbacks with
`generateUniqUserName`, which cuts its suffix off a long address. `Sessions` is
login, renewal, logout, termination of devices, password restoration, bans and
deletion. A refresh token is its session and its second. `how` remembers whether
a user was made by overlapping requests, or with one pending user's address and
another's name; a user inherits it from the pending user he replaces.

### Social

`FilesService` runs its calls concurrently with its callers, who may have
stopped waiting; deletions in S3 that nobody waits for are `unlink`. `Posts`
covers posts, likes, comments, answers; `Followings` follows and avatars.
`Feeds` reads posts page by page by cursor; `ListQueries` states what every
other list selects and how it sorts, as sets of lines, and `Lists` reads them
page by page, by offset or by id. Ids are drawn at random and places in a list
by date; `tables.id` and `tables.place` are those numberings.

### Messaging

`Messenger` is the messenger service, call by call, with its two lists, and at its
end the files service's part. A chat with oneself has two rows of participants, of
one user (`WithOneself`): the join of the list of chats has it twice (`Joined`), with
nobody as the other participant, whom the gateway fails to find (`ChatsReturn`), and
its messages cannot be mapped (`MessagesRead`). `Chats` is the gateway: `latest` holds
the two fields that `SendMessageUseCase` keeps across requests, and its catch
block, which removes the message they name, is `Catches`. `Sockets` is
`WsGateway`, one class behind both namespaces (`messenger`, `notification`);
rooms decide to whom a message is emitted. `Notices` is the way of a
notification from payments, at once or through a queue of 30 seconds, into the
table and to the sockets.

## 4. What is checked

Deadlock checking is off everywhere because clocks, moves and faults are bounded:
the bounded model does stop.

| run | bounds | checks |
|---|---|---|
| `paypal_races` | 1 user, 2 PayPal rows, 2 handlers, time 2, 2 moves, no fault | `TypeOK`, `RivalRevokedFirst`, `RevivedOnlyByPayment` under every interleaving of two handlers |
| `stripe_races` | the same with Stripe, at most two webhooks outstanding | `LiveRowsAreLinked`, `BackToPendingOnlyByStaleInvoice` |
| `paypal_faults` | 2 rows, 2 names, 1 handler beside the midnight job, time 3, 1 fault, 2 moves | `IInv`, `AtMostOnePeriodAhead`, `PaidTimeLostOnlyByRace`, `RenamedOnlyByRename` |
| `mixed_faults` | a PayPal and a Stripe row, otherwise as before | `SecondLiveRowOnlyByRace` |
| `midnight_batch` | 2 users with a PayPal row each, 1 handler, time 3, 4 moves, no fault; at most two webhooks outstanding, none of a declined payment | `BatchRevokedFirst`, with two suspended expired rows in one batch |
| `paypal_liveness` | 1 row, time 3, 1 fault, 3 moves, fair | `ExpiredRowsAreEnded` |
| `rival_liveness` | 2 rows of a user, time 1, 1 fault, 2 moves, fair | `ChargesAreRecorded`, when a rival may have to be retired on the way and an await fails or a restart comes between the row and the transaction |
| `accounts` | 2 users, 3 names, 2 handlers, time 3, 1 fault, 2 moves, fair | `TypeOK`, `AccountFollowsLastTold`, `NameSharedOnlyByRace`, `PaymentsToldTheName`, `LastToldIsApplied` |
| `subscription_system` | 1 user, 2 PayPal rows, 1 handler on each side, time 3, 1 fault (then one row only: `OneRowWhereFaults`), 2 moves | `PaidUserIsBusiness`, `OverdueAwaitsMidnight`, `KeepsEndDatesPromise` |
| `identity` | 13 scenes, 2 handlers, 3 or 4 requests, at most 4 users and 2 devices | `TypeOK`, `SharedOnlyByRace`, `NoSessionWithOldPassword`, `OnlyLatestTokenPasses`, `ServerErrorOnlyByRace`, `ConfirmedStays` |
| `social` | 21 scenes, 2 handlers, 2 to 5 requests, pages of 2, at most 3 posts, 4 comments, 2 likes, 2 photos of a post | `TypeOK`, `PhotosFollowPosts`, `AvatarHasItsFile`, `OneLikePerUser`, `ReaderSeesEachPost`, `ReaderSeesEachEntry`, `ServerErrorOnlyByRace` |
| `chats` | 12 scenes, 2 handlers, 1 to 4 requests, at most 3 messages and 2 sockets; lists start from 2 or 3 messages, chats with oneself among them | `TypeOK`, `StaysUntilAskedFor`, `ChatOfTheTwo`, `FilesGoWithMessages`, `AddresseeIsTold`, `ReaderSeesAll` |

### Bounds

In payments a *move* is something a user or a provider does on his own (a charge,
a decline, a suspension, a cancellation, a command). `Period` is 1 and a row
expires when its end is before the clock, so time 3 is the least at which the
midnight job has work: paid at 1, to 2, expired at 3. Two rows and two handlers
are the least for rivals and for stale writes. One fault is enough for every
single failure between two awaits. Four moves are the least that make two rows
suspended and expired: two payments, two suspensions. What two rows cannot show
the proofs cover: `SecondLiveRowOnlyByRace` had to be corrected while it was
being proved, for with **three** rows, two of them live already, a handler that
retires its rival retires only one. So had `SharedOnlyByRace`, which held of three
users only: a fourth who registers may replace the one that the crossing left
behind, and then shares an address without having crossed anything himself; since
then `how` is inherited and the run has four. And `PaidUserIsBusiness`, claimed
without the users led astray, held of **one** row only: with two, the end of one
row is told while the other is live and paid, and its user becomes Personal. Its
run has two rows since, and the three kinds of exceptions came from the attempt to
prove it. `RevivedLate` alone is out of the run's reach: it takes a period of 2 and
three moves (payment, cancellation, the SUSPENDED that comes last).

`Identity`, `Social` and `Chats` have too many operations to request all
together. A *scene* is a set of operations requested together with the bounds of
a behaviour (requests, faults, seconds, bans, sockets, what is there at the
beginning), and the initial state picks one. Scenes were chosen so that every pair
of operations that touch the same rows meets in one of them. Each scene of lists
has one thing that changes the list while it is read. Giving up on the missing
answer of another service counts as a fault.

Permuting handlers, and rows, users or sockets that nothing distinguishes,
changes nothing, so safety runs use that symmetry; liveness runs do not.

### What the properties say of the code

* `SecondLiveRowOnlyByRace`: handlers that do not overlap keep one live row per
  user, *except* that the SUSPENDED handler, which looks neither at the present
  status nor for a rival, makes a Canceled or Pending row live. With overlap two
  payments find no rival each; the source marks the place with a TODO about
  transactions.
* `PaidTimeLostOnlyByRace`: only the write of a stale row ever takes an end date
  back on a PayPal row.
* `RevivedOnlyByPayment`, `BackToPendingOnlyByStaleInvoice`: which late event may
  bring a Canceled row back, and which stale write makes a paid Stripe row Pending.
* `RenamedOnlyByRename`: the name of a row changes by a rename only, unless handlers
  of its user, or the midnight job, overlapped it: then a stale whole row brings an old
  name back. Nor is the live row's name always the present one: a second subscription
  bought before a rename and paid after it brings the older name, which nothing
  sets right; no property claims otherwise.
* `PaymentsToldTheName`: the gateway's half of a rename, in which end dates handled
  meanwhile play no part.
* `RivalRevokedFirst`, `BatchRevokedFirst`: provider first, row second. Not claimed
  for Stripe, whose refusal goes unread.
* `ChargesAreRecorded`, `ExpiredRowsAreEnded` have an escape each that the model
  needs: a *stranded* row is live here while PayPal has cancelled it (a late
  SUSPENDED does it). PayPal refuses to cancel it again, so every payment of that
  user's other subscription throws in `handleActiveSubscription`; and a
  suspended one makes `cancelManySubscriptions` throw every midnight, which
  keeps **every** user's expired rows live.
* `AccountFollowsLastTold`, `LastToldIsApplied`: the account is at last what the
  last end date told makes of it; a date past when it was told makes nobody a
  business. Two handlers about one user may apply two dates
  in the wrong order, and a profile being filled may write the old date back.
* `PaidUserIsBusiness` follows a payment end to end, from the webhook to the
  account, of users of PayPal who raced nothing and were not led astray. The
  gateway knows one date per user, not which row it is of: the handlers of a
  declined payment and of a cancellation tell the end of *their* row, which ends
  the business account of a user who pays for another one. A Stripe event
  whose handler failed is not delivered again, and its date is never told. `OverdueAwaitsMidnight`: the gateway never looks at the clock again, so
  an overdue business account waits for the midnight job. It waits in vain when a
  *webhook* ended the row, which the midnight job then no longer looks at, and when
  a *midnight* ended it and stopped between the commit and the message: no later
  midnight selects the row.
* `NoSessionWithOldPassword`, `OnlyLatestTokenPasses`, `ConfirmedStays`: what a
  reset, a renewal and a registration promise to those who are not racing.
* `PhotosFollowPosts`, `AvatarHasItsFile`, `FilesGoWithMessages`: rows here and
  files there without a transaction; they come apart only through failures, or a
  removal while a file is on its way.
* `StaysUntilAskedFor`: a send that fails may remove another's message, because the
  shared fields are never reset; each failure takes one at most.
* `ReaderSeesEachPost`, `ReaderSeesEachEntry`, `ReaderSeesAll`: which lists show
  what was there all the time, once, and the exact ways in which the code skips or
  repeats: offsets, the lost or moved entry a page begins after, two rows of a
  join, ids that disagree with dates. A list of chats that comes to a chat with oneself,
  and the list of its messages, get 500 at that page whenever they are asked for: the
  scenes have such a chat, and no list with one that still has a message is read to its
  end.
* `ServerErrorOnlyByRace`: each result of a use case is one its endpoint lists.

Known and not claimed: a feed sorted by `updatedAt` compares it with the
creation of the last post; chats without messages sort first; messages of one
millisecond have no order; `get-chat-by-id` of the messenger assigns where it
should compare.

### Fairness

`FairSpec` of `Payments` assumes: a handler that was started goes on (Node runs a
resolved promise); the midnight job comes every day and goes on (`@Cron`); a sale
or a cancellation that PayPal has not seen acknowledged is delivered again and
again (strong fairness, since the one slot of the run may be taken in between:
PayPal repeats on a 500, which is what the gateway answers). Nothing is assumed of
users, of what providers do, of Stripe's deliveries, or of faults, which are
bounded. `FairSpec` of `Account` assumes that a handler goes on and that RabbitMQ
delivers while messages are queued.

## 5. What is proved

For all users, rows, owners, providers, handlers, names, periods and bounds, from
the named assumptions on the constants only (owners are users, providers are the
two, `NoSub` is no row, the period is positive, `None` is no provider's account, a
name made with digits is nobody's choice, users are registered under different names, bounds are numbers, a scene begins within its bounds and with a post for
its comments).

**Payments.** `TypeCorrect` (`PaymentsInvariants`): `Spec => []TypeOK`, one lemma per
part of `Next`. `Invariance` (`PaymentsRaces`): `Spec => []IInv`, and from it
`LinkedRows`, `RevokedRivals`, `RevokedBatches`, `OnePeriodAhead` and the five
action properties `RevivedByPayment`, `BackToPending`, `PaidTimeLost`,
`SecondLiveRow` and `RenamesKept`.

None of these properties is inductive: what gets written was read and computed
steps before and lies in memory. `IInv` extends each to the copies.

* `EventInv`: an event reaches the handlers of the provider that sent it and is
  not from the future.
* `LinkInv`: a row in memory was read from an inserted row and is as linked as it
  has to be, and so is a rival's.
* `RevokeInv`: those of the batch no longer to do are cancelled; it rests on
  `CancelledForGood`, that no action revives a cancelled subscription at its
  provider.
* `TimeInv`: no copy ends more than a period after now (`ClockGoesOn`).
* `RaceInv`, for the action properties. `AloneInv`: of a user without a clash at
  most one handler is in flight, and none beside the midnight job. `MemoryInv`:
  what copies hold, races or not. `FreshInv`: about a user without a clash nothing
  in memory is stale: an end date read is not less than the present one, a name read
  is the present one but in a rename's own handler, a rival
  read is the rival as it is, a row about to become live is live already or no other
  row of the user is.

Each part has its `...Next` lemma. The first four split a step into what begins a
handler (`BeginEffect`), what a handler does (`StepKeepsEvent`, `StepKeepsRows`)
and what no handler does. `FreshNext` instead rests on `RowSteps`, which says
whose step writes which row, and `OthersLeaveRows`, by which a handler alone with
its user keeps what it read; `MidnightEnds`, that a row the midnight job selects
it ends.

**The system.** `SystemInvariant`: `Payments` keeps `TypeOK` and `IInv` beside the
gateway. `PromiseKept`: `SysSpec => KeepsEndDatesPromise`, the refinement; by
`TimeInv` each date told is at most a period ahead, by `ClockSteps` the clock
ticks or stands, and every other step is a stutter of `EndDates`.

`Agreement`: `SysSpec => []SysInv`, and from it `PaidUsers` and `OverdueAccounts`,
which relate a row of payments to an account of the gateway, with memory on both
sides and messages between. Neither is inductive; beside `TypeOK` and `IInv`
of payments `SysInv` says, of users without a clash who use PayPal:

* `HandsInv`: a handler that will write or tell holds what its event made of the
  row as it is now (`Held`): an end date is new only in the handler of a completed
  payment, which stays due until it has told (`SalesStay`); the midnight job's
  batch is over and live (`BatchInv`).
* `GatewayInv`: the invariant of `AccountProofs`, taken over by instantiating
  that module (`GwP`). The gateway's steps keep it as they do alone, and what
  payments tells is a `SendSubscriptionInfo` of that module (`SendKeeps`), so no
  part of that proof is repeated.
* `TellsInv` joins the two: a row that is over was ended by a webhook, or at
  midnight with a date already past (`EndedRows`); a user not led astray has one
  live row (`OneLive`), and none while a handler that retired the rival is to write
  its own (`TakesOver`); the last date told is that of a live row, of one a
  webhook ended, or of one a midnight ended that is still to tell of it or stopped
  before (`RowOfTold`); the live row's date is told unless a payment is
  still due or the user was led astray (`LiveRowTold`); and of whom a midnight has a
  row to tell about, it left no row live (`NoneLeft`), so that what it tells of is not
  beside a live row.

Each has its `...Next` lemma over `StepCases`: a handler tells, the midnight job
tells or stops before (`ToldOrUntold`), a SUSPENDED comes late (`LateSuspended`), or
nothing is told and no date moves (`NothingToldBeside`).

**The account** (`AccountProofs`). `AccountTypeCorrect`. `NamesApart`: by
`NamesInv` a name in a handler's memory that passed the check is shared only when
asked for at one time. `NameTold`: by `KnownInv` a rename still to be sent is in
the one handler that will send it. `AccountFollows`: by `ToldInv`, of a user
without overlap or loss the value told travels from the end of the queue into one
handler's copy and into the account: `Alone`, `QueueEndsWithTold`,
`HandlesTold`, `AppliedOrDue`, `ProfileAgrees`, `OverIsPast`.

**Likes** (`SocialProofs`). `LikesAreSingle`, from the inductive `LikeInv`: who is
alone is the only one (`AloneInv`), and if he has read that he has no like then he
has none, until he writes (`ReadInv`). Every step of `Social` was sorted into what
it does to requests (begins, goes on, reads a like, ends) and to the two tables of
likes: rows go or change their status (`Follows`), or a request that read none
appends one (`Inserts`).

**Avatars** (same module). `AvatarKept`, from `StoredInv`: every file has a key of
its own (`NumbersInv`), which while it is being stored nobody else has found
(`UploadsInv`); the key that a call has found to delete is kept by no other owner's
avatar and by no photo of a post (`KeysInv`); so the call that took an avatar's file
is still to remove its document, or has (`FileInv`). Any number of uploads and
deletions of one user may overlap, and callers may have stopped waiting.

**Photos** (`PhotosProofs`). `PostsHavePhotos`, from `PhotosKept`:
`Spec => []PicturesInv`. A post's row and its photos live in two services without
a common transaction, and the property speaks only of posts nothing is at work on;
the invariant says what holds meanwhile. A request waits for its own calls
(`WaitInv`), though calls of others go on that nobody waits for. While a post is being
added it is nobody else's business, and the photos it has together with those still to
be stored are as many as were sent (`AddsInv`): so when the last call has answered
it has them all. A post is deleted only after it was added; when the call has answered
it has no photos (`DeletesInv`). A photo being stored has a key that no photo,
deletion or avatar uses (`PutsInv`, with `UploadsInv` of the avatars), and two photos
never have one file (`PhotosInv`); so files deleted in the background are never those
of another post. `PhotoCases` sorts every step: one that is none of the posts'
business (`Eases`: requests go on or are dropped with their post marked as broken,
calls fail or are forgotten), one of the four steps of an addition or a deletion, an
answer, or one of the four steps of the files service that deal with photos. `FeedInv`
adds what a reader holds between his queries.

**Types and errors of `Social`.** `SocialTyped` (`SocialProofs`), from `TypesKept`:
the rows have their types only because the requests that write them have been asked
with, and have read, what is of the right kind (`AskTyped`, `LearntTyped`), which
stays so as tables only grow (`Grows`). `ErrorsOnlyByRace` (`PhotosProofs`), from
`ErrorsKept`: `Spec => []ErrorsInv`. An error is unexpected when a statement finds
its row gone, or a row in its place, or the files service throws. What a request
alone has read is still so when it writes (`Sound`): the post and comment are
there, the pair of a follow is or is not; a comment has its post (`HaveRefs`). The
calls of a request alone are the only ones, so an avatar it uploads meets no other
(`Lonely`). It needs the invariants of likes, files, types and photos.

**Identity** (`IdentityProofs`). `IdentityKept`: `Spec => []IInv`, and from it
`IdentityTyped`, `SharedByRace`, `OldPasswordEnds`, `LatestTokenOnly`,
`ServerErrorByRace` and `ConfirmedKept`. The inductive invariant has two halves.
The tables are *good*: each session has its user (`Sound`), of two who share a name
or an address one is marked in `how` (`SharedIn`), a session opened with an old
password was not opened alone (`SessionsIn`); and no token is later than the renewal
that its session remembers (`IssuedInv`). And what
a request that is alone has read, decided or already written is still so
(`CurrentInv`): the row it will remove is pending, the code it found has not been
used, the name it made is free; `AloneInv` says that it is then the only one in
flight. Every operation preserves the tables statement by statement, with what
the statement may rely on; every step of a handler is sorted into one that
begins a request, goes on with it or ends it.

**Chats** (`ChatsProofs`). `ChatOfTheTwoAlways`, `StaysUntilAskedForAlways`,
`FilesGoWithMessagesAlways`, `AddresseeIsToldAlways` and `ChatsTyped` share `BaseInv`: calls have numbers of their own
(`CallsInv`), a handler waits for one call that is of its kind (`WaitInv`, `Fits`),
and what a call names is a row (`DataInv`). `CallsMove` sorts every step by what it
does to calls and requests: a handler makes a call, takes an answer or begins or
ends without one, a service goes on with a call or forgets calls. On top of it:
who will write a chat of two is not the only one who can, or they have none yet
(`ChatsInv`); the messages lost, together with those that a removal under way is
to delete although nobody asked for it, are as many as failures at most
(`LostInv`), for only the catch block makes such a call, of one message; and, while
nothing has failed, every call has its handler, a message with a file has it or a
call that still brings it, a file has its message or a call that still deletes it
(`FilesInv`), and a message deleted while a call about it was under way is known
(`EarlyInv`). For what sockets are told, steps are sorted once more, by what they do
to sockets (`SocketMoves`), to events (`EventMoves`) and to notifications
(`NoticeMoves`). The two maps hold the sockets that were entered, no others
(`SocketsInv`), so an event reaches every open socket of its user; who is entered in
the same moment counts what was there before as not his (`HearsOn`). A client whose
list is being read is not served yet; when it is, it has all rows there are, and one
that was entered only after he asked cannot have asked while open (`NoticesInv`,
`ServedMoves`).

Only model-checked: `ReaderSeesEachPost` and `ReaderSeesEachEntry` of `Social`,
`ReaderSeesAll` of `Chats`, and all liveness: neither fairness nor `ENABLED` is within
the reach of the provers used.

## 6. What is not modelled

* Amounts, plans, wording, logging, validation, hashing, HTTP details: no guard
  of a property reads them. A period is one length; which end `handleDateEnd`
  computes is left aside.
* What `createAutoPayment` and `updateAutoPayment` ask of a provider differs only
  in when the first charge falls due; both insert a Pending row, and
  `CreatePayment` is both. The testing endpoints are left out.
* One instance of each service, as deployed; several would add races of the
  midnight job with itself and split the maps of sockets.
* A Stripe charge after a failed handler is lost by the code; no property claims
  otherwise.
* Queries of payments (reads, paged by offset as the lists in `ListQueries` are),
  the country catalogue (a static table), e-mails, the administrator's login and
  GraphQL field resolvers: no state of their own.
* In lists: counts, texts, last likers. In messaging: that a message was read is
  told to its sender, which changes no state; lists have text messages; of
  notifications at most two for each message of payments, without their wording and
  age limit, and reminders for one live row of a user.
