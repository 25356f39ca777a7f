----------------------------- MODULE SystemProofs -----------------------------
(* Payments keeps, for every value of the constants, the promise about end  *)
(* dates that the gateway's account relies on: SubscriptionSystem           *)
(* implements EndDates.  And what it tells agrees with its rows: the account *)
(* of a paid user follows his row, and an overdue one awaits midnight.       *)
EXTENDS SubscriptionSystem, PaymentsRaces

(***************************************************************************)
(* The steps of the system are those of payments or of the gateway.        *)
(***************************************************************************)

LEMMA SilentIsNext == ASSUME Silent PROVE Next
  BY DEF Silent, SilentHandler, HandlerStep, Handler, Cron, Next

LEMMA StepsOfTheSystem ==
  ASSUME [SysNext]_sysVars
  PROVE  [Next]_vars \/ GatewayStep
<1>1. ASSUME NEW h \in Slots, EmitOne(h) PROVE Next
  BY <1>1 DEF EmitOne, HandlerStep, Handler, Next
<1>2. CASE EmitMany
  BY <1>2 DEF EmitMany, Cron, Next
<1>3. CASE Silent
  BY <1>3, SilentIsNext
<1>4. CASE CronWrite
  BY <1>4 DEF Cron, Next
<1> QED
  BY <1>1, <1>2, <1>3, <1>4 DEF SysNext, sysVars, vars

\* The gateway has nothing of payments' in its hands but the bounds.
LEMMA GatewayFrame ==
  ASSUME TypeOK, GatewayStep
  PROVE  UNCHANGED <<payVars, told, now>> /\ faults' \in Nat /\ moves' \in Nat
<1>1. ASSUME NEW h \in GwSlots, Gw!TakeMessage(h) \/ Gw!HandlerStep(h)
      PROVE  UNCHANGED <<told, now, faults, moves>>
  BY <1>1 DEF Gw!TakeMessage, Gw!HandlerStep, Gw!ReadUsers, Gw!UpdateAccountType,
     Gw!HandleEvents, Gw!CheckName, Gw!UpdateUserProfileInfo, Gw!UpdateUsername
<1>2. ASSUME NEW h \in GwSlots, Gw!Fail(h)
      PROVE  UNCHANGED <<told, now, moves>> /\ faults' \in Nat
  BY <1>2 DEF Gw!Fail, TypeOK
<1>3. ASSUME NEW h \in GwSlots, NEW u \in Users, NEW name \in Names, Gw!FillProfile(h, u, name)
      PROVE  UNCHANGED <<told, now, faults>> /\ moves' \in Nat
  BY <1>3 DEF Gw!FillProfile, TypeOK
<1>4. CASE Gw!Restart
  BY <1>4 DEF Gw!Restart, TypeOK, GatewayStep
<1> QED
  BY <1>1, <1>2, <1>3, <1>4 DEF GatewayStep, Gw!Gateway, TypeOK

(***************************************************************************)
(* The invariant of payments is one of the system.                         *)
(***************************************************************************)

LEMMA SystemInvariantNext ==
  ASSUME TypeOK, IInv, [SysNext]_sysVars
  PROVE  TypeOK' /\ IInv'
<1>1. CASE [Next]_vars
  BY <1>1, NextType, NextIInv
<1>2. CASE GatewayStep
  <2>1. /\ row' = row /\ remote' = remote /\ hooks' = hooks /\ job' = job /\ cron' = cron
        /\ txns' = txns /\ charged' = charged /\ clash' = clash
        /\ told' = told /\ now' = now /\ faults' \in Nat /\ moves' \in Nat
    BY <1>2, GatewayFrame DEF payVars
  <2>2. TypeOK'
    BY <2>1 DEF TypeOK
  <2>3. IInv'
    <3>1. EventInv' /\ LinkInv' /\ RevokeInv' /\ TimeInv'
      BY <2>1 DEF IInv, EventInv, LinkInv, WellLinked, Live, RevokeInv, RivalRevokedFirst,
         BatchRevokedFirst, TimeInv, AtMostOnePeriodAhead, Busy
    <3>2. AloneInv' /\ MemoryInv'
      BY <2>1 DEF IInv, RaceInv, AloneInv, InFlight, MemoryInv, Live, Busy
    <3>3. FreshInv'
      BY <2>1 DEF IInv, RaceInv, FreshInv, Fresh, Live
    <3> QED BY <3>1, <3>2, <3>3 DEF IInv, RaceInv
  <2> QED BY <2>2, <2>3
<1> QED
  BY <1>1, <1>2, StepsOfTheSystem

\* What is held of payments alone holds of payments beside the gateway.
THEOREM SystemInvariant == SysSpec => [](TypeOK /\ IInv)
<1>1. SysInit => TypeOK /\ IInv
  BY InitType, InitIInv DEF SysInit
<1> QED
  BY <1>1, SystemInvariantNext, PTL DEF SysSpec

(***************************************************************************)
(* What is in memory about a user who pays by PayPal and whose handlers    *)
(* never overlapped.                                                       *)
(***************************************************************************)

Whose(h) == Owner[job[h].ev.sub]
Orderly(u) == u \notin clash /\ PayPalOnly(u)

\* A payment of u came that is still to be told.
Due(u) == \E e \in hooks : e.kind = "SaleCompleted" /\ Owner[e.sub] = u

\* h is about to write the date of the row it retired.
Inherits(h) == job[h].ev.kind = "Activated" /\ job[h].pc = "write" /\ job[h].rival # NoSub

\* Only a payment has a date of its own in memory, and it is due until the date
\* is told; what is written is on the row as long as the handler is at work.
Held(h) ==
  LET j == job[h]  present == row[job[h].ev.sub] IN
  /\ j.ev.kind = "SaleCompleted" => j.ev \in hooks /\ j.row.status = "Active"
  /\ j.ev.kind \in {"SaleFailed", "Cancelled"} => j.row.status = "Canceled"
  /\ j.pc \in {"find", "call"} => j.rival = NoSub
  /\ j.pc \in {"record", "tell"} =>
       j.ev.kind \in {"SaleCompleted", "SaleFailed", "Cancelled"} /\ present = j.row
  /\ j.pc \notin {"record", "tell"} /\ j.ev.kind # "SaleCompleted" =>
       IF Inherits(h) THEN present.end = 0 ELSE j.row.end = present.end

\* The midnight job has rows in hand that are over and, but for a race, live
\* until it writes them, and as it wrote them until it tells.
BatchInv ==
  cron.pc # "idle" => \A s \in cron.batch :
    /\ cron.rows[s].end < now
    /\ \/ Owner[s] \in clash
       \/ IF cron.pc = "tell" THEN row[s] = cron.rows[s] ELSE Live(row[s])

HandsInv == (\A h \in Slots : Busy(h) /\ Orderly(Whose(h)) => Held(h)) /\ BatchInv

\* h tells a date, and who is told about another row than his live one is led astray.
Tells(h) == EmitOne(h) /\ astray' = astray \cup ToldAside(h)

\* A payment stays due until its handler has told the date.
LEMMA SalesStay ==
  ASSUME TypeOK, [SysNext]_sysVars, NEW e \in hooks, e.kind = "SaleCompleted"
  PROVE  e \in hooks' \/ \E h \in Slots : Tells(h) /\ job[h].ev = e
<1>1. ASSUME NEW h \in Slots, EmitOne(h) PROVE e \in hooks' \/ job[h].ev = e
  BY <1>1 DEF EmitOne, TellGateway, Advance, Acknowledge
<1>2. ASSUME NEW h \in Slots, Begins(h) PROVE e \in hooks'
  BY <1>2 DEF Begins, PayPalWebhook, PayPalHandle, PaymentSucceeded, PaymentFailed,
     SubscriptionActive, SubscriptionSuspended, SubscriptionCancelled, PayPalEvent,
     StripeWebhook, StripeHandle, CheckoutCompleted, InvoicePaid, InvoiceFailed,
     SubscriptionDeleted, StripeEvent, Command, DisableAutoRenewal, EnableAutoRenewal,
     UpdateUsername, Start, Ignore
<1>3. ASSUME NEW h \in Slots, WriteRow(h) \/ RecordTransaction(h) PROVE e \in hooks'
  BY <1>3 DEF WriteRow, RecordTransaction, AfterWrite, Advance, Acknowledge
<1>4. ASSUME NEW h \in Slots, Abort(h) PROVE e \in hooks'
  BY <1>4 DEF Abort, StripeKinds
<1>5. ASSUME NEW h \in Slots,
             FindRival(h) \/ RevokeRival(h) \/ RetireRival(h) \/ SwitchRemote(h) \/ Fail(h)
      PROVE  e \in hooks'
  BY <1>4, <1>5 DEF FindRival, RevokeRival, CancelRemote, RetireRival, SwitchRemote, Fail
<1>6. CASE EmitMany \/ CronWrite
  BY <1>6 DEF EmitMany, CronTell, CronWrite
<1>7. ASSUME NEW s \in Subs, CreatePayment(s) \/ CronRevoke(s) PROVE e \in hooks'
  BY <1>7 DEF CreatePayment, CronRevoke, CancelRemote
<1>8. CASE CronRead \/ CronGiveUp \/ CronFail \/ Crash \/ Tick
  BY <1>8 DEF CronRead, CronGiveUp, CronFail, Crash, Tick
<1>9. CASE Provider
  BY <1>9 DEF Provider, Approve, Charge, Decline, ProviderSuspend, ProviderCancel, Send,
     CancelRemote
<1>10. CASE Silent
  BY <1>2, <1>3, <1>5, <1>7, <1>8, <1>9, <1>10 DEF Silent, SilentHandler, Begins
<1>11. CASE GatewayStep
  BY <1>11 DEF GatewayStep, payVars
<1> QED
  BY <1>1, <1>6, <1>10, <1>11 DEF SysNext, sysVars, vars, Tells

\* Handlers of one such user at most are at work, and none beside the midnight job.
LEMMA OnlyHandler ==
  ASSUME IInv, NEW h \in Slots, Busy(h), Whose(h) \notin clash
  PROVE  /\ cron.pc = "idle"
         /\ \A g \in Slots \ {h} : Busy(g) => Whose(g) # Whose(h)
  BY DEF IInv, RaceInv, AloneInv, InFlight, Whose

LEMMA HeldNext ==
  ASSUME TypeOK, IInv, HandsInv, [SysNext]_sysVars, [Next]_vars, NEW g \in Slots,
         job'[g].pc # "idle", Owner[job'[g].ev.sub] \notin clash',
         PayPalOnly(Owner[job'[g].ev.sub])
  PROVE  Held(g)'
<1> DEFINE s == job'[g].ev.sub
<1>1. TypeOK' /\ IInv' /\ clash \subseteq clash'
  BY SystemInvariantNext, ClashGrows
<1>2. /\ job'[g] \in BusyJob /\ s \in Subs /\ System[s] = "PayPal"
      /\ job'[g].ev.kind \notin StripeKinds
  <2>1. job'[g] \in BusyJob
    BY <1>1 DEF TypeOK, IdleJob
  <2>2. SentByItsSystem(job'[g].ev)
    BY <1>1 DEF IInv, EventInv, Busy
  <2> QED BY <2>1, <2>2 DEF PayPalOnly, SentByItsSystem, BusyJob, Event
<1>3. CASE Begins(g) /\ job' # job
  <2>1. /\ row' = row /\ hooks' = hooks /\ job'[g].rival = NoSub
        /\ job'[g].pc \in {"find", "call", "write"}
        /\ Computed(job'[g].ev, job'[g].pc, job'[g].row)
        /\ job'[g].ev \in hooks \/ job'[g].ev.kind \in CommandKinds
    BY <1>3, BeginComputed, BeginEffect DEF IInv, RaceInv
  <2> QED BY <1>2, <2>1 DEF Held, Inherits, Computed, CommandKinds
<1>4. CASE Busy(g) /\ job'[g].ev = job[g].ev /\ (job'[g] = job[g] \/ Steps(g))
  <2>1. /\ job[g] \in BusyJob /\ Held(g) /\ Whose(g) \notin clash
        /\ s = job[g].ev.sub /\ row[s] \in Row
    BY <1>1, <1>2, <1>4, BusyJobs DEF Busy, HandsInv, Orderly, Whose, TypeOK
  <2>2. job[g].ev.kind = "SaleCompleted" => job[g].ev \in hooks'
    <3>1. SUFFICES ASSUME job[g].ev.kind = "SaleCompleted", job[g].ev \notin hooks' PROVE FALSE
      OBVIOUS
    <3>2. PICK h \in Slots : EmitOne(h) /\ job[h].ev = job[g].ev
      BY <2>1, <3>1, SalesStay DEF Held, Tells
    <3>3. h = g
      BY <1>4, <2>1, <3>2, OnlyHandler DEF EmitOne, TellGateway, Busy, Whose
    <3>4. job'[g] = IdleJob
      BY <3>1, <3>2, <3>3 DEF EmitOne, TellGateway, Advance, TypeOK
    <3> QED BY <3>4 DEF IdleJob
  <2>3. CASE FindRival(g)
    <3>1. job[g].pc = "find" /\ job[g].rival = NoSub
      BY <2>1, <2>3 DEF FindRival, Held
    <3>2. ~Inherits(g) /\ ~Inherits(g)'
      BY <2>3, <3>1, FindRivalFinds DEF Inherits
    <3> QED BY <2>1, <2>2, <2>3, <3>1, <3>2, FindRivalFinds DEF Held
  <2>4. CASE RetireRival(g)
    <3>1. /\ job[g].pc = "retire" /\ ~Inherits(g) /\ job[g].rival # s
          /\ job'[g].pc = "write" /\ job'[g].rival \in Subs
      <4>1. job[g].pc = "retire"
        BY <2>4 DEF RetireRival
      <4> QED BY <2>1, <2>4, <4>1, RetireRivalWrites DEF Inherits, IInv, RaceInv, MemoryInv
    <3>2. row'[s] = row[s]
      BY <1>2, <2>4, <3>1, RetireRivalWrites
    <3>3. Inherits(g)' <=> job[g].ev.kind = "Activated"
      BY <1>4, <3>1, NoSubAssumption DEF Inherits
    <3>4. job[g].ev.kind = "Activated" => row[s].end = 0
      BY <2>1, <3>1 DEF IInv, RaceInv, FreshInv, Fresh, Whose
    <3>5. job[g].ev.kind # "Activated" => job'[g].row = job[g].row
      BY <2>4, RetireRivalWrites
    <3> QED BY <1>4, <2>1, <2>2, <3>1, <3>2, <3>3, <3>4, <3>5 DEF Held
  <2>5. CASE WriteRow(g)
    <3>1. job'[g].row = job[g].row /\ job[g].pc = "write"
      BY <2>5, <1>4, StepKeepsRows DEF WriteRow, FindRival, RetireRival, HandlerStep
    <3>2. row'[s] = job[g].row
      BY <1>2, <2>1, <2>5, WriteRowWrites DEF WriteRow, TypeOK
    <3>3. /\ job'[g].pc \in {"record", "tell"}
          /\ job[g].ev.kind \in {"SaleCompleted", "SaleFailed", "Cancelled"}
      BY <1>2, <1>4, <2>1, <2>5 DEF WriteRow, AfterWrite, Advance, TypeOK, IdleJob, BusyJob,
         StripeKinds
    <3> QED BY <1>4, <2>1, <2>2, <3>1, <3>2, <3>3 DEF Held, Inherits
  <2>6. CASE ~FindRival(g) /\ ~RetireRival(g) /\ ~WriteRow(g)
    <3>1. job'[g].row = job[g].row /\ job'[g].rival = job[g].rival
      BY <1>4, <2>6, StepKeepsRows DEF Steps
    <3>2. \/ job'[g].pc = job[g].pc
          \/ job[g].pc = "revoke" /\ job'[g].pc = "retire"
          \/ job[g].pc = "record" /\ job'[g].pc = "tell"
          \/ job[g].pc = "call" /\ job'[g].pc = "write"
      <4>1. CASE RevokeRival(g)
        BY <2>1, <4>1 DEF RevokeRival, Abort, TypeOK, IdleJob, BusyJob
      <4>2. CASE SwitchRemote(g)
        BY <2>1, <4>2 DEF SwitchRemote, Abort, TypeOK, IdleJob, BusyJob
      <4>3. CASE RecordTransaction(g)
        BY <2>1, <4>3 DEF RecordTransaction, Advance, TypeOK, IdleJob, BusyJob
      <4>4. CASE TellGateway(g)
        BY <1>2, <1>4, <2>1, <4>4 DEF TellGateway, Advance, TypeOK, IdleJob, BusyJob, StripeKinds
      <4>5. CASE Fail(g)
        BY <4>5 DEF Fail, Abort, TypeOK, IdleJob
      <4> QED BY <1>4, <2>6, <4>1, <4>2, <4>3, <4>4, <4>5 DEF Steps, HandlerStep
    <3>3. row'[s] = row[s] \/ (row[s].status = "None" /\ row'[s] \in NewRows(s))
      BY <1>2, <1>4, <2>1, <2>6, OthersLeaveRows DEF IInv, RaceInv, Whose
    <3>4. job[g].pc \in {"record", "tell"} => row'[s] = row[s]
      BY <1>4, <2>1, <3>3 DEF Held, IInv, LinkInv
    <3>5. row'[s].end = row[s].end
      BY <1>2, <3>3, NewRowIsPending DEF IInv, RaceInv, MemoryInv
    <3>6. Inherits(g)' <=> Inherits(g)
      BY <1>4, <2>1, <3>1, <3>2 DEF Inherits, Held
    <3> QED BY <1>4, <2>1, <2>2, <3>1, <3>2, <3>4, <3>5, <3>6 DEF Held
  <2> QED BY <2>3, <2>4, <2>5, <2>6
<1> QED
  BY <1>3, <1>4, JobSteps DEF IInv

LEMMA BatchNext == ASSUME TypeOK, IInv, BatchInv, [Next]_vars PROVE BatchInv'
<1>1. clash \subseteq clash' /\ now \in Nat /\ now' \in Nat /\ now <= now' /\ TypeOK'
  BY ClashGrows, ClockGoesOn, NextType DEF TypeOK
<1> DEFINE AsHeld(s) == IF cron.pc = "tell" THEN row[s] = cron.rows[s] ELSE Live(row[s])
<1> SUFFICES ASSUME cron'.pc # "idle", NEW s \in cron'.batch
             PROVE  cron'.rows[s].end < now' /\ (Owner[s] \in clash' \/ AsHeld(s)')
  BY DEF BatchInv
<1>2. CASE CronRead
  <2>1. s \in Subs /\ Live(row[s]) /\ cron'.rows[s] = cancelSubscription(row[s])
    BY <1>2, BatchIsEnded
  <2>2. row[s].end < now /\ row' = row /\ now' = now /\ cron'.pc # "tell"
    BY <1>2 DEF CronRead, getActiveSubscriptionsByDate
  <2> QED BY <2>1, <2>2 DEF cancelSubscription, TypeOK, Row
<1>3. CASE /\ cron.pc # "idle" /\ cron'.batch = cron.batch /\ cron'.rows = cron.rows
           /\ cron'.pc = "tell" <=> (cron.pc = "tell" \/ CronWrite)
  <2>1. s \in Subs /\ cron.rows[s] \in Row /\ cron.rows[s].end \in Nat
    BY <1>3, BusyCrons DEF BusyCron, Row
  <2>2. cron.rows[s].end < now /\ (Owner[s] \in clash \/ AsHeld(s))
    BY <1>3 DEF BatchInv
  <2>3. CASE Owner[s] \notin clash
    <3>1. Owner[s] \notin InFlight
      BY <1>3, <2>3 DEF IInv, RaceInv, AloneInv
    <3>2. ASSUME NEW h \in Slots, RetireRival(h), s = job[h].rival PROVE FALSE
      BY <3>1, <3>2 DEF RetireRival, IInv, RaceInv, MemoryInv, InFlight, Busy
    <3>3. ASSUME NEW h \in Slots, WriteRow(h), s = job[h].ev.sub PROVE FALSE
      BY <3>1, <3>3 DEF WriteRow, InFlight, Busy
    <3>4. cron.rows[s].status = "Canceled"
      BY <1>3 DEF IInv, RaceInv, MemoryInv
    <3>5. row[s].status # "None"
      BY <2>2, <2>3, <3>4 DEF Live
    <3>6. row'[s] = row[s] \/ (CronWrite /\ row'[s] = cron.rows[s])
      BY <2>1, <3>2, <3>3, <3>5, RowSteps DEF IInv
    <3>7. CronWrite => row'[s] = cron.rows[s]
      BY <1>3, <2>1 DEF CronWrite
    <3> QED BY <1>1, <1>3, <2>1, <2>2, <2>3, <3>6, <3>7
  <2> QED BY <1>1, <1>3, <2>1, <2>2, <2>3
<1> QED
  BY <1>2, <1>3, CronSteps DEF IInv

LEMMA HandsNext == ASSUME TypeOK, IInv, HandsInv, [SysNext]_sysVars PROVE HandsInv'
<1>1. CASE [Next]_vars
  BY <1>1, HeldNext, BatchNext DEF HandsInv, Busy, Orderly, Whose
<1>2. CASE GatewayStep
  <2>1. row' = row /\ hooks' = hooks /\ job' = job /\ cron' = cron /\ clash' = clash /\ now' = now
    BY <1>2, GatewayFrame DEF payVars
  <2> QED BY <2>1 DEF HandsInv, Held, BatchInv, Inherits, Orderly, Whose, Busy, Live
<1> QED
  BY <1>1, <1>2, StepsOfTheSystem

(***************************************************************************)
(* The gateway's account follows what payments tells.                      *)
(***************************************************************************)

GwP == INSTANCE AccountProofs WITH Slots <- GwSlots, job <- gwJob, past <- gwPast

LEMMA GatewayAssumptions ==
  GwP!FirstNameAssumption /\ GwP!PeriodAssumption /\ GwP!BoundsAssumption
  BY FirstNameAssumption, PeriodAssumption, BoundsAssumption
  DEF GwP!FirstNameAssumption, GwP!PeriodAssumption, GwP!BoundsAssumption

\* The instance with the proofs is the one of SubscriptionSystem.
LEMMA SameGateway ==
  /\ Gw!Init <=> GwP!Init
  /\ Gw!Gateway <=> GwP!Gateway
  /\ \A U, ends : Gw!SendSubscriptionInfo(U, ends) <=> GwP!SendSubscriptionInfo(U, ends)
  /\ \A u : (Gw!Quiet(u) <=> GwP!Quiet(u)) /\ (Gw!Steady(u) <=> GwP!Steady(u))
<1>1. Gw!Init <=> GwP!Init
  BY DEF Gw!Init, GwP!Init, Gw!EndDatesPromise!Init, GwP!EndDatesPromise!Init, Gw!IdleJob,
     GwP!IdleJob
<1>2. \A U, ends : Gw!SendSubscriptionInfo(U, ends) <=> GwP!SendSubscriptionInfo(U, ends)
  BY DEF Gw!SendSubscriptionInfo, GwP!SendSubscriptionInfo
<1>3. \A u : (Gw!Quiet(u) <=> GwP!Quiet(u)) /\ (Gw!Steady(u) <=> GwP!Steady(u))
  BY DEF Gw!Quiet, GwP!Quiet, Gw!Steady, GwP!Steady, Gw!About, GwP!About, Gw!Busy, GwP!Busy,
     Gw!IsInfo, GwP!IsInfo
<1>4. \A h, U, j : Gw!Begin(h, U, j) <=> GwP!Begin(h, U, j)
  BY DEF Gw!Begin, GwP!Begin, Gw!About, GwP!About, Gw!Busy, GwP!Busy,
     Gw!IsInfo, GwP!IsInfo, Gw!IsProfile, GwP!IsProfile
<1>5. \A h : Gw!TakeMessage(h) <=> GwP!TakeMessage(h)
  BY <1>4 DEF Gw!TakeMessage, GwP!TakeMessage
<1>6. \A h, u, name : Gw!FillProfile(h, u, name) <=> GwP!FillProfile(h, u, name)
  BY <1>4 DEF Gw!FillProfile, GwP!FillProfile
<1>7. \A h : Gw!HandlerStep(h) <=> GwP!HandlerStep(h)
  BY DEF Gw!HandlerStep, GwP!HandlerStep, Gw!ReadUsers, GwP!ReadUsers,
     Gw!changeUserSubscription, GwP!changeUserSubscription, Gw!UpdateAccountType,
     GwP!UpdateAccountType, Gw!TwoColumns, GwP!TwoColumns, Gw!HandleEvents, GwP!HandleEvents,
     Gw!CheckName, GwP!CheckName, Gw!getUserByUsername, GwP!getUserByUsername,
     Gw!UpdateUserProfileInfo, GwP!UpdateUserProfileInfo, Gw!UpdateUsername,
     GwP!UpdateUsername, Gw!IsInfo, GwP!IsInfo, Gw!IsProfile, GwP!IsProfile, Gw!Busy,
     GwP!Busy, Gw!IdleJob, GwP!IdleJob
<1>8. \A H : Gw!Lost(H) = GwP!Lost(H)
  BY DEF Gw!Lost, GwP!Lost, Gw!IsInfo, GwP!IsInfo, Gw!IsProfile, GwP!IsProfile, Gw!Busy, GwP!Busy
<1>9. (\A h : Gw!Fail(h) <=> GwP!Fail(h)) /\ (Gw!Restart <=> GwP!Restart)
  BY <1>8 DEF Gw!Fail, GwP!Fail, Gw!Restart, GwP!Restart, Gw!Busy, GwP!Busy, Gw!IdleJob,
     GwP!IdleJob
<1> QED
  BY <1>1, <1>2, <1>3, <1>5, <1>6, <1>7, <1>9 DEF Gw!Gateway, GwP!Gateway

\* Whom nothing overtook and nothing was lost of has the last date told before
\* him or behind him.
GatewayInv == GwP!TypeOK /\ GwP!ToldInv

LEMMA SendKeeps ==
  ASSUME TypeOK', GatewayInv, NEW U \in SUBSET Users, NEW ends \in [Users -> Nat],
         Gw!SendSubscriptionInfo(U, ends), UNCHANGED <<acct, gwJob, nameTold, now>>
  PROVE  GatewayInv'
<1>1. GwP!SendSubscriptionInfo(U, ends)
  BY SameGateway
<1>2. GwP!TypeOK'
  <2>1. told' \in [Users -> Nat] /\ queue' \in Seq(GwP!Messages) /\ gwPast' \in GwP!Past
    BY <1>1, GwP!SendType, GatewayAssumptions DEF GatewayInv
  <2> QED BY <2>1 DEF GatewayInv, GwP!TypeOK, TypeOK
<1>3. ASSUME NEW u \in Users, GwP!Steady(u)' PROVE GwP!Told(u)'
  <2>1. GwP!Steady(u)
    BY <1>1, <1>3 DEF GwP!Steady, GwP!SendSubscriptionInfo, GatewayInv, GwP!TypeOK, GwP!Past
  <2>2. GwP!Told(u)
    BY <2>1 DEF GatewayInv, GwP!ToldInv
  <2> QED BY <1>1, <2>2, GwP!ToldSends, GatewayAssumptions DEF GatewayInv
<1> QED
  BY <1>2, <1>3 DEF GatewayInv, GwP!ToldInv

\* The users the midnight job tells about.
Ended == {Owner[s] : s \in gatewayData}

\* What payments tells, and of whom.
LEMMA ToldTo ==
  ASSUME TypeOK, IInv
  PROVE  /\ \A h \in Slots : EmitOne(h) =>
              /\ Whose(h) \in Users /\ job[h].row.end \in Nat
              /\ told' = [u \in Users |-> IF u = Whose(h) THEN job[h].row.end ELSE told[u]]
         /\ EmitMany =>
              /\ Ended \in SUBSET Users
              /\ \A u \in Users \ Ended : told'[u] = told[u]
              /\ \A u \in Ended : \E s \in cron.batch :
                   Owner[s] = u /\ s \in Subs /\ told'[u] = cron.rows[s].end
         /\ Silent => told' = told
<1>1. ASSUME NEW h \in Slots, EmitOne(h)
      PROVE  /\ Whose(h) \in Users /\ job[h].row.end \in Nat
             /\ told' = [u \in Users |-> IF u = Whose(h) THEN job[h].row.end ELSE told[u]]
  <2>1. job[h].pc # "idle" /\ TellGateway(h)
    BY <1>1 DEF EmitOne, TellGateway
  <2>2. job[h].ev.sub \in Subs /\ job[h].row.end \in Nat
    BY <2>1, BusyJobs DEF BusyJob, Event, Row
  <2>3. Whose(h) \in Users
    BY <2>2, OwnerAssumption DEF Whose
  <2> QED BY <2>1, <2>2, <2>3 DEF TellGateway, TypeOK, Whose
<1>2. ASSUME EmitMany
      PROVE  /\ Ended \in SUBSET Users
             /\ \A u \in Users \ Ended : told'[u] = told[u]
             /\ \A u \in Ended : \E s \in cron.batch :
                  Owner[s] = u /\ s \in Subs /\ told'[u] = cron.rows[s].end
  <2> DEFINE of(u) == {s \in gatewayData : Owner[s] = u}
  <2>1. gatewayData \subseteq cron.batch /\ cron.batch \subseteq Subs
    BY <1>2, BusyCrons DEF EmitMany, CronTell, BusyCron, gatewayData
  <2>2. PICK last \in [Users -> Subs] :
          /\ \A u \in Users : of(u) # {} => last[u] \in of(u)
          /\ told' = [u \in Users |-> IF of(u) = {} THEN told[u] ELSE cron.rows[last[u]].end]
    BY <1>2 DEF EmitMany, CronTell
  <2>3. \A u \in Users : of(u) = {} <=> u \notin Ended
    BY DEF Ended
  <2>4. Ended \in SUBSET Users
    BY <2>1, OwnerAssumption DEF Ended
  <2> QED BY <2>1, <2>2, <2>3, <2>4
<1>3. ASSUME Silent PROVE told' = told
  <2>1. ASSUME NEW h \in Slots, SilentHandler(h) PROVE told' = told
    <3>1. CASE PayPalWebhook(h) \/ StripeWebhook(h) \/ Command(h)
      BY <3>1, BeginEffect DEF Begins, IInv
    <3> QED BY <2>1, <3>1 DEF SilentHandler, FindRival, RevokeRival, RetireRival, WriteRow,
            RecordTransaction, SwitchRemote, Fail
  <2> QED BY <1>3, <2>1 DEF Silent, CreatePayment, CronRevoke, CronRead, CronGiveUp, CronFail,
          Crash, Provider, Approve, Charge, Decline, ProviderSuspend, ProviderCancel, Tick
<1> QED
  BY <1>1, <1>2, <1>3

LEMMA GatewayNext ==
  ASSUME TypeOK, IInv, GatewayInv, [SysNext]_sysVars
  PROVE  GatewayInv'
<1>1. TypeOK'
  BY SystemInvariantNext
<1>2. ASSUME NEW h \in Slots, EmitOne(h) PROVE GatewayInv'
  <2> DEFINE ends == [v \in Users |-> IF v = Whose(h) THEN job[h].row.end ELSE 0]
  <2>1. Whose(h) \in Users /\ ends \in [Users -> Nat]
    BY <1>2, ToldTo
  <2>2. Gw!SendSubscriptionInfo({Whose(h)}, ends) /\ UNCHANGED <<acct, gwJob, nameTold, now>>
    BY <1>2 DEF EmitOne, TellGateway, Whose
  <2> HIDE DEF ends
  <2> QED BY <1>1, <2>1, <2>2, SendKeeps
<1>3. ASSUME UNCHANGED gwVars, told' = told, now' \in Nat, now <= now' PROVE GatewayInv'
  <2>1. UNCHANGED <<acct, queue, gwJob, nameTold, told, gwPast>>
    BY <1>3 DEF gwVars
  <2>2. GwP!TypeOK'
    BY <1>1, <2>1 DEF GatewayInv, GwP!TypeOK, TypeOK
  <2>3. ASSUME NEW u \in Users, GwP!Steady(u)' PROVE GwP!Told(u)'
    <3>1. GwP!Told(u)
      BY <2>1, <2>3 DEF GatewayInv, GwP!ToldInv, GwP!Steady
    <3> QED BY <1>3, <2>1, <3>1, GwP!ToldWaits, GatewayAssumptions DEF GatewayInv
  <2> QED BY <2>2, <2>3 DEF GatewayInv, GwP!ToldInv
<1>4. CASE EmitMany
  <2> DEFINE ends == [u \in Users |-> IF u \in Ended THEN told'[u] ELSE 0]
  <2>1. now' = now /\ UNCHANGED <<acct, gwJob, nameTold>>
    BY <1>4 DEF EmitMany, CronTell
  <2>2. CASE Ended = {}
    <3>1. told' = told
      BY <1>1, <1>4, <2>2, ToldTo DEF TypeOK
    <3>2. UNCHANGED gwVars
      BY <1>4, <2>2 DEF EmitMany, gwVars, Ended
    <3> QED BY <1>3, <2>1, <3>1, <3>2 DEF TypeOK
  <2>3. CASE Ended # {}
    <3>1. Gw!SendSubscriptionInfo(Ended, ends)
      BY <1>4, <2>3 DEF EmitMany, Ended
    <3>2. ends \in [Users -> Nat] /\ Ended \in SUBSET Users
      BY <1>1, <1>4, ToldTo DEF TypeOK
    <3> HIDE DEF ends
    <3> QED BY <1>1, <2>1, <3>1, <3>2, SendKeeps
  <2> QED BY <2>2, <2>3
<1>5. CASE Silent
  <2>1. now' \in Nat /\ now <= now'
    <3>1. [Next]_vars
      BY <1>5, SilentIsNext
    <3> QED BY <3>1, ClockGoesOn
  <2> QED BY <1>3, <1>5, <2>1, ToldTo DEF Silent
<1>6. CASE GatewayStep
  <2>1. [GwP!Next]_(GwP!vars)
    BY <1>6, SameGateway DEF GatewayStep, GwP!Next
  <2> QED BY <2>1, GwP!NextType, GwP!ToldNext, GatewayAssumptions DEF GatewayInv
<1>7. CASE (CronWrite /\ UNCHANGED gwVars) \/ UNCHANGED sysVars
  <2>1. UNCHANGED gwVars /\ told' = told /\ now' = now
    BY <1>7 DEF CronWrite, sysVars, vars
  <2> QED BY <1>3, <2>1 DEF TypeOK
<1> QED
  BY <1>2, <1>4, <1>5, <1>6, <1>7 DEF SysNext

(***************************************************************************)
(* What is told agrees with the rows.                                      *)
(***************************************************************************)

\* A row that is over was ended by a webhook, or at midnight when its date was past.
EndedRows(u) == \A s \in Subs :
  Owner[s] = u /\ row[s].status = "Canceled" => s \in hooked \/ row[s].end < now

OneLive(u) ==
  u \in astray \/ \A s, t \in Subs :
    Owner[s] = u /\ Owner[t] = u /\ Live(row[s]) /\ Live(row[t]) => s = t

\* A handler that retired the rival leaves no row live before it writes its own,
\* with the date that was told of the rival.
TakesOver(u) == \A h \in Slots :
  Whose(h) = u /\ job[h].pc = "write" /\ job[h].rival # NoSub /\ u \notin astray =>
    /\ \A t \in Subs : Owner[t] = u => ~Live(row[t])
    /\ Inherits(h) /\ ~Due(u) => job[h].row.end \in {0, told[u]}

\* The midnight job is about to tell of s.
AboutToTell(s) == cron.pc = "tell" /\ s \in cron.batch

\* A date told when it was still to come is that of a row which is live, or which
\* a webhook ended, or a midnight that is still to tell so or stopped before.
RowOfTold(u) ==
  ~Due(u) /\ u \notin gwPast.over => \E s \in Subs :
    /\ Owner[s] = u /\ row[s].end = told[u] /\ told[u] # 0
    /\ Live(row[s]) \/ s \in hooked \cup untold \/ AboutToTell(s)

\* The date of the live row, if it has one, is told.
LiveRowTold(u) ==
  ~Due(u) /\ u \notin astray => \A s \in Subs :
    Owner[s] = u /\ Live(row[s]) => row[s].end \in {0, told[u]}

\* Of whom a midnight has a row to tell about, it left no row live.
NoneLeft(u) ==
  u \notin astray /\ (\E s \in Subs : Owner[s] = u /\ AboutToTell(s)) =>
    \A t \in Subs : Owner[t] = u => ~Live(row[t])

Agrees(u) ==
  /\ EndedRows(u) /\ OneLive(u) /\ TakesOver(u)
  /\ RowOfTold(u) /\ LiveRowTold(u) /\ NoneLeft(u)

TellsInv == \A u \in Users : Orderly(u) => Agrees(u)

\* h writes what it holds of s, of which it is the only handler.
LEMMA WritesDate ==
  ASSUME TypeOK, IInv, HandsInv, NEW h \in Slots, WriteRow(h), NEW s \in Subs,
         s = job[h].ev.sub, Orderly(Owner[s])
  PROVE  /\ Busy(h) /\ job[h].pc = "write" /\ Whose(h) = Owner[s]
         /\ Written(row[s], job[h]) = job[h].row
         /\ \/ Due(Owner[s]) /\ job[h].ev.kind = "SaleCompleted" /\ Live(job[h].row)
            \/ Inherits(h) /\ row[s].end = 0 /\ Live(job[h].row)
            \/ ~Inherits(h) /\ job[h].row.end = row[s].end
         /\ Live(job[h].row) /\ ~Live(row[s]) =>
              /\ \/ job[h].ev.kind \in {"SaleCompleted", "Suspended"}
                 \/ row[s].end = 0
              /\ \/ job[h].ev.kind = "Suspended" \/ job[h].rival # NoSub
                 \/ \A t \in Subs : Owner[t] = Owner[s] => ~Live(row[t])
<1>1. /\ Busy(h) /\ job[h].pc = "write" /\ Whose(h) = Owner[s] /\ job[h] \in BusyJob
      /\ System[s] = "PayPal" /\ Written(row[s], job[h]) = job[h].row /\ Fresh(h) /\ Held(h)
  BY WriteRowWrites DEF Whose, Orderly, PayPalOnly, HandsInv
<1>2. job[h].ev.kind # "Checkout"
  BY <1>1 DEF IInv, EventInv, SentByItsSystem, StripeKinds
<1>3. job[h].ev.kind = "SaleCompleted" => Due(Owner[s]) /\ Live(job[h].row)
  BY <1>1 DEF Held, Due, Live
<1>4. job[h].ev.kind # "SaleCompleted" =>
        IF Inherits(h) THEN row[s].end = 0 /\ Live(job[h].row) ELSE job[h].row.end = row[s].end
  BY <1>1 DEF Held, Inherits, Live, IInv, RaceInv, MemoryInv
<1>5. ASSUME Live(job[h].row), ~Live(row[s]),
             job[h].ev.kind \notin {"SaleCompleted", "Suspended"}
      PROVE  row[s].end = 0
  <2>1. row[s].status \in {"None", "Pending"}
    BY <1>1, <1>2, <1>5 DEF Fresh, Live, TypeOK, Row, SubscriptionStatuses
  <2> QED BY <1>1, <2>1 DEF IInv, RaceInv, MemoryInv
<1>6. ASSUME Live(job[h].row), ~Live(row[s]), job[h].ev.kind # "Suspended", job[h].rival = NoSub
      PROVE  \A t \in Subs : Owner[t] = Owner[s] => ~Live(row[t])
  BY <1>1, <1>6 DEF Fresh
<1> QED
  BY <1>1, <1>3, <1>4, <1>5, <1>6 DEF Inherits

\* What becomes of a row.
LEMMA OrderlyRows ==
  ASSUME TypeOK, IInv, HandsInv, [Next]_vars, NEW s \in Subs, Orderly(Owner[s])
  PROVE  \/ row'[s] = row[s]
         \/ /\ ~Live(row[s]) /\ row[s].end = 0
            /\ row'[s].status = "Pending" /\ row'[s].end = 0
         \/ /\ Live(row[s]) /\ row'[s].status = "Canceled" /\ row'[s].end = row[s].end
            /\ \/ cron.pc = "idle"
               \/ CronWrite /\ s \in cron.batch /\ row[s].end < now
         \/ \E h \in Slots : WriteRow(h) /\ s = job[h].ev.sub /\ row'[s] = job[h].row
<1>1. CASE row[s].status = "None" /\ row'[s] \in NewRows(s)
  BY <1>1, NewRowIsPending DEF Live, IInv, RaceInv, MemoryInv
<1>2. ASSUME NEW h \in Slots, RetireRival(h), s = job[h].rival,
             row'[s] = cancelSubscription(job[h].rivalRow)
      PROVE  /\ Live(row[s]) /\ row'[s].status = "Canceled" /\ row'[s].end = row[s].end
             /\ cron.pc = "idle"
  <2>1. job[h].pc = "retire" /\ Busy(h)
    BY <1>2 DEF RetireRival, Busy
  <2>2. Whose(h) = Owner[s] /\ Live(job[h].rivalRow)
    BY <1>2, <2>1 DEF IInv, RaceInv, MemoryInv, Whose
  <2>3. Fresh(h) /\ cron.pc = "idle"
    BY <2>1, <2>2, OnlyHandler DEF IInv, RaceInv, FreshInv, Orderly, Whose
  <2>4. job[h].rivalRow = row[s]
    BY <1>2, <2>1, <2>3 DEF Fresh
  <2> QED BY <1>2, <2>2, <2>3, <2>4, RetiredIsCanceled
<1>3. ASSUME NEW h \in Slots, WriteRow(h), s = job[h].ev.sub, row'[s] = Written(row[s], job[h])
      PROVE  row'[s] = job[h].row
  BY <1>3, WritesDate
<1>4. ASSUME CronWrite, s \in cron.batch, row'[s] = cron.rows[s]
      PROVE  /\ Live(row[s]) /\ row'[s].status = "Canceled" /\ row'[s].end = row[s].end
             /\ row[s].end < now
  <2>1. cron.pc = "write"
    BY <1>4 DEF CronWrite
  <2> QED BY <1>4, <2>1 DEF HandsInv, BatchInv, Orderly, IInv, RaceInv, MemoryInv, FreshInv
<1> QED
  BY <1>1, <1>2, <1>3, <1>4, RowSteps DEF IInv

LEMMA HistoriesGrow ==
  ASSUME [SysNext]_sysVars
  PROVE  /\ hooked \subseteq hooked' /\ untold \subseteq untold' /\ astray \subseteq astray'
         /\ ~CronWrite => \A s \in Subs : Live(row[s]) /\ ~Live(row'[s]) => s \in hooked'
<1>1. CASE UNCHANGED sysVars
  BY <1>1 DEF sysVars, vars
<1>2. CASE EmitMany /\ UNCHANGED <<hooked, untold, astray>>
  BY <1>2 DEF EmitMany, CronTell
<1> QED
  BY <1>1, <1>2 DEF SysNext

\* What a midnight is about to tell is told, or counted as untold.
LEMMA ToldOrUntold ==
  ASSUME TypeOK, IInv, [SysNext]_sysVars, [Next]_vars, ~EmitMany,
         NEW s \in Subs, AboutToTell(s)
  PROVE  s \in untold' \/ AboutToTell(s)'
<1>1. CASE cron'.pc = "idle"
  <2>1. s \in LeftUntold
    BY <1>1 DEF AboutToTell, LeftUntold, gatewayData, IInv, RaceInv, MemoryInv
  <2>2. ~CronWrite /\ cron' # cron
    BY <1>1 DEF AboutToTell, CronWrite
  <2> QED BY <2>1, <2>2 DEF SysNext, sysVars, vars
<1>2. CASE cron'.pc # "idle"
  <2>1. ~CronRead
    BY DEF AboutToTell, CronRead
  <2> QED BY <1>2, <2>1, CronSteps DEF AboutToTell, IInv
<1> QED
  BY <1>1, <1>2

\* A late SUSPENDED that makes a row live leads astray.
LEMMA LateSuspended ==
  ASSUME [SysNext]_sysVars, NEW s \in Subs, ~Live(row[s]), Live(row'[s]),
         WrittenBy(s, {"Suspended"}), ~CronWrite
  PROVE  Owner[s] \in astray'
<1>1. row' # row
  OBVIOUS
<1>2. ASSUME NEW h \in Slots, EmitOne(h) PROVE FALSE
  BY <1>1, <1>2 DEF EmitOne, TellGateway
<1>3. ~EmitMany
  BY <1>1 DEF EmitMany, CronTell
<1>4. Owner[s] \in RevivedLate
  BY DEF RevivedLate
<1>5. ~GatewayStep /\ ~UNCHANGED sysVars
  BY <1>1 DEF GatewayStep, payVars, sysVars, vars
<1> QED
  BY <1>2, <1>3, <1>4, <1>5 DEF SysNext

\* A date is told of u by a handler, or at midnight, or nothing is; and only the
\* first makes a payment of u no longer due.
LEMMA StepCases ==
  ASSUME TypeOK, IInv, GatewayInv, [SysNext]_sysVars, NEW u \in Users
  PROVE  \/ /\ \E h \in Slots : Tells(h) /\ Whose(h) = u /\ told'[u] = job[h].row.end
            /\ u \in gwPast'.over <=> told'[u] <= now
         \/ /\ EmitMany /\ u \in Ended
            /\ u \in gwPast'.over <=> told'[u] <= now
         \/ /\ ~(EmitMany /\ u \in Ended)
            /\ Due(u) => Due(u)'
            /\ told'[u] = told[u] /\ (u \in gwPast'.over <=> u \in gwPast.over)
<1>1. ASSUME NEW U \in SUBSET Users, NEW ends, Gw!SendSubscriptionInfo(U, ends)
      PROVE  /\ u \in U => told'[u] = ends[u] /\ (u \in gwPast'.over <=> ends[u] <= now)
             /\ u \notin U => told'[u] = told[u] /\ (u \in gwPast'.over <=> u \in gwPast.over)
  BY <1>1 DEF Gw!SendSubscriptionInfo, GatewayInv, GwP!TypeOK, GwP!Past
<1>2. ASSUME NEW h \in Slots, EmitOne(h)
      PROVE  IF Whose(h) = u
             THEN told'[u] = job[h].row.end /\ (u \in gwPast'.over <=> told'[u] <= now)
             ELSE told'[u] = told[u] /\ (u \in gwPast'.over <=> u \in gwPast.over)
  <2> DEFINE ends == [v \in Users |-> IF v = Whose(h) THEN job[h].row.end ELSE 0]
  <2>1. Whose(h) \in Users /\ ends[u] = IF u = Whose(h) THEN job[h].row.end ELSE 0
    BY <1>2, ToldTo
  <2>2. Gw!SendSubscriptionInfo({Whose(h)}, ends)
    BY <1>2 DEF EmitOne, Whose
  <2> HIDE DEF ends
  <2> QED BY <1>1, <2>1, <2>2
<1>3. ASSUME EmitMany
      PROVE  IF u \in Ended
             THEN u \in gwPast'.over <=> told'[u] <= now
             ELSE told'[u] = told[u] /\ (u \in gwPast'.over <=> u \in gwPast.over)
  <2> DEFINE ends == [v \in Users |-> IF v \in Ended THEN told'[v] ELSE 0]
  <2>1. CASE Ended = {}
    BY <1>3, <2>1, ToldTo DEF EmitMany, Ended
  <2>2. CASE Ended # {}
    <3>1. Gw!SendSubscriptionInfo(Ended, ends)
      BY <1>3, <2>2 DEF EmitMany, Ended
    <3>2. Ended \in SUBSET Users /\ (u \in Ended => ends[u] = told'[u])
      BY <1>3, ToldTo
    <3> HIDE DEF ends
    <3> QED BY <1>1, <3>1, <3>2
  <2> QED BY <2>1, <2>2
<1>4. ASSUME Silent \/ (CronWrite /\ UNCHANGED gwVars) \/ UNCHANGED sysVars
      PROVE  told'[u] = told[u] /\ gwPast' = gwPast
  BY <1>4, ToldTo DEF Silent, CronWrite, gwVars, sysVars, vars
<1>5. ASSUME GatewayStep
      PROVE  told'[u] = told[u] /\ gwPast'.over = gwPast.over
  <2>1. GwP!Gateway
    BY <1>5, SameGateway DEF GatewayStep
  <2> QED BY <1>5, <2>1, GatewayFrame, GwP!OverKept, GatewayAssumptions DEF GatewayInv
<1>6. CASE \E h \in Slots : Tells(h) /\ Whose(h) = u
  BY <1>2, <1>6 DEF Tells
<1>7. CASE EmitMany /\ u \in Ended
  BY <1>3, <1>7
<1>8. CASE ~(\E h \in Slots : Tells(h) /\ Whose(h) = u) /\ ~(EmitMany /\ u \in Ended)
  <2>1. Due(u) => Due(u)'
    BY <1>8, SalesStay DEF Due, Whose
  <2>2. told'[u] = told[u] /\ (u \in gwPast'.over <=> u \in gwPast.over)
    BY <1>2, <1>3, <1>4, <1>5, <1>8 DEF SysNext, Tells
  <2> QED BY <1>8, <2>1, <2>2
<1> QED
  BY <1>6, <1>7, <1>8

LEMMA EndedRowsNext ==
  ASSUME TypeOK, IInv, HandsInv, [SysNext]_sysVars, [Next]_vars, now > 0,
         NEW u \in Users, Orderly(u), EndedRows(u)
  PROVE  EndedRows(u)'
<1> SUFFICES ASSUME NEW s \in Subs, Owner[s] = u, row'[s].status = "Canceled"
             PROVE  s \in hooked' \/ row'[s].end < now'
  BY DEF EndedRows
<1>1. /\ now \in Nat /\ now' \in Nat /\ now <= now' /\ hooked \subseteq hooked'
      /\ row[s] \in Row /\ row[s].end \in Nat /\ row'[s].end \in Nat
  BY ClockGoesOn, NextType, HistoriesGrow DEF TypeOK, Row
<1>2. CASE row[s].status = "Canceled" /\ row'[s].end = row[s].end
  BY <1>1, <1>2 DEF EndedRows
<1>3. CASE Live(row[s]) /\ cron.pc = "idle"
  <2>1. ~CronWrite /\ ~Live(row'[s])
    BY <1>3 DEF CronWrite, Live
  <2> QED BY <1>3, <2>1, HistoriesGrow
<1>4. CASE row'[s].end = row[s].end /\ row[s].end < now
  BY <1>1, <1>4
<1>5. ASSUME NEW h \in Slots, WriteRow(h), s = job[h].ev.sub, row'[s] = job[h].row
      PROVE  s \in hooked' \/ row'[s].end < now'
  <2>1. /\ Busy(h) /\ Whose(h) = u /\ row'[s].end = row[s].end
    BY <1>5, WritesDate DEF Live
  <2>2. cron.pc = "idle"
    BY <2>1, OnlyHandler DEF Orderly
  <2>3. row[s].status \in {"None", "Pending"} => row[s].end = 0
    BY DEF IInv, RaceInv, MemoryInv, Orderly, PayPalOnly
  <2> QED BY <1>1, <1>2, <1>3, <1>4, <2>1, <2>2, <2>3 DEF Live, Row, SubscriptionStatuses
<1> QED
  BY <1>2, <1>3, <1>4, <1>5, OrderlyRows

LEMMA OneLiveNext ==
  ASSUME TypeOK, IInv, HandsInv, [SysNext]_sysVars, [Next]_vars,
         NEW u \in Users, Orderly(u), OneLive(u), TakesOver(u)
  PROVE  OneLive(u)'
<1>1. ASSUME u \notin astray', NEW s \in Subs, NEW t \in Subs, Owner[s] = u, Owner[t] = u,
             Live(row'[s]), Live(row'[t]), s # t, ~Live(row[s])
      PROVE  FALSE
  <2>1. u \notin astray
    BY <1>1, HistoriesGrow
  <2>2. PICK h \in Slots : WriteRow(h) /\ s = job[h].ev.sub /\ row'[s] = job[h].row
    BY <1>1, OrderlyRows DEF Live
  <2>3. row'[t] = row[t]
    BY <1>1, <2>2 DEF WriteRow, TypeOK
  <2>4. /\ Busy(h) /\ job[h].pc = "write" /\ Whose(h) = u
        /\ \/ job[h].ev.kind = "Suspended" \/ job[h].rival # NoSub
           \/ \A r \in Subs : Owner[r] = u => ~Live(row[r])
    BY <1>1, <2>2, WritesDate
  <2>5. job[h].ev.kind # "Suspended"
    <3>1. ~CronWrite
      BY <2>4, OnlyHandler DEF Orderly, CronWrite
    <3> QED BY <1>1, <2>2, <2>4, <3>1, LateSuspended DEF WrittenBy
  <2> QED BY <1>1, <2>1, <2>3, <2>4, <2>5 DEF TakesOver
<1>2. ASSUME u \notin astray', NEW s \in Subs, NEW t \in Subs, Owner[s] = u, Owner[t] = u,
             Live(row'[s]), Live(row'[t])
      PROVE  s = t
  BY <1>1, <1>2, HistoriesGrow DEF OneLive
<1> QED
  BY <1>2 DEF OneLive

\* While a handler of u is at work no other tells of u, and midnight does not.
LEMMA NothingToldBeside ==
  ASSUME TypeOK, IInv, GatewayInv, [SysNext]_sysVars, NEW g \in Slots, Busy(g),
         job[g].pc # "tell", NEW u \in Users, Whose(g) = u, Orderly(u)
  PROVE  ~EmitMany /\ told'[u] = told[u] /\ (Due(u) => Due(u)')
<1>1. ~EmitMany
  BY OnlyHandler DEF Orderly, EmitMany, CronTell
<1>2. ASSUME NEW h \in Slots, Tells(h), Whose(h) = u PROVE FALSE
  BY <1>2, OnlyHandler DEF Orderly, Tells, EmitOne, TellGateway, Busy
<1> QED
  BY <1>1, <1>2, StepCases

LEMMA TakesOverNext ==
  ASSUME TypeOK, IInv, HandsInv, GatewayInv, [SysNext]_sysVars, [Next]_vars, NEW u \in Users,
         Orderly(u)', Orderly(u), OneLive(u), TakesOver(u), LiveRowTold(u)
  PROVE  TakesOver(u)'
<1> SUFFICES ASSUME NEW g \in Slots, Whose(g)' = u, job'[g].pc = "write", job'[g].rival # NoSub,
                    u \notin astray'
             PROVE  /\ \A t \in Subs : Owner[t] = u => ~Live(row'[t])
                    /\ Inherits(g)' /\ ~Due(u)' => job'[g].row.end \in {0, told'[u]}
  BY DEF TakesOver
<1>1. u \notin astray /\ \A t \in Subs : \A r \in NewRows(t) : ~Live(r)
  BY HistoriesGrow, NewRowIsPending
<1>2. CASE Begins(g) /\ job' # job
  BY <1>2, BeginComputed DEF IInv, RaceInv
<1>3. CASE Busy(g) /\ job'[g].ev = job[g].ev /\ (job'[g] = job[g] \/ Steps(g))
  <2>1. /\ job[g] \in BusyJob /\ Whose(g) = u /\ Held(g)
    BY <1>3, BusyJobs DEF Busy, Whose, HandsInv
  <2>2. CASE RetireRival(g)
    <3> DEFINE s == job[g].ev.sub  r == job[g].rival
    <3>1. /\ job[g].pc = "retire" /\ ~Inherits(g) /\ Fresh(g)
      <4>1. job[g].pc = "retire"
        BY <2>2 DEF RetireRival
      <4> QED BY <2>1, <4>1 DEF Inherits, IInv, RaceInv, FreshInv, Orderly, Whose
    <3>2. r \in Subs /\ Owner[r] = u /\ Live(row[r]) /\ job[g].rivalRow = row[r]
      BY <2>1, <3>1 DEF BusyJob, IInv, RaceInv, MemoryInv, Fresh, Whose
    <3>3. ~Live(row'[r])
      BY <2>2, <3>2, RetiredIsCanceled DEF RetireRival, TypeOK, Live
    <3>4. ASSUME NEW t \in Subs, Owner[t] = u PROVE ~Live(row'[t])
      <4>1. t # r => row'[t] = row[t] /\ ~Live(row[t])
        BY <1>1, <2>2, <3>2, <3>4, RetireRivalWrites DEF OneLive
      <4> QED BY <3>3, <4>1
    <3>5. ASSUME Inherits(g)', ~Due(u)' PROVE job'[g].row.end \in {0, told'[u]}
      <4>1. job[g].ev.kind = "Activated"
        BY <1>3, <3>5 DEF Inherits
      <4>2. row[s].end = 0 /\ job[g].row.end = row[s].end
        BY <2>1, <3>1, <4>1 DEF Fresh, Held
      <4>3. job'[g].row = activateSubscription(job[g].row, row[r].end)
        BY <2>2, <3>2, <4>1, RetireRivalWrites
      <4>4. job'[g].row.end = row[r].end
        BY <2>1, <4>2, <4>3 DEF activateSubscription, KeepIfNull, BusyJob, Row
      <4>5. ~Due(u) /\ told'[u] = told[u]
        BY <1>3, <2>1, <3>1, <3>5, NothingToldBeside
      <4> QED BY <1>1, <3>2, <4>4, <4>5 DEF LiveRowTold
    <3> QED BY <3>4, <3>5
  <2>3. CASE ~RetireRival(g)
    <3>1. ~WriteRow(g)
      BY <1>3, <2>1 DEF WriteRow, AfterWrite, Advance, TypeOK, IdleJob, BusyJob
    <3>2. job'[g] = job[g]
      <4>1. ~FindRival(g)
        <5>1. FindRival(g) => job[g].pc = "find"
          BY DEF FindRival
        <5> QED BY <2>1, <5>1, FindRivalFinds DEF Held
      <4>2. ~SwitchRemote(g)
        <5>1. SwitchRemote(g) => job[g].pc = "call"
          BY DEF SwitchRemote
        <5> QED BY <2>1, <2>3, <4>1, <5>1, StepKeepsRows DEF Held
      <4>3. ~RevokeRival(g)
        BY <2>1 DEF RevokeRival, Abort, TypeOK, IdleJob, BusyJob
      <4>4. ~RecordTransaction(g) /\ ~TellGateway(g)
        BY <2>1 DEF RecordTransaction, TellGateway, Advance, TypeOK, IdleJob, BusyJob
      <4>5. ~Fail(g)
        BY DEF Fail, Abort, TypeOK, IdleJob
      <4> QED BY <1>3, <2>3, <3>1, <4>1, <4>2, <4>3, <4>4, <4>5 DEF Steps, HandlerStep
    <3>3. \A t \in Subs : Owner[t] = u =>
            row'[t] = row[t] \/ (row[t].status = "None" /\ row'[t] \in NewRows(t))
      BY <1>3, <2>1, <2>3, <3>1, OthersLeaveRows DEF IInv, RaceInv, Orderly, Whose
    <3>4. (Due(u) => Due(u)') /\ told'[u] = told[u]
      BY <1>3, <2>1, <3>2, NothingToldBeside
    <3>5. Inherits(g)' <=> Inherits(g)
      BY <3>2 DEF Inherits
    <3> QED BY <1>1, <2>1, <3>2, <3>3, <3>4, <3>5 DEF TakesOver
  <2> QED BY <2>2, <2>3
<1> QED
  BY <1>2, <1>3, JobSteps DEF IInv

LEMMA RowOfToldNext ==
  ASSUME TypeOK, IInv, HandsInv, GatewayInv, [SysNext]_sysVars, [Next]_vars,
         NEW u \in Users, Orderly(u), EndedRows(u), RowOfTold(u)
  PROVE  RowOfTold(u)'
<1> SUFFICES ASSUME ~Due(u)', u \notin gwPast'.over
             PROVE  \E s \in Subs : /\ Owner[s] = u /\ row'[s].end = told'[u] /\ told'[u] # 0
                                    /\ \/ Live(row'[s]) \/ s \in hooked' \cup untold'
                                       \/ AboutToTell(s)'
  BY DEF RowOfTold
<1>1. /\ now \in Nat /\ told'[u] \in Nat /\ hooked \subseteq hooked' /\ untold \subseteq untold'
  BY NextType, HistoriesGrow DEF TypeOK
<1>2. CASE (\E h \in Slots : Tells(h) /\ Whose(h) = u /\ told'[u] = job[h].row.end)
           /\ (u \in gwPast'.over <=> told'[u] <= now)
  <2>1. PICK h \in Slots : Tells(h) /\ Whose(h) = u /\ told'[u] = job[h].row.end
    BY <1>2
  <2> DEFINE s == job[h].ev.sub
  <2>2. Busy(h) /\ job[h].pc = "tell" /\ row' = row
    BY <2>1 DEF Tells, EmitOne, TellGateway, Busy
  <2>3. s \in Subs /\ Owner[s] = u
    BY <2>1, <2>2, BusyJobs DEF Busy, BusyJob, Event, Whose
  <2>4. /\ row[s] = job[h].row
        /\ job[h].row.status \in {"Active", "Canceled"}
    BY <2>1, <2>2 DEF HandsInv, Held
  <2>5. now < told'[u]
    BY <1>1, <1>2
  <2>6. Live(row[s]) \/ s \in hooked
    BY <1>1, <2>1, <2>3, <2>4, <2>5 DEF EndedRows, Live
  <2> QED BY <1>1, <2>1, <2>2, <2>3, <2>4, <2>5, <2>6
<1>3. CASE EmitMany /\ u \in Ended /\ (u \in gwPast'.over <=> told'[u] <= now)
  <2>1. PICK s \in cron.batch : told'[u] = cron.rows[s].end
    BY <1>3, ToldTo
  <2>2. cron.pc # "idle"
    BY <1>3 DEF EmitMany, CronTell
  <2>3. told'[u] < now
    BY <2>1, <2>2 DEF HandsInv, BatchInv
  <2> QED BY <1>1, <1>3, <2>3
<1>4. CASE /\ ~(EmitMany /\ u \in Ended)
           /\ Due(u) => Due(u)'
           /\ told'[u] = told[u] /\ (u \in gwPast'.over <=> u \in gwPast.over)
  <2>1. PICK s \in Subs : /\ Owner[s] = u /\ row[s].end = told[u] /\ told[u] # 0
                          /\ Live(row[s]) \/ s \in hooked \cup untold \/ AboutToTell(s)
    BY <1>4 DEF RowOfTold
  <2>2. CASE row'[s] = row[s]
    <3>1. ASSUME AboutToTell(s) PROVE s \in untold' \/ AboutToTell(s)'
      <4>1. s \in gatewayData
        BY <3>1 DEF AboutToTell, gatewayData, IInv, RaceInv, MemoryInv
      <4>2. ~EmitMany
        BY <1>4, <2>1, <4>1 DEF Ended
      <4> QED BY <3>1, <4>2, ToldOrUntold
    <3> QED BY <1>1, <1>4, <2>1, <2>2, <3>1
  <2>3. CASE Live(row[s]) /\ row'[s].status = "Canceled" /\ row'[s].end = row[s].end
             /\ (cron.pc = "idle" \/ (CronWrite /\ s \in cron.batch))
    <3>1. CASE CronWrite /\ s \in cron.batch
      <4>1. AboutToTell(s)'
        BY <3>1, BusyCrons DEF CronWrite, AboutToTell, BusyCron
      <4> QED BY <1>4, <2>1, <2>3, <4>1
    <3>2. CASE cron.pc = "idle"
      <4>1. ~CronWrite
        BY <3>2 DEF CronWrite
      <4>2. s \in hooked'
        BY <2>3, <4>1, HistoriesGrow DEF Live
      <4> QED BY <1>4, <2>1, <2>3, <4>2
    <3> QED BY <2>3, <3>1, <3>2
  <2>4. ASSUME NEW h \in Slots, WriteRow(h), s = job[h].ev.sub, row'[s] = job[h].row
        PROVE  row'[s].end = told'[u] /\ (Live(row'[s]) \/ s \in hooked' \cup untold')
    <3>1. Busy(h) /\ Whose(h) = u /\ row'[s].end = row[s].end
      BY <1>4, <2>1, <2>4, WritesDate
    <3>2. ~CronWrite /\ ~AboutToTell(s)
      BY <2>1, <3>1, OnlyHandler DEF Orderly, CronWrite, AboutToTell
    <3> QED BY <1>1, <1>4, <2>1, <3>1, <3>2, HistoriesGrow
  <2> QED BY <1>4, <2>1, <2>2, <2>3, <2>4, OrderlyRows
<1> QED
  BY <1>2, <1>3, <1>4, StepCases

LEMMA LiveRowToldNext ==
  ASSUME TypeOK, IInv, HandsInv, GatewayInv, [SysNext]_sysVars, [Next]_vars,
         NEW u \in Users, Orderly(u), OneLive(u), TakesOver(u), LiveRowTold(u), NoneLeft(u)
  PROVE  LiveRowTold(u)'
<1> SUFFICES ASSUME ~Due(u)', u \notin astray', NEW s \in Subs, Owner[s] = u, Live(row'[s])
             PROVE  row'[s].end \in {0, told'[u]}
  BY DEF LiveRowTold
<1>1. u \notin astray
  BY HistoriesGrow
<1>2. CASE \E h \in Slots : Tells(h) /\ Whose(h) = u /\ told'[u] = job[h].row.end
  <2>1. PICK h \in Slots : Tells(h) /\ Whose(h) = u /\ told'[u] = job[h].row.end
    BY <1>2
  <2> DEFINE t == job[h].ev.sub
  <2>2. Busy(h) /\ job[h].pc = "tell" /\ row' = row
    BY <2>1 DEF Tells, EmitOne, TellGateway, Busy
  <2>3. t \in Subs /\ Owner[t] = u
    BY <2>1, <2>2, BusyJobs DEF Busy, BusyJob, Event, Whose
  <2>4. row[t] = job[h].row
    BY <2>1, <2>2 DEF HandsInv, Held
  <2>5. Live(row[t])
    BY <2>1, <2>2, <2>3 DEF Tells, ToldAside
  <2>6. s = t
    BY <1>1, <2>2, <2>3, <2>5 DEF OneLive
  <2> QED BY <2>1, <2>2, <2>4, <2>6
<1>3. CASE EmitMany /\ u \in Ended
  <2>1. PICK r \in cron.batch : Owner[r] = u /\ r \in Subs
    BY <1>3, ToldTo
  <2>2. cron.pc = "tell" /\ row' = row
    BY <1>3 DEF EmitMany, CronTell
  <2> QED BY <1>1, <2>1, <2>2 DEF NoneLeft, AboutToTell
<1>4. CASE ~Due(u) /\ told'[u] = told[u]
  <2>1. CASE row'[s] = row[s]
    BY <1>1, <1>4, <2>1 DEF LiveRowTold
  <2>2. ASSUME NEW h \in Slots, WriteRow(h), s = job[h].ev.sub, row'[s] = job[h].row
        PROVE  row'[s].end \in {0, told'[u]}
    <3>1. /\ Busy(h) /\ Whose(h) = u /\ job[h].pc = "write"
          /\ \/ Inherits(h)
             \/ row'[s].end = row[s].end /\ ~Inherits(h)
          /\ job[h].ev.kind # "SaleCompleted"
      <4>1. Busy(h) /\ Whose(h) = u /\ job[h].pc = "write"
        BY <2>2, WritesDate
      <4>2. job[h].ev.kind # "SaleCompleted"
        BY <1>4, <4>1 DEF HandsInv, Held, Due, Whose
      <4> QED BY <1>4, <2>2, <4>1, <4>2, WritesDate
    <3>2. CASE Inherits(h)
      BY <1>1, <1>4, <2>2, <3>1, <3>2 DEF TakesOver, Inherits
    <3>3. CASE row'[s].end = row[s].end /\ Live(row[s])
      BY <1>1, <1>4, <3>3 DEF LiveRowTold
    <3>4. CASE row'[s].end = row[s].end /\ ~Live(row[s])
      <4>1. job[h].ev.kind # "Suspended"
        <5>1. ~CronWrite
          BY <3>1, OnlyHandler DEF Orderly, CronWrite
        <5> QED BY <2>2, <3>1, <3>4, <5>1, LateSuspended DEF WrittenBy
      <4> QED BY <2>2, <3>1, <3>4, <4>1, WritesDate
    <3> QED BY <3>1, <3>2, <3>3, <3>4
  <2> QED BY <2>1, <2>2, OrderlyRows DEF Live
<1> QED
  BY <1>2, <1>3, <1>4, StepCases

LEMMA NoneLeftNext ==
  ASSUME TypeOK, IInv, HandsInv, [SysNext]_sysVars, [Next]_vars,
         NEW u \in Users, Orderly(u), OneLive(u), NoneLeft(u)
  PROVE  NoneLeft(u)'
<1> SUFFICES ASSUME u \notin astray', NEW s \in Subs, Owner[s] = u, AboutToTell(s)',
                    NEW t \in Subs, Owner[t] = u
             PROVE  ~Live(row'[t])
  BY DEF NoneLeft
<1>1. u \notin astray
  BY HistoriesGrow
<1>2. /\ cron.pc # "idle" /\ s \in cron.batch
      /\ AboutToTell(s) \/ CronWrite
  <2>1. cron'.pc = "tell" /\ ~CronRead
    BY DEF AboutToTell, CronRead
  <2> QED BY <2>1, CronSteps DEF AboutToTell, IInv
<1>3. ASSUME Live(row'[t]), ~Live(row[t]) PROVE FALSE
  <2>1. PICK h \in Slots : WriteRow(h) /\ t = job[h].ev.sub
    BY <1>3, OrderlyRows DEF Live
  <2>2. Busy(h) /\ Whose(h) = u
    BY <2>1 DEF WriteRow, Busy, Whose
  <2> QED BY <1>2, <2>2, OnlyHandler DEF Orderly
<1>4. CASE AboutToTell(s)
  BY <1>1, <1>3, <1>4 DEF NoneLeft
<1>5. CASE CronWrite
  <2>1. cron.pc = "write" /\ row'[s] = cron.rows[s]
    BY <1>2, <1>5 DEF CronWrite
  <2>2. Live(row[s]) /\ ~Live(row'[s])
    BY <1>2, <2>1 DEF HandsInv, BatchInv, Orderly, IInv, RaceInv, MemoryInv, Live
  <2> QED BY <1>1, <1>3, <2>2 DEF OneLive
<1> QED
  BY <1>2, <1>4, <1>5

SysInv == TypeOK /\ IInv /\ HandsInv /\ GatewayInv /\ TellsInv /\ now > 0

LEMMA SysInvNext == ASSUME SysInv, [SysNext]_sysVars PROVE SysInv'
<1>1. TypeOK' /\ IInv' /\ HandsInv' /\ GatewayInv'
  BY SystemInvariantNext, HandsNext, GatewayNext DEF SysInv
<1>2. now' > 0 /\ TellsInv'
  <2>1. CASE [Next]_vars
    <3>1. now \in Nat /\ now' \in Nat /\ now <= now' /\ clash \subseteq clash'
      BY <2>1, ClockGoesOn, ClashGrows DEF SysInv, TypeOK
    <3>2. ASSUME NEW u \in Users, Orderly(u)'
          PROVE  Agrees(u)'
      <4>1. Orderly(u)
        BY <3>1, <3>2 DEF Orderly
      <4>2. Agrees(u)
        BY <4>1 DEF SysInv, TellsInv
      <4> QED BY <2>1, <3>2, <4>1, <4>2, EndedRowsNext, OneLiveNext, TakesOverNext,
              RowOfToldNext, LiveRowToldNext, NoneLeftNext DEF SysInv, Agrees
    <3> QED BY <3>1, <3>2 DEF SysInv, TellsInv
  <2>2. CASE GatewayStep
    <3>1. /\ row' = row /\ hooks' = hooks /\ job' = job /\ cron' = cron /\ clash' = clash
          /\ told' = told /\ now' = now
      BY <2>2, GatewayFrame DEF SysInv, payVars
    <3>2. gwPast'.over = gwPast.over
      BY <2>2, SameGateway, GwP!OverKept, GatewayAssumptions DEF GatewayStep, SysInv, GatewayInv
    <3>3. hooked \subseteq hooked' /\ untold \subseteq untold' /\ astray \subseteq astray'
      BY HistoriesGrow
    <3>4. ASSUME NEW u \in Users, Orderly(u)'
          PROVE  Agrees(u)'
      <4>1. Agrees(u)
        BY <3>1, <3>4 DEF SysInv, TellsInv, Orderly
      <4>2. (Due(u)' <=> Due(u)) /\ \A h \in Slots : Whose(h)' = Whose(h) /\ (Inherits(h)' <=> Inherits(h))
        BY <3>1 DEF Due, Whose, Inherits
      <4> QED BY <3>1, <3>2, <3>3, <4>1, <4>2
              DEF Agrees, EndedRows, OneLive, TakesOver, RowOfTold, LiveRowTold, NoneLeft,
                  AboutToTell
    <3> QED BY <3>1, <3>4 DEF SysInv, TellsInv
  <2> QED BY <2>1, <2>2, StepsOfTheSystem
<1> QED
  BY <1>1, <1>2 DEF SysInv

LEMMA InitSysInv == SysInit => SysInv
<1> SUFFICES ASSUME SysInit PROVE SysInv
  OBVIOUS
<1>1. TypeOK /\ IInv
  BY InitType, InitIInv DEF SysInit
<1>2. HandsInv /\ now > 0
  BY DEF SysInit, Init, HandsInv, BatchInv, Busy, IdleJob, IdleCron
<1>3. GatewayInv
  BY SameGateway, GwP!InitType, GwP!InitTold, GatewayAssumptions DEF SysInit, GatewayInv
<1>4. TellsInv
  <2>1. gwPast.over = Users
    BY DEF SysInit, Gw!Init
  <2> QED BY <2>1 DEF SysInit, Init, TellsInv, Agrees, EndedRows, OneLive,
          TakesOver, RowOfTold, LiveRowTold, NoneLeft, AboutToTell, Live, NoRow, IdleJob,
          IdleCron
<1> QED
  BY <1>1, <1>2, <1>3, <1>4 DEF SysInv

\* What payments has told of a user agrees with his rows, and the gateway has it
\* before it or behind it: the inductive invariant of the two services together.
THEOREM Agreement == SysSpec => []SysInv
  BY InitSysInv, SysInvNext, PTL DEF SysSpec

\* Of a settled user the account follows the last date told, and nothing is due.
LEMMA SettledFollows ==
  ASSUME SysInv, NEW u \in Users, Settled(u)
  PROVE  ~Due(u) /\ GwP!Follows(acct[u], u)
<1>1. GwP!Quiet(u) /\ GwP!Steady(u) /\ ~Due(u)
  BY SameGateway DEF Settled, Due
<1>2. GwP!Told(u)
  BY <1>1 DEF SysInv, GatewayInv, GwP!ToldInv
<1>3. GwP!AppliedOrDue(u)
  BY <1>2 DEF GwP!Told
<1>4. \A h \in GwSlots : ~GwP!Applies(h, u)
  BY <1>1 DEF GwP!Applies, GwP!Quiet, GwP!About, GwP!IsInfo
<1> QED
  BY <1>1, <1>3, <1>4 DEF GwP!AppliedOrDue, GwP!Awaited, GwP!Quiet

\* A user with a live row paid beyond today has a business account to that very
\* date once both services are done with him.
THEOREM PaidUsers == SysSpec => []PaidUserIsBusiness
<1>1. SysInv => PaidUserIsBusiness
  <2> SUFFICES ASSUME SysInv, NEW s \in Subs, Settled(Owner[s]), PayPalOnly(Owner[s]),
                      Owner[s] \notin clash \cup astray, Live(row[s]), row[s].end > now
               PROVE  acct[Owner[s]].type = "Business" /\ acct[Owner[s]].end = row[s].end
    BY DEF PaidUserIsBusiness
  <2>1. Owner[s] \in Users /\ now \in Nat /\ told[Owner[s]] \in Nat
    BY OwnerAssumption DEF SysInv, TypeOK
  <2>2. ~Due(Owner[s]) /\ GwP!Follows(acct[Owner[s]], Owner[s])
    BY <2>1, SettledFollows
  <2>3. row[s].end = told[Owner[s]]
    BY <2>1, <2>2 DEF SysInv, TellsInv, Agrees, Orderly, LiveRowTold
  <2> QED BY <2>1, <2>2, <2>3 DEF GwP!Follows
<1> QED
  BY <1>1, Agreement, PTL

\* A business account whose date is past is that of a row the midnight job is
\* still to end, or of one that a webhook ended, or a midnight that stopped
\* before it told so.
THEOREM OverdueAccounts == SysSpec => []OverdueAwaitsMidnight
<1>1. SysInv => OverdueAwaitsMidnight
  <2> SUFFICES ASSUME SysInv, NEW u \in Users, Settled(u), PayPalOnly(u), u \notin clash,
                      acct[u].type = "Business"
               PROVE  \E s \in Subs : /\ Owner[s] = u /\ row[s].end = acct[u].end
                                      /\ Live(row[s]) \/ s \in hooked \cup untold
    BY DEF OverdueAwaitsMidnight
  <2>1. ~Due(u) /\ acct[u].end = told[u] /\ u \notin gwPast.over
    BY SettledFollows DEF GwP!Follows
  <2>2. \A s \in Subs : ~AboutToTell(s)
    BY DEF Settled, AboutToTell
  <2> QED BY <2>1, <2>2 DEF SysInv, TellsInv, Agrees, Orderly, RowOfTold
<1> QED
  BY <1>1, Agreement, PTL

(***************************************************************************)
(* The refinement.                                                         *)
(***************************************************************************)

LEMMA PromiseStep ==
  ASSUME TypeOK, IInv, [SysNext]_sysVars
  PROVE  [Promise!Next]_<<told, now>>
<1>1. TypeOK' /\ IInv'
  BY SystemInvariantNext
<1>2. CASE UNCHANGED <<told, now>>
  BY <1>2
<1>3. CASE now' = now
  <2>1. \A u \in Users : told'[u] \in Nat /\ told'[u] <= now + Period
    BY <1>1, <1>3 DEF TypeOK, IInv, TimeInv, AtMostOnePeriodAhead
  <2>2. told' \in [Users -> 0 .. (now + Period)]
    BY <1>1, <2>1, PeriodAssumption DEF TypeOK
  <2> QED BY <1>3, <2>2 DEF Promise!Next, Promise!Tell
<1>4. CASE Tick
  BY <1>4 DEF Tick, Promise!Next, Promise!Tick
<1> QED
  BY <1>2, <1>3, <1>4, StepsOfTheSystem, ClockSteps, GatewayFrame

\* Payments beside the gateway implements EndDates, which is all that Account
\* assumes of it: no end date is told that is more than a period ahead.
THEOREM PromiseKept == SysSpec => KeepsEndDatesPromise
<1>1. SysInit => Promise!Init
  BY DEF SysInit, Init, Promise!Init
<1>2. SysSpec => [][Promise!Next]_<<told, now>>
  BY SystemInvariant, PromiseStep, PTL DEF SysSpec
<1> QED
  BY <1>1, <1>2, PTL DEF SysSpec, KeepsEndDatesPromise, Promise!Spec
===============================================================================
