-------------------------- MODULE SubscriptionSystem --------------------------
(***************************************************************************)
(* Payments and the gateway's account together: whatever a webhook handler *)
(* or the midnight job tells is a message in the gateway's queue, and the  *)
(* gateway handles it in its own time.  The bounds on faults and moves are *)
(* shared.                                                                 *)
(***************************************************************************)
EXTENDS Payments, Sequences

CONSTANTS
  FirstName,  \* see Account
  GwSlots     \* handlers of the gateway

ASSUME FirstNameAssumption ==
  /\ FirstName \in [Users -> Names]
  /\ \A u, v \in Users : u # v => FirstName[u] # FirstName[v]

VARIABLES
  acct, queue, gwJob, nameTold, gwPast,
  hooked, \* history: rows that a webhook handler, not the midnight job, made Canceled
  untold, \* history: rows a midnight ended that stopped before it told of them
  astray  \* history: users told about another row than their live one

payVars == <<row, remote, hooks, job, cron, txns, charged, clash>>
gwVars == <<acct, queue, gwJob, nameTold, gwPast>>
sysVars == <<vars, gwVars, hooked, untold, astray>>

Promise == INSTANCE EndDates
Gw == INSTANCE Account WITH Slots <- GwSlots, job <- gwJob, past <- gwPast

SysInit == Init /\ Gw!Init /\ hooked = {} /\ untold = {} /\ astray = {}

\* Mutant: a message is dropped while another one waits.
EmitIfEmpty(h) ==
  /\ TellGateway(h)
  /\ LET u == Owner[job[h].ev.sub] IN
     queue' = IF queue # <<>> THEN queue
              ELSE <<[users |-> {u}, ends |-> [v \in Users |-> IF v = u THEN told'[u] ELSE 0]]>>
  /\ UNCHANGED <<acct, gwJob, nameTold, gwPast>>

\* sendSubscriptionInfo: the end date of one row, emitted by its handler.
EmitOne(h) ==
  LET u == Owner[job[h].ev.sub] IN
  /\ TellGateway(h)
  /\ Gw!SendSubscriptionInfo({u}, [v \in Users |-> IF v = u THEN job[h].row.end ELSE 0])
  /\ UNCHANGED <<acct, gwJob, nameTold>>

\* Mutant: the midnight job's message is never sent.
EmitNone == CronTell /\ UNCHANGED gwVars

\* sendSubscriptionsInfo: the ended rows of a midnight in one message.
EmitMany ==
  LET U == {Owner[s] : s \in gatewayData} IN
  /\ CronTell
  /\ IF U = {} THEN UNCHANGED <<queue, gwPast>>
     ELSE Gw!SendSubscriptionInfo(U, [u \in Users |-> IF u \in U THEN told'[u] ELSE 0])
  /\ UNCHANGED <<acct, gwJob, nameTold>>

\* The steps of payments that tell nothing.
SilentHandler(h) ==
  \/ PayPalWebhook(h) \/ StripeWebhook(h) \/ Command(h)
  \/ FindRival(h) \/ RevokeRival(h) \/ RetireRival(h)
  \/ WriteRow(h) \/ RecordTransaction(h) \/ SwitchRemote(h) \/ Fail(h)

Silent ==
  /\ \/ \E h \in Slots : SilentHandler(h)
     \/ \E s \in Subs : CreatePayment(s) \/ CronRevoke(s)
     \/ CronRead \/ CronGiveUp \/ CronFail
     \/ Crash \/ Provider \/ Tick
  /\ UNCHANGED gwVars

GatewayStep == Gw!Gateway /\ UNCHANGED payVars

\* h tells about a row that is over, and its user has another, live one: what it
\* handled is a payment that failed or a cancellation that came late.
ToldAside(h) ==
  LET s == job[h].ev.sub IN
  {u \in {Owner[s]} : ~Live(row[s]) /\ \E t \in Subs : Owner[t] = u /\ Live(row[t])}

\* A late SUSPENDED makes a row live, and nobody is told.
RevivedLate ==
  {Owner[s] : s \in {t \in Subs : ~Live(row[t]) /\ Live(row'[t]) /\ WrittenBy(t, {"Suspended"})}}

\* A restart, or a transaction that rejects after its commit, ends the midnight
\* job between its rows and its message.
LeftUntold == IF cron.pc = "tell" /\ cron'.pc = "idle" THEN gatewayData ELSE {}

SysNext ==
  \/ CronWrite /\ UNCHANGED <<gwVars, hooked, untold, astray>>
  \/ EmitMany /\ UNCHANGED <<hooked, untold, astray>>
  \/ /\ \/ \E h \in Slots : EmitOne(h) /\ astray' = astray \cup ToldAside(h)
        \/ Silent /\ astray' = astray \cup RevivedLate
        \/ GatewayStep /\ UNCHANGED astray
     /\ hooked' = hooked \cup {s \in Subs : Live(row[s]) /\ ~Live(row'[s])}
     /\ untold' = untold \cup LeftUntold

SysSpec == SysInit /\ [][SysNext]_sysVars

\* What Account assumes of payments: Payments implements EndDates, whatever its
\* handlers, the midnight job, providers, crashes and stale writes do.
KeepsEndDatesPromise == Promise!Spec

\* Nothing that concerns u is under way, in either service.
Settled(u) ==
  /\ Gw!Quiet(u) /\ Gw!Steady(u)
  /\ u \notin InFlight /\ cron.pc = "idle"
  /\ \A e \in hooks : Owner[e.sub] # u

\* PayPal delivers again what failed; an event that a Stripe handler failed on
\* is gone, and with it the end date.
PayPalOnly(u) == \A s \in Subs : Owner[s] = u => System[s] = "PayPal"

\* A user with a live row paid beyond today has a business account to that very
\* date as soon as both services are done with him: the handlers write the row,
\* then tell the date, and the gateway applies it.  Not so a user led astray: the
\* failed first payment of a second subscription, or a cancellation that comes
\* when the next one is already live, tells the date of a row that is over, and
\* the last date told counts; and a late SUSPENDED makes a row live untold.
PaidUserIsBusiness ==
  \A s \in Subs :
    Settled(Owner[s]) /\ PayPalOnly(Owner[s]) /\ Owner[s] \notin clash \cup astray
    /\ Live(row[s]) /\ row[s].end > now
      => acct[Owner[s]].type = "Business" /\ acct[Owner[s]].end = row[s].end

\* The gateway never looks at the clock again: a business account whose date is
\* past waits for the midnight job to tell so.  Two accounts wait for it in vain,
\* for it looks at live rows only: that of a subscription which a webhook ended
\* (a cancellation, a payment that failed), whose handler tells a date that may
\* be still to come, or crashes before it tells and returns early when the event
\* comes again; and that of one which a midnight ended, and stopped before it
\* told.
OverdueAwaitsMidnight ==
  \A u \in Users :
    Settled(u) /\ PayPalOnly(u) /\ u \notin clash
    /\ acct[u].type = "Business" /\ acct[u].end < now
      => \E s \in Subs :
           /\ Owner[s] = u /\ row[s].end = acct[u].end
           /\ Live(row[s]) \/ s \in hooked \cup untold
===============================================================================
