------------------------ MODULE SubscriptionCommands ------------------------
(***************************************************************************)
(* The commands the gateway sends on behalf of a user: buy a subscription, *)
(* turn automatic renewal off or on, propagate a changed user name.        *)
(***************************************************************************)
EXTENDS PaymentsState

\* createPayment inserts a Pending row, beside any live one, with the name the
\* gateway read of the user.  A PayPal subscription is created before its row
\* and a Stripe session after it, and if the second half fails the first one
\* stays behind.
CreatePayment(s) ==
  LET insert == \E name \in Names : row' = [row EXCEPT ![s] = create(System[s], name)]
      open == remote' = [remote EXCEPT ![s] = "pending"]
  IN
  /\ row[s].status = "None" /\ remote[s] = "none"
  /\ \/ insert /\ open /\ UNCHANGED faults
     \/ /\ faults < MaxFaults /\ faults' = faults + 1
        /\ IF System[s] = "PayPal" THEN open /\ UNCHANGED row
                                   ELSE insert /\ UNCHANGED remote
  /\ UNCHANGED <<hooks, job, cron, txns, charged, told, now, moves, clash>>

\* The user's live row; findFirst may pick any.
LiveRow(s) == s \in getActiveSubscriptionByUserId(Owner[s])

\* Off for PayPal means suspended, for Stripe only the flag; and back.
handleDisable(s) == IF System[s] = "PayPal" THEN suspendSubscription(row[s])
                                            ELSE disableAutoRenewal(row[s])
handleEnable(s) == IF System[s] = "PayPal" THEN activateSubscription(row[s], 0)
                                           ELSE enableAutoRenewal(row[s])

\* With the wished flag already in place the command answers success at once.
DisableAutoRenewal(h, s) ==
  /\ LiveRow(s) /\ row[s].autoRenewal
  /\ Start(h, EventOf("Disable", s), "call", handleDisable(s))

EnableAutoRenewal(h, s) ==
  /\ LiveRow(s) /\ ~row[s].autoRenewal
  /\ Start(h, EventOf("Enable", s), "call", handleEnable(s))

\* The new name goes to one live row, written whole; a Pending row keeps the
\* name it was created with.  A user without a live row is answered not found.
UpdateUsername(h, s) ==
  /\ LiveRow(s)
  /\ \E name \in Names :
       Start(h, EventOf("Rename", s), "write", [row[s] EXCEPT !.name = name])

\* PayPal suspends and activates, and reports it; Stripe flips
\* cancel_at_period_end.  A refusal is the boolean false, answered as an error.
SwitchRemote(h) ==
  LET s == job[h].ev.sub
      off == job[h].ev.kind = "Disable"
      from == IF off THEN "active" ELSE "suspended"
      to == IF off THEN "suspended" ELSE "active"
      event == EventOf(IF off THEN "Suspended" ELSE "Activated", s)
      accepted == remote[s] = from \/ (System[s] = "Stripe" /\ remote[s] = to)
  IN
  /\ job[h].pc = "call"
  /\ IF accepted
     THEN /\ remote' = [remote EXCEPT ![s] = to]
          /\ hooks' = IF System[s] = "PayPal" THEN hooks \cup {event} ELSE hooks
          /\ job' = [job EXCEPT ![h].pc = "write"]
     ELSE Abort(h) /\ UNCHANGED remote
  /\ UNCHANGED <<row, cron, txns, charged, told, now, faults, moves, clash>>

Command(h) ==
  \E s \in Subs :
    \/ DisableAutoRenewal(h, s) \/ EnableAutoRenewal(h, s) \/ UpdateUsername(h, s)
=============================================================================
