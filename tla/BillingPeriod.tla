--------------------------- MODULE BillingPeriod ---------------------------
(***************************************************************************)
(* What one user is billed: backend/src/services/agent-hours-tracker.ts,   *)
(* which adds the hours of closed buckets to the active subscription,      *)
(* billing-reset-cron.ts, which closes its periods, and the change of plan *)
(* of billing-subscription-ops.ts. None of them uses a transaction: each   *)
(* write of theirs is a step here, and each may be the last of its run.    *)
(***************************************************************************)
EXTENDS Integers

CONSTANTS
  MaxSubs,    \* subscriptions the user may ever have (a bound)
  MaxNow,     \* hours that pass (a bound)
  Month,      \* length of a period, in hours
  Day,        \* how long after now the period of a deferred change starts
  MaxFaults   \* how often a run dies, an insertion fails or a subscription is
              \* paused (a bound)

ASSUME BillingAssumption ==
  /\ MaxSubs \in Nat \ {0} /\ MaxNow \in Nat \ {0}
  /\ Month \in Nat \ {0} /\ Day \in Nat \ {0}
  /\ MaxFaults \in Nat

Subs == 1 .. MaxSubs
Buckets == 1 .. MaxNow       \* hour b is over when now > b
Hours == [Buckets -> Nat]    \* agentHoursUsed, told apart by hour
None == [b \in Buckets |-> 0]
AtEnds == {"renew", "replace"}  \* replace: cancelAtPeriodEnd or scheduledPlanChange
Sub == [status: {"none", "active", "ended"}, used: Hours, from: Nat, cursor: Nat,
        start: Nat, end: Nat, resetting: {"no", "claimed", "stale"}, atEnd: AtEnds]

(* A subscription is billed for the hours after its cursor; 0 stands for a     *)
(* document without lastBilledHourBucket, which is billed from the epoch.      *)
Opened(cursor, start, end) ==
  [status |-> "active", used |-> None, from |-> cursor, cursor |-> cursor,
   start |-> start, end |-> end, resetting |-> "no", atEnd |-> "renew"]
Unopened == [Opened(0, 0, 0) EXCEPT !.status = "none"]

VARIABLES
  now,
  rolled,     \* hours with a document in agent_usage_rollups_user_hourly
  subs,       \* billing_subscriptions; from is history: the cursor it was opened with
  opened,     \* how many there are
  ledger,     \* billing_hour_ledger
  snapshots,  \* billing_period_snapshots, each beside the invoice of its period
  tracker,    \* the run of the tracker
  reset,      \* the run of the reset cron
  change,     \* the request that changes the plan
  late,       \* history: hours rolled up after a later one was summed
  revived,    \* history: subscriptions reopened under a reset that had claimed them
  again,      \* history: hours passed by a cursor when one behind them became active
  faults

vars == <<now, rolled, subs, opened, ledger, snapshots, tracker, reset, change, late, revived, again, faults>>

NoTracker == [step |-> "idle", sub |-> 1, from |-> 0, batch |-> {}, upto |-> 0]
NoReset == [step |-> "idle", sub |-> 1, doc |-> Unopened]
NoChange == [step |-> "idle", sub |-> 1, doc |-> Unopened]

BillingTypeOK ==
  /\ now \in 1 .. MaxNow
  /\ rolled \in SUBSET Buckets /\ late \in SUBSET Buckets
  /\ subs \in [Subs -> Sub]
  /\ opened \in Subs
  /\ ledger \in SUBSET [sub: Subs, from: Nat, upto: Nat]
  /\ snapshots \in SUBSET [sub: Subs, start: Nat, end: Nat, used: Hours]
  /\ tracker \in [step: {"idle", "sum", "ledger", "inc"}, sub: Subs, from: Nat,
                 batch: SUBSET Buckets, upto: Nat]
  /\ reset \in [step: {"idle", "claim", "record", "finish", "open"}, sub: Subs, doc: Sub]
  /\ change \in [step: {"idle", "close", "open", "reopen"}, sub: Subs, doc: Sub]
  /\ revived \in SUBSET Subs /\ again \in SUBSET Buckets
  /\ faults \in Nat

Init ==
  /\ now = 1
  /\ rolled = {} /\ late = {}
  /\ subs = [s \in Subs |-> IF s = 1 THEN Opened(0, 0, Month) ELSE Unopened]
  /\ opened = 1
  /\ ledger = {} /\ snapshots = {}
  /\ tracker = NoTracker /\ reset = NoReset /\ change = NoChange
  /\ revived = {} /\ again = {}
  /\ faults = 0

Active(s) == subs[s].status = "active"
SomeActive == \E s \in Subs : Active(s)
(* The hours some subscription has been billed for, past the cursor given. *)
Behind(cursor) == {b \in Buckets : cursor < b /\ \E s \in 1 .. opened : b <= subs[s].cursor}
Fault == faults < MaxFaults /\ faults' = faults + 1
NoRun == tracker.step = "idle" /\ reset.step = "idle" /\ change.step = "idle"

(* Time is counted in hours. A run or a request is over long before the hour *)
(* it started in is rolled up, which happens five minutes after it closed.   *)
Tick ==
  /\ now < MaxNow /\ NoRun
  /\ now' = now + 1
  /\ UNCHANGED <<rolled, subs, opened, ledger, snapshots, tracker, reset, change, late, revived, again, faults>>

(* The rollup job writes the hour b, perhaps after later ones (catch-up, or   *)
(* an upsert that failed the first time).                                     *)
Rollup(b) ==
  /\ b < now /\ b \notin rolled
  /\ rolled' = rolled \cup {b}
  /\ late' = IF \/ \E s \in 1 .. opened : b <= subs[s].cursor
                \/ \E c \in tracker.batch : b < c
               THEN late \cup {b} ELSE late
  /\ UNCHANGED <<now, subs, opened, ledger, snapshots, tracker, reset, change, revived, again, faults>>

-----------------------------------------------------------------------------
(* AgentHoursTracker.processAllSubscriptions: a projection of the             *)
(* subscription is read, and used in the three steps after it.                *)
TrackerReads(s) ==
  /\ tracker.step = "idle"
  /\ Active(s) /\ subs[s].resetting = "no"
  /\ tracker' = [step |-> "sum", sub |-> s, from |-> subs[s].cursor,
                 batch |-> {}, upto |-> 0]
  /\ UNCHANGED <<now, rolled, subs, opened, ledger, snapshots, reset, change, late, revived, again, faults>>

TrackerSums ==
  LET batch == {b \in rolled : b > tracker.from} IN
  /\ tracker.step = "sum"
  /\ \/ /\ batch = {}
        /\ tracker' = NoTracker
     \/ \E upto \in batch :
          /\ \A b \in batch : b <= upto
          /\ tracker' = [tracker EXCEPT !.step = "ledger", !.batch = batch, !.upto = upto]
  /\ UNCHANGED <<now, rolled, subs, opened, ledger, snapshots, reset, change, late, revived, again, faults>>

(* Mutant: the first commit of a subscription, whose cursor is missing, is not *)
(* written.                                                                   *)
TrackerLedgersLater ==
  /\ tracker.step = "ledger"
  /\ ledger' = IF tracker.from = 0 \/ \E e \in ledger : e.sub = tracker.sub /\ e.upto = tracker.upto
                 THEN ledger
                 ELSE ledger \cup {[sub |-> tracker.sub, from |-> tracker.from, upto |-> tracker.upto]}
  /\ tracker' = [tracker EXCEPT !.step = "inc"]
  /\ UNCHANGED <<now, rolled, subs, opened, snapshots, reset, change, late, revived, again, faults>>

TrackerLedgers ==
  /\ tracker.step = "ledger"
  /\ ledger' = IF \E e \in ledger : e.sub = tracker.sub /\ e.upto = tracker.upto
                 THEN ledger
                 ELSE ledger \cup {[sub |-> tracker.sub, from |-> tracker.from, upto |-> tracker.upto]}
  /\ tracker' = [tracker EXCEPT !.step = "inc"]
  /\ UNCHANGED <<now, rolled, subs, opened, snapshots, reset, change, late, revived, again, faults>>

(* Mutant: the update does not ask whether a reset has claimed the document. *)
BillableClaimed(s) == Active(s) /\ subs[s].cursor < tracker.upto
(* The guard of the update asks for the user's active subscription, which     *)
(* need not be the one that was read.                                         *)
Billable(s) ==
  /\ Active(s) /\ subs[s].resetting = "no"
  /\ subs[s].cursor < tracker.upto

Plus(used, batch) == [b \in Buckets |-> IF b \in batch THEN used[b] + 1 ELSE used[b]]

TrackerIncs ==
  /\ tracker.step = "inc"
  /\ \/ \E s \in Subs :
          /\ Billable(s)
          /\ subs' = [subs EXCEPT ![s].used = Plus(@, tracker.batch),
                                  ![s].cursor = tracker.upto]
     \/ /\ \A s \in Subs : ~Billable(s)
        /\ UNCHANGED subs
  /\ tracker' = NoTracker
  /\ UNCHANGED <<now, rolled, opened, ledger, snapshots, reset, change, late, revived, again, faults>>

-----------------------------------------------------------------------------
(* BillingResetCron.processExpiredSubscriptions *)
Expired(s) == Active(s) /\ subs[s].end < now

ResetFinds(s) ==
  /\ reset.step = "idle" /\ Expired(s)
  /\ reset' = [NoReset EXCEPT !.step = "claim", !.sub = s]
  /\ UNCHANGED <<now, rolled, subs, opened, ledger, snapshots, tracker, change, late, revived, again, faults>>

(* Mutant: a claim is never taken again. *)
ResetClaimsOnce ==
  LET s == reset.sub IN
  /\ reset.step = "claim"
  /\ \/ /\ Expired(s) /\ subs[s].resetting = "no"
        /\ subs' = [subs EXCEPT ![s].resetting = "claimed"]
        /\ reset' = [step |-> "record", sub |-> s, doc |-> subs'[s]]
     \/ /\ ~Expired(s) \/ subs[s].resetting # "no"
        /\ reset' = NoReset
        /\ UNCHANGED subs
  /\ UNCHANGED <<now, rolled, opened, ledger, snapshots, tracker, change, late, revived, again, faults>>

(* The claim; the rest of the run uses the document it returned. *)
ResetClaims ==
  LET s == reset.sub IN
  /\ reset.step = "claim"
  /\ \/ /\ Expired(s) /\ subs[s].resetting # "claimed"
        /\ subs' = [subs EXCEPT ![s].resetting = "claimed"]
        /\ reset' = [step |-> "record", sub |-> s, doc |-> subs'[s]]
     \/ /\ ~Expired(s) \/ subs[s].resetting = "claimed"
        /\ reset' = NoReset
        /\ UNCHANGED subs
  /\ UNCHANGED <<now, rolled, opened, ledger, snapshots, tracker, change, late, revived, again, faults>>

(* The invoice and the snapshot of the period, each once by a unique index,   *)
(* and the end of its boosts. Nobody else reads or writes them.               *)
ResetRecords ==
  LET s == reset.sub IN
  /\ reset.step = "record"
  /\ snapshots' = IF \E p \in snapshots : p.sub = s /\ p.start = reset.doc.start /\ p.end = reset.doc.end
                    THEN snapshots
                    ELSE snapshots \cup {[sub |-> s, start |-> reset.doc.start,
                                          end |-> reset.doc.end, used |-> reset.doc.used]}
  /\ reset' = [reset EXCEPT !.step = "finish"]
  /\ UNCHANGED <<now, rolled, subs, opened, ledger, tracker, change, late, revived, again, faults>>

(* Mutant: the renewal unsets the cursor. *)
ResetRenewsCursor ==
  LET s == reset.sub IN
  /\ reset.step = "finish" /\ reset.doc.atEnd = "renew"
  /\ subs' = [subs EXCEPT ![s].used = None, ![s].start = reset.doc.end, ![s].cursor = 0,
                          ![s].end = reset.doc.end + Month, ![s].resetting = "no"]
  /\ reset' = NoReset
  /\ UNCHANGED <<now, rolled, opened, ledger, snapshots, tracker, change, late, revived, again, faults>>

(* Renewal, by id alone: the counter starts again and the cursor stays. *)
ResetRenews ==
  LET s == reset.sub IN
  /\ reset.step = "finish" /\ reset.doc.atEnd = "renew"
  /\ subs' = [subs EXCEPT ![s].used = None, ![s].start = reset.doc.end,
                          ![s].end = reset.doc.end + Month, ![s].resetting = "no"]
  /\ reset' = NoReset
  /\ UNCHANGED <<now, rolled, opened, ledger, snapshots, tracker, change, late, revived, again, faults>>

(* A cancellation or a deferred change: close, then open the next one. *)
ResetCloses ==
  LET s == reset.sub IN
  /\ reset.step = "finish" /\ reset.doc.atEnd # "renew"
  /\ subs' = [subs EXCEPT ![s].status = "ended", ![s].atEnd = "renew", ![s].resetting = "no"]
  /\ reset' = [reset EXCEPT !.step = "open"]
  /\ UNCHANGED <<now, rolled, opened, ledger, snapshots, tracker, change, late, revived, again, faults>>

(* The unique index billing_sub_one_active refuses a second active one. *)
Open(cursor, start, end) ==
  /\ ~SomeActive /\ opened < MaxSubs
  /\ opened' = opened + 1
  /\ subs' = [subs EXCEPT ![opened + 1] = Opened(cursor, start, end)]

ResetOpens ==
  /\ reset.step = "open"
  /\ \/ Open(now, now + Day, now + Day + Month)
     \/ SomeActive /\ UNCHANGED <<subs, opened>>
  /\ reset' = NoReset
  /\ UNCHANGED <<now, rolled, ledger, snapshots, tracker, change, late, revived, again, faults>>

(* Five minutes after its run died a claim may be taken again. *)
ClaimAges(s) ==
  /\ subs[s].resetting = "claimed"
  /\ ~(reset.step \in {"record", "finish"} /\ reset.sub = s)
  /\ subs' = [subs EXCEPT ![s].resetting = "stale"]
  /\ UNCHANGED <<now, rolled, opened, ledger, snapshots, tracker, reset, change, late, revived, again, faults>>

-----------------------------------------------------------------------------
(* A cancellation or a cheaper plan is only noted, and may be taken back.      *)
(* The bound leaves room for the subscription that follows.                    *)
Schedule(s, x) ==
  /\ Active(s) /\ opened < MaxSubs
  /\ subs[s].atEnd # x
  /\ subs' = [subs EXCEPT ![s].atEnd = x]
  /\ UNCHANGED <<now, rolled, opened, ledger, snapshots, tracker, reset, change, late, revived, again, faults>>

(* changeUserPlanImmediate. Of what it has read it uses neither the counter nor *)
(* the cursor.                                                                 *)
ChangeReads(s) ==
  /\ change.step = "idle"
  /\ Active(s) /\ opened < MaxSubs
  /\ change' = [step |-> "close", sub |-> s, doc |-> [subs[s] EXCEPT !.used = None, !.cursor = 0]]
  /\ UNCHANGED <<now, rolled, subs, opened, ledger, snapshots, tracker, reset, late, revived, again, faults>>

ChangeCloses ==
  LET s == change.sub IN
  /\ change.step = "close"
  /\ subs' = [subs EXCEPT ![s].status = "ended", ![s].resetting = "no"]
  /\ change' = [change EXCEPT !.step = "open"]
  /\ UNCHANGED <<now, rolled, opened, ledger, snapshots, tracker, reset, late, revived, again, faults>>

ChangeOpens ==
  LET end == IF change.doc.end > now THEN change.doc.end ELSE now + Month IN
  /\ change.step = "open"
  /\ \/ /\ Open(now, now, end)
        /\ change' = NoChange
        /\ UNCHANGED faults
     \/ /\ \/ SomeActive /\ UNCHANGED faults
           \/ Fault
        /\ change' = [change EXCEPT !.step = "reopen"]
        /\ UNCHANGED <<subs, opened>>
  /\ UNCHANGED <<now, rolled, ledger, snapshots, tracker, reset, late, revived, again>>

(* The compensation writes back what was read before the change: the          *)
(* cancellation with it, but not a scheduled downgrade.                       *)
ChangeReopens ==
  LET s == change.sub IN
  /\ change.step = "reopen"
  /\ \/ /\ ~SomeActive
        /\ \E x \in {change.doc.atEnd, subs[s].atEnd} :
             subs' = [subs EXCEPT ![s].status = change.doc.status, ![s].atEnd = x,
                                  ![s].resetting = change.doc.resetting]
        /\ revived' = IF \/ subs[s].start # change.doc.start
                         \/ reset.step \in {"record", "finish"} /\ reset.sub = s
                         \/ \E p \in snapshots : p.sub = s /\ p.start = subs[s].start
                        THEN revived \cup {s} ELSE revived
        /\ again' = again \cup Behind(subs[s].cursor)
     \/ SomeActive /\ UNCHANGED <<subs, revived, again>>
  /\ change' = NoChange
  /\ UNCHANGED <<now, rolled, opened, ledger, snapshots, tracker, reset, late, faults>>

-----------------------------------------------------------------------------
(* An administrator pauses the subscription, or marks it as past due: nothing  *)
(* reads either again, and its user has no active one.                         *)
Pause(s) ==
  /\ Fault /\ Active(s)
  /\ subs' = [subs EXCEPT ![s].status = "ended"]
  /\ UNCHANGED <<now, rolled, opened, ledger, snapshots, tracker, reset, change, late, revived, again>>

(* The edit of a user without an active subscription, and that of the team the *)
(* user is in, open one first. It has no cursor.                               *)
AdminOpens ==
  /\ Open(0, now, now + Month)
  /\ again' = again \cup Behind(0)
  /\ UNCHANGED <<now, rolled, ledger, snapshots, tracker, reset, change, late, revived, faults>>

-----------------------------------------------------------------------------
(* A process dies in the middle of a run, or a write of the run throws. *)
TrackerDies ==
  /\ Fault /\ tracker.step # "idle"
  /\ tracker' = NoTracker
  /\ UNCHANGED <<now, rolled, subs, opened, ledger, snapshots, reset, change, late, revived, again>>

ResetDies ==
  /\ Fault /\ reset.step # "idle"
  /\ reset' = NoReset
  /\ UNCHANGED <<now, rolled, subs, opened, ledger, snapshots, tracker, change, late, revived, again>>

ChangeDies ==
  /\ Fault /\ change.step # "idle"
  /\ change' = NoChange
  /\ UNCHANGED <<now, rolled, subs, opened, ledger, snapshots, tracker, reset, late, revived, again>>

TrackerNext ==
  (\E s \in Subs : TrackerReads(s)) \/ TrackerSums \/ TrackerLedgers \/ TrackerIncs
ResetNext ==
  \/ \E s \in Subs : ResetFinds(s)
  \/ ResetClaims \/ ResetRecords \/ ResetRenews \/ ResetCloses \/ ResetOpens
ChangeNext == ChangeCloses \/ ChangeOpens \/ ChangeReopens

Next ==
  \/ Tick
  \/ \E b \in Buckets : Rollup(b)
  \/ TrackerNext \/ ResetNext \/ ChangeNext
  \/ \E s \in Subs : ClaimAges(s) \/ ChangeReads(s) \/ Pause(s) \/ \E x \in AtEnds : Schedule(s, x)
  \/ AdminOpens
  \/ TrackerDies \/ ResetDies \/ ChangeDies

Spec == Init /\ [][Next]_vars

(* The reset cron runs on its timer and a claim ages by the clock; nothing is *)
(* asked of the tracker, which may be down, nor of the requests.              *)
FairSpec == Spec /\ WF_vars(ResetNext) /\ WF_vars(\E s \in Subs : ClaimAges(s))

-----------------------------------------------------------------------------
(* What has been billed, period by period: the snapshots of those that were    *)
(* closed and the documents themselves.                                        *)
PeriodOf(s) == [sub |-> s, start |-> subs[s].start, end |-> subs[s].end, used |-> subs[s].used]
Periods == snapshots \cup {PeriodOf(s) : s \in 1 .. opened}

(* No hour is billed twice: not in one period, not in two periods of a         *)
(* subscription, not on two subscriptions of the user (the window of the       *)
(* tracker, agent-hours-tracker.ts:199, with the cursor the reset keeps,       *)
(* billing-reset-cron.ts:425). The exceptions are the hours passed before a    *)
(* subscription behind them became active: one opened without a cursor         *)
(* (update-billing-subscription.ts:110) or one a failed change reopened.       *)
BilledOnce ==
  \A p, q \in Periods : \A b \in Buckets \ again :
    p.used[b] > 0 /\ q.used[b] > 0 =>
      /\ p.used[b] = 1
      /\ p.sub = q.sub /\ p.start = q.start

(* An hour the cursor of a subscription has passed is on record: neither a     *)
(* run cut short nor the end of a period drops it. The exceptions are hours    *)
(* rolled up too late, what a reopened subscription had claimed, and hours     *)
(* passed before a subscription behind them became active.                     *)
HoursKept ==
  \A s \in 1 .. opened, b \in rolled \ (late \cup again) :
    s \notin revived /\ subs[s].from < b /\ b <= subs[s].cursor =>
      \E p \in Periods : p.sub = s /\ p.used[b] > 0

(* Every hour billed is in a ledger entry of its own subscription (the ledger  *)
(* is written before the counter, agent-hours-tracker.ts:276, and the update   *)
(* that follows names the user, not the subscription), or in one of another    *)
(* that was read or billed in its place, one of the two without a cursor when  *)
(* it was opened.                                                              *)
Bare(s) == s # 1 /\ subs[s].from = 0
LedgerCovers ==
  \A p \in Periods, b \in Buckets :
    p.used[b] > 0 =>
      \E e \in ledger :
        /\ e.from < b /\ b <= e.upto
        /\ e.sub = p.sub \/ Bare(e.sub) \/ Bare(p.sub)

(* A period that is over is closed or renewed, whatever run died over it.      *)
PeriodsEnd == []<>(\A s \in Subs : ~Expired(s))
=============================================================================
