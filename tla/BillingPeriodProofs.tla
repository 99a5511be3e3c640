------------------------ MODULE BillingPeriodProofs ------------------------
(***************************************************************************)
(* For any number of subscriptions, hours and faults: no hour is billed    *)
(* twice, none that the cursor has passed is dropped, and every hour       *)
(* billed is in the ledger of its subscription, each but for the           *)
(* exceptions its property names: above all the hours before a             *)
(* subscription that was opened without a cursor, or reopened.             *)
(***************************************************************************)
EXTENDS BillingPeriod, TLAPS

(* The records the actions build have their types. *)
LEMMA NoneTyped == None \in Hours /\ \A b \in Buckets : None[b] = 0
BY DEF None, Hours

LEMMA OpenedTyped ==
  ASSUME NEW cursor \in Nat, NEW start \in Nat, NEW end \in Nat
  PROVE  Opened(cursor, start, end) \in Sub
BY NoneTyped DEF Opened, Sub, AtEnds

LEMMA UnopenedTyped == Unopened \in Sub
<1>1. Opened(0, 0, 0) \in Sub
  BY OpenedTyped
<1>. QED  BY <1>1 DEF Unopened, Sub

LEMMA PlusTyped ==
  ASSUME NEW used \in Hours, NEW batch \in SUBSET Buckets
  PROVE  Plus(used, batch) \in Hours
BY DEF Plus, Hours

LEMMA OpenTyped ==
  ASSUME BillingTypeOK, NEW cursor \in Nat, NEW start \in Nat, NEW end \in Nat,
         Open(cursor, start, end)
  PROVE  /\ opened' \in Subs
         /\ subs' \in [Subs -> Sub]
<1>1. opened \in Subs /\ opened < MaxSubs /\ opened' = opened + 1
  BY DEF BillingTypeOK, Open
<1>2. opened' \in Subs
  BY <1>1, BillingAssumption DEF Subs
<1>3. Opened(cursor, start, end) \in Sub
  BY OpenedTyped
<1>. QED  BY <1>1, <1>2, <1>3 DEF Open, BillingTypeOK

LEMMA InitTyped == Init => BillingTypeOK
<1>. SUFFICES ASSUME Init PROVE BillingTypeOK
  OBVIOUS
<1>1. 1 \in Subs /\ now \in 1 .. MaxNow
  BY BillingAssumption DEF Init, Subs
<1>2. Opened(0, 0, Month) \in Sub /\ Unopened \in Sub
  BY OpenedTyped, UnopenedTyped, BillingAssumption
<1>3. subs \in [Subs -> Sub]
  BY <1>2 DEF Init
<1>. QED  BY <1>1, <1>2, <1>3 DEF Init, BillingTypeOK, NoTracker, NoReset, NoChange

(* The types of the state. *)
THEOREM BillingTypeCorrect == Spec => []BillingTypeOK
<1>1. Init => BillingTypeOK
  BY InitTyped
<1>2. BillingTypeOK /\ [Next]_vars => BillingTypeOK'
  <2>. SUFFICES ASSUME BillingTypeOK, [Next]_vars PROVE BillingTypeOK'
    OBVIOUS
  <2>. USE DEF BillingTypeOK
  <2>0. NoTracker \in [step: {"idle"}, sub: Subs, from: Nat, batch: SUBSET Buckets, upto: Nat]
        /\ NoReset \in [step: {"idle"}, sub: Subs, doc: Sub]
        /\ NoChange \in [step: {"idle"}, sub: Subs, doc: Sub]
        /\ now \in Nat
    BY UnopenedTyped, BillingAssumption DEF NoTracker, NoReset, NoChange, Subs
  <2>1. CASE Tick
    BY <2>1, BillingAssumption DEF Tick
  <2>2. ASSUME NEW b \in Buckets, Rollup(b) PROVE BillingTypeOK'
    BY <2>2 DEF Rollup
  <2>3. ASSUME NEW s \in Subs, TrackerReads(s) PROVE BillingTypeOK'
    <3>1. subs[s].cursor \in Nat
      BY DEF Sub
    <3>. QED  BY <2>3, <3>1 DEF TrackerReads
  <2>4. CASE TrackerSums
    <3>1. CASE tracker' = NoTracker
      BY <2>4, <3>1, <2>0 DEF TrackerSums
    <3>2. ASSUME NEW upto \in {b \in rolled : b > tracker.from},
                 tracker' = [tracker EXCEPT !.step = "ledger", !.batch = {b \in rolled : b > tracker.from},
                                            !.upto = upto]
          PROVE BillingTypeOK'
      <4>1. upto \in Nat /\ {b \in rolled : b > tracker.from} \in SUBSET Buckets
        BY <3>2 DEF Buckets
      <4>. QED  BY <2>4, <3>2, <4>1 DEF TrackerSums
    <3>. QED  BY <2>4, <3>1, <3>2 DEF TrackerSums
  <2>5. CASE TrackerLedgers
    BY <2>5 DEF TrackerLedgers
  <2>6. CASE TrackerIncs
    <3>1. ASSUME NEW s \in Subs, subs' = [subs EXCEPT ![s].used = Plus(@, tracker.batch),
                                                      ![s].cursor = tracker.upto]
          PROVE  subs' \in [Subs -> Sub]
      <4>1. Plus(subs[s].used, tracker.batch) \in Hours
        BY PlusTyped DEF Sub
      <4>2. [subs[s] EXCEPT !.used = Plus(@, tracker.batch), !.cursor = tracker.upto] \in Sub
        BY <4>1 DEF Sub
      <4>. QED  BY <3>1, <4>2
    <3>2. subs' \in [Subs -> Sub]
      BY <2>6, <3>1 DEF TrackerIncs
    <3>. QED  BY <2>6, <3>2, <2>0 DEF TrackerIncs
  <2>7. ASSUME NEW s \in Subs, ResetFinds(s) PROVE BillingTypeOK'
    BY <2>7, <2>0 DEF ResetFinds
  <2>8. CASE ResetClaims
    <3>1. [subs[reset.sub] EXCEPT !.resetting = "claimed"] \in Sub
      BY DEF Sub
    <3>2. subs' \in [Subs -> Sub]
      BY <2>8, <3>1 DEF ResetClaims
    <3>. QED  BY <2>8, <3>2, <2>0 DEF ResetClaims
  <2>9. CASE ResetRecords
    <3>1. [sub |-> reset.sub, start |-> reset.doc.start, end |-> reset.doc.end, used |-> reset.doc.used]
            \in [sub: Subs, start: Nat, end: Nat, used: Hours]
      BY DEF Sub
    <3>. QED  BY <2>9, <3>1 DEF ResetRecords
  <2>10. CASE ResetRenews
    <3>1. [subs[reset.sub] EXCEPT !.used = None, !.start = reset.doc.end,
                                  !.end = reset.doc.end + Month, !.resetting = "no"] \in Sub
      <4>1. subs[reset.sub] \in Sub /\ reset.doc.end \in Nat /\ reset.doc.end + Month \in Nat
        BY BillingAssumption DEF Sub
      <4>. QED  BY ONLY <4>1, NoneTyped DEF Sub
    <3>2. subs' \in [Subs -> Sub]
      BY <2>10, <3>1 DEF ResetRenews
    <3>. QED  BY <2>10, <3>2, <2>0 DEF ResetRenews
  <2>11. CASE ResetCloses
    <3>1. [subs[reset.sub] EXCEPT !.status = "ended", !.atEnd = "renew", !.resetting = "no"] \in Sub
      <4>1. subs[reset.sub] \in Sub
        OBVIOUS
      <4>. QED  BY ONLY <4>1 DEF Sub, AtEnds
    <3>2. subs' \in [Subs -> Sub]
      BY <2>11, <3>1 DEF ResetCloses
    <3>. QED  BY <2>11, <3>2 DEF ResetCloses
  <2>12. CASE ResetOpens
    <3>1. now + Day \in Nat /\ now + Day + Month \in Nat
      BY <2>0, BillingAssumption
    <3>2. opened' \in Subs /\ subs' \in [Subs -> Sub]
      BY <2>12, <3>1, OpenTyped DEF ResetOpens
    <3>. QED  BY <2>12, <3>2, <2>0 DEF ResetOpens
  <2>13. ASSUME NEW s \in Subs, ClaimAges(s) PROVE BillingTypeOK'
    <3>1. [subs[s] EXCEPT !.resetting = "stale"] \in Sub
      BY DEF Sub
    <3>. QED  BY <2>13, <3>1 DEF ClaimAges
  <2>14. ASSUME NEW s \in Subs, NEW x \in AtEnds, Schedule(s, x) PROVE BillingTypeOK'
    <3>1. [subs[s] EXCEPT !.atEnd = x] \in Sub
      BY DEF Sub
    <3>. QED  BY <2>14, <3>1 DEF Schedule
  <2>15. ASSUME NEW s \in Subs, ChangeReads(s) PROVE BillingTypeOK'
    <3>1. [subs[s] EXCEPT !.used = None, !.cursor = 0] \in Sub
      BY NoneTyped DEF Sub
    <3>. QED  BY <2>15, <3>1 DEF ChangeReads
  <2>16. CASE ChangeCloses
    <3>1. [subs[change.sub] EXCEPT !.status = "ended", !.resetting = "no"] \in Sub
      BY DEF Sub
    <3>2. subs' \in [Subs -> Sub]
      BY <2>16, <3>1 DEF ChangeCloses
    <3>. QED  BY <2>16, <3>2 DEF ChangeCloses
  <2>17. CASE ChangeOpens
    <3>. DEFINE end == IF change.doc.end > now THEN change.doc.end ELSE now + Month
    <3>1. end \in Nat
      BY <2>0, BillingAssumption DEF Sub
    <3>2. CASE Open(now, now, end)
      <4>1. opened' \in Subs /\ subs' \in [Subs -> Sub]
        BY <3>1, <3>2, <2>0, OpenTyped
      <4>2. change' \in [step: {"idle", "close", "open", "reopen"}, sub: Subs, doc: Sub] /\ faults' \in Nat
        BY <2>17, <2>0 DEF ChangeOpens, Fault
      <4>. QED  BY <2>17, <4>1, <4>2 DEF ChangeOpens
    <3>3. CASE ~Open(now, now, end)
      BY <2>17, <3>3 DEF ChangeOpens, Fault
    <3>. QED  BY <3>2, <3>3
  <2>18. CASE ChangeReopens
    <3>1. ASSUME NEW x \in {change.doc.atEnd, subs[change.sub].atEnd}
          PROVE  [subs[change.sub] EXCEPT !.status = change.doc.status, !.atEnd = x,
                                          !.resetting = change.doc.resetting] \in Sub
      BY DEF Sub
    <3>2. subs' \in [Subs -> Sub]
      BY <2>18, <3>1 DEF ChangeReopens
    <3>3. revived' \in SUBSET Subs /\ again' \in SUBSET Buckets
      BY <2>18 DEF ChangeReopens, Behind
    <3>. QED  BY <2>18, <3>2, <3>3, <2>0 DEF ChangeReopens
  <2>19. CASE TrackerDies
    BY <2>19, <2>0 DEF TrackerDies, Fault
  <2>20. CASE ResetDies
    BY <2>20, <2>0 DEF ResetDies, Fault
  <2>21. CASE ChangeDies
    BY <2>21, <2>0 DEF ChangeDies, Fault
  <2>22. CASE UNCHANGED vars
    BY <2>22 DEF vars
  <2>23. ASSUME NEW s \in Subs, Pause(s) PROVE BillingTypeOK'
    <3>1. [subs[s] EXCEPT !.status = "ended"] \in Sub
      BY DEF Sub
    <3>. QED  BY <2>23, <3>1 DEF Pause, Fault
  <2>24. CASE AdminOpens
    <3>1. 0 \in Nat /\ now + Month \in Nat
      BY <2>0, BillingAssumption
    <3>2. opened' \in Subs /\ subs' \in [Subs -> Sub] /\ again' \in SUBSET Buckets
      BY <2>24, <2>0, <3>1, OpenTyped DEF AdminOpens, Behind
    <3>. QED  BY <2>24, <3>2 DEF AdminOpens
  <2>. QED
    BY <2>1, <2>2, <2>3, <2>4, <2>5, <2>6, <2>7, <2>8, <2>9, <2>10, <2>11, <2>12, <2>13, <2>14, <2>15,
       <2>16, <2>17, <2>18, <2>19, <2>20, <2>21, <2>22, <2>23, <2>24 DEF Next, TrackerNext, ResetNext, ChangeNext
<1>. QED  BY <1>1, <1>2, PTL DEF Spec

-----------------------------------------------------------------------------
(* Why no hour is billed twice. The active subscription is never behind       *)
(* another one, but for the hours that count as billed again; so that what    *)
(* the tracker sums past its cursor is past all of them, and a period that    *)
(* has an hour has a cursor past it.                                          *)
OneActive ==
  /\ \A s \in Subs : Active(s) => s \in 1 .. opened
  /\ \A s, t \in Subs : Active(s) /\ Active(t) => s = t
  /\ change.step # "idle" => change.sub \in 1 .. opened

ActiveLeads ==
  \A s \in Subs : Active(s) =>
    \A t \in 1 .. opened, b \in Buckets \ again : b <= subs[t].cursor => b <= subs[s].cursor

Windows ==
  /\ \A s \in 1 .. opened : subs[s].cursor <= now
  /\ \A p \in Periods : /\ p.sub \in 1 .. opened
                        /\ \A b \in Buckets : p.used[b] > 0 => b <= subs[p.sub].cursor

(* An hour is rolled up when it is over.                                      *)
RolledIsPast == \A b \in rolled : b < now

(* The tracker sums what is past the cursor of the subscription it has read;  *)
(* one that is past an hour of the sum was opened in the hour of the run.     *)
BatchIsNew ==
  tracker.step # "idle" =>
    /\ tracker.sub \in 1 .. opened /\ subs[tracker.sub].cursor = tracker.from
    /\ \A t \in 1 .. opened, b \in Buckets \ again :
         tracker.from < b /\ b <= subs[t].cursor => subs[t].cursor = now
    /\ tracker.step \in {"ledger", "inc"} =>
         /\ tracker.upto < now
         /\ \A b \in tracker.batch : tracker.from < b /\ b <= tracker.upto

(* What a reset has claimed is still in the document.                         *)
ClaimHolds ==
  /\ reset.step # "idle" => reset.sub \in 1 .. opened
  /\ reset.step = "record" =>
       /\ reset.doc.start = subs[reset.sub].start
       /\ \A b \in Buckets : reset.doc.used[b] <= subs[reset.sub].used[b]

IInv ==
  /\ BillingTypeOK /\ OneActive /\ ActiveLeads /\ Windows /\ BatchIsNew
  /\ RolledIsPast /\ ClaimHolds /\ BilledOnce

-----------------------------------------------------------------------------
(* Most steps leave the hours and the cursors alone, and one run of three     *)
(* kinds of step does not.                                                    *)
SameHours ==
  /\ opened' = opened /\ now <= now'
  /\ \A s \in Subs : /\ subs'[s].used = subs[s].used
                     /\ subs'[s].from = subs[s].from /\ subs'[s].cursor = subs[s].cursor
                     /\ subs'[s].start = subs[s].start /\ subs'[s].end = subs[s].end

Opens ==
  /\ \E cursor \in {0, now}, start \in Nat, end \in Nat :
       /\ Open(cursor, start, end) /\ start < end
       /\ cursor = 0 => again' = again \cup Behind(0)
  /\ change' \in {change, NoChange}
  /\ UNCHANGED <<now, ledger, snapshots, tracker>>

LEMMA ResetOpensKind ==
  ASSUME BillingTypeOK, ResetOpens
  PROVE  Opens \/ UNCHANGED <<subs, opened>>
<1>1. /\ now + Day \in Nat /\ now + Day + Month \in Nat
      /\ now + Day < now + Day + Month /\ now # 0
  BY BillingAssumption DEF BillingTypeOK
<1>2. CASE Open(now, now + Day, now + Day + Month)
  BY <1>1, <1>2 DEF ResetOpens, Opens
<1>. QED  BY <1>2 DEF ResetOpens

LEMMA ChangeOpensKind ==
  ASSUME BillingTypeOK, ChangeOpens
  PROVE  Opens \/ UNCHANGED <<subs, opened>>
<1>. DEFINE end == IF change.doc.end > now THEN change.doc.end ELSE now + Month
<1>1. end \in Nat /\ now < end /\ now \in Nat /\ now # 0
  BY BillingAssumption DEF Sub, BillingTypeOK
<1>2. CASE Open(now, now, end) /\ change' = NoChange
  <2>. HIDE DEF end
  <2>1. UNCHANGED <<now, ledger, snapshots, tracker, reset>>
    BY DEF ChangeOpens
  <2>. QED  BY <1>1, <1>2, <2>1 DEF Opens
<1>. QED  BY <1>2 DEF ChangeOpens

LEMMA AdminOpensKind == BillingTypeOK /\ AdminOpens => Opens
<1>. SUFFICES ASSUME BillingTypeOK, AdminOpens PROVE Opens
  OBVIOUS
<1>1. now \in Nat /\ now + Month \in Nat /\ now < now + Month
  BY BillingAssumption DEF BillingTypeOK
<1>. QED  BY <1>1 DEF AdminOpens, Opens

LEMMA StepKinds ==
  ASSUME BillingTypeOK, [Next]_vars
  PROVE  SameHours \/ TrackerIncs \/ ResetRenews \/ Opens
<1>. USE DEF BillingTypeOK
<1>0. now \in Nat
  BY BillingAssumption
<1>1. ASSUME subs' = subs, opened' = opened, now' = now \/ now' = now + 1 PROVE SameHours
  BY <1>0, <1>1 DEF SameHours
<1>2. CASE ResetClaims
  BY <1>0, <1>2 DEF ResetClaims, SameHours, Sub
<1>3. CASE ResetCloses
  BY <1>0, <1>3 DEF ResetCloses, SameHours, Sub
<1>4. CASE ResetOpens
  BY <1>1, <1>4, ResetOpensKind DEF ResetOpens
<1>5. ASSUME NEW s \in Subs, ClaimAges(s) PROVE SameHours
  BY <1>0, <1>5 DEF ClaimAges, SameHours, Sub
<1>6. ASSUME NEW s \in Subs, NEW x \in AtEnds, Schedule(s, x) PROVE SameHours
  BY <1>0, <1>6 DEF Schedule, SameHours, Sub
<1>7. CASE ChangeCloses
  BY <1>0, <1>7 DEF ChangeCloses, SameHours, Sub
<1>8. CASE ChangeOpens
  BY <1>1, <1>8, ChangeOpensKind DEF ChangeOpens
<1>9. CASE ChangeReopens
  <2>1. CASE UNCHANGED subs
    BY <1>1, <1>9, <2>1 DEF ChangeReopens
  <2>2. ASSUME NEW x \in {change.doc.atEnd, subs[change.sub].atEnd},
               subs' = [subs EXCEPT ![change.sub].status = change.doc.status, ![change.sub].atEnd = x,
                                    ![change.sub].resetting = change.doc.resetting]
        PROVE  SameHours
    <3>1. now' = now /\ opened' = opened
      BY <1>9 DEF ChangeReopens
    <3>. QED  BY <1>0, <2>2, <3>1 DEF SameHours, Sub
  <2>. QED  BY <1>9, <2>1, <2>2 DEF ChangeReopens
<1>10. CASE Tick
  BY <1>1, <1>10 DEF Tick
<1>11. ASSUME NEW b \in Buckets, Rollup(b) PROVE SameHours
  BY <1>1, <1>11 DEF Rollup
<1>12. ASSUME NEW s \in Subs, TrackerReads(s) \/ ResetFinds(s) \/ ChangeReads(s) PROVE SameHours
  BY <1>1, <1>12 DEF TrackerReads, ResetFinds, ChangeReads
<1>13. CASE TrackerSums \/ TrackerLedgers \/ ResetRecords
  BY <1>1, <1>13 DEF TrackerSums, TrackerLedgers, ResetRecords
<1>14. CASE TrackerDies \/ ResetDies \/ ChangeDies \/ UNCHANGED vars
  BY <1>1, <1>14 DEF TrackerDies, ResetDies, ChangeDies, vars
<1>15. ASSUME NEW s \in Subs, Pause(s) PROVE SameHours
  BY <1>0, <1>15 DEF Pause, SameHours, Sub
<1>16. CASE AdminOpens
  BY <1>16, AdminOpensKind
<1>. QED
  BY <1>2, <1>3, <1>4, <1>5, <1>6, <1>7, <1>8, <1>9, <1>10, <1>11, <1>12, <1>13, <1>14, <1>15, <1>16
     DEF Next, TrackerNext, ResetNext, ChangeNext

(* The types of the parts, and what a sum adds.                               *)
LEMMA UsedTyped ==
  ASSUME BillingTypeOK
  PROVE  /\ now \in Nat /\ now # 0 /\ opened \in Nat /\ 1 .. opened \subseteq Subs /\ opened \in 1 .. opened
         /\ \A s \in Subs : /\ subs[s].used \in Hours /\ subs[s].cursor \in Nat /\ subs[s].from \in Nat
                            /\ subs[s].start \in Nat /\ \A b \in Buckets : subs[s].used[b] \in Nat
         /\ \A p \in snapshots : p.sub \in Subs /\ p.start \in Nat /\ \A b \in Buckets : p.used[b] \in Nat
         /\ tracker.batch \subseteq Buckets /\ tracker.upto \in Nat /\ tracker.from \in Nat
         /\ Buckets \subseteq Nat /\ tracker.sub \in Subs /\ again \subseteq Buckets
<1>1. now \in Nat /\ now # 0 /\ opened \in Nat /\ 1 .. opened \subseteq Subs /\ opened \in 1 .. opened
  BY BillingAssumption DEF BillingTypeOK, Subs
<1>2. \A s \in Subs : /\ subs[s].used \in Hours /\ subs[s].cursor \in Nat /\ subs[s].from \in Nat
                      /\ subs[s].start \in Nat /\ \A b \in Buckets : subs[s].used[b] \in Nat
  BY DEF BillingTypeOK, Sub, Hours
<1>3. \A p \in snapshots : p.sub \in Subs /\ p.start \in Nat /\ \A b \in Buckets : p.used[b] \in Nat
  BY DEF BillingTypeOK, Hours
<1>4. /\ tracker.batch \subseteq Buckets /\ tracker.upto \in Nat /\ tracker.from \in Nat
      /\ Buckets \subseteq Nat /\ tracker.sub \in Subs /\ again \subseteq Buckets
  BY BillingAssumption DEF BillingTypeOK, Buckets
<1>. QED  BY <1>1, <1>2, <1>3, <1>4

LEMMA PlusCounts ==
  ASSUME NEW used \in Hours, NEW batch \in SUBSET Buckets, NEW b \in Buckets
  PROVE  /\ b \in batch => Plus(used, batch)[b] = used[b] + 1
         /\ b \notin batch => Plus(used, batch)[b] = used[b]
         /\ used[b] \in Nat
BY DEF Plus, Hours

(* What the three other kinds of step do to the subscriptions. *)
LEMMA OpensEffect ==
  ASSUME BillingTypeOK, Opens
  PROVE  /\ opened \in Nat /\ opened' = opened + 1 /\ opened' \in Subs /\ ~SomeActive
         /\ subs'[opened'].used = None /\ subs'[opened'].status = "active"
         /\ subs'[opened'].from = subs'[opened'].cursor
         /\ \/ subs'[opened'].cursor = now
            \/ subs'[opened'].cursor = 0 /\ again' = again \cup Behind(0)
         /\ subs'[opened'].start < subs'[opened'].end
         /\ \A s \in Subs : s # opened' => subs'[s] = subs[s]
         /\ UNCHANGED <<now, ledger, snapshots, tracker>>
<1>1. PICK cursor \in {0, now}, start \in Nat, end \in Nat :
        /\ Open(cursor, start, end) /\ start < end
        /\ cursor = 0 => again' = again \cup Behind(0)
  BY DEF Opens
<1>2. opened \in Nat /\ opened' = opened + 1 /\ opened' \in Subs
  BY <1>1, BillingAssumption DEF Open, BillingTypeOK, Subs
<1>3. subs' = [subs EXCEPT ![opened'] = Opened(cursor, start, end)] /\ ~SomeActive
  BY <1>1 DEF Open
<1>4. subs'[opened'] = Opened(cursor, start, end) /\ \A s \in Subs : s # opened' => subs'[s] = subs[s]
  BY <1>2, <1>3 DEF BillingTypeOK
<1>5. /\ subs'[opened'].used = None /\ subs'[opened'].status = "active"
      /\ subs'[opened'].from = cursor /\ subs'[opened'].cursor = cursor
      /\ subs'[opened'].start = start /\ subs'[opened'].end = end
  BY <1>4 DEF Opened
<1>. QED  BY <1>1, <1>2, <1>3, <1>4, <1>5 DEF Opens

LEMMA RenewsEffect ==
  ASSUME BillingTypeOK, ResetRenews
  PROVE  /\ subs'[reset.sub].used = None
         /\ \A s \in Subs : /\ s # reset.sub => subs'[s] = subs[s]
                            /\ subs'[s].from = subs[s].from /\ subs'[s].cursor = subs[s].cursor
                            /\ subs'[s].status = subs[s].status
         /\ reset' = NoReset
         /\ UNCHANGED <<now, opened, ledger, snapshots, tracker, change>>
BY DEF ResetRenews, BillingTypeOK, Sub

(* The update of the tracker reaches one subscription or none, not always the *)
(* one that was read.                                                         *)
Incs(s) ==
  /\ Billable(s)
  /\ subs'[s].used = Plus(subs[s].used, tracker.batch)
  /\ subs'[s].cursor = tracker.upto
  /\ subs'[s].from = subs[s].from /\ subs'[s].start = subs[s].start
  /\ subs'[s].status = subs[s].status /\ subs'[s].end = subs[s].end
  /\ \A x \in Subs : x # s => subs'[x] = subs[x]

LEMMA IncsEffect ==
  ASSUME BillingTypeOK, OneActive, TrackerIncs
  PROVE  /\ UNCHANGED <<now, opened, ledger, snapshots, reset, change>> /\ tracker' = NoTracker
         /\ UNCHANGED subs \/ \E s \in 1 .. opened : Incs(s)
<1>1. UNCHANGED <<now, opened, ledger, snapshots, reset, change>> /\ tracker' = NoTracker
  BY DEF TrackerIncs
<1>2. ASSUME NEW s \in Subs, Billable(s),
             subs' = [subs EXCEPT ![s].used = Plus(@, tracker.batch), ![s].cursor = tracker.upto]
      PROVE  s \in 1 .. opened /\ Incs(s)
  BY <1>2 DEF OneActive, Billable, Incs, BillingTypeOK, Sub
<1>. QED  BY <1>1, <1>2 DEF TrackerIncs

(* No subscription has been billed for an hour of the sum.                    *)
LEMMA BatchUnbilled ==
  ASSUME BillingTypeOK, OneActive, ActiveLeads, BatchIsNew, TrackerIncs,
         NEW s \in 1 .. opened, Billable(s), NEW b \in tracker.batch, b \notin again, NEW t \in 1 .. opened
  PROVE  ~(b <= subs[t].cursor)
<1>. SUFFICES ASSUME b <= subs[t].cursor PROVE FALSE
  OBVIOUS
<1>1. s \in Subs /\ b \in Buckets /\ subs[s].cursor \in Nat /\ tracker.upto \in Nat /\ now \in Nat
  BY UsedTyped
<1>2. b <= subs[s].cursor
  BY <1>1 DEF ActiveLeads, Billable
<1>3. tracker.from < b /\ tracker.upto < now
  BY DEF TrackerIncs, BatchIsNew
<1>4. subs[s].cursor = now
  BY <1>1, <1>2, <1>3 DEF TrackerIncs, BatchIsNew
<1>5. subs[s].cursor < tracker.upto
  BY DEF Billable
<1>. QED  BY ONLY <1>1, <1>3, <1>4, <1>5

-----------------------------------------------------------------------------
(* Who is active, and what the histories keep.                                *)
LEMMA ActiveKinds ==
  ASSUME BillingTypeOK, OneActive, [Next]_vars
  PROVE  \/ Opens
         \/ ChangeReopens
         \/ opened' = opened /\ \A s \in Subs : subs'[s].status = "active" => Active(s)
<1>. USE DEF BillingTypeOK, Active
<1>1. CASE TrackerIncs
  <2>1. opened' = opened /\ (UNCHANGED subs \/ \E s \in 1 .. opened : Incs(s))
    BY <1>1, IncsEffect
  <2>. QED  BY <2>1 DEF Incs
<1>2. CASE ResetRenews
  BY <1>2, RenewsEffect
<1>3. CASE ResetClaims
  BY <1>3 DEF ResetClaims, Sub
<1>4. CASE ResetCloses
  BY <1>4 DEF ResetCloses, Sub
<1>5. ASSUME NEW t \in Subs, ClaimAges(t)
      PROVE  opened' = opened /\ \A s \in Subs : subs'[s].status = "active" => Active(s)
  BY <1>5 DEF ClaimAges, Sub
<1>6. ASSUME NEW t \in Subs, NEW x \in AtEnds, Schedule(t, x)
      PROVE  opened' = opened /\ \A s \in Subs : subs'[s].status = "active" => Active(s)
  BY <1>6 DEF Schedule, Sub
<1>7. CASE ChangeCloses
  BY <1>7 DEF ChangeCloses, Sub
<1>8. ASSUME NEW t \in Subs, Pause(t)
      PROVE  opened' = opened /\ \A s \in Subs : subs'[s].status = "active" => Active(s)
  BY <1>8 DEF Pause, Sub
<1>9. ResetOpens \/ ChangeOpens \/ AdminOpens => Opens \/ UNCHANGED <<subs, opened>>
  BY ResetOpensKind, ChangeOpensKind, AdminOpensKind
<1>10. \/ UNCHANGED <<subs, opened>> \/ TrackerIncs \/ ResetRenews \/ ResetClaims \/ ResetCloses
       \/ ChangeCloses \/ ChangeReopens \/ ResetOpens \/ ChangeOpens \/ AdminOpens
       \/ \E t \in Subs : ClaimAges(t) \/ Pause(t) \/ \E x \in AtEnds : Schedule(t, x)
  BY DEF Next, TrackerNext, ResetNext, ChangeNext, Tick, Rollup, TrackerReads, TrackerSums, TrackerLedgers,
     TrackerDies, ResetFinds, ResetRecords, ChangeReads, ResetDies, ChangeDies, vars
<1>. QED  BY <1>1, <1>2, <1>3, <1>4, <1>5, <1>6, <1>7, <1>8, <1>9, <1>10

LEMMA AgainGrows ==
  ASSUME [Next]_vars
  PROVE  again \subseteq again'
BY DEF Next, TrackerNext, ResetNext, ChangeNext, Tick, Rollup, TrackerReads, TrackerSums, TrackerLedgers,
   TrackerIncs, TrackerDies, ResetFinds, ResetClaims, ResetRecords, ResetRenews, ResetCloses, ResetOpens,
   ClaimAges, Schedule, ChangeReads, ChangeCloses, ChangeOpens, ChangeReopens, Pause, AdminOpens,
   ResetDies, ChangeDies, vars

(* The compensation of a failed change makes its own subscription active, and *)
(* counts as billed again what another is past.                               *)
LEMMA ReopenEffect ==
  ASSUME BillingTypeOK, ChangeReopens
  PROVE  /\ change.step # "idle" /\ change' = NoChange
         /\ UNCHANGED <<now, opened, ledger, snapshots, tracker, reset>>
         /\ \/ UNCHANGED subs
            \/ /\ ~SomeActive /\ \A s \in Subs : s # change.sub => subs'[s] = subs[s]
               /\ again' = again \cup Behind(subs[change.sub].cursor)
               /\ subs'[change.sub].cursor = subs[change.sub].cursor
<1>1. ASSUME NEW x \in {change.doc.atEnd, subs[change.sub].atEnd},
             subs' = [subs EXCEPT ![change.sub].status = change.doc.status, ![change.sub].atEnd = x,
                                  ![change.sub].resetting = change.doc.resetting]
      PROVE  /\ \A s \in Subs : s # change.sub => subs'[s] = subs[s]
             /\ subs'[change.sub].cursor = subs[change.sub].cursor
  BY <1>1 DEF BillingTypeOK, Sub
<1>. QED  BY <1>1 DEF ChangeReopens

LEMMA ChangeKinds ==
  ASSUME BillingTypeOK, [Next]_vars
  PROVE  \/ change'.step = "idle"
         \/ change' = change
         \/ change.step # "idle" /\ change'.sub = change.sub
         \/ \E s \in Subs : ChangeReads(s)
<1>1. ChangeCloses => change.step # "idle" /\ change'.sub = change.sub
  BY DEF ChangeCloses, BillingTypeOK
<1>2. ChangeOpens => change'.step = "idle" \/ (change.step # "idle" /\ change'.sub = change.sub)
  BY DEF ChangeOpens, NoChange, BillingTypeOK
<1>3. ChangeReopens \/ ChangeDies => change'.step = "idle"
  BY DEF ChangeReopens, ChangeDies, NoChange
<1>4. \/ change' = change \/ ChangeCloses \/ ChangeOpens \/ ChangeReopens \/ ChangeDies
      \/ \E s \in Subs : ChangeReads(s)
  BY DEF Next, TrackerNext, ResetNext, ChangeNext, Tick, Rollup, TrackerReads, TrackerSums, TrackerLedgers,
     TrackerIncs, TrackerDies, ResetFinds, ResetClaims, ResetRecords, ResetRenews, ResetCloses, ResetOpens,
     ClaimAges, Schedule, Pause, AdminOpens, ResetDies, vars
<1>. QED  BY <1>1, <1>2, <1>3, <1>4

-----------------------------------------------------------------------------
(* Each part of the invariant is kept. *)
LEMMA OneActiveKept ==
  ASSUME BillingTypeOK, BillingTypeOK', OneActive, [Next]_vars
  PROVE  OneActive'
<1>0. opened \in Nat /\ 1 .. opened \subseteq Subs
  BY UsedTyped
<1>1. opened' \in {opened, opened + 1} /\ 1 .. opened \subseteq 1 .. opened'
  <2>1. opened' \in {opened, opened + 1}
    BY StepKinds, IncsEffect, RenewsEffect, OpensEffect DEF SameHours
  <2>. QED  BY <1>0, <2>1
<1>2. change'.step # "idle" => change'.sub \in 1 .. opened'
  <2>1. ASSUME NEW s \in Subs, ChangeReads(s) PROVE change'.sub = s /\ s \in 1 .. opened
    BY <2>1 DEF ChangeReads, OneActive
  <2>. QED  BY <1>1, <2>1, ChangeKinds DEF OneActive
<1>3. CASE Opens
  <2>1. /\ \A s \in Subs : subs'[s].status = "active" => s = opened'
        /\ opened' \in 1 .. opened'
    BY <1>0, <1>3, OpensEffect DEF SomeActive, Active
  <2>. QED  BY <1>2, <2>1 DEF OneActive, Active
<1>4. CASE ChangeReopens
  <2>1. CASE UNCHANGED subs
    BY <1>1, <1>2, <2>1 DEF OneActive, Active
  <2>2. CASE ~SomeActive /\ \A s \in Subs : s # change.sub => subs'[s] = subs[s]
    <3>1. \A s \in Subs : subs'[s].status = "active" => s = change.sub
      BY <2>2 DEF SomeActive, Active
    <3>2. change.sub \in 1 .. opened
      BY <1>4, ReopenEffect DEF OneActive
    <3>. QED  BY <1>1, <1>2, <3>1, <3>2 DEF OneActive, Active
  <2>. QED  BY <1>4, <2>1, <2>2, ReopenEffect
<1>5. CASE \A s \in Subs : subs'[s].status = "active" => Active(s)
  BY <1>1, <1>2, <1>5 DEF OneActive, Active
<1>. QED  BY <1>3, <1>4, <1>5, ActiveKinds

LEMMA ActiveLeadsKept ==
  ASSUME BillingTypeOK, BillingTypeOK', OneActive, ActiveLeads, Windows, [Next]_vars
  PROVE  ActiveLeads'
<1>. SUFFICES ASSUME NEW s \in Subs, subs'[s].status = "active", NEW t \in 1 .. opened',
                     NEW b \in Buckets, b \notin again', b <= subs'[t].cursor
              PROVE  b <= subs'[s].cursor
  BY DEF ActiveLeads, Active
<1>0. /\ b \notin again /\ b \in Nat /\ b > 0 /\ opened \in Nat /\ 1 .. opened \subseteq Subs
      /\ \A x \in Subs : subs[x].cursor \in Nat
  BY AgainGrows, UsedTyped, BillingAssumption DEF Buckets
<1>1. CASE Opens
  <2>1. s = opened'
    BY <1>1, OpensEffect DEF SomeActive, Active
  <2>2. CASE t = s
    BY <2>2
  <2>3. CASE t # s
    <3>1. t \in 1 .. opened /\ subs'[t] = subs[t] /\ now \in Nat
      BY <1>0, <1>1, <2>1, <2>3, OpensEffect, UsedTyped
    <3>2. b <= subs[t].cursor /\ subs[t].cursor <= now
      BY <3>1 DEF Windows
    <3>3. CASE subs'[opened'].cursor = now
      BY <1>0, <2>1, <3>1, <3>2, <3>3
    <3>4. CASE again' = again \cup Behind(0)
      <4>1. b \in Behind(0)
        BY <1>0, <3>1, <3>2 DEF Behind
      <4>. QED  BY <3>4, <4>1
    <3>. QED  BY <1>1, <3>3, <3>4, OpensEffect
  <2>. QED  BY <2>2, <2>3
<1>2. CASE TrackerIncs
  <2>1. opened' = opened
    BY <1>2, IncsEffect
  <2>2. CASE UNCHANGED subs
    BY <1>0, <2>1, <2>2 DEF ActiveLeads, Active
  <2>3. ASSUME NEW i \in 1 .. opened, Incs(i) PROVE b <= subs'[s].cursor
    <3>1. s = i
      BY <1>0, <2>3 DEF Incs, Billable, OneActive, Active
    <3>2. CASE t = i
      BY <3>1, <3>2
    <3>3. CASE t # i
      <4>1. b <= subs[t].cursor
        BY <1>0, <2>1, <2>3, <3>3 DEF Incs
      <4>2. b <= subs[i].cursor
        BY <1>0, <2>1, <2>3, <4>1 DEF ActiveLeads, Incs, Billable
      <4>3. subs[i].cursor < tracker.upto /\ subs'[s].cursor = tracker.upto
        BY <2>3, <3>1 DEF Incs, Billable
      <4>. QED  BY <1>0, <4>2, <4>3, UsedTyped
    <3>. QED  BY <3>2, <3>3
  <2>. QED  BY <1>2, <2>2, <2>3, IncsEffect
<1>3. CASE ChangeReopens
  <2>1. CASE UNCHANGED subs
    BY <1>0, <1>3, <2>1, ReopenEffect DEF ActiveLeads, Active
  <2>2. CASE /\ ~SomeActive /\ \A x \in Subs : x # change.sub => subs'[x] = subs[x]
             /\ again' = again \cup Behind(subs[change.sub].cursor)
             /\ subs'[change.sub].cursor = subs[change.sub].cursor
    <3>1. s = change.sub /\ t \in 1 .. opened /\ t \in Subs
      BY <1>0, <1>3, <2>2, ReopenEffect DEF SomeActive, Active
    <3>2. b <= subs[t].cursor
      BY <2>2, <3>1
    <3>3. ~(subs[s].cursor < b)
      BY <2>2, <3>1, <3>2 DEF Behind
    <3>. QED  BY <1>0, <2>2, <3>1, <3>3
  <2>. QED  BY <1>3, <2>1, <2>2, ReopenEffect
<1>4. CASE /\ opened' = opened /\ \A x \in Subs : subs'[x].status = "active" => Active(x)
           /\ \A x \in Subs : subs'[x].cursor = subs[x].cursor
  BY <1>0, <1>4 DEF ActiveLeads
<1>5. SameHours \/ ResetRenews => \A x \in Subs : subs'[x].cursor = subs[x].cursor
  BY RenewsEffect DEF SameHours
<1>. QED  BY <1>1, <1>2, <1>3, <1>4, <1>5, ActiveKinds, StepKinds

LEMMA BatchIsNewKept ==
  ASSUME BillingTypeOK, BillingTypeOK', OneActive, ActiveLeads, BatchIsNew, RolledIsPast, [Next]_vars
  PROVE  BatchIsNew'
<1>0. /\ now \in Nat /\ opened \in Nat /\ 1 .. opened \subseteq Subs /\ opened \in 1 .. opened
      /\ again \subseteq again'
  BY UsedTyped, AgainGrows
<1>1. ASSUME SameHours \/ ResetRenews, tracker' = tracker, now' = now \/ tracker.step = "idle"
      PROVE  BatchIsNew'
  <2>. SUFFICES ASSUME tracker'.step # "idle" PROVE BatchIsNew'
    BY DEF BatchIsNew
  <2>1. tracker' = tracker /\ now' = now /\ opened' = opened
        /\ \A s \in Subs : subs'[s].cursor = subs[s].cursor
    BY <1>1, RenewsEffect DEF SameHours
  <2>. QED  BY <1>0, <2>1 DEF BatchIsNew
<1>2. CASE TrackerIncs \/ TrackerDies
  BY <1>2 DEF TrackerIncs, TrackerDies, NoTracker, BatchIsNew
<1>3. CASE Opens
  <2>1. UNCHANGED <<now, tracker>> /\ opened' = opened + 1
        /\ subs'[opened'].cursor \in {0, now} /\ \A s \in 1 .. opened : subs'[s] = subs[s]
    BY <1>0, <1>3, OpensEffect
  <2>2. \A b \in Buckets : b > 0 /\ b \in Nat
    BY DEF Buckets
  <2>3. \A t \in 1 .. opened' : t \in 1 .. opened \/ t = opened'
    BY <1>0, <2>1
  <2>4. 1 .. opened \subseteq 1 .. opened'
    BY <1>0, <2>1
  <2>. SUFFICES ASSUME tracker.step # "idle" PROVE BatchIsNew'
    BY <2>1 DEF BatchIsNew
  <2>5. ASSUME NEW t \in 1 .. opened', NEW b \in Buckets \ again',
               tracker.from < b, b <= subs'[t].cursor
        PROVE  subs'[t].cursor = now
    <3>1. CASE t \in 1 .. opened
      BY <1>0, <2>1, <2>5, <3>1 DEF BatchIsNew
    <3>2. CASE t = opened'
      BY <2>1, <2>2, <2>5, <3>2
    <3>. QED  BY <2>3, <3>1, <3>2
  <2>. QED  BY <2>1, <2>4, <2>5 DEF BatchIsNew
<1>4. ASSUME NEW s \in Subs, TrackerReads(s) PROVE BatchIsNew'
  <2>1. s \in 1 .. opened /\ UNCHANGED <<now, opened, subs, again>> /\ subs[s].cursor \in Nat
    BY <1>4, UsedTyped DEF TrackerReads, OneActive
  <2>2. tracker'.step = "sum" /\ tracker'.sub = s /\ tracker'.from = subs[s].cursor
    BY <1>4 DEF TrackerReads
  <2>3. ASSUME NEW t \in 1 .. opened, NEW b \in Buckets \ again, subs[s].cursor < b, b <= subs[t].cursor
        PROVE  FALSE
    <3>1. b <= subs[s].cursor /\ b \in Nat
      BY <1>4, <2>3, UsedTyped DEF ActiveLeads, TrackerReads
    <3>. QED  BY ONLY <2>1, <2>3, <3>1
  <2>. QED  BY <1>0, <2>1, <2>2, <2>3 DEF BatchIsNew
<1>5. CASE TrackerSums
  <2>1. CASE tracker' = NoTracker
    BY <2>1 DEF NoTracker, BatchIsNew
  <2>2. ASSUME NEW upto \in {b \in rolled : b > tracker.from},
               \A b \in {b \in rolled : b > tracker.from} : b <= upto,
               tracker' = [tracker EXCEPT !.step = "ledger", !.batch = {b \in rolled : b > tracker.from},
                                          !.upto = upto]
        PROVE  BatchIsNew'
    <3>1. upto < now
      BY <2>2 DEF RolledIsPast
    <3>2. UNCHANGED <<now, opened, subs, again>> /\ tracker.step # "idle"
      BY <1>5 DEF TrackerSums
    <3>3. /\ tracker'.sub = tracker.sub /\ tracker'.from = tracker.from /\ tracker'.upto = upto
          /\ tracker'.batch = {b \in rolled : b > tracker.from}
      BY <2>2 DEF BillingTypeOK
    <3>4. \A b \in tracker'.batch : tracker'.from < b /\ b <= tracker'.upto
      BY <2>2, <3>3 DEF BillingTypeOK, Buckets
    <3>. QED  BY <3>1, <3>2, <3>3, <3>4 DEF BatchIsNew
  <2>. QED  BY <1>5, <2>1, <2>2 DEF TrackerSums
<1>6. CASE TrackerLedgers
  <2>1. UNCHANGED <<now, opened, subs, again>> /\ tracker.step = "ledger"
    BY <1>6 DEF TrackerLedgers
  <2>2. /\ tracker'.sub = tracker.sub /\ tracker'.from = tracker.from /\ tracker'.upto = tracker.upto
        /\ tracker'.batch = tracker.batch
    BY <1>6 DEF TrackerLedgers, BillingTypeOK
  <2>. QED  BY <2>1, <2>2 DEF BatchIsNew
<1>7. CASE ~(\E s \in Subs : TrackerReads(s)) /\ ~TrackerSums /\ ~TrackerLedgers /\ ~TrackerIncs /\ ~TrackerDies
  <2>1. tracker' = tracker
    BY <1>7 DEF Next, TrackerNext, ResetNext, ChangeNext, Tick, Rollup, ResetFinds, ResetClaims, ResetRecords,
       ResetRenews, ResetCloses, ResetOpens, ClaimAges, Schedule, ChangeReads, ChangeCloses, ChangeOpens,
       ChangeReopens, Pause, AdminOpens, ResetDies, ChangeDies, vars
  <2>2. now' = now \/ tracker.step = "idle"
    BY <1>7 DEF Next, TrackerNext, ResetNext, ChangeNext, Tick, NoRun, Rollup, ResetFinds, ResetClaims, ResetRecords,
       ResetRenews, ResetCloses, ResetOpens, ClaimAges, Schedule, ChangeReads, ChangeCloses, ChangeOpens,
       ChangeReopens, Pause, AdminOpens, ResetDies, ChangeDies, vars
  <2>. QED  BY <1>1, <1>3, <1>7, <2>1, <2>2, StepKinds
<1>. QED
  BY <1>2, <1>4, <1>5, <1>6, <1>7

(* A cursor never goes back. *)
LEMMA CursorsGrow ==
  ASSUME BillingTypeOK, BillingTypeOK', OneActive, [Next]_vars
  PROVE  \A s \in 1 .. opened :
           /\ s \in 1 .. opened' /\ s \in Subs /\ subs[s].cursor \in Nat /\ subs'[s].cursor \in Nat
           /\ subs[s].cursor <= subs'[s].cursor /\ subs'[s].from = subs[s].from
<1>1. CASE SameHours
  BY <1>1, UsedTyped DEF SameHours
<1>2. CASE TrackerIncs
  <2>1. opened' = opened
    BY <1>2, IncsEffect
  <2>2. CASE UNCHANGED subs
    BY <2>1, <2>2, UsedTyped
  <2>3. ASSUME NEW i \in 1 .. opened, Incs(i)
        PROVE  \A s \in 1 .. opened :
                 /\ s \in Subs /\ subs[s].cursor \in Nat /\ subs'[s].cursor \in Nat
                 /\ subs[s].cursor <= subs'[s].cursor /\ subs'[s].from = subs[s].from
    BY <2>1, <2>3, UsedTyped DEF Incs, Billable
  <2>. QED  BY <1>2, <2>1, <2>2, <2>3, IncsEffect
<1>3. CASE ResetRenews
  BY <1>3, UsedTyped, RenewsEffect
<1>4. CASE Opens
  BY <1>4, UsedTyped, OpensEffect
<1>. QED  BY <1>1, <1>2, <1>3, <1>4, StepKinds

LEMMA SnapshotKinds ==
  ASSUME [Next]_vars
  PROVE  snapshots' = snapshots \/ ResetRecords
BY DEF Next, TrackerNext, ResetNext, ChangeNext, Tick, Rollup, TrackerReads, TrackerSums, TrackerLedgers,
   TrackerIncs, TrackerDies, ResetFinds, ResetClaims, ResetRenews, ResetCloses, ResetOpens, ClaimAges,
   Schedule, ChangeReads, ChangeCloses, ChangeOpens, ChangeReopens, Pause, AdminOpens, ResetDies, ChangeDies,
   vars

(* The snapshot a reset adds is of hours the document has. *)
LEMMA RecordsEffect ==
  ASSUME BillingTypeOK, ClaimHolds, ResetRecords
  PROVE  /\ UNCHANGED <<now, opened, subs>>
         /\ \A p \in snapshots' \ snapshots :
              /\ p.sub \in 1 .. opened /\ p.start = subs[p.sub].start
              /\ \A b \in Buckets : p.used[b] \in Nat /\ p.used[b] <= subs[p.sub].used[b]
<1>. DEFINE new == [sub |-> reset.sub, start |-> reset.doc.start, end |-> reset.doc.end, used |-> reset.doc.used]
<1>1. UNCHANGED <<now, opened, subs>> /\ snapshots' \subseteq snapshots \cup {new}
  BY DEF ResetRecords
<1>2. reset.sub \in 1 .. opened /\ reset.doc.start = subs[reset.sub].start
      /\ \A b \in Buckets : reset.doc.used[b] <= subs[reset.sub].used[b]
  BY DEF ResetRecords, ClaimHolds
<1>3. \A b \in Buckets : reset.doc.used[b] \in Nat
  BY DEF BillingTypeOK, Sub, Hours
<1>. QED  BY <1>1, <1>2, <1>3

LEMMA PeriodOfTyped ==
  ASSUME NEW s \in 1 .. opened
  PROVE  /\ PeriodOf(s) \in Periods /\ PeriodOf(s).sub = s /\ PeriodOf(s).start = subs[s].start
         /\ PeriodOf(s).used = subs[s].used
BY DEF Periods, PeriodOf

LEMMA PeriodsTyped ==
  ASSUME BillingTypeOK, NEW p \in Periods
  PROVE  p.sub \in Subs /\ \A b \in Buckets : p.used[b] \in Nat
<1>1. CASE p \in snapshots
  BY <1>1, UsedTyped
<1>2. ASSUME NEW s \in 1 .. opened, p = PeriodOf(s) PROVE p.sub \in Subs /\ \A b \in Buckets : p.used[b] \in Nat
  BY <1>2, UsedTyped, PeriodOfTyped
<1>. QED  BY <1>1, <1>2 DEF Periods

LEMMA PeriodsCount == BillingTypeOK => \A p \in Periods : \A b \in Buckets : p.used[b] \in Nat
BY PeriodsTyped

LEMMA PeriodsTypedNext == (BillingTypeOK => \A p \in Periods : \A b \in Buckets : p.used[b] \in Nat)'
BY PeriodsCount, PTL

(* A period of the next state is empty, or has no more than one of this       *)
(* state, or is the one the tracker has just added to.                        *)
LEMMA PeriodKinds ==
  ASSUME BillingTypeOK, OneActive, Windows, ClaimHolds, [Next]_vars, NEW p \in Periods'
  PROVE  /\ p.sub \in 1 .. opened'
         /\ \/ \A b \in Buckets : p.used[b] = 0
            \/ \E q \in Periods : /\ q.sub = p.sub /\ q.start = p.start
                                  /\ \A b \in Buckets : p.used[b] <= q.used[b]
            \/ /\ TrackerIncs /\ p.sub \in 1 .. opened /\ Incs(p.sub)
               /\ p.start = subs[p.sub].start /\ p.used = Plus(subs[p.sub].used, tracker.batch)
<1>0. \A q \in Periods : q.sub \in 1 .. opened /\ \A b \in Buckets : q.used[b] <= q.used[b]
  BY PeriodsTyped DEF Windows
<1>1. opened' \in {opened, opened + 1} /\ 1 .. opened \subseteq 1 .. opened' /\ 1 .. opened \subseteq Subs
  <2>1. opened' \in {opened, opened + 1}
    BY StepKinds, IncsEffect, RenewsEffect, OpensEffect DEF SameHours
  <2>. QED  BY <2>1, UsedTyped
<1>2. CASE p \in snapshots
  <2>1. p \in Periods
    BY <1>2 DEF Periods
  <2>. QED  BY <1>0, <1>1, <2>1
<1>3. CASE p \in snapshots' \ snapshots
  <2>1. p.sub \in 1 .. opened /\ p.start = subs[p.sub].start
        /\ \A b \in Buckets : p.used[b] <= subs[p.sub].used[b]
    BY <1>3, SnapshotKinds, RecordsEffect
  <2>. QED  BY <1>1, <2>1, PeriodOfTyped
<1>4. ASSUME NEW s \in 1 .. opened', p.sub = s, p.start = subs'[s].start, p.used = subs'[s].used
      PROVE  \/ \A b \in Buckets : p.used[b] = 0
             \/ \E q \in Periods : /\ q.sub = p.sub /\ q.start = p.start
                                   /\ \A b \in Buckets : p.used[b] <= q.used[b]
             \/ /\ TrackerIncs /\ p.sub \in 1 .. opened /\ Incs(p.sub)
                /\ p.start = subs[p.sub].start /\ p.used = Plus(subs[p.sub].used, tracker.batch)
  <2>1. CASE s \in 1 .. opened /\ subs'[s].start = subs[s].start /\ subs'[s].used = subs[s].used
    BY <1>0, <1>4, <2>1, PeriodOfTyped
  <2>2. CASE subs'[s].used = None
    BY <1>4, <2>2, NoneTyped
  <2>3. CASE SameHours
    BY <1>1, <2>1, <2>3 DEF SameHours
  <2>4. CASE ResetRenews
    <3>1. s \in 1 .. opened /\ s \in Subs
      BY <1>1, <2>4, RenewsEffect
    <3>. QED  BY <2>1, <2>2, <2>4, <3>1, RenewsEffect
  <2>5. CASE Opens
    <3>1. s = opened' \/ (s \in 1 .. opened /\ s # opened' /\ s \in Subs)
      BY <1>1, <2>5, OpensEffect
    <3>. QED  BY <2>1, <2>2, <2>5, <3>1, OpensEffect
  <2>6. CASE TrackerIncs
    <3>1. s \in 1 .. opened /\ s \in Subs
      BY <1>1, <2>6, IncsEffect
    <3>2. CASE UNCHANGED subs
      BY <2>1, <3>1, <3>2
    <3>3. ASSUME NEW i \in 1 .. opened, Incs(i), s # i PROVE subs'[s] = subs[s]
      BY <3>1, <3>3 DEF Incs
    <3>4. CASE Incs(s)
      BY <1>4, <2>6, <3>1, <3>4 DEF Incs
    <3>. QED  BY <2>1, <2>6, <3>1, <3>2, <3>3, <3>4, IncsEffect
  <2>. QED  BY <2>3, <2>4, <2>5, <2>6, StepKinds
<1>5. p \in snapshots' \/ \E s \in 1 .. opened' : p.sub = s /\ p.start = subs'[s].start /\ p.used = subs'[s].used
  BY DEF Periods, PeriodOf
<1>. QED  BY <1>2, <1>3, <1>4, <1>5

LEMMA WindowsKept ==
  ASSUME BillingTypeOK, BillingTypeOK', OneActive, BatchIsNew, ClaimHolds, Windows, [Next]_vars
  PROVE  Windows'
<1>1. ASSUME NEW s \in 1 .. opened' PROVE subs'[s].cursor <= now'
  <2>0. now \in Nat /\ \A x \in 1 .. opened : x \in Subs /\ subs[x].cursor \in Nat /\ subs[x].cursor <= now
    BY UsedTyped DEF Windows
  <2>1. CASE SameHours
    <3>1. now' \in Nat /\ now <= now' /\ s \in 1 .. opened /\ subs'[s].cursor = subs[s].cursor
      BY <2>0, <2>1, BillingAssumption DEF SameHours, BillingTypeOK
    <3>. QED  BY <2>0, <3>1
  <2>2. CASE ResetRenews
    BY <2>0, <2>2, RenewsEffect
  <2>3. CASE Opens
    <3>1. s = opened' \/ (s \in 1 .. opened /\ s # opened')
      BY <2>3, OpensEffect
    <3>. QED  BY <2>0, <2>3, <3>1, OpensEffect
  <2>4. CASE TrackerIncs
    <3>1. s \in 1 .. opened /\ s \in Subs /\ now' = now /\ tracker.upto < now /\ tracker.upto \in Nat
      BY <2>4, IncsEffect, UsedTyped DEF BatchIsNew, TrackerIncs
    <3>2. ASSUME NEW i \in 1 .. opened, Incs(i) PROVE subs'[s].cursor <= now
      BY <2>0, <3>1, <3>2 DEF Incs
    <3>. QED  BY <2>0, <2>4, <3>1, <3>2, IncsEffect
  <2>. QED  BY <2>1, <2>2, <2>3, <2>4, StepKinds
<1>2. ASSUME NEW p \in Periods', NEW b \in Buckets, p.used[b] > 0 PROVE b <= subs'[p.sub].cursor
  <2>0. b \in Nat
    BY UsedTyped
  <2>1. ASSUME NEW q \in Periods, q.sub = p.sub, p.used[b] <= q.used[b] PROVE b <= subs'[p.sub].cursor
    <3>1. p.used[b] \in Nat /\ q.used[b] \in Nat
      BY PeriodsTyped, PeriodsTypedNext
    <3>2. q.sub \in 1 .. opened /\ b <= subs[q.sub].cursor
      BY <1>2, <2>1, <3>1 DEF Windows
    <3>. QED  BY <2>0, <2>1, <3>2, CursorsGrow
  <2>2. ASSUME TrackerIncs, p.sub \in 1 .. opened, Incs(p.sub), p.used = Plus(subs[p.sub].used, tracker.batch)
        PROVE  b <= subs'[p.sub].cursor
    <3>0. /\ p.sub \in Subs /\ subs[p.sub].used \in Hours /\ subs[p.sub].cursor \in Nat /\ tracker.upto \in Nat
          /\ tracker.batch \in SUBSET Buckets
      BY <2>2, UsedTyped
    <3>1. CASE b \in tracker.batch
      BY <2>2, <3>1 DEF TrackerIncs, BatchIsNew, Incs
    <3>2. CASE b \notin tracker.batch
      <4>1. PeriodOf(p.sub).used[b] > 0
        BY <1>2, <2>2, <3>0, <3>2, PlusCounts, PeriodOfTyped
      <4>2. b <= subs[p.sub].cursor
        BY <2>2, <4>1, PeriodOfTyped DEF Windows
      <4>3. subs[p.sub].cursor < tracker.upto /\ subs'[p.sub].cursor = tracker.upto
        BY <2>2 DEF Incs, Billable
      <4>. QED  BY ONLY <2>0, <3>0, <4>2, <4>3
    <3>. QED  BY <3>1, <3>2
  <2>. QED  BY <1>2, <2>1, <2>2, PeriodKinds
<1>3. \A p \in Periods' : p.sub \in 1 .. opened'
  BY PeriodKinds
<1>. QED  BY <1>1, <1>2, <1>3 DEF Windows

(* No period has an hour of the sum yet, and what is added is added once.     *)
LEMMA BilledOnceKept ==
  ASSUME BillingTypeOK, BillingTypeOK', OneActive, ActiveLeads, Windows, BatchIsNew, ClaimHolds, BilledOnce,
         [Next]_vars
  PROVE  BilledOnce'
<1>. DEFINE Old(p, b) == \E q \in Periods : /\ q.sub = p.sub /\ q.start = p.start
                                            /\ p.used[b] <= q.used[b] /\ q.used[b] > 0
            New(p, b) == /\ TrackerIncs /\ p.sub \in 1 .. opened /\ Billable(p.sub)
                         /\ p.start = subs[p.sub].start /\ p.used[b] = 1 /\ b \in tracker.batch
<1>1. ASSUME NEW p \in Periods, NEW b \in tracker.batch, b \notin again, p.used[b] > 0, TrackerIncs,
             NEW s \in 1 .. opened, Billable(s)
      PROVE  FALSE
  <2>1. b \in Buckets /\ p.sub \in 1 .. opened /\ b <= subs[p.sub].cursor
    BY <1>1, UsedTyped DEF Windows
  <2>. QED  BY <1>1, <2>1, BatchUnbilled
<1>2. ASSUME NEW p \in Periods', NEW b \in Buckets, b \notin again, p.used[b] > 0
      PROVE  Old(p, b) \/ New(p, b)
  <2>1. ASSUME NEW q \in Periods, q.sub = p.sub, q.start = p.start, p.used[b] <= q.used[b] PROVE Old(p, b)
    <3>1. p.used[b] \in Nat /\ q.used[b] \in Nat
      BY PeriodsTyped, PeriodsTypedNext
    <3>2. q.used[b] > 0
      BY ONLY <1>2, <2>1, <3>1
    <3>. QED  BY <2>1, <3>2
  <2>2. ASSUME TrackerIncs, p.sub \in 1 .. opened, Incs(p.sub), p.start = subs[p.sub].start,
               p.used = Plus(subs[p.sub].used, tracker.batch)
        PROVE  Old(p, b) \/ New(p, b)
    <3>0. p.sub \in Subs /\ subs[p.sub].used \in Hours /\ subs[p.sub].used[b] \in Nat /\ tracker.batch \in SUBSET Buckets
      BY <2>2, UsedTyped
    <3>1. CASE b \in tracker.batch
      <4>1. ~(PeriodOf(p.sub).used[b] > 0) /\ PeriodOf(p.sub).used[b] = subs[p.sub].used[b] /\ Billable(p.sub)
        BY <1>1, <1>2, <2>2, <3>1, PeriodOfTyped DEF Incs
      <4>2. p.used[b] = subs[p.sub].used[b] + 1
        BY <2>2, <3>0, <3>1, PlusCounts
      <4>3. p.used[b] = 1
        BY ONLY <3>0, <4>1, <4>2
      <4>. QED  BY <2>2, <3>1, <4>1, <4>3
    <3>2. CASE b \notin tracker.batch
      <4>1. p.used[b] = PeriodOf(p.sub).used[b]
        BY <2>2, <3>0, <3>2, PlusCounts, PeriodOfTyped
      <4>2. p.used[b] <= PeriodOf(p.sub).used[b] /\ PeriodOf(p.sub).used[b] > 0
        BY <1>2, <2>2, <3>0, <4>1, PeriodOfTyped
      <4>. QED  BY <2>2, <4>2, PeriodOfTyped
    <3>. QED  BY <3>1, <3>2
  <2>. QED  BY <1>2, <2>1, <2>2, PeriodKinds
<1>. SUFFICES ASSUME NEW p \in Periods', NEW q \in Periods', NEW b \in Buckets, b \notin again',
                     p.used[b] > 0, q.used[b] > 0
              PROVE  p.used[b] = 1 /\ p.sub = q.sub /\ p.start = q.start
  BY DEF BilledOnce
<1>3. b \notin again /\ p.used[b] \in Nat
  BY AgainGrows, PeriodsTypedNext
<1>4. (Old(p, b) \/ New(p, b)) /\ (Old(q, b) \/ New(q, b))
  BY <1>2, <1>3
<1>5. ~(Old(p, b) /\ New(q, b)) /\ ~(New(p, b) /\ Old(q, b))
  BY <1>1, <1>3
<1>6. CASE Old(p, b) /\ Old(q, b)
  <2>1. PICK r \in Periods : r.sub = p.sub /\ r.start = p.start /\ p.used[b] <= r.used[b] /\ r.used[b] > 0
    BY <1>6
  <2>2. PICK t \in Periods : t.sub = q.sub /\ t.start = q.start /\ t.used[b] > 0
    BY <1>6
  <2>3. r.used[b] = 1 /\ r.sub = t.sub /\ r.start = t.start
    BY <1>3, <2>1, <2>2 DEF BilledOnce
  <2>4. p.used[b] = 1
    BY ONLY <1>3, <2>1, <2>3, p.used[b] > 0
  <2>. QED  BY <2>1, <2>2, <2>3, <2>4
<1>7. CASE New(p, b) /\ New(q, b)
  <2>1. p.sub = q.sub
    BY <1>7, UsedTyped DEF Billable, OneActive
  <2>. QED  BY <1>7, <2>1
<1>. QED  BY <1>4, <1>5, <1>6, <1>7

LEMMA ClaimHoldsKept ==
  ASSUME BillingTypeOK, BillingTypeOK', OneActive, ClaimHolds, [Next]_vars
  PROVE  ClaimHolds'
<1>1. opened' = opened \/ opened' = opened + 1
  BY StepKinds, IncsEffect, RenewsEffect, OpensEffect DEF SameHours
<1>2. 1 .. opened \subseteq 1 .. opened' /\ 1 .. opened \subseteq Subs
  BY <1>1, UsedTyped
<1>3. CASE ResetClaims
  <2>1. CASE reset' = NoReset
    BY <2>1 DEF NoReset, ClaimHolds
  <2>2. CASE reset' # NoReset
    <3>1. reset'.sub = reset.sub /\ reset.sub \in 1 .. opened /\ reset'.doc = subs'[reset.sub]
      BY <1>3, <2>2 DEF ResetClaims, ClaimHolds
    <3>2. \A b \in Buckets : subs'[reset.sub].used[b] \in Nat
      BY DEF BillingTypeOK, Sub, Hours
    <3>. QED  BY <1>2, <3>1, <3>2 DEF ClaimHolds
  <2>. QED  BY <2>1, <2>2
<1>4. ASSUME NEW s \in Subs, ResetFinds(s) PROVE ClaimHolds'
  <2>1. s \in 1 .. opened
    BY <1>4, UsedTyped DEF ResetFinds, Expired, OneActive
  <2>. QED  BY <1>2, <1>4, <2>1 DEF ResetFinds, NoReset, ClaimHolds
<1>5. CASE reset'.step = "idle" \/ (reset'.sub = reset.sub /\ reset'.step # "record" /\ reset.step # "idle")
  BY <1>2, <1>5 DEF ClaimHolds
<1>6. CASE reset' = reset
  <2>. SUFFICES ASSUME reset.step = "record" PROVE ClaimHolds'
    BY <1>2, <1>6 DEF ClaimHolds
  <2>1. reset.sub \in 1 .. opened /\ reset.doc.start = subs[reset.sub].start
        /\ \A b \in Buckets : reset.doc.used[b] <= subs[reset.sub].used[b] /\ reset.doc.used[b] \in Nat
    BY DEF ClaimHolds, BillingTypeOK, Sub, Hours
  <2>2. subs'[reset.sub].start = subs[reset.sub].start
        /\ \A b \in Buckets : subs[reset.sub].used[b] <= subs'[reset.sub].used[b]
    <3>1. CASE subs'[reset.sub].used = subs[reset.sub].used /\ subs'[reset.sub].start = subs[reset.sub].start
      BY <1>2, <2>1, <3>1, UsedTyped
    <3>2. CASE SameHours
      BY <1>2, <2>1, <3>1, <3>2 DEF SameHours
    <3>3. CASE TrackerIncs
      <4>1. CASE subs'[reset.sub].used = Plus(subs[reset.sub].used, tracker.batch)
                 /\ subs'[reset.sub].start = subs[reset.sub].start
        BY <1>2, <2>1, <4>1, UsedTyped, PlusCounts
      <4>. QED  BY <1>2, <2>1, <3>1, <3>3, <4>1, IncsEffect DEF Incs
    <3>4. CASE Opens
      <4>1. reset.sub # opened'
        BY <2>1, <3>4, OpensEffect
      <4>. QED  BY <1>2, <2>1, <3>1, <3>4, <4>1, OpensEffect
    <3>5. CASE ResetRenews
      BY <3>5 DEF ResetRenews
    <3>. QED  BY <3>2, <3>3, <3>4, <3>5, StepKinds
  <2>3. \A b \in Buckets : subs'[reset.sub].used[b] \in Nat
    BY <1>2, <2>1 DEF BillingTypeOK, Sub, Hours
  <2>4. \A b \in Buckets : reset.doc.used[b] <= subs'[reset.sub].used[b]
    BY <1>2, <2>1, <2>2, <2>3, UsedTyped
  <2>. QED  BY <1>2, <1>6, <2>1, <2>2, <2>4 DEF ClaimHolds
<1>7. (ResetRecords \/ ResetRenews \/ ResetCloses \/ ResetOpens \/ ResetDies) =>
        reset'.step = "idle" \/ (reset'.sub = reset.sub /\ reset'.step # "record" /\ reset.step # "idle")
  BY DEF ResetRecords, ResetRenews, ResetCloses, ResetOpens, ResetDies, NoReset, BillingTypeOK
<1>8. \/ ResetClaims \/ ResetRecords \/ ResetRenews \/ ResetCloses \/ ResetOpens \/ ResetDies
      \/ \E s \in Subs : ResetFinds(s)
      \/ reset' = reset
  BY DEF Next, TrackerNext, ResetNext, ChangeNext, Tick, Rollup, TrackerReads, TrackerSums, TrackerLedgers,
     TrackerIncs, TrackerDies, ClaimAges, Schedule, ChangeReads, ChangeCloses, ChangeOpens, ChangeReopens,
     Pause, AdminOpens, ChangeDies, vars
<1>. QED  BY <1>3, <1>4, <1>5, <1>6, <1>7, <1>8

LEMMA RolledIsPastKept ==
  ASSUME BillingTypeOK, RolledIsPast, [Next]_vars
  PROVE  RolledIsPast'
<1>1. now \in Nat /\ \A b \in rolled : b \in Nat
  BY BillingAssumption DEF BillingTypeOK, Buckets
<1>2. (now' = now \/ now' = now + 1) /\ \A b \in rolled' : b \in rolled \/ b < now
  BY <1>1 DEF Next, TrackerNext, ResetNext, ChangeNext, Tick, Rollup, TrackerReads, TrackerSums, TrackerLedgers,
     TrackerIncs, TrackerDies, ResetFinds, ResetClaims, ResetRecords, ResetRenews, ResetCloses, ResetOpens,
     ClaimAges, Schedule, ChangeReads, ChangeCloses, ChangeOpens, ChangeReopens, Pause, AdminOpens, ResetDies,
     ChangeDies, vars
<1>3. \A b \in rolled' : b \in Nat
  <2>1. rolled' \subseteq rolled \cup Buckets
    BY DEF Next, TrackerNext, ResetNext, ChangeNext, Tick, Rollup, TrackerReads, TrackerSums, TrackerLedgers,
     TrackerIncs, TrackerDies, ResetFinds, ResetClaims, ResetRecords, ResetRenews, ResetCloses, ResetOpens,
     ClaimAges, Schedule, ChangeReads, ChangeCloses, ChangeOpens, ChangeReopens, Pause, AdminOpens, ResetDies,
     ChangeDies, vars
  <2>. QED  BY <1>1, <2>1 DEF Buckets
<1>. QED  BY <1>1, <1>2, <1>3 DEF RolledIsPast

(* The invariant holds. *)
LEMMA InitIInv == Init => IInv
<1>. SUFFICES ASSUME Init PROVE IInv
  OBVIOUS
<1>1. BillingTypeOK
  BY InitTyped
<1>2. 1 .. opened = {1} /\ subs[1] = Opened(0, 0, Month) /\ 1 \in Subs /\ opened = 1
      /\ \A s \in Subs : s # 1 => subs[s].status = "none"
  BY BillingAssumption DEF Init, Subs, Unopened, Opened
<1>3. subs[1].used = None /\ subs[1].from = 0 /\ subs[1].cursor = 0
  BY <1>2 DEF Opened
<1>4. \A p \in Periods : p.sub = 1 /\ p.used = None
  BY <1>2, <1>3 DEF Init, Periods, PeriodOf
<1>5. OneActive /\ ActiveLeads /\ RolledIsPast
  BY <1>2, <1>3 DEF Init, OneActive, ActiveLeads, RolledIsPast, Active, NoChange
<1>6. Windows /\ BilledOnce
  BY <1>2, <1>3, <1>4, NoneTyped DEF Init, Windows, BilledOnce
<1>7. BatchIsNew /\ ClaimHolds
  BY DEF Init, BatchIsNew, ClaimHolds, NoTracker, NoReset
<1>. QED  BY <1>1, <1>5, <1>6, <1>7 DEF IInv

LEMMA NextIInv == IInv /\ BillingTypeOK' /\ [Next]_vars => IInv'
BY OneActiveKept, ActiveLeadsKept, BatchIsNewKept, WindowsKept, BilledOnceKept, ClaimHoldsKept, RolledIsPastKept
   DEF IInv

LEMMA Invariance == Spec => []IInv
<1>1. BillingTypeOK /\ IInv /\ BillingTypeOK' /\ [Next]_vars => IInv'
  BY NextIInv
<1>. QED  BY <1>1, InitIInv, BillingTypeCorrect, PTL DEF Spec

(* No hour is billed twice, whoever dies, is paused or changes plan, but for   *)
(* the hours passed before a subscription behind them became active.          *)
THEOREM HoursBilledOnce == Spec => []BilledOnce
<1>1. IInv => BilledOnce
  BY DEF IInv
<1>. QED  BY <1>1, Invariance, PTL

-----------------------------------------------------------------------------
(* The ledger is written first, with the window the update then bills. The    *)
(* update reaches another subscription than the one that was read only when   *)
(* one of the two was opened without a cursor: any other that is active by    *)
(* then was opened in the hour of the run, and has no hour to be billed.      *)
LedgerLeads ==
  /\ \A e \in ledger : e.sub \in 1 .. opened /\ e.from <= subs[e.sub].cursor
  /\ tracker.step = "inc" =>
       \E e \in ledger : e.sub = tracker.sub /\ e.upto = tracker.upto /\ e.from <= tracker.from

NewOrBare(s) == Bare(s) \/ subs[s].cursor = now

MayBeActive(s) == Active(s) \/ (change.step # "idle" /\ s = change.sub)

OthersNew ==
  /\ change.step # "idle" =>
       \A s \in Subs : Active(s) /\ s # change.sub => NewOrBare(s)
  /\ tracker.step # "idle" /\ ~NewOrBare(tracker.sub) =>
       \A s \in Subs : s # tracker.sub /\ MayBeActive(s) => NewOrBare(s)

Covered(s, b) ==
  \E e \in ledger : /\ e.from < b /\ b <= e.upto
                    /\ e.sub = s \/ Bare(e.sub) \/ Bare(s)

LInv == LedgerLeads /\ OthersNew /\ LedgerCovers

LEMMA LedgerKinds ==
  ASSUME BillingTypeOK, [Next]_vars
  PROVE  TrackerLedgers \/ (ledger' = ledger /\ (tracker' = tracker \/ tracker'.step # "inc"))
<1>1. \A s \in Subs : TrackerReads(s) => tracker'.step = "sum"
  BY DEF TrackerReads
<1>2. ASSUME TrackerSums PROVE tracker'.step # "inc"
  <2>1. CASE tracker' = NoTracker
    BY <2>1 DEF NoTracker
  <2>2. ASSUME NEW batch, NEW upto,
               tracker' = [tracker EXCEPT !.step = "ledger", !.batch = batch, !.upto = upto]
        PROVE  tracker'.step # "inc"
    BY <2>2 DEF BillingTypeOK
  <2>. QED  BY <1>2, <2>1, <2>2 DEF TrackerSums
<1>3. TrackerIncs \/ TrackerDies => tracker'.step = "idle"
  BY DEF TrackerIncs, TrackerDies, NoTracker
<1>4. TrackerLedgers \/ ledger' = ledger
  BY DEF Next, TrackerNext, ResetNext, ChangeNext, Tick, Rollup, TrackerReads, TrackerSums,
     TrackerIncs, TrackerDies, ResetFinds, ResetClaims, ResetRecords, ResetRenews, ResetCloses, ResetOpens,
     ClaimAges, Schedule, ChangeReads, ChangeCloses, ChangeOpens, ChangeReopens, Pause,
     AdminOpens, ResetDies, ChangeDies, vars
<1>5. \/ tracker' = tracker \/ TrackerSums \/ TrackerLedgers \/ TrackerIncs \/ TrackerDies
      \/ \E s \in Subs : TrackerReads(s)
  BY DEF Next, TrackerNext, ResetNext, ChangeNext, Tick, Rollup,
     ResetFinds, ResetClaims, ResetRecords, ResetRenews, ResetCloses, ResetOpens,
     ClaimAges, Schedule, ChangeReads, ChangeCloses, ChangeOpens, ChangeReopens, Pause,
     AdminOpens, ResetDies, ChangeDies, vars
<1>. QED  BY <1>1, <1>2, <1>3, <1>4, <1>5

LEMMA LedgerLeadsKept ==
  ASSUME BillingTypeOK, BillingTypeOK', OneActive, BatchIsNew, LedgerLeads, [Next]_vars
  PROVE  LedgerLeads'
<1>1. \A e \in ledger : /\ e.sub \in 1 .. opened /\ e.sub \in 1 .. opened'
                        /\ e.from \in Nat /\ e.from <= subs'[e.sub].cursor
  <2>1. \A e \in ledger : e.sub \in 1 .. opened /\ e.from \in Nat /\ e.from <= subs[e.sub].cursor
    BY DEF BillingTypeOK, LedgerLeads
  <2>. QED  BY <2>1, CursorsGrow
<1>2. CASE TrackerLedgers
  <2>1. PICK t \in 1 .. opened, from \in Nat, upto \in Nat :
          /\ t = tracker.sub /\ from = tracker.from /\ upto = tracker.upto /\ from = subs[t].cursor
    BY <1>2 DEF TrackerLedgers, BatchIsNew, BillingTypeOK
  <2>2. /\ UNCHANGED <<subs, opened>>
        /\ tracker'.sub = t /\ tracker'.from = from /\ tracker'.upto = upto
    BY <1>2, <2>1 DEF TrackerLedgers, BillingTypeOK
  <2>3. CASE ledger' = ledger /\ \E e \in ledger : e.sub = t /\ e.upto = upto
    <3>1. \A e \in ledger : e.sub = t => e.from <= from
      BY <1>1, <2>1, <2>2
    <3>. QED  BY <1>1, <2>2, <2>3, <3>1 DEF LedgerLeads
  <2>4. CASE ledger' = ledger \cup {[sub |-> t, from |-> from, upto |-> upto]}
    <3>1. t \in 1 .. opened' /\ from <= subs'[t].cursor /\ from <= from
      BY <2>1, <2>2
    <3>2. \A e \in ledger' : e.sub \in 1 .. opened' /\ e.from <= subs'[e.sub].cursor
      BY <1>1, <2>4, <3>1
    <3>3. \E e \in ledger' : e.sub = tracker'.sub /\ e.upto = tracker'.upto /\ e.from <= tracker'.from
      <4>1. [sub |-> t, from |-> from, upto |-> upto] \in ledger'
        BY <2>4
      <4>2. [sub |-> t, from |-> from, upto |-> upto].from <= tracker'.from
        BY <2>2, <3>1
      <4>. QED  BY <2>2, <4>1, <4>2
    <3>. QED  BY <3>2, <3>3 DEF LedgerLeads
  <2>. QED  BY <1>2, <2>1, <2>3, <2>4 DEF TrackerLedgers
<1>3. CASE ledger' = ledger /\ (tracker' = tracker \/ tracker'.step # "inc")
  BY <1>1, <1>3 DEF LedgerLeads
<1>. QED  BY <1>2, <1>3, LedgerKinds

LEMMA TrackerKinds ==
  ASSUME BillingTypeOK, [Next]_vars
  PROVE  \/ tracker'.step = "idle"
         \/ tracker.step # "idle" /\ tracker'.sub = tracker.sub
         \/ \E s \in Subs : TrackerReads(s)
         \/ tracker' = tracker
<1>1. ASSUME TrackerSums
      PROVE  tracker'.step = "idle" \/ (tracker.step # "idle" /\ tracker'.sub = tracker.sub)
  <2>1. CASE tracker' = NoTracker
    BY <2>1 DEF NoTracker
  <2>2. ASSUME NEW batch, NEW upto,
               tracker' = [tracker EXCEPT !.step = "ledger", !.batch = batch, !.upto = upto]
        PROVE  tracker'.sub = tracker.sub
    BY <2>2 DEF BillingTypeOK
  <2>. QED  BY <1>1, <2>1, <2>2 DEF TrackerSums
<1>2. TrackerLedgers => tracker.step # "idle" /\ tracker'.sub = tracker.sub
  BY DEF TrackerLedgers, BillingTypeOK
<1>3. TrackerIncs \/ TrackerDies => tracker'.step = "idle"
  BY DEF TrackerIncs, TrackerDies, NoTracker
<1>4. \/ tracker' = tracker \/ TrackerSums \/ TrackerLedgers \/ TrackerIncs \/ TrackerDies
      \/ \E s \in Subs : TrackerReads(s)
  BY DEF Next, TrackerNext, ResetNext, ChangeNext, Tick, Rollup,
     ResetFinds, ResetClaims, ResetRecords, ResetRenews, ResetCloses, ResetOpens,
     ClaimAges, Schedule, ChangeReads, ChangeCloses, ChangeOpens, ChangeReopens, Pause, AdminOpens, ResetDies,
     ChangeDies, vars
<1>. QED  BY <1>1, <1>2, <1>3, <1>4

(* The hour does not change while a run or a request is under way, and a      *)
(* subscription stays new or without a cursor as long.                        *)
LEMMA NewOrBareKept ==
  ASSUME BillingTypeOK, BillingTypeOK', OneActive, BatchIsNew, [Next]_vars, ~NoRun,
         NEW s \in 1 .. opened, NewOrBare(s)
  PROVE  NewOrBare(s)'
<1>0. s \in Subs /\ subs'[s].from = subs[s].from
  BY CursorsGrow
<1>1. now' = now
  BY DEF Next, TrackerNext, ResetNext, ChangeNext, Tick, Rollup, TrackerReads, TrackerSums, TrackerLedgers,
     TrackerIncs, TrackerDies, ResetFinds, ResetClaims, ResetRecords, ResetRenews, ResetCloses, ResetOpens,
     ClaimAges, Schedule, ChangeReads, ChangeCloses, ChangeOpens, ChangeReopens, Pause, AdminOpens, ResetDies,
     ChangeDies, vars
<1>2. CASE Bare(s)
  BY <1>0, <1>2 DEF Bare, NewOrBare
<1>3. CASE subs[s].cursor = now
  <2>1. CASE SameHours \/ ResetRenews
    BY <1>0, <1>1, <1>3, <2>1, RenewsEffect DEF SameHours, NewOrBare
  <2>2. CASE Opens
    <3>1. s # opened'
      BY <2>2, OpensEffect
    <3>. QED  BY <1>0, <1>1, <1>3, <2>2, <3>1, OpensEffect DEF NewOrBare
  <2>3. CASE TrackerIncs
    <3>1. tracker.upto < now /\ tracker.upto \in Nat /\ now \in Nat
      BY <2>3, UsedTyped DEF TrackerIncs, BatchIsNew
    <3>2. ~Billable(s)
      BY <1>3, <3>1 DEF Billable
    <3>3. subs'[s] = subs[s]
      BY <1>0, <2>3, <3>2, IncsEffect DEF Incs
    <3>. QED  BY <1>1, <1>3, <3>3 DEF NewOrBare
  <2>. QED  BY <2>1, <2>2, <2>3, StepKinds
<1>. QED  BY <1>2, <1>3 DEF NewOrBare

LEMMA OthersNewKept ==
  ASSUME BillingTypeOK, BillingTypeOK', OneActive, BatchIsNew, OthersNew, [Next]_vars
  PROVE  OthersNew'
<1>0. 1 .. opened \subseteq Subs
  BY UsedTyped
<1>1. ASSUME NEW s \in Subs, subs'[s].status = "active"
      PROVE  \/ s \in 1 .. opened /\ MayBeActive(s)
             \/ ~Active(s) /\ NewOrBare(s)' /\ Opens
  <2>1. CASE Opens
    <3>1. s = opened' /\ s # 1 /\ ~Active(s)
      BY <1>1, <2>1, OpensEffect, UsedTyped DEF SomeActive, Active
    <3>. QED  BY <2>1, <3>1, OpensEffect DEF NewOrBare, Bare
  <2>2. CASE ChangeReopens
    <3>1. Active(s) \/ s = change.sub
      BY <1>1, <2>2, ReopenEffect DEF Active
    <3>. QED  BY <2>2, <3>1, ReopenEffect DEF MayBeActive, OneActive
  <2>3. CASE Active(s)
    BY <2>3 DEF MayBeActive, OneActive
  <2>. QED  BY <1>1, <2>1, <2>2, <2>3, ActiveKinds
<1>2. CASE \E s \in Subs : ChangeReads(s)
  <2>0. PICK r \in Subs : ChangeReads(r)
    BY <1>2
  <2>1. /\ UNCHANGED <<now, subs, tracker>> /\ change'.sub = r /\ Active(r) /\ change.step = "idle"
    BY <2>0 DEF ChangeReads
  <2>2. \A s \in Subs : Active(s) => s = r
    BY <2>1 DEF OneActive
  <2>. QED  BY <2>1, <2>2 DEF OthersNew, NewOrBare, Bare, Active, MayBeActive
<1>3. CASE ~\E s \in Subs : ChangeReads(s)
  <2>1. change'.step # "idle" => change.step # "idle" /\ change'.sub = change.sub
    BY <1>3, ChangeKinds
  <2>2. ASSUME change'.step # "idle", NEW s \in Subs, subs'[s].status = "active", s # change'.sub
        PROVE  NewOrBare(s)'
    <3>1. CASE s \in 1 .. opened /\ MayBeActive(s)
      <4>1. NewOrBare(s) /\ ~NoRun
        BY <2>1, <2>2, <3>1 DEF OthersNew, MayBeActive, NoRun
      <4>. QED  BY <3>1, <4>1, NewOrBareKept
    <3>. QED  BY <1>1, <2>2, <3>1
  <2>3. ASSUME tracker'.step # "idle", NEW u \in Subs, u = tracker'.sub, ~NewOrBare(u)', NEW s \in Subs, s # u,
               subs'[s].status = "active" \/ (change'.step # "idle" /\ s = change'.sub)
        PROVE  NewOrBare(s)'
    <3>1. (s \in 1 .. opened /\ MayBeActive(s)) \/ NewOrBare(s)'
      BY <1>1, <2>1, <2>3 DEF MayBeActive, OneActive
    <3>2. CASE s \in 1 .. opened /\ MayBeActive(s) /\ tracker.step # "idle" /\ tracker'.sub = tracker.sub
      <4>1. u \in 1 .. opened /\ u = tracker.sub /\ ~NoRun
        BY <2>3, <3>2 DEF BatchIsNew, NoRun
      <4>2. ~NewOrBare(u)
        BY <2>3, <4>1, NewOrBareKept
      <4>3. NewOrBare(s)
        BY <2>3, <3>2, <4>1, <4>2 DEF OthersNew
      <4>. QED  BY <3>2, <4>1, <4>3, NewOrBareKept
    <3>3. ASSUME NEW t \in Subs, TrackerReads(t), s \in 1 .. opened, MayBeActive(s) PROVE NewOrBare(s)'
      <4>1. /\ UNCHANGED <<now, subs, change>> /\ tracker'.sub = t /\ Active(t)
        BY <3>3 DEF TrackerReads
      <4>2. ~NewOrBare(t) /\ s # t
        BY <2>3, <4>1 DEF NewOrBare, Bare
      <4>3. change.step # "idle" /\ s = change.sub
        BY <3>3, <4>1, <4>2 DEF MayBeActive, OneActive
      <4>4. NewOrBare(s)
        BY <2>3, <4>1, <4>2, <4>3 DEF OthersNew
      <4>. QED  BY <4>1, <4>4 DEF NewOrBare, Bare
    <3>4. tracker' = tracker => tracker.step # "idle" /\ tracker'.sub = tracker.sub
      BY <2>3
    <3>. QED  BY <2>3, <3>1, <3>2, <3>3, <3>4, TrackerKinds
  <2>4. tracker'.sub \in Subs
    BY DEF BillingTypeOK
  <2>. QED  BY <2>2, <2>3, <2>4 DEF OthersNew, MayBeActive, Active, NewOrBare, Bare
<1>. QED  BY <1>2, <1>3

(* An hour that is billed in the next state is covered in this one. *)
LEMMA LedgerCoversKept ==
  ASSUME BillingTypeOK, BillingTypeOK', OneActive, Windows, BatchIsNew, ClaimHolds,
         LedgerLeads, OthersNew, LedgerCovers, [Next]_vars
  PROVE  LedgerCovers'
<1>1. ledger \subseteq ledger'
  BY LedgerKinds DEF TrackerLedgers
<1>2. ASSUME NEW p \in Periods', NEW b \in Buckets, p.used[b] > 0 PROVE p.sub \in 1 .. opened /\ Covered(p.sub, b)
  <2>0. b \in Nat /\ p.used[b] \in Nat
    BY UsedTyped, PeriodsTypedNext
  <2>1. ASSUME NEW q \in Periods, q.used[b] > 0 PROVE q.sub \in 1 .. opened /\ Covered(q.sub, b)
    BY <2>1 DEF LedgerCovers, Covered, Windows
  <2>2. ASSUME NEW q \in Periods, q.sub = p.sub, p.used[b] <= q.used[b]
        PROVE  p.sub \in 1 .. opened /\ Covered(p.sub, b)
    <3>1. q.used[b] \in Nat
      BY PeriodsTyped
    <3>2. q.used[b] > 0
      BY ONLY <1>2, <2>0, <2>2, <3>1
    <3>. QED  BY <2>1, <2>2, <3>2
  <2>3. ASSUME TrackerIncs, p.sub \in 1 .. opened, Incs(p.sub), p.used = Plus(subs[p.sub].used, tracker.batch)
        PROVE  Covered(p.sub, b)
    <3>0. p.sub \in Subs /\ subs[p.sub].used \in Hours /\ tracker.batch \in SUBSET Buckets
      BY <2>3, UsedTyped
    <3>1. CASE b \in tracker.batch
      <4>1. PICK e \in ledger : e.sub = tracker.sub /\ e.upto = tracker.upto /\ e.from <= tracker.from
        BY <2>3 DEF TrackerIncs, LedgerLeads
      <4>2. tracker.from < b /\ b <= tracker.upto /\ tracker.upto < now /\ tracker.from = subs[tracker.sub].cursor
        BY <2>3, <3>1 DEF TrackerIncs, BatchIsNew
      <4>3. e.from \in Nat /\ tracker.from \in Nat /\ tracker.upto \in Nat /\ now \in Nat
        BY UsedTyped DEF BillingTypeOK
      <4>4. e.from < b
        BY ONLY <2>0, <4>1, <4>2, <4>3
      <4>5. subs[tracker.sub].cursor # now
        BY ONLY <2>0, <4>2, <4>3
      <4>6. subs[p.sub].cursor # now
        BY <2>3, <3>0, <4>2, <4>3, UsedTyped DEF Incs, Billable
      <4>7. p.sub = tracker.sub \/ Bare(tracker.sub) \/ Bare(p.sub)
        BY <2>3, <3>0, <4>5, <4>6 DEF OthersNew, NewOrBare, MayBeActive, Incs, Billable, TrackerIncs
      <4>. QED  BY <4>1, <4>2, <4>4, <4>7 DEF Covered
    <3>2. CASE b \notin tracker.batch
      <4>1. PeriodOf(p.sub).used[b] > 0
        BY <1>2, <2>3, <3>0, <3>2, PlusCounts, PeriodOfTyped
      <4>. QED  BY <2>1, <2>3, <4>1, PeriodOfTyped
    <3>. QED  BY <3>1, <3>2
  <2>. QED  BY <1>2, <2>0, <2>2, <2>3, PeriodKinds
<1>3. \A s \in 1 .. opened : Bare(s) => Bare(s)'
  BY CursorsGrow DEF Bare
<1>4. \A e \in ledger : e.sub \in 1 .. opened
  BY DEF LedgerLeads
<1>. QED  BY <1>1, <1>2, <1>3, <1>4 DEF LedgerCovers, Covered

(* Every hour billed is in a ledger entry, of its own subscription unless one *)
(* of the two was opened without a cursor.                                    *)
THEOREM LedgerExplains == Spec => []LedgerCovers
<1>1. Init => LInv
  <2>. SUFFICES ASSUME Init PROVE LInv
    OBVIOUS
  <2>1. 1 .. opened = {1} /\ subs[1].used = None /\ snapshots = {} /\ ledger = {}
    BY BillingAssumption DEF Init, Opened, Subs
  <2>2. \A p \in Periods : p.used = None
    BY <2>1 DEF Periods, PeriodOf
  <2>3. LedgerCovers
    BY <2>2, NoneTyped DEF LedgerCovers
  <2>4. LedgerLeads /\ OthersNew
    BY <2>1 DEF Init, LedgerLeads, OthersNew, NoTracker, NoChange
  <2>. QED  BY <2>3, <2>4 DEF LInv
<1>2. IInv /\ BillingTypeOK' /\ LInv /\ [Next]_vars => LInv'
  BY LedgerLeadsKept, OthersNewKept, LedgerCoversKept DEF IInv, LInv
<1>3. LInv => LedgerCovers
  BY DEF LInv
<1>. QED  BY <1>1, <1>2, <1>3, Invariance, BillingTypeCorrect, PTL DEF Spec

-----------------------------------------------------------------------------
(* Why no hour is dropped. A batch misses no hour its cursor will pass; once   *)
(* a period has a snapshot, or a reset holds its document, the tracker cannot  *)
(* reach it, so that what a renewal clears is what the snapshot has.           *)
BatchIsWhole ==
  tracker.step \in {"ledger", "inc"} =>
    /\ tracker.upto \in tracker.batch /\ tracker.batch \subseteq rolled
    /\ \A b \in rolled \ late : tracker.from < b /\ b <= tracker.upto => b \in tracker.batch

PeriodsAdvance ==
  /\ \A s \in 1 .. opened : subs[s].start < subs[s].end
  /\ \A p \in snapshots : p.start <= subs[p.sub].start

Locked(s) == subs[s].status # "active" \/ subs[s].resetting # "no"

SnapshotStands ==
  \A p \in snapshots : p.sub \notin revived /\ p.start = subs[p.sub].start =>
    p.used = subs[p.sub].used /\ Locked(p.sub)

ClaimStands ==
  reset.step \in {"record", "finish"} =>
    /\ reset.doc.start = subs[reset.sub].start /\ reset.doc.end = subs[reset.sub].end
    /\ reset.sub \notin revived =>
         reset.doc.used = subs[reset.sub].used /\ Locked(reset.sub)
    /\ reset.step = "finish" =>
         \E p \in snapshots : p.sub = reset.sub /\ p.start = reset.doc.start

(* The hour is in the document or in a snapshot of the subscription. *)
OnRecord(s, b) ==
  subs[s].used[b] > 0 \/ \E p \in snapshots : p.sub = s /\ p.used[b] > 0

PassedIsOnRecord ==
  \A s \in 1 .. opened, b \in rolled \ (late \cup again) :
    s \notin revived /\ subs[s].from < b /\ b <= subs[s].cursor => OnRecord(s, b)

KInv == BatchIsWhole /\ PeriodsAdvance /\ SnapshotStands /\ ClaimStands /\ PassedIsOnRecord

(* The histories grow, and hours are rolled up by the job alone. *)
LEMMA RollupKinds ==
  ASSUME [Next]_vars
  PROVE  (\E b \in Buckets : Rollup(b)) \/ UNCHANGED <<rolled, late>>
BY DEF Next, TrackerNext, ResetNext, ChangeNext, Tick, TrackerReads, TrackerSums, TrackerLedgers,
   TrackerIncs, TrackerDies, ResetFinds, ResetClaims, ResetRecords, ResetRenews, ResetCloses, ResetOpens,
   ClaimAges, Schedule, ChangeReads, ChangeCloses, ChangeOpens, ChangeReopens, Pause,
     AdminOpens, ResetDies, ChangeDies, vars

LEMMA RevivedKinds ==
  ASSUME [Next]_vars
  PROVE  ChangeReopens \/ revived' = revived
BY DEF Next, TrackerNext, ResetNext, ChangeNext, Tick, Rollup, TrackerReads, TrackerSums, TrackerLedgers,
   TrackerIncs, TrackerDies, ResetFinds, ResetClaims, ResetRecords, ResetRenews, ResetCloses, ResetOpens,
   ClaimAges, Schedule, ChangeReads, ChangeCloses, ChangeOpens, Pause, AdminOpens,
   ResetDies, ChangeDies, vars

(* An hour rolled up behind a cursor or under a batch counts as late.          *)
LEMMA RollupIsLate ==
  ASSUME BillingTypeOK, NEW b \in Buckets, Rollup(b), b \notin late'
  PROVE  /\ \A s \in 1 .. opened : ~(b <= subs[s].cursor)
         /\ \A c \in tracker.batch : ~(b < c)
         /\ late' = late
BY DEF Rollup

LEMMA RollupGrows ==
  ASSUME NEW b \in Buckets, Rollup(b)
  PROVE  /\ rolled' = rolled \cup {b} /\ late \subseteq late' /\ b \notin rolled
         /\ UNCHANGED <<now, subs, opened, snapshots, tracker, reset, revived>>
BY DEF Rollup

LEMMA BatchIsWholeKept ==
  ASSUME BillingTypeOK, BatchIsWhole, [Next]_vars
  PROVE  BatchIsWhole'
<1>1. CASE tracker' = tracker /\ UNCHANGED <<rolled, late>>
  BY <1>1 DEF BatchIsWhole
<1>2. ASSUME NEW b \in Buckets, Rollup(b) PROVE BatchIsWhole'
  <2>. SUFFICES ASSUME tracker.step \in {"ledger", "inc"}, NEW c \in rolled' \ late',
                       tracker.from < c, c <= tracker.upto
                PROVE  c \in tracker.batch
    BY <1>2, RollupGrows DEF BatchIsWhole
  <2>1. CASE c \in rolled
    BY <1>2, <2>1, RollupGrows DEF BatchIsWhole
  <2>2. CASE c = b
    <3>1. tracker.upto \in tracker.batch /\ tracker.upto \in rolled
      BY DEF BatchIsWhole
    <3>2. ~(b < tracker.upto) /\ b # tracker.upto
      BY <1>2, <2>2, <3>1, RollupIsLate, RollupGrows
    <3>3. b \in Nat /\ tracker.upto \in Nat
      BY UsedTyped
    <3>. QED  BY ONLY <2>2, <3>2, <3>3, c <= tracker.upto
  <2>. QED  BY <1>2, <2>1, <2>2, RollupGrows
<1>3. CASE TrackerSums
  <2>1. CASE tracker' = NoTracker
    BY <2>1 DEF NoTracker, BatchIsWhole
  <2>2. ASSUME NEW upto \in {b \in rolled : b > tracker.from},
               tracker' = [tracker EXCEPT !.step = "ledger", !.batch = {b \in rolled : b > tracker.from},
                                          !.upto = upto]
        PROVE  BatchIsWhole'
    <3>1. /\ tracker'.from = tracker.from /\ tracker'.upto = upto
          /\ tracker'.batch = {b \in rolled : b > tracker.from}
      BY <2>2 DEF BillingTypeOK
    <3>2. UNCHANGED <<rolled, late>>
      BY <1>3 DEF TrackerSums
    <3>3. \A b \in rolled : tracker.from < b => b > tracker.from
      BY DEF BillingTypeOK, Buckets
    <3>. QED  BY <2>2, <3>1, <3>2, <3>3 DEF BatchIsWhole
  <2>. QED  BY <1>3, <2>1, <2>2 DEF TrackerSums
<1>4. CASE TrackerLedgers
  BY <1>4 DEF TrackerLedgers, BatchIsWhole, BillingTypeOK
<1>5. ASSUME NEW s \in Subs, TrackerReads(s) PROVE BatchIsWhole'
  BY <1>5 DEF TrackerReads, BatchIsWhole
<1>6. CASE TrackerIncs \/ TrackerDies
  BY <1>6 DEF TrackerIncs, TrackerDies, NoTracker, BatchIsWhole
<1>7. \/ tracker' = tracker \/ TrackerSums \/ TrackerLedgers \/ TrackerIncs \/ TrackerDies
      \/ \E s \in Subs : TrackerReads(s)
  BY DEF Next, TrackerNext, ResetNext, ChangeNext, Tick, Rollup,
     ResetFinds, ResetClaims, ResetRecords, ResetRenews, ResetCloses, ResetOpens,
     ClaimAges, Schedule, ChangeReads, ChangeCloses, ChangeOpens, ChangeReopens, Pause,
     AdminOpens, ResetDies, ChangeDies, vars
<1>. QED  BY <1>1, <1>2, <1>3, <1>4, <1>5, <1>6, <1>7, RollupKinds

(* The renewal opens the period where the claimed one ended. *)
LEMMA RenewsPeriod ==
  ASSUME BillingTypeOK, ResetRenews
  PROVE  /\ subs'[reset.sub].start = reset.doc.end
         /\ subs'[reset.sub].end = reset.doc.end + Month
         /\ reset.doc.end \in Nat /\ reset.doc.end < reset.doc.end + Month
         /\ reset.step = "finish" /\ revived' = revived
BY BillingAssumption DEF ResetRenews, BillingTypeOK, Sub

LEMMA PeriodsAdvanceKept ==
  ASSUME BillingTypeOK, BillingTypeOK', OneActive, Windows, BatchIsNew, ClaimHolds,
         PeriodsAdvance, ClaimStands, [Next]_vars
  PROVE  PeriodsAdvance'
<1>0. \A p \in snapshots : p.sub \in 1 .. opened /\ p.sub \in Subs /\ p.start \in Nat
  BY UsedTyped DEF Windows, Periods
<1>1. CASE ResetRecords
  <2>1. UNCHANGED <<opened, subs>> /\ \A p \in snapshots' \ snapshots : p.start = subs[p.sub].start /\ p.sub \in Subs
    BY <1>1, RecordsEffect, UsedTyped
  <2>2. \A s \in Subs : subs[s].start <= subs[s].start
    BY UsedTyped
  <2>. QED  BY <2>1, <2>2 DEF PeriodsAdvance
<1>2. CASE SameHours /\ snapshots' = snapshots
  <2>1. opened' = opened /\ \A s \in 1 .. opened : subs'[s].start = subs[s].start /\ subs'[s].end = subs[s].end
    BY <1>2, UsedTyped DEF SameHours
  <2>. QED  BY <1>0, <1>2, <2>1 DEF PeriodsAdvance
<1>3. CASE TrackerIncs
  <2>1. /\ opened' = opened /\ snapshots' = snapshots
        /\ \A s \in 1 .. opened : subs'[s].start = subs[s].start /\ subs'[s].end = subs[s].end
    BY <1>3, IncsEffect, UsedTyped DEF Incs
  <2>. QED  BY <1>0, <2>1 DEF PeriodsAdvance
<1>4. CASE ResetRenews
  <2>0. PICK r \in 1 .. opened : r = reset.sub /\ r \in Subs
    BY <1>4, UsedTyped DEF ResetRenews, ClaimHolds
  <2>1. /\ opened' = opened /\ snapshots' = snapshots
        /\ \A s \in Subs : s # r => subs'[s] = subs[s]
        /\ subs'[r].start = reset.doc.end /\ subs'[r].end = reset.doc.end + Month
        /\ reset.doc.end \in Nat /\ reset.doc.end < reset.doc.end + Month
    BY <1>4, <2>0, RenewsEffect, RenewsPeriod
  <2>2. reset.doc.end = subs[r].end /\ subs[r].start < subs[r].end /\ subs[r].start \in Nat
    BY <1>4, <2>0, RenewsPeriod, UsedTyped DEF ClaimStands, PeriodsAdvance
  <2>3. \A p \in snapshots : p.sub = r => p.start <= subs'[r].start
    <3>1. \A p \in snapshots : p.sub = r => p.start <= subs[r].start /\ p.start \in Nat
      BY <1>0 DEF PeriodsAdvance
    <3>. QED  BY ONLY <2>1, <2>2, <3>1
  <2>4. \A s \in 1 .. opened : subs'[s].start < subs'[s].end
    BY <2>1, UsedTyped DEF PeriodsAdvance
  <2>. QED  BY <1>0, <2>1, <2>3, <2>4 DEF PeriodsAdvance
<1>5. CASE Opens
  <2>1. /\ snapshots' = snapshots /\ opened' = opened + 1
        /\ \A s \in Subs : s # opened' => subs'[s] = subs[s]
        /\ subs'[opened'].start < subs'[opened'].end
    BY <1>5, OpensEffect DEF Opens
  <2>2. \A s \in 1 .. opened : s \in Subs /\ s # opened'
    BY <2>1, UsedTyped
  <2>3. \A s \in 1 .. opened' : s \in 1 .. opened \/ s = opened'
    BY <2>1, UsedTyped
  <2>. QED  BY <1>0, <2>1, <2>2, <2>3 DEF PeriodsAdvance
<1>6. (ResetRenews \/ Opens \/ TrackerIncs) => snapshots' = snapshots
  BY DEF ResetRenews, Opens, TrackerIncs
<1>. QED  BY <1>1, <1>2, <1>3, <1>4, <1>5, <1>6, StepKinds, SnapshotKinds

(* The update of the tracker spares what is locked, and only a renewal or the  *)
(* return of a failed change unlocks.                                         *)
LEMMA IncsSparesLocked ==
  ASSUME BillingTypeOK, TrackerIncs, NEW s \in Subs, Locked(s)
  PROVE  subs'[s] = subs[s]
<1>1. ASSUME NEW t \in Subs, Billable(t),
             subs' = [subs EXCEPT ![t].used = Plus(@, tracker.batch), ![t].cursor = tracker.upto]
      PROVE  subs'[s] = subs[s]
  <2>1. s # t
    BY <1>1 DEF Billable, Active, Locked
  <2>. QED  BY <1>1, <2>1 DEF BillingTypeOK
<1>. QED  BY <1>1 DEF TrackerIncs

(* The compensation of a failed change marks the subscription as revived if    *)
(* its period had been claimed or closed.                                     *)
LEMMA ReopenKinds ==
  ASSUME BillingTypeOK, ChangeReopens
  PROVE  /\ revived \subseteq revived' /\ UNCHANGED <<snapshots, reset>>
         /\ \A s \in Subs : s # change.sub => subs'[s] = subs[s]
         /\ \/ UNCHANGED subs
            \/ change.sub \in revived'
            \/ /\ ~(reset.step \in {"record", "finish"} /\ reset.sub = change.sub)
               /\ \A p \in snapshots : p.sub = change.sub => p.start # subs[p.sub].start
BY DEF ChangeReopens, BillingTypeOK

LEMMA LocksKept ==
  ASSUME BillingTypeOK, [Next]_vars, ~ResetRenews, ~ChangeReopens,
         NEW s \in 1 .. opened, Locked(s)
  PROVE  subs'[s].used = subs[s].used /\ Locked(s)'
<1>0. s \in Subs
  BY UsedTyped
<1>1. CASE subs'[s] = subs[s]
  BY <1>1 DEF Locked
<1>2. CASE TrackerIncs
  BY <1>0, <1>1, <1>2, IncsSparesLocked
<1>3. CASE ResetClaims
  BY <1>0, <1>3 DEF ResetClaims, Locked, BillingTypeOK, Sub
<1>4. CASE ResetCloses
  BY <1>0, <1>4 DEF ResetCloses, Locked, BillingTypeOK, Sub
<1>5. CASE Opens
  <2>1. s # opened'
    BY <1>5, OpensEffect
  <2>. QED  BY <1>0, <1>1, <1>5, <2>1, OpensEffect
<1>6. ASSUME NEW t \in Subs, ClaimAges(t) PROVE subs'[s].used = subs[s].used /\ Locked(s)'
  BY <1>0, <1>6 DEF ClaimAges, Locked, BillingTypeOK, Sub
<1>7. ASSUME NEW t \in Subs, NEW x \in AtEnds, Schedule(t, x)
      PROVE  subs'[s].used = subs[s].used /\ Locked(s)'
  BY <1>0, <1>7 DEF Schedule, Locked, BillingTypeOK, Sub
<1>8. CASE ChangeCloses
  BY <1>0, <1>8 DEF ChangeCloses, Locked, BillingTypeOK, Sub
<1>9. ResetOpens \/ ChangeOpens \/ AdminOpens => Opens \/ subs' = subs
  BY ResetOpensKind, ChangeOpensKind, AdminOpensKind
<1>10. \/ subs' = subs \/ TrackerIncs \/ ResetClaims \/ ResetCloses \/ ResetOpens \/ ChangeOpens
       \/ \E t \in Subs : ClaimAges(t) \/ Pause(t) \/ \E x \in AtEnds : Schedule(t, x)
       \/ ChangeCloses \/ AdminOpens
  BY DEF Next, TrackerNext, ResetNext, ChangeNext, Tick, Rollup, TrackerReads, TrackerSums, TrackerLedgers,
     TrackerDies, ResetFinds, ResetRecords, ChangeReads, ResetDies, ChangeDies, vars
<1>11. ASSUME NEW t \in Subs, Pause(t) PROVE subs'[s].used = subs[s].used /\ Locked(s)'
  BY <1>0, <1>11 DEF Pause, Locked, BillingTypeOK, Sub
<1>. QED  BY <1>1, <1>2, <1>3, <1>4, <1>5, <1>6, <1>7, <1>8, <1>9, <1>10, <1>11

(* Periods of a subscription move with its renewal alone. *)
LEMMA StartsKept ==
  ASSUME BillingTypeOK, OneActive, [Next]_vars, ~ResetRenews, NEW s \in 1 .. opened
  PROVE  subs'[s].start = subs[s].start /\ subs'[s].end = subs[s].end
<1>0. s \in Subs
  BY UsedTyped
<1>1. CASE SameHours
  BY <1>0, <1>1 DEF SameHours
<1>2. CASE TrackerIncs
  BY <1>0, <1>2, IncsEffect DEF Incs
<1>3. CASE Opens
  <2>1. s # opened'
    BY <1>3, OpensEffect
  <2>. QED  BY <1>0, <1>3, <2>1, OpensEffect
<1>. QED  BY <1>1, <1>2, <1>3, StepKinds

LEMMA SnapshotStandsKept ==
  ASSUME BillingTypeOK, OneActive, Windows, BatchIsNew, ClaimHolds,
         PeriodsAdvance, ClaimStands, SnapshotStands, [Next]_vars
  PROVE  SnapshotStands'
<1>0. \A p \in snapshots : p.sub \in 1 .. opened /\ p.sub \in Subs /\ p.start \in Nat
  BY UsedTyped DEF Windows, Periods
<1>1. CASE ResetRecords
  <2>. DEFINE new == [sub |-> reset.sub, start |-> reset.doc.start, end |-> reset.doc.end, used |-> reset.doc.used]
  <2>1. UNCHANGED <<subs, revived>> /\ snapshots' \subseteq snapshots \cup {new}
    BY <1>1 DEF ResetRecords
  <2>2. reset.sub \notin revived => reset.doc.used = subs[reset.sub].used /\ Locked(reset.sub)
    BY <1>1 DEF ResetRecords, ClaimStands
  <2>. QED  BY <2>1, <2>2 DEF SnapshotStands, Locked
<1>2. CASE ResetRenews
  <2>1. /\ snapshots' = snapshots /\ revived' = revived
        /\ \A s \in Subs : s # reset.sub => subs'[s] = subs[s]
        /\ subs'[reset.sub].start = reset.doc.end /\ reset.doc.end \in Nat
    BY <1>2, RenewsEffect, RenewsPeriod
  <2>2. PICK r \in 1 .. opened : r = reset.sub
    BY <1>2 DEF ResetRenews, ClaimHolds
  <2>3. subs[r].start < reset.doc.end /\ subs[r].start \in Nat
    BY <1>2, <2>2, RenewsPeriod, UsedTyped DEF ClaimStands, PeriodsAdvance
  <2>4. ASSUME NEW p \in snapshots, p.sub = reset.sub PROVE p.start # subs'[p.sub].start
    <3>1. p.start <= subs[r].start /\ p.start \in Nat
      BY <1>0, <2>2, <2>4 DEF PeriodsAdvance
    <3>. QED  BY ONLY <2>1, <2>3, <2>4, <3>1
  <2>. QED  BY <1>0, <2>1, <2>4 DEF SnapshotStands, Locked
<1>3. CASE ChangeReopens
  <2>1. ASSUME NEW p \in snapshots', p.sub \notin revived', p.start = subs'[p.sub].start
        PROVE  p.used = subs'[p.sub].used /\ Locked(p.sub)'
    <3>1. p \in snapshots /\ p.sub \in 1 .. opened /\ p.sub \notin revived
      BY <1>0, <1>3, <2>1, ReopenKinds
    <3>2. subs'[p.sub].start = subs[p.sub].start
      <4>1. ~ResetRenews
        BY <1>3, ReopenKinds DEF ChangeReopens, ResetRenews, NoReset
      <4>. QED  BY <3>1, <4>1, StartsKept
    <3>3. subs'[p.sub] = subs[p.sub]
      BY <1>0, <1>3, <2>1, <3>1, <3>2, ReopenKinds
    <3>. QED  BY <2>1, <3>1, <3>3 DEF SnapshotStands, Locked
  <2>. QED  BY <2>1 DEF SnapshotStands
<1>4. CASE ~ResetRenews /\ ~ChangeReopens /\ snapshots' = snapshots
  <2>1. ASSUME NEW p \in snapshots, p.sub \notin revived, p.start = subs'[p.sub].start
        PROVE  p.used = subs'[p.sub].used /\ Locked(p.sub)'
    <3>1. p.start = subs[p.sub].start
      BY <1>0, <1>4, <2>1, StartsKept
    <3>2. p.used = subs[p.sub].used /\ Locked(p.sub)
      BY <2>1, <3>1 DEF SnapshotStands
    <3>. QED  BY <1>0, <1>4, <3>2, LocksKept
  <2>. QED  BY <1>4, <2>1, RevivedKinds DEF SnapshotStands
<1>. QED  BY <1>1, <1>2, <1>3, <1>4, SnapshotKinds

(* The reset is the only one to write what its claim relies on. *)
LEMMA ResetKinds ==
  ASSUME [Next]_vars
  PROVE  \/ reset' = reset /\ ~ResetRenews /\ ~ResetRecords
         \/ ResetClaims \/ ResetRecords
         \/ reset'.step \notin {"record", "finish"}
<1>1. \A s \in Subs : ResetFinds(s) => reset'.step = "claim"
  BY DEF ResetFinds, NoReset
<1>2. ResetRenews \/ ResetOpens \/ ResetDies => reset'.step = "idle"
  BY DEF ResetRenews, ResetOpens, ResetDies, NoReset
<1>3. ResetCloses => reset'.step \notin {"record", "finish"}
  BY DEF ResetCloses
<1>4. \/ reset' = reset \/ ResetClaims \/ ResetRecords \/ ResetRenews \/ ResetCloses \/ ResetOpens \/ ResetDies
      \/ \E s \in Subs : ResetFinds(s)
  BY DEF Next, TrackerNext, ResetNext, ChangeNext, Tick, Rollup, TrackerReads, TrackerSums, TrackerLedgers,
     TrackerIncs, TrackerDies, ClaimAges, Schedule, ChangeReads, ChangeCloses, ChangeOpens, ChangeReopens,
     Pause, AdminOpens, ChangeDies, vars
<1>. QED  BY <1>1, <1>2, <1>3, <1>4

LEMMA ClaimStandsKept ==
  ASSUME BillingTypeOK, BillingTypeOK', OneActive, Windows, BatchIsNew, ClaimHolds, ClaimStands, [Next]_vars
  PROVE  ClaimStands'
<1>1. CASE ResetClaims
  <2>1. CASE reset' = NoReset
    BY <2>1 DEF NoReset, ClaimStands
  <2>2. CASE reset' # NoReset
    <3>1. /\ subs' = [subs EXCEPT ![reset.sub].resetting = "claimed"]
          /\ reset' = [step |-> "record", sub |-> reset.sub, doc |-> subs'[reset.sub]]
      BY <1>1, <2>2 DEF ResetClaims
    <3>2. subs'[reset.sub].resetting = "claimed" /\ reset'.sub = reset.sub
          /\ reset'.doc = subs'[reset.sub] /\ reset'.step = "record"
      BY <3>1 DEF BillingTypeOK, Sub
    <3>. QED  BY <3>2 DEF ClaimStands, Locked
  <2>. QED  BY <2>1, <2>2
<1>2. CASE ResetRecords
  <2>. DEFINE new == [sub |-> reset.sub, start |-> reset.doc.start, end |-> reset.doc.end, used |-> reset.doc.used]
  <2>1. /\ reset'.sub = reset.sub /\ reset'.doc = reset.doc /\ UNCHANGED <<subs, revived>>
        /\ reset.step = "record"
    BY <1>2 DEF ResetRecords, BillingTypeOK
  <2>2. \E p \in snapshots' : p.sub = reset.sub /\ p.start = reset.doc.start
    <3>1. CASE snapshots' = snapshots \cup {new}
      <4>1. new \in snapshots' /\ new.sub = reset.sub /\ new.start = reset.doc.start
        BY <3>1
      <4>. QED  BY <4>1
    <3>2. CASE snapshots' = snapshots /\ \E p \in snapshots : p.sub = reset.sub /\ p.start = reset.doc.start
      BY <3>2
    <3>. QED  BY <1>2, <3>1, <3>2 DEF ResetRecords
  <2>. QED  BY <2>1, <2>2 DEF ClaimStands, Locked
<1>3. CASE reset' = reset /\ ~ResetRenews /\ ~ResetRecords
  <2>. SUFFICES ASSUME reset.step \in {"record", "finish"} PROVE ClaimStands'
    BY <1>3 DEF ClaimStands
  <2>1. PICK r \in 1 .. opened : r = reset.sub /\ r \in Subs
    BY UsedTyped DEF ClaimHolds
  <2>2. subs'[r].start = subs[r].start /\ subs'[r].end = subs[r].end /\ snapshots' = snapshots
    BY <1>3, StartsKept, SnapshotKinds
  <2>3. ASSUME r \notin revived' PROVE reset.doc.used = subs'[r].used /\ Locked(r)'
    <3>1. CASE ChangeReopens
      <4>1. r \notin revived /\ subs'[r] = subs[r]
        BY <2>1, <2>3, <3>1, ReopenKinds
      <4>. QED  BY <2>1, <4>1 DEF ClaimStands, Locked
    <3>2. CASE ~ChangeReopens
      <4>1. r \notin revived
        BY <2>3, <3>2, RevivedKinds
      <4>2. reset.doc.used = subs[r].used /\ Locked(r)
        BY <2>1, <4>1 DEF ClaimStands
      <4>. QED  BY <1>3, <3>2, <4>2, LocksKept
    <3>. QED  BY <3>1, <3>2
  <2>. QED  BY <1>3, <2>1, <2>2, <2>3 DEF ClaimStands
<1>4. CASE reset'.step \notin {"record", "finish"}
  BY <1>4 DEF ClaimStands
<1>. QED  BY <1>1, <1>2, <1>3, <1>4, ResetKinds

(* What is on record stays so: the document keeps its hours until the renewal, *)
(* and what the renewal clears is in the snapshot.                            *)
LEMMA RecordStays ==
  ASSUME BillingTypeOK, BillingTypeOK', OneActive, Windows, BatchIsNew, ClaimHolds,
         SnapshotStands, ClaimStands, [Next]_vars,
         NEW s \in 1 .. opened, s \notin revived, NEW b \in Buckets, OnRecord(s, b)
  PROVE  OnRecord(s, b)'
<1>0. s \in Subs /\ snapshots \subseteq snapshots'
  BY UsedTyped, SnapshotKinds DEF ResetRecords
<1>1. CASE \E p \in snapshots : p.sub = s /\ p.used[b] > 0
  BY <1>0, <1>1 DEF OnRecord
<1>2. CASE subs[s].used[b] > 0
  <2>1. CASE subs'[s].used = subs[s].used
    BY <1>2, <2>1 DEF OnRecord
  <2>2. CASE SameHours
    BY <1>0, <2>1, <2>2 DEF SameHours
  <2>3. CASE TrackerIncs
    <3>1. CASE subs'[s].used = Plus(subs[s].used, tracker.batch)
      <4>1. subs'[s].used[b] \in {subs[s].used[b], subs[s].used[b] + 1} /\ subs[s].used[b] \in Nat
        BY <1>0, <3>1, UsedTyped, PlusCounts
      <4>2. subs'[s].used[b] > 0
        BY ONLY <1>2, <4>1
      <4>. QED  BY <4>2 DEF OnRecord
    <3>. QED  BY <1>0, <2>1, <2>3, <3>1, IncsEffect DEF Incs
  <2>4. CASE ResetRenews
    <3>1. CASE s # reset.sub
      BY <1>0, <2>1, <2>4, <3>1, RenewsEffect
    <3>2. CASE s = reset.sub
      <4>1. PICK p \in snapshots : p.sub = s /\ p.start = reset.doc.start
        BY <2>4, <3>2 DEF ClaimStands, ResetRenews
      <4>2. p.start = subs[s].start
        BY <2>4, <3>2, <4>1 DEF ClaimStands, ResetRenews
      <4>3. p.used = subs[s].used
        BY <4>1, <4>2 DEF SnapshotStands
      <4>. QED  BY <1>1, <1>2, <4>1, <4>3
    <3>. QED  BY <3>1, <3>2
  <2>5. CASE Opens
    <3>1. s # opened'
      BY <2>5, OpensEffect
    <3>. QED  BY <1>0, <2>1, <2>5, <3>1, OpensEffect
  <2>. QED  BY <2>2, <2>3, <2>4, <2>5, StepKinds
<1>. QED  BY <1>1, <1>2 DEF OnRecord

LEMMA PassedIsOnRecordKept ==
  ASSUME BillingTypeOK, BillingTypeOK', OneActive, ActiveLeads, Windows, BatchIsNew, ClaimHolds, KInv,
         [Next]_vars
  PROVE  PassedIsOnRecord'
<1>. SUFFICES ASSUME NEW s \in 1 .. opened', NEW b \in rolled' \ (late' \cup again'), s \notin revived',
                     subs'[s].from < b, b <= subs'[s].cursor
              PROVE  OnRecord(s, b)'
  BY DEF PassedIsOnRecord
<1>0. /\ revived \subseteq revived' /\ late \subseteq late' /\ again \subseteq again'
      /\ b \in Buckets /\ b \in Nat
  BY AgainGrows, RevivedKinds, ReopenKinds, RollupKinds, RollupGrows, UsedTyped DEF BillingTypeOK
<1>1. ASSUME s \in 1 .. opened, b \in rolled, subs[s].from < b, b <= subs[s].cursor
      PROVE  OnRecord(s, b)'
  <2>1. OnRecord(s, b)
    BY <1>0, <1>1 DEF KInv, PassedIsOnRecord
  <2>. QED  BY <1>0, <1>1, <2>1, RecordStays DEF KInv
<1>2. CASE b \notin rolled
  <2>1. Rollup(b)
    BY <1>2, RollupKinds, RollupGrows
  <2>2. UNCHANGED <<subs, opened>> /\ ~(b <= subs[s].cursor)
    BY <1>0, <2>1, RollupIsLate, RollupGrows
  <2>. QED  BY <2>2
<1>3. CASE SameHours /\ b \in rolled
  <2>1. s \in 1 .. opened /\ subs'[s].from = subs[s].from /\ subs'[s].cursor = subs[s].cursor
    BY <1>3, UsedTyped DEF SameHours
  <2>. QED  BY <1>1, <1>3, <2>1
<1>4. CASE ResetRenews /\ b \in rolled
  <2>1. s \in 1 .. opened /\ subs'[s].from = subs[s].from /\ subs'[s].cursor = subs[s].cursor
    BY <1>4, UsedTyped, RenewsEffect
  <2>. QED  BY <1>1, <1>4, <2>1
<1>5. CASE Opens /\ b \in rolled
  <2>1. s # opened'
    <3>1. subs'[opened'].cursor \in Nat /\ subs'[opened'].from = subs'[opened'].cursor
      BY <1>5, OpensEffect, UsedTyped
    <3>2. s = opened' => subs'[opened'].cursor < b /\ b <= subs'[opened'].cursor
      BY <3>1
    <3>. QED  BY ONLY <1>0, <3>1, <3>2
  <2>2. s \in 1 .. opened
    BY <1>5, <2>1, OpensEffect
  <2>3. subs'[s] = subs[s]
    BY <1>5, <2>1, <2>2, OpensEffect, UsedTyped
  <2>. QED  BY <1>1, <1>5, <2>2, <2>3
<1>6. CASE TrackerIncs /\ b \in rolled
  <2>0. s \in 1 .. opened /\ s \in Subs
    BY <1>6, IncsEffect, UsedTyped
  <2>1. CASE subs'[s] = subs[s]
    BY <1>1, <1>6, <2>0, <2>1
  <2>2. CASE Incs(s)
    <3>1. CASE b <= subs[s].cursor
      BY <1>1, <1>6, <2>0, <2>2, <3>1 DEF Incs
    <3>2. CASE ~(b <= subs[s].cursor)
      <4>1. tracker.sub \in 1 .. opened /\ subs[tracker.sub].cursor = tracker.from /\ tracker.from \in Nat
        BY <1>6, UsedTyped DEF TrackerIncs, BatchIsNew
      <4>2. ~(b <= tracker.from)
        BY <1>0, <2>0, <2>2, <3>2, <4>1 DEF ActiveLeads, Incs, Billable
      <4>3. tracker.from < b /\ b <= tracker.upto
        BY <1>0, <2>2, <4>1, <4>2 DEF Incs
      <4>4. b \in tracker.batch
        BY <1>0, <1>6, <4>3 DEF KInv, BatchIsWhole, TrackerIncs
      <4>5. subs'[s].used[b] = subs[s].used[b] + 1 /\ subs[s].used[b] \in Nat
        BY <1>0, <2>0, <2>2, <4>4, UsedTyped, PlusCounts DEF Incs
      <4>6. subs'[s].used[b] > 0
        BY ONLY <4>5
      <4>. QED  BY <4>6 DEF OnRecord
    <3>. QED  BY <3>1, <3>2
  <2>3. subs'[s] = subs[s] \/ Incs(s)
    BY <1>6, <2>0, IncsEffect DEF Incs
  <2>. QED  BY <2>1, <2>2, <2>3
<1>. QED  BY <1>2, <1>3, <1>4, <1>5, <1>6, StepKinds

(* No hour the cursor has passed is dropped, by a death of the run between two *)
(* writes, by the end of a period or by a change of plan.                     *)
THEOREM HoursAreKept == Spec => []HoursKept
<1>1. Init => KInv
  <2>. SUFFICES ASSUME Init PROVE KInv
    OBVIOUS
  <2>1. /\ 1 .. opened = {1} /\ subs[1] = Opened(0, 0, Month) /\ 1 \in Subs
        /\ snapshots = {} /\ rolled = {} /\ tracker.step = "idle" /\ reset.step = "idle"
    BY BillingAssumption DEF Init, Subs, NoTracker, NoReset
  <2>2. subs[1].start = 0 /\ subs[1].end = Month /\ 0 < Month
    BY <2>1, BillingAssumption DEF Opened
  <2>. QED
    BY <2>1, <2>2 DEF KInv, BatchIsWhole, PeriodsAdvance, SnapshotStands, ClaimStands, PassedIsOnRecord
<1>2. IInv /\ BillingTypeOK' /\ KInv /\ [Next]_vars => KInv'
  <2>. SUFFICES ASSUME IInv, BillingTypeOK', KInv, [Next]_vars PROVE KInv'
    OBVIOUS
  <2>1. BatchIsWhole' /\ PeriodsAdvance'
    BY BatchIsWholeKept, PeriodsAdvanceKept DEF IInv, KInv
  <2>2. SnapshotStands' /\ ClaimStands'
    BY SnapshotStandsKept, ClaimStandsKept DEF IInv, KInv
  <2>3. PassedIsOnRecord'
    BY PassedIsOnRecordKept DEF IInv
  <2>. QED  BY <2>1, <2>2, <2>3 DEF KInv
<1>3. IInv /\ KInv => HoursKept
  <2>. SUFFICES ASSUME IInv, KInv, NEW s \in 1 .. opened, NEW b \in rolled \ (late \cup again),
                       s \notin revived, subs[s].from < b, b <= subs[s].cursor
                PROVE  \E p \in Periods : p.sub = s /\ p.used[b] > 0
    BY DEF HoursKept
  <2>1. OnRecord(s, b)
    BY DEF KInv, PassedIsOnRecord
  <2>2. PeriodOf(s) \in Periods /\ PeriodOf(s).sub = s /\ PeriodOf(s).used = subs[s].used
    BY DEF Periods, PeriodOf
  <2>3. snapshots \subseteq Periods
    BY DEF Periods
  <2>. QED  BY <2>1, <2>2, <2>3 DEF OnRecord
<1>. QED  BY <1>1, <1>2, <1>3, Invariance, BillingTypeCorrect, PTL DEF Spec
=============================================================================
