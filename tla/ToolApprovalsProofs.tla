------------------------ MODULE ToolApprovalsProofs ------------------------
(***************************************************************************)
(* What ToolApprovals promises for every set of requests and subscriptions *)
(* and any number of crashes and failed writes.                            *)
(***************************************************************************)
EXTENDS ToolApprovals, TLAPS

(* Whatever is on its way to run a tool was granted.                         *)
GrantHeld ==
  /\ \A r \in Requests : call[r] \in {"granting", "granted", "running"} => r \in granted
  /\ \A r \in Requests : <<r, "running">> \in writes => call[r] = "granting"
  /\ \A r \in Requests, s \in Subscribers :
       <<r, s, "granted">> \in redo \/ <<r, s, "ending">> \in redo => r \in granted

(* Nothing is known of a request before it is asked, so none becomes live     *)
(* between a pass's test of the registry and its registration.                *)
NewUntouched ==
  \A r \in Requests : call[r] = "new" =>
    /\ row[r] # "waiting" /\ registry[r] = "no"
    /\ \A v \in Rows : <<r, v>> \notin writes
    /\ \A s \in Subscribers : r \notin restore[s].todo /\ r \notin restore[s].at

CheckStands ==
  \A s \in Subscribers : ~restore[s].known =>
    \A r \in restore[s].at : registry[r] # "live"

LostIsSilent ==
  \A r \in Requests, v \in Rows : <<r, v>> \in writes => call[r] # "lost"

(* What a crash left waiting is answerable, or being answered.               *)
Covered(r) ==
  call[r] = "lost" /\ row[r] = "waiting" => registry[r] # "no" \/ \E e \in redo : e[1] = r

PassCovers ==
  \A s \in Subscribers :
    /\ restore[s].step \in {"new", "over"} => restore[s].found = {}
    /\ restore[s].step # "register" => restore[s].at = {}
    /\ \A r, q \in restore[s].at : r = q
    /\ \A r \in restore[s].found :
         \/ Covered(r)
         \/ r \in restore[s].todo
         \/ r \in restore[s].at /\ ~restore[s].known

Requested == GrantHeld /\ WaiterIsRegistered /\ NewUntouched /\ LostIsSilent

IInv == ApprovalsTypeOK /\ OnlyGrantedRuns /\ Requested /\ CheckStands /\ PassCovers

-----------------------------------------------------------------------------
(* The variables keep their types.                                           *)
LEMMA StepTypes ==
  ASSUME ApprovalsTypeOK, [Next]_vars
  PROVE  ApprovalsTypeOK'
<1>1. ASSUME NEW r \in Requests, CallStep(r) PROVE ApprovalsTypeOK'
  <2>1. CASE Ask(r) BY <2>1 DEF ApprovalsTypeOK, Ask, Rows
  <2>2. CASE AskUnanchored(r) BY <2>2 DEF ApprovalsTypeOK, AskUnanchored
  <2>3. CASE AskFails(r) BY <2>3, ApprovalsAssumption DEF ApprovalsTypeOK, AskFails, Fault, Rows
  <2>4. ASSUME NEW v \in Rows, WriteApplied(r, v) PROVE ApprovalsTypeOK'
    BY <2>4 DEF ApprovalsTypeOK, WriteApplied, Heard
  <2>5. ASSUME NEW v \in Rows, WriteFails(r, v) PROVE ApprovalsTypeOK'
    BY <2>5, ApprovalsAssumption DEF ApprovalsTypeOK, WriteFails, Heard, Fault
  <2>6. CASE RunTool(r) BY <2>6 DEF ApprovalsTypeOK, RunTool
  <2>7. CASE CallEnds(r) BY <2>7 DEF ApprovalsTypeOK, CallEnds, Rows
  <2> QED BY <1>1, <2>1, <2>2, <2>3, <2>4, <2>5, <2>6, <2>7 DEF CallStep
<1>2. ASSUME NEW r \in Requests, AnswerStep(r) PROVE ApprovalsTypeOK'
  <2>1. ASSUME NEW grant \in BOOLEAN, AnswerLive(r, grant) PROVE ApprovalsTypeOK'
    BY <2>1 DEF ApprovalsTypeOK, AnswerLive, Rows
  <2>2. ASSUME NEW s \in Subscribers, NEW grant \in BOOLEAN, AnswerRestored(r, s, grant)
        PROVE  ApprovalsTypeOK'
    BY <2>2 DEF ApprovalsTypeOK, AnswerRestored
  <2>3. ASSUME NEW s \in Subscribers, RedoRuns(r, s) PROVE ApprovalsTypeOK'
    BY <2>3 DEF ApprovalsTypeOK, RedoRuns, Rows
  <2>4. ASSUME NEW s \in Subscribers, RedoEnds(r, s) PROVE ApprovalsTypeOK'
    BY <2>4 DEF ApprovalsTypeOK, RedoEnds, Rows
  <2> QED BY <1>2, <2>1, <2>2, <2>3, <2>4 DEF AnswerStep
<1>3. ASSUME NEW s \in Subscribers, RestoreStep(s) PROVE ApprovalsTypeOK'
  <2>1. CASE RestoreReads(s) BY <2>1 DEF ApprovalsTypeOK, RestoreReads, Pass
  <2>2. CASE RestoreEnds(s) BY <2>2 DEF ApprovalsTypeOK, RestoreEnds, Pass
  <2>3. ASSUME NEW r \in Requests, RestoreChecks(s, r) PROVE ApprovalsTypeOK'
    BY <2>3 DEF ApprovalsTypeOK, RestoreChecks
  <2>4. ASSUME NEW r \in Requests, RestoreRegisters(s, r) PROVE ApprovalsTypeOK'
    BY <2>4 DEF ApprovalsTypeOK, RestoreRegisters
  <2>5. ASSUME NEW r \in Requests, RestoreDiscards(s, r) PROVE ApprovalsTypeOK'
    BY <2>5 DEF ApprovalsTypeOK, RestoreDiscards, Rows
  <2> QED BY <1>3, <2>1, <2>2, <2>3, <2>4, <2>5 DEF RestoreStep
<1>4. CASE Crash
  <2>1. restore' \in [Subscribers -> [step: {"new", "check", "register", "over"}, found: SUBSET Requests,
                                      todo: SUBSET Requests, at: SUBSET Requests, known: BOOLEAN]]
    BY <1>4 DEF Crash, Pass
  <2> QED BY <1>4, <2>1, ApprovalsAssumption DEF ApprovalsTypeOK, Crash, Fault
<1>5. CASE UNCHANGED vars BY <1>5 DEF ApprovalsTypeOK, vars
<1> QED BY <1>1, <1>2, <1>3, <1>4, <1>5 DEF Next

-----------------------------------------------------------------------------
(* Grants, waiters and what is known of a request.                           *)
LEMMA CallKeeps ==
  ASSUME ApprovalsTypeOK, OnlyGrantedRuns, Requested,
         NEW q \in Requests, CallStep(q)
  PROVE  OnlyGrantedRuns' /\ Requested'
<1> USE DEF OnlyGrantedRuns, Requested, ApprovalsTypeOK
<1>1. CASE Ask(q)
  <2>1. OnlyGrantedRuns' /\ GrantHeld' BY <1>1 DEF Ask, GrantHeld
  <2>2. WaiterIsRegistered' BY <1>1 DEF Ask, WaiterIsRegistered
  <2>3. NewUntouched' BY <1>1 DEF Ask, NewUntouched
  <2>4. LostIsSilent' BY <1>1 DEF Ask, LostIsSilent
  <2> QED BY <2>1, <2>2, <2>3, <2>4
<1>2. CASE AskUnanchored(q)
  <2>1. OnlyGrantedRuns' /\ GrantHeld' BY <1>2 DEF AskUnanchored, GrantHeld
  <2>2. WaiterIsRegistered' BY <1>2 DEF AskUnanchored, WaiterIsRegistered, NewUntouched
  <2>3. NewUntouched' BY <1>2 DEF AskUnanchored, NewUntouched
  <2>4. LostIsSilent' BY <1>2 DEF AskUnanchored, LostIsSilent
  <2> QED BY <2>1, <2>2, <2>3, <2>4
<1>3. CASE AskFails(q)
  <2>1. OnlyGrantedRuns' /\ GrantHeld' BY <1>3 DEF AskFails, GrantHeld, WaiterIsRegistered
  <2>2. WaiterIsRegistered' BY <1>3 DEF AskFails, WaiterIsRegistered
  <2>3. NewUntouched' BY <1>3 DEF AskFails, NewUntouched, Rows
  <2>4. LostIsSilent' BY <1>3 DEF AskFails, LostIsSilent
  <2> QED BY <2>1, <2>2, <2>3, <2>4
<1>4. ASSUME NEW v \in Rows, WriteApplied(q, v) PROVE OnlyGrantedRuns' /\ Requested'
  <2>1. OnlyGrantedRuns' /\ GrantHeld' BY <1>4 DEF WriteApplied, Heard, GrantHeld
  <2>2. WaiterIsRegistered' BY <1>4 DEF WriteApplied, Heard, WaiterIsRegistered, GrantHeld
  <2>3. NewUntouched' BY <1>4 DEF WriteApplied, Heard, NewUntouched
  <2>4. LostIsSilent' BY <1>4 DEF WriteApplied, Heard, LostIsSilent
  <2> QED BY <2>1, <2>2, <2>3, <2>4
<1>5. ASSUME NEW v \in Rows, WriteFails(q, v) PROVE OnlyGrantedRuns' /\ Requested'
  <2>1. OnlyGrantedRuns' /\ GrantHeld' BY <1>5 DEF WriteFails, Heard, GrantHeld
  <2>2. WaiterIsRegistered' BY <1>5 DEF WriteFails, Heard, WaiterIsRegistered, GrantHeld
  <2>3. NewUntouched' BY <1>5 DEF WriteFails, Heard, NewUntouched
  <2>4. LostIsSilent' BY <1>5 DEF WriteFails, Heard, LostIsSilent
  <2> QED BY <2>1, <2>2, <2>3, <2>4
<1>6. CASE RunTool(q)
  <2>1. OnlyGrantedRuns' /\ GrantHeld' BY <1>6 DEF RunTool, GrantHeld
  <2>2. WaiterIsRegistered' BY <1>6 DEF RunTool, WaiterIsRegistered
  <2>3. NewUntouched' BY <1>6 DEF RunTool, NewUntouched
  <2>4. LostIsSilent' BY <1>6 DEF RunTool, LostIsSilent
  <2> QED BY <2>1, <2>2, <2>3, <2>4
<1>7. CASE CallEnds(q)
  <2>1. OnlyGrantedRuns' /\ GrantHeld' BY <1>7 DEF CallEnds, GrantHeld
  <2>2. WaiterIsRegistered' BY <1>7 DEF CallEnds, WaiterIsRegistered
  <2>3. NewUntouched' BY <1>7 DEF CallEnds, NewUntouched
  <2>4. LostIsSilent' BY <1>7 DEF CallEnds, LostIsSilent
  <2> QED BY <2>1, <2>2, <2>3, <2>4
<1> QED BY <1>1, <1>2, <1>3, <1>4, <1>5, <1>6, <1>7 DEF CallStep

LEMMA AnswerKeeps ==
  ASSUME ApprovalsTypeOK, ApprovalsAssumption, OnlyGrantedRuns, Requested,
         NEW q \in Requests, AnswerStep(q)
  PROVE  OnlyGrantedRuns' /\ Requested'
<1> USE DEF OnlyGrantedRuns, Requested, ApprovalsTypeOK
<1>1. ASSUME NEW grant \in BOOLEAN, AnswerLive(q, grant) PROVE OnlyGrantedRuns' /\ Requested'
  <2>1. OnlyGrantedRuns' /\ GrantHeld' BY <1>1 DEF AnswerLive, GrantHeld, WaiterIsRegistered
  <2>2. WaiterIsRegistered' BY <1>1 DEF AnswerLive, WaiterIsRegistered
  <2>3. NewUntouched' BY <1>1 DEF AnswerLive, NewUntouched
  <2>4. LostIsSilent' BY <1>1 DEF AnswerLive, LostIsSilent
  <2> QED BY <2>1, <2>2, <2>3, <2>4
<1>2. ASSUME NEW s \in Subscribers, NEW grant \in BOOLEAN, AnswerRestored(q, s, grant)
      PROVE  OnlyGrantedRuns' /\ Requested'
  <2>1. OnlyGrantedRuns' /\ GrantHeld' BY <1>2 DEF AnswerRestored, GrantHeld
  <2>2. WaiterIsRegistered'
    BY <1>2 DEF AnswerRestored, WaiterIsRegistered, ApprovalsAssumption
  <2>3. NewUntouched' BY <1>2 DEF AnswerRestored, NewUntouched
  <2>4. LostIsSilent' BY <1>2 DEF AnswerRestored, LostIsSilent
  <2> QED BY <2>1, <2>2, <2>3, <2>4
<1>3. ASSUME NEW s \in Subscribers, RedoRuns(q, s) PROVE OnlyGrantedRuns' /\ Requested'
  <2>1. OnlyGrantedRuns' /\ GrantHeld' BY <1>3 DEF RedoRuns, GrantHeld
  <2>2. WaiterIsRegistered' BY <1>3 DEF RedoRuns, WaiterIsRegistered
  <2>3. NewUntouched' BY <1>3 DEF RedoRuns, NewUntouched
  <2>4. LostIsSilent' BY <1>3 DEF RedoRuns, LostIsSilent
  <2> QED BY <2>1, <2>2, <2>3, <2>4
<1>4. ASSUME NEW s \in Subscribers, RedoEnds(q, s) PROVE OnlyGrantedRuns' /\ Requested'
  <2>1. OnlyGrantedRuns' /\ GrantHeld' BY <1>4 DEF RedoEnds, GrantHeld
  <2>2. WaiterIsRegistered' BY <1>4 DEF RedoEnds, WaiterIsRegistered
  <2>3. NewUntouched' BY <1>4 DEF RedoEnds, NewUntouched
  <2>4. LostIsSilent' BY <1>4 DEF RedoEnds, LostIsSilent
  <2> QED BY <2>1, <2>2, <2>3, <2>4
<1> QED BY <1>1, <1>2, <1>3, <1>4 DEF AnswerStep

LEMMA RestoreKeeps ==
  ASSUME ApprovalsTypeOK, ApprovalsAssumption, OnlyGrantedRuns, Requested, CheckStands,
         NEW t \in Subscribers, RestoreStep(t)
  PROVE  OnlyGrantedRuns' /\ Requested'
<1> USE DEF OnlyGrantedRuns, Requested, ApprovalsTypeOK
<1>1. CASE RestoreReads(t)
  <2>1. OnlyGrantedRuns' /\ GrantHeld' BY <1>1 DEF RestoreReads, GrantHeld
  <2>2. WaiterIsRegistered' /\ LostIsSilent' BY <1>1 DEF RestoreReads, WaiterIsRegistered, LostIsSilent
  <2>3. NewUntouched' BY <1>1 DEF RestoreReads, NewUntouched, Pass
  <2> QED BY <2>1, <2>2, <2>3
<1>2. CASE RestoreEnds(t)
  <2>1. OnlyGrantedRuns' /\ GrantHeld' BY <1>2 DEF RestoreEnds, GrantHeld
  <2>2. WaiterIsRegistered' /\ LostIsSilent' BY <1>2 DEF RestoreEnds, WaiterIsRegistered, LostIsSilent
  <2>3. NewUntouched' BY <1>2 DEF RestoreEnds, NewUntouched, Pass
  <2> QED BY <2>1, <2>2, <2>3
<1>3. ASSUME NEW q \in Requests, RestoreChecks(t, q) PROVE OnlyGrantedRuns' /\ Requested'
  <2>1. OnlyGrantedRuns' /\ GrantHeld' BY <1>3 DEF RestoreChecks, GrantHeld
  <2>2. WaiterIsRegistered' /\ LostIsSilent' BY <1>3 DEF RestoreChecks, WaiterIsRegistered, LostIsSilent
  <2>3. NewUntouched' BY <1>3 DEF RestoreChecks, NewUntouched
  <2> QED BY <2>1, <2>2, <2>3
<1>4. ASSUME NEW q \in Requests, RestoreRegisters(t, q) PROVE OnlyGrantedRuns' /\ Requested'
  <2>1. OnlyGrantedRuns' /\ GrantHeld' BY <1>4 DEF RestoreRegisters, GrantHeld
  <2>2. WaiterIsRegistered'
    BY <1>4 DEF RestoreRegisters, WaiterIsRegistered, CheckStands, ApprovalsAssumption
  <2>3. LostIsSilent' BY <1>4 DEF RestoreRegisters, LostIsSilent
  <2>4. NewUntouched' BY <1>4 DEF RestoreRegisters, NewUntouched
  <2> QED BY <2>1, <2>2, <2>3, <2>4
<1>5. ASSUME NEW q \in Requests, RestoreDiscards(t, q) PROVE OnlyGrantedRuns' /\ Requested'
  <2>1. OnlyGrantedRuns' /\ GrantHeld' BY <1>5 DEF RestoreDiscards, GrantHeld
  <2>2. WaiterIsRegistered' /\ LostIsSilent' BY <1>5 DEF RestoreDiscards, WaiterIsRegistered, LostIsSilent
  <2>3. NewUntouched' BY <1>5 DEF RestoreDiscards, NewUntouched
  <2> QED BY <2>1, <2>2, <2>3
<1> QED BY <1>1, <1>2, <1>3, <1>4, <1>5 DEF RestoreStep

LEMMA CrashKeeps ==
  ASSUME ApprovalsTypeOK, OnlyGrantedRuns, Requested, Crash
  PROVE  OnlyGrantedRuns' /\ Requested'
<1> USE DEF OnlyGrantedRuns, Requested, ApprovalsTypeOK, Crash
<1>1. OnlyGrantedRuns' /\ GrantHeld' BY DEF GrantHeld
<1>2. WaiterIsRegistered' /\ LostIsSilent' BY DEF WaiterIsRegistered, LostIsSilent
<1>3. NewUntouched' BY DEF NewUntouched, Pass
<1> QED BY <1>1, <1>2, <1>3

-----------------------------------------------------------------------------
(* A pass finds no request unasked, and what it tested stays as tested.      *)
LEMMA CheckKept ==
  ASSUME ApprovalsTypeOK, ApprovalsAssumption, Requested, CheckStands, PassCovers, [Next]_vars
  PROVE  CheckStands'
<1> USE DEF ApprovalsTypeOK, CheckStands
<1>1. ASSUME NEW q \in Requests, CallStep(q) PROVE CheckStands'
  <2>1. UNCHANGED restore
    BY <1>1 DEF CallStep, Ask, AskUnanchored, AskFails, WriteApplied, WriteFails, RunTool, CallEnds
  <2>2. CASE Ask(q) BY <2>1, <2>2 DEF Ask, Requested, NewUntouched
  <2>3. CASE registry' = registry BY <2>1, <2>3
  <2>4. CASE AskFails(q) BY <2>1, <2>4 DEF AskFails
  <2>5. CallStep(q) => Ask(q) \/ AskFails(q) \/ registry' = registry
    BY DEF CallStep, AskUnanchored, WriteApplied, WriteFails, RunTool, CallEnds
  <2> QED BY <1>1, <2>2, <2>3, <2>4, <2>5
<1>2. ASSUME NEW q \in Requests, AnswerStep(q) PROVE CheckStands'
  <2>1. /\ UNCHANGED restore
        /\ registry' = registry \/ registry' = [registry EXCEPT ![q] = "no"]
    BY <1>2 DEF AnswerStep, AnswerLive, AnswerRestored, RedoRuns, RedoEnds
  <2> QED BY <2>1
<1>3. ASSUME NEW t \in Subscribers, RestoreStep(t) PROVE CheckStands'
  <2>1. CASE RestoreReads(t) BY <2>1 DEF RestoreReads, Pass
  <2>2. CASE RestoreEnds(t) BY <2>2 DEF RestoreEnds, Pass
  <2>3. ASSUME NEW q \in Requests, RestoreChecks(t, q) PROVE CheckStands' BY <2>3 DEF RestoreChecks
  <2>4. ASSUME NEW q \in Requests, RestoreRegisters(t, q) PROVE CheckStands'
    BY <2>4 DEF RestoreRegisters, ApprovalsAssumption
  <2>5. ASSUME NEW q \in Requests, RestoreDiscards(t, q) PROVE CheckStands'
    BY <2>5 DEF RestoreDiscards
  <2> QED BY <1>3, <2>1, <2>2, <2>3, <2>4, <2>5 DEF RestoreStep
<1>4. CASE Crash BY <1>4 DEF Crash, Pass
<1>5. CASE UNCHANGED vars BY <1>5 DEF vars
<1> QED BY <1>1, <1>2, <1>3, <1>4, <1>5 DEF Next

(* Short of a crash, a request stays covered until it waits no longer.       *)
LEMMA CoveredStays ==
  ASSUME ApprovalsTypeOK, ApprovalsAssumption, Requested, NEW r \in Requests, Covered(r),
         [Next]_vars, ~Crash
  PROVE  Covered(r)'
<1> USE DEF ApprovalsTypeOK, Covered
<1>1. ASSUME NEW q \in Requests, CallStep(q) PROVE Covered(r)'
  <2>1. CASE Ask(q) BY <2>1 DEF Ask
  <2>2. CASE AskUnanchored(q) BY <2>2 DEF AskUnanchored
  <2>3. CASE AskFails(q) BY <2>3 DEF AskFails, Requested, LostIsSilent, Rows
  <2>4. ASSUME NEW v \in Rows, WriteApplied(q, v) PROVE Covered(r)'
    BY <2>4 DEF WriteApplied, Heard, Requested, LostIsSilent
  <2>5. ASSUME NEW v \in Rows, WriteFails(q, v) PROVE Covered(r)'
    BY <2>5 DEF WriteFails, Heard
  <2>6. CASE RunTool(q) BY <2>6 DEF RunTool
  <2>7. CASE CallEnds(q) BY <2>7 DEF CallEnds
  <2> QED BY <1>1, <2>1, <2>2, <2>3, <2>4, <2>5, <2>6, <2>7 DEF CallStep
<1>2. ASSUME NEW q \in Requests, AnswerStep(q) PROVE Covered(r)'
  <2>1. ASSUME NEW grant \in BOOLEAN, AnswerLive(q, grant) PROVE Covered(r)'
    BY <2>1 DEF AnswerLive
  <2>2. ASSUME NEW s \in Subscribers, NEW grant \in BOOLEAN, AnswerRestored(q, s, grant)
        PROVE  Covered(r)'
    <3>1. CASE r = q
      <4> DEFINE e == <<q, s, IF grant THEN "granted" ELSE "denied">>
      <4>1. e \in redo' /\ e[1] = q BY <2>2 DEF AnswerRestored
      <4> QED BY <3>1, <4>1
    <3>2. CASE r # q BY <2>2, <3>2 DEF AnswerRestored
    <3> QED BY <3>1, <3>2
  <2>3. ASSUME NEW s \in Subscribers, RedoRuns(q, s) PROVE Covered(r)'
    <3>1. \A e \in redo : e[1] = q \/ e \in redo' BY <2>3 DEF RedoRuns
    <3>2. row' = [row EXCEPT ![q] = "running"] /\ registry' = registry /\ call' = call
      BY <2>3 DEF RedoRuns
    <3> QED BY <3>1, <3>2
  <2>4. ASSUME NEW s \in Subscribers, RedoEnds(q, s) PROVE Covered(r)'
    <3>1. \A e \in redo : e[1] = q \/ e \in redo' BY <2>4 DEF RedoEnds
    <3>2. row' = [row EXCEPT ![q] = "done"] /\ registry' = registry /\ call' = call
      BY <2>4 DEF RedoEnds
    <3> QED BY <3>1, <3>2
  <2> QED BY <1>2, <2>1, <2>2, <2>3, <2>4 DEF AnswerStep
<1>3. ASSUME NEW t \in Subscribers, RestoreStep(t) PROVE Covered(r)'
  <2>1. CASE RestoreReads(t) BY <2>1 DEF RestoreReads
  <2>2. CASE RestoreEnds(t) BY <2>2 DEF RestoreEnds
  <2>3. ASSUME NEW q \in Requests, RestoreChecks(t, q) PROVE Covered(r)' BY <2>3 DEF RestoreChecks
  <2>4. ASSUME NEW q \in Requests, RestoreRegisters(t, q) PROVE Covered(r)'
    BY <2>4 DEF RestoreRegisters, ApprovalsAssumption
  <2>5. ASSUME NEW q \in Requests, RestoreDiscards(t, q) PROVE Covered(r)' BY <2>5 DEF RestoreDiscards
  <2> QED BY <1>3, <2>1, <2>2, <2>3, <2>4, <2>5 DEF RestoreStep
<1>4. CASE UNCHANGED vars BY <1>4 DEF vars
<1> QED BY <1>1, <1>2, <1>3, <1>4 DEF Next

(* A pass ends with everything it found covered.                             *)
LEMMA PassKept ==
  ASSUME ApprovalsTypeOK, ApprovalsAssumption, Requested, PassCovers, [Next]_vars
  PROVE  PassCovers'
<1>1. CASE Crash BY <1>1 DEF ApprovalsTypeOK, PassCovers, Crash, Pass
<1>2. CASE ~Crash
  <2>0. ASSUME NEW r \in Requests, Covered(r) PROVE Covered(r)' BY <1>2, <2>0, CoveredStays
  <2>1. CASE UNCHANGED restore BY <2>0, <2>1 DEF PassCovers, ApprovalsTypeOK
  <2>2. ASSUME NEW t \in Subscribers, RestoreReads(t) PROVE PassCovers'
    BY <2>0, <2>2 DEF PassCovers, ApprovalsTypeOK, RestoreReads, Pass
  <2>3. ASSUME NEW t \in Subscribers, RestoreEnds(t) PROVE PassCovers'
    BY <2>0, <2>3 DEF PassCovers, ApprovalsTypeOK, RestoreEnds, Pass
  <2>4. ASSUME NEW t \in Subscribers, NEW q \in Requests, RestoreChecks(t, q) PROVE PassCovers'
    <3>1. registry[q] # "no" => Covered(q)' BY <2>4 DEF RestoreChecks, Covered
    <3> QED BY <2>0, <2>4, <3>1 DEF PassCovers, ApprovalsTypeOK, RestoreChecks
  <2>5. ASSUME NEW t \in Subscribers, NEW q \in Requests, RestoreRegisters(t, q) PROVE PassCovers'
    <3>1. Covered(q)' \/ restore[t].known
      BY <2>5, ApprovalsAssumption DEF RestoreRegisters, Covered, ApprovalsTypeOK
    <3>2. \A r \in restore[t].at : r = q BY <2>5 DEF PassCovers, RestoreRegisters
    <3>3. restore' = [restore EXCEPT ![t].step = "check", ![t].at = {}, ![t].known = FALSE]
      BY <2>5 DEF RestoreRegisters
    <3> QED BY <2>0, <3>1, <3>2, <3>3 DEF PassCovers, ApprovalsTypeOK
  <2>6. ASSUME NEW t \in Subscribers, NEW q \in Requests, RestoreDiscards(t, q) PROVE PassCovers'
    <3>1. Covered(q)' BY <2>6 DEF RestoreDiscards, Covered, ApprovalsTypeOK
    <3>2. \A r \in restore[t].at : r = q BY <2>6 DEF PassCovers, RestoreDiscards
    <3>3. restore' = [restore EXCEPT ![t].step = "check", ![t].at = {}, ![t].known = FALSE]
      BY <2>6 DEF RestoreDiscards
    <3> QED BY <2>0, <3>1, <3>2, <3>3 DEF PassCovers, ApprovalsTypeOK
  <2>7. ASSUME NEW q \in Requests, CallStep(q) \/ AnswerStep(q) PROVE UNCHANGED restore
    BY <2>7 DEF CallStep, Ask, AskUnanchored, AskFails, WriteApplied, WriteFails, RunTool, CallEnds,
                AnswerStep, AnswerLive, AnswerRestored, RedoRuns, RedoEnds
  <2> QED BY <1>2, <2>1, <2>2, <2>3, <2>4, <2>5, <2>6, <2>7 DEF Next, RestoreStep, vars
<1> QED BY <1>1, <1>2

-----------------------------------------------------------------------------
LEMMA Initially == Init => IInv
<1> SUFFICES ASSUME Init PROVE IInv OBVIOUS
<1>1. ApprovalsTypeOK BY ApprovalsAssumption DEF Init, ApprovalsTypeOK, Rows, Pass
<1>2. OnlyGrantedRuns /\ GrantHeld BY DEF Init, OnlyGrantedRuns, GrantHeld
<1>3. WaiterIsRegistered /\ NewUntouched /\ LostIsSilent
  BY DEF Init, WaiterIsRegistered, NewUntouched, LostIsSilent, Pass
<1>4. CheckStands /\ PassCovers BY DEF Init, CheckStands, PassCovers, Pass
<1> QED BY <1>1, <1>2, <1>3, <1>4 DEF IInv, Requested

LEMMA Inductive == IInv /\ [Next]_vars => IInv'
<1> SUFFICES ASSUME IInv, [Next]_vars PROVE IInv' OBVIOUS
<1> USE DEF IInv
<1>1. ApprovalsTypeOK' BY StepTypes
<1>2. OnlyGrantedRuns' /\ Requested'
  <2>1. CASE UNCHANGED vars
    BY <2>1 DEF vars, OnlyGrantedRuns, Requested, GrantHeld, WaiterIsRegistered, NewUntouched, LostIsSilent
  <2> QED BY <2>1, CallKeeps, AnswerKeeps, RestoreKeeps, CrashKeeps, ApprovalsAssumption DEF Next
<1>3. CheckStands' BY CheckKept, ApprovalsAssumption
<1>4. PassCovers' BY PassKept, ApprovalsAssumption
<1> QED BY <1>1, <1>2, <1>3, <1>4

LEMMA Invariant == Spec => []IInv
BY Initially, Inductive, PTL DEF Spec

(* The state variables keep their types.                                     *)
THEOREM ApprovalsTypeCorrect == Spec => []ApprovalsTypeOK
<1>1. IInv => ApprovalsTypeOK BY DEF IInv
<1> QED BY <1>1, Invariant, PTL

(* No tool that asks is run without the grant of its own request.            *)
THEOREM GrantedOnly == Spec => []OnlyGrantedRuns
<1>1. IInv => OnlyGrantedRuns BY DEF IInv
<1> QED BY <1>1, Invariant, PTL

(* An executor waits exactly as long as an answer can still reach it.        *)
THEOREM WaitersReachable == Spec => []WaiterIsRegistered
<1>1. IInv => WaiterIsRegistered BY DEF IInv, Requested
<1> QED BY <1>1, Invariant, PTL

(* A pass over what a crash left makes all of it answerable again.           *)
THEOREM RestoreIsComplete == Spec => RestoreCovers
<1>1. IInv /\ [Next]_vars =>
        [\A s \in Subscribers : RestoreEnds(s) =>
           \A r \in restore[s].found :
             call[r] = "lost" /\ row[r] = "waiting" =>
               registry[r] # "no" \/ \E e \in redo : e[1] = r]_vars
  <2> SUFFICES ASSUME IInv, NEW s \in Subscribers, RestoreEnds(s), NEW r \in restore[s].found
               PROVE  Covered(r)
    BY DEF Covered
  <2>1. r \notin restore[s].todo /\ restore[s].at = {} BY DEF RestoreEnds, IInv, PassCovers
  <2> QED BY <2>1 DEF IInv, PassCovers
<1> QED BY <1>1, Invariant, PTL DEF Spec, RestoreCovers
=============================================================================
