--------------------------- MODULE ToolApprovals ---------------------------
(***************************************************************************)
(* Tool calls of one channel that wait for the user's permission:          *)
(* backend/src/handlers/message/permission-manager.ts over its registry,   *)
(* the executor that asks (services/mca-tool-executor.ts) and the message  *)
(* of each call in channel_messages, from which a request is restored      *)
(* after the process, and the turn that asked, are gone.                   *)
(***************************************************************************)
EXTENDS Naturals

CONSTANTS
  Requests,     \* tool calls that ask; a request id is never used again
  Subscribers,  \* subscriptions of sessions to the channel
  MaxFaults     \* crashes and failed writes (a bound)

ASSUME ApprovalsAssumption ==
  /\ MaxFaults \in Nat
  /\ {"no", "live"} \cap Subscribers = {}

VARIABLES
  row,       \* content.status of the call's message: "waiting" is pending_permission
  writes,    \* updates of it that Mongo has not applied yet
  registry,  \* PendingApprovalsRegistry.pending: asked by a live turn, or restored by whom
  call,      \* how far the executor is with the call
  redo,      \* answers to restored requests that are being carried out
  restore,   \* restorePendingApprovals, once for every subscription
  granted,   \* history: requests the user has granted
  runs,      \* history: how often the tool was run for the request
  faults

vars == <<row, writes, registry, call, redo, restore, granted, runs, faults>>

Rows == {"pending", "waiting", "running", "done"}  \* done: completed or failed
Pass(step, found) == [step |-> step, found |-> found, todo |-> found, at |-> {}, known |-> FALSE]

ApprovalsTypeOK ==
  /\ row \in [Requests -> Rows]
  /\ writes \subseteq Requests \X Rows
  /\ registry \in [Requests -> {"no", "live"} \cup Subscribers]
  /\ call \in [Requests -> {"new", "asking", "granting", "granted", "denied", "running", "over", "lost"}]
  /\ redo \subseteq Requests \X Subscribers \X {"granted", "denied", "ending"}
  /\ restore \in [Subscribers -> [step: {"new", "check", "register", "over"}, found: SUBSET Requests,
                                  todo: SUBSET Requests, at: SUBSET Requests, known: BOOLEAN]]
  /\ granted \subseteq Requests
  /\ runs \in [Requests -> Nat]
  /\ faults \in Nat

Init ==
  /\ row = [r \in Requests |-> "pending"]
  /\ writes = {}
  /\ registry = [r \in Requests |-> "no"]
  /\ call = [r \in Requests |-> "new"]
  /\ redo = {}
  /\ restore = [s \in Subscribers |-> Pass("new", {})]
  /\ granted = {}
  /\ runs = [r \in Requests |-> 0]
  /\ faults = 0

Fault == faults < MaxFaults /\ faults' = faults + 1

-----------------------------------------------------------------------------
(* onAskPermission: the request is registered while its status is written.   *)
Ask(r) ==
  /\ call[r] = "new"
  /\ call' = [call EXCEPT ![r] = "asking"]
  /\ registry' = [registry EXCEPT ![r] = "live"]
  /\ writes' = writes \cup {<<r, "waiting">>}
  /\ UNCHANGED <<row, redo, restore, granted, runs, faults>>

(* A call without a message to show the request at is denied unasked. *)
AskUnanchored(r) ==
  /\ call[r] = "new"
  /\ call' = [call EXCEPT ![r] = "denied"]
  /\ UNCHANGED <<row, writes, registry, redo, restore, granted, runs, faults>>

(* Nobody awaits the updates in flight but the one to running, after which    *)
(* the executor hears of the grant.                                           *)
Heard(r, v) ==
  IF v = "running" THEN [call EXCEPT ![r] = "granted"] ELSE call

WriteApplied(r, v) ==
  /\ <<r, v>> \in writes
  /\ writes' = writes \ {<<r, v>>}
  /\ row' = [row EXCEPT ![r] = v]
  /\ call' = Heard(r, v)
  /\ UNCHANGED <<registry, redo, restore, granted, runs, faults>>

(* Mutant: the call goes on when its status could not be written. *)
AskFailsOpen(r) ==
  /\ Fault
  /\ <<r, "waiting">> \in writes
  /\ writes' = writes \ {<<r, "waiting">>}
  /\ registry' = [registry EXCEPT ![r] = "no"]
  /\ call' = IF registry[r] = "live" THEN [call EXCEPT ![r] = "granted"] ELSE call
  /\ UNCHANGED <<row, redo, restore, granted, runs>>

(* The status could not be written: what is still registered is denied.       *)
(* The update itself may have been applied, and what follows it have failed.  *)
AskFails(r) ==
  /\ Fault
  /\ <<r, "waiting">> \in writes
  /\ writes' = writes \ {<<r, "waiting">>}
  /\ \/ UNCHANGED row
     \/ row' = [row EXCEPT ![r] = "waiting"]
  /\ registry' = [registry EXCEPT ![r] = "no"]
  /\ call' = IF registry[r] = "live" THEN [call EXCEPT ![r] = "denied"] ELSE call
  /\ UNCHANGED <<redo, restore, granted, runs>>

WriteFails(r, v) ==
  /\ Fault
  /\ v # "waiting" /\ <<r, v>> \in writes
  /\ writes' = writes \ {<<r, v>>}
  /\ call' = Heard(r, v)
  /\ UNCHANGED <<row, registry, redo, restore, granted, runs>>

-----------------------------------------------------------------------------
(* PermissionManager.handleResponse, of a click or of "Allow always". A       *)
(* request that is not registered is answered by nothing.                     *)
AnswerLive(r, grant) ==
  /\ registry[r] = "live"
  /\ registry' = [registry EXCEPT ![r] = "no"]
  /\ call' = [call EXCEPT ![r] = IF grant THEN "granting" ELSE "denied"]
  /\ writes' = IF grant THEN writes \cup {<<r, "running">>} ELSE writes
  /\ granted' = IF grant THEN granted \cup {r} ELSE granted
  /\ UNCHANGED <<row, redo, restore, runs, faults>>

AnswerRestored(r, s, grant) ==
  /\ registry[r] = s
  /\ registry' = [registry EXCEPT ![r] = "no"]
  /\ redo' = redo \cup {<<r, s, IF grant THEN "granted" ELSE "denied">>}
  /\ granted' = IF grant THEN granted \cup {r} ELSE granted
  /\ UNCHANGED <<row, writes, call, restore, runs, faults>>

(* enforcePermissionPolicy goes on: the turn may have been stopped while the  *)
(* user decided, or access revoked, and then nothing is run.                  *)
RunTool(r) ==
  /\ call[r] = "granted"
  /\ \/ /\ call' = [call EXCEPT ![r] = "running"]
        /\ runs' = [runs EXCEPT ![r] = @ + 1]
     \/ /\ call' = [call EXCEPT ![r] = "denied"]
        /\ UNCHANGED runs
  /\ UNCHANGED <<row, writes, registry, redo, restore, granted, faults>>

(* handleToolResult, and the last status of the message: none is written for  *)
(* a call that another turn's streaming state tracks.                         *)
CallEnds(r) ==
  /\ call[r] \in {"denied", "running"}
  /\ call' = [call EXCEPT ![r] = "over"]
  /\ \/ writes' = writes \cup {<<r, "done">>}
     \/ UNCHANGED writes
  /\ UNCHANGED <<row, registry, redo, restore, granted, runs, faults>>

(* executeRestoredTool: no turn is left to return the result to. *)
RedoRuns(r, s) ==
  /\ <<r, s, "granted">> \in redo
  /\ redo' = (redo \ {<<r, s, "granted">>}) \cup {<<r, s, "ending">>}
  /\ row' = [row EXCEPT ![r] = "running"]
  /\ runs' = [runs EXCEPT ![r] = @ + 1]
  /\ UNCHANGED <<writes, registry, call, restore, granted, faults>>

(* The result is written, or that it was denied, or could not be run. *)
RedoEnds(r, s) ==
  \E step \in {"granted", "denied", "ending"} :
    /\ <<r, s, step>> \in redo
    /\ redo' = redo \ {<<r, s, step>>}
    /\ row' = [row EXCEPT ![r] = "done"]
    /\ UNCHANGED <<writes, registry, call, restore, granted, runs, faults>>

-----------------------------------------------------------------------------
(* restorePendingApprovals: the waiting messages are read, and then looked at *)
(* one by one, each with a pause between the test and the registration.       *)
RestoreReads(s) ==
  /\ restore[s].step = "new"
  /\ restore' = [restore EXCEPT ![s] = Pass("check", {r \in Requests : row[r] = "waiting"})]
  /\ UNCHANGED <<row, writes, registry, call, redo, granted, runs, faults>>

RestoreChecks(s, r) ==
  /\ restore[s].step = "check" /\ r \in restore[s].todo
  /\ restore' = [restore EXCEPT ![s].step = "register", ![s].todo = @ \ {r}, ![s].at = {r},
                                ![s].known = (registry[r] # "no")]
  /\ UNCHANGED <<row, writes, registry, call, redo, granted, runs, faults>>

(* Mutant: the entry is written whether or not there is one. *)
RestoreRegistersAll(s, r) ==
  /\ restore[s].step = "register" /\ r \in restore[s].at
  /\ registry' = [registry EXCEPT ![r] = s]
  /\ restore' = [restore EXCEPT ![s].step = "check", ![s].at = {}, ![s].known = FALSE]
  /\ UNCHANGED <<row, writes, call, redo, granted, runs, faults>>

RestoreRegisters(s, r) ==
  /\ restore[s].step = "register" /\ r \in restore[s].at
  /\ registry' = IF restore[s].known THEN registry ELSE [registry EXCEPT ![r] = s]
  /\ restore' = [restore EXCEPT ![s].step = "check", ![s].at = {}, ![s].known = FALSE]
  /\ UNCHANGED <<row, writes, call, redo, granted, runs, faults>>

(* Mutant: a tool that is gone ends the loop. *)
RestoreDiscardsAll(s, r) ==
  /\ restore[s].step = "register" /\ r \in restore[s].at /\ ~restore[s].known
  /\ row' = [row EXCEPT ![r] = "done"]
  /\ restore' = [restore EXCEPT ![s].step = "check", ![s].at = {}, ![s].known = FALSE, ![s].todo = {}]
  /\ UNCHANGED <<writes, registry, call, redo, granted, runs, faults>>

(* The tool is gone, or its app did not answer just now. When that cannot be  *)
(* written the message goes on waiting, and is no longer counted as found.    *)
RestoreDiscards(s, r) ==
  /\ restore[s].step = "register" /\ r \in restore[s].at /\ ~restore[s].known
  /\ \/ /\ row' = [row EXCEPT ![r] = "done"]
        /\ restore' = [restore EXCEPT ![s].step = "check", ![s].at = {}, ![s].known = FALSE]
        /\ UNCHANGED faults
     \/ /\ Fault
        /\ restore' = [restore EXCEPT ![s].step = "check", ![s].at = {}, ![s].known = FALSE,
                                      ![s].found = @ \ {r}]
        /\ UNCHANGED row
  /\ UNCHANGED <<writes, registry, call, redo, granted, runs>>

RestoreEnds(s) ==
  /\ restore[s].step = "check" /\ restore[s].todo = {}
  /\ restore' = [restore EXCEPT ![s] = Pass("over", {})]
  /\ UNCHANGED <<row, writes, registry, call, redo, granted, runs, faults>>

(* The process dies: only the messages are left. *)
Crash ==
  /\ Fault
  /\ writes' = {} /\ redo' = {}
  /\ registry' = [r \in Requests |-> "no"]
  /\ call' = [r \in Requests |-> IF call[r] \in {"new", "over"} THEN call[r] ELSE "lost"]
  /\ restore' = [s \in Subscribers |->
                  Pass(IF restore[s].step = "new" THEN "new" ELSE "over", {})]
  /\ UNCHANGED <<row, granted, runs>>

-----------------------------------------------------------------------------
CallStep(r) ==
  \/ Ask(r) \/ AskUnanchored(r) \/ AskFails(r)
  \/ \E v \in Rows : WriteApplied(r, v) \/ WriteFails(r, v)
  \/ RunTool(r) \/ CallEnds(r)

AnswerStep(r) ==
  \/ \E grant \in BOOLEAN : AnswerLive(r, grant)
  \/ \E s \in Subscribers :
       \/ \E grant \in BOOLEAN : AnswerRestored(r, s, grant)
       \/ RedoRuns(r, s) \/ RedoEnds(r, s)

RestoreStep(s) ==
  \/ RestoreReads(s) \/ RestoreEnds(s)
  \/ \E r \in Requests :
       RestoreChecks(s, r) \/ RestoreRegisters(s, r) \/ RestoreDiscards(s, r)

Next ==
  \/ \E r \in Requests : CallStep(r) \/ AnswerStep(r)
  \/ \E s \in Subscribers : RestoreStep(s)
  \/ Crash

Spec == Init /\ [][Next]_vars

-----------------------------------------------------------------------------
(* A tool that asks is run only when the user has granted this very request,  *)
(* whatever failed, was stopped, restored or answered twice meanwhile.        *)
OnlyGrantedRuns == \A r \in Requests : runs[r] > 0 => r \in granted

(* No executor waits for an answer that can no longer reach it: "handleResponse *)
(* resolves the ORIGINAL promise" (websocket-handler.ts:785), also after other *)
(* sessions have restored the request meanwhile.                              *)
WaiterIsRegistered ==
  \A r \in Requests : call[r] = "asking" <=> registry[r] = "live"

(* A subscription makes answerable what a crash has left waiting: all of what *)
(* it found, unless that was answered meanwhile or its tool is gone.          *)
RestoreCovers ==
  [][\A s \in Subscribers : RestoreEnds(s) =>
       \A r \in restore[s].found :
         call[r] = "lost" /\ row[r] = "waiting" =>
           registry[r] # "no" \/ \E e \in redo : e[1] = r]_vars

-----------------------------------------------------------------------------
(* What the repository says and the code does not keep *)

(* "duplicate handleResponse calls return isResolved=true without side        *)
(* effects": no tool is run twice for one request.                            *)
RunsOnce == \A r \in Requests : runs[r] <= 1
=============================================================================
