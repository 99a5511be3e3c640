---------------------------- MODULE UsageEvents ----------------------------
(***************************************************************************)
(* The metering of turns: backend/src/services/usage-event-buffer.ts,      *)
(* which carries the events of a turn to Mongo or to the dead-letter file, *)
(* and agent-usage-event-applier.ts, which projects them on one document   *)
(* per session, with the reconciler and the replay script that write       *)
(* beside it.                                                              *)
(***************************************************************************)
EXTENDS Naturals, Sequences, Functions

CONSTANTS
  Sessions,       \* turns that are metered
  NoSession,
  Parent,         \* the turn that delegated a session, or NoSession
  Scripts,        \* choices of the types of event each session emits (a bound)
  DirectWriters,  \* how many events may bypass the queue at a time (a bound)
  MaxBatch,       \* opts.maxBatchSize
  MaxQueue,       \* opts.maxQueueDepth
  RetryAttempts,  \* opts.retryMaxAttempts
  MaxFaults       \* how often an operation fails or the process dies, for each
                  \* choice of events (a bound)

Types == {"started", "running", "toolStarted", "toolEnded", "delta", "ended"}

ASSUME UsageAssumption ==
  /\ NoSession \notin Sessions
  /\ Parent \in [Sessions -> Sessions \cup {NoSession}]
  /\ Scripts \subseteq [Sessions -> SUBSET Types]
  /\ DirectWriters \cap {"flush", "replay"} = {}
  /\ MaxBatch \in Nat \ {0} /\ MaxQueue \in Nat \ {0}
  /\ RetryAttempts \in Nat \ {0} /\ MaxFaults \in [Scripts -> Nat]

Events == [session: Sessions, type: Types]
Ev(s, k) == [session |-> s, type |-> k]

(* The transitions a saturated queue lets through. *)
Critical == {"started", "running"}

(* Whoever inserts and applies events: the flush loop, the direct writes and *)
(* scripts/replay-usage-deadletter.ts.                                       *)
Writers == {"flush", "replay"} \cup DirectWriters
Jobs == [events: Seq(Events), tries: Nat,
         step: {"idle", "insert", "claim", "apply", "count", "propagate", "bury", "rename"}]
Idle == [events |-> <<>>, step |-> "idle", tries |-> 0]

VARIABLES
  script,      \* the choice of this behaviour
  emitted,     \* events the turns have handed to emit
  live,        \* sessions whose turn has not died with its process
  up,          \* is the process running?
  closing,     \* how far shutdown has got
  queue,       \* UsageEventBuffer.queue
  job,         \* what each writer has in hand: flushing is job["flush"] # Idle
  accepted,    \* history: events this process answers for
  lost,        \* history: events whose dead letter could not be written
  forgotten,   \* history: events without a record that nothing was logged of
  detoured,    \* history: sessions with an event that left its place in the order
  store,       \* agent_usage_events
  claimed,     \* agent_usage_event_applications
  deadLetter,  \* lines of the dead-letter files
  processed,   \* lines of the files the replay has renamed
  status,      \* agent_usage_sessions.status, "none" without a document
  tokens,      \* how often a session's delta is counted in its document
  propagated,  \* how often a session's counters are added to its parent's
  passedOn,    \* the tokens added with them
  tool,        \* tool_executions.status of the session's tool call
  toolErrors,  \* agent_usage_sessions.toolErrorCount
  faults

bufferVars == <<emitted, live, up, closing, queue, accepted>>
historyVars == <<lost, forgotten, detoured>>
storeVars == <<store, claimed, deadLetter, processed>>
projection == <<status, tokens, propagated, passedOn, tool, toolErrors>>
vars == <<script, bufferVars, historyVars, job, storeVars, projection, faults>>

UsageTypeOK ==
  /\ script \in Scripts
  /\ emitted \in SUBSET Events /\ accepted \in SUBSET Events
  /\ live \in SUBSET Sessions /\ detoured \in SUBSET Sessions
  /\ up \in BOOLEAN
  /\ closing \in {"open", "flushing", "flushed", "timedOut", "aside", "killed"}
  /\ queue \in Seq(Events)
  /\ job \in [Writers -> Jobs]
  /\ store \in SUBSET Events /\ claimed \in SUBSET Events
  /\ lost \in SUBSET Events /\ forgotten \in SUBSET Events
  /\ deadLetter \in Seq(Events) /\ processed \in SUBSET Events
  /\ status \in [Sessions -> {"none", "queued", "running", "ended", "timedOut"}]
  /\ tokens \in [Sessions -> Nat] /\ propagated \in [Sessions -> Nat]
  /\ passedOn \in [Sessions -> Nat] /\ toolErrors \in [Sessions -> Nat]
  /\ tool \in [Sessions -> {"none", "running", "error", "aborted"}]
  /\ faults \in Nat

Init ==
  /\ script \in Scripts
  /\ emitted = {} /\ accepted = {} /\ lost = {} /\ forgotten = {} /\ detoured = {}
  /\ live = Sessions
  /\ up = TRUE
  /\ closing = "open"
  /\ queue = <<>>
  /\ job = [w \in Writers |-> Idle]
  /\ store = {} /\ claimed = {} /\ deadLetter = <<>> /\ processed = {}
  /\ status = [s \in Sessions |-> "none"]
  /\ tool = [s \in Sessions |-> "none"]
  /\ tokens = [s \in Sessions |-> 0] /\ propagated = [s \in Sessions |-> 0]
  /\ passedOn = [s \in Sessions |-> 0] /\ toolErrors = [s \in Sessions |-> 0]
  /\ faults = 0

-----------------------------------------------------------------------------
(* The turn (message-handler, AgentUsageSessionService, tool-execution-      *)
(* service): start, markRunning when the worker takes it up, its tool calls, *)
(* end in a finally, and one delta that nobody awaits, before the end or     *)
(* after it.                                                                 *)
MayEmit(s, k) ==
  LET did(x) == Ev(s, x) \in emitted IN
  /\ s \in live /\ k \in script[s] /\ ~did(k)
  /\ CASE k = "started"     -> \/ Parent[s] = NoSession
                               \/ /\ Ev(Parent[s], "running") \in emitted
                                  /\ Ev(Parent[s], "ended") \notin emitted
       [] k = "running"     -> did("started") /\ ~did("ended")
       [] k = "toolStarted" -> did("running") /\ ~did("ended")
       [] k = "toolEnded"   -> did("toolStarted") /\ ~did("ended")
       [] k = "delta"       -> did("running")
       [] k = "ended"       -> did("started")

(* What a flush takes out of the queue; after shutdown has begun each batch   *)
(* has one attempt.                                                           *)
Batch(q) == [events |-> SubSeq(q, 1, IF Len(q) < MaxBatch THEN Len(q) ELSE MaxBatch),
             step   |-> "insert",
             tries  |-> IF closing = "open" THEN RetryAttempts ELSE 1]
AfterBatch(q) == SubSeq(q, MaxBatch + 1, Len(q))

(* emit: after shutdown has begun the event is dropped and counted. *)
EmitAfterShutdown(e) ==
  /\ closing # "open"
  /\ UNCHANGED <<queue, job, accepted, detoured>>

(* A full queue: a critical event is written directly, any other is dropped. *)
EmitSaturated(e) ==
  /\ closing = "open"
  /\ Len(queue) >= MaxQueue
  /\ \/ /\ e.type \in Critical
        /\ \E w \in DirectWriters :
             /\ job[w] = Idle
             /\ job' = [job EXCEPT ![w] = [events |-> <<e>>, step |-> "insert", tries |-> 1]]
        /\ accepted' = accepted \cup {e}
     \/ /\ e.type \notin Critical
        /\ UNCHANGED <<job, accepted>>
  /\ detoured' = detoured \cup {e.session}
  /\ UNCHANGED queue

(* Mutant: the newest event is put first. *)
EmitQueuedFirst(e) ==
  LET q == <<e>> \o queue IN
  /\ closing = "open"
  /\ Len(queue) < MaxQueue
  /\ accepted' = accepted \cup {e}
  /\ IF Len(q) >= MaxBatch /\ job["flush"] = Idle
       THEN /\ job' = [job EXCEPT !["flush"] = Batch(q)]
            /\ queue' = AfterBatch(q)
       ELSE /\ queue' = q
            /\ UNCHANGED job
  /\ UNCHANGED detoured

(* Otherwise it is queued; a queue as long as a batch starts a flush. *)
EmitQueued(e) ==
  LET q == Append(queue, e) IN
  /\ closing = "open"
  /\ Len(queue) < MaxQueue
  /\ accepted' = accepted \cup {e}
  /\ IF Len(q) >= MaxBatch /\ job["flush"] = Idle
       THEN /\ job' = [job EXCEPT !["flush"] = Batch(q)]
            /\ queue' = AfterBatch(q)
       ELSE /\ queue' = q
            /\ UNCHANGED job
  /\ UNCHANGED detoured

Emit(s, k) ==
  /\ up /\ MayEmit(s, k)
  /\ emitted' = emitted \cup {Ev(s, k)}
  /\ \/ EmitAfterShutdown(Ev(s, k))
     \/ EmitSaturated(Ev(s, k))
     \/ EmitQueued(Ev(s, k))
  /\ UNCHANGED <<live, up, closing, lost, forgotten, storeVars, projection, faults>>

(* The interval's flush(); it returns when another is at work. *)
FlushTimer ==
  /\ up /\ closing = "open"
  /\ job["flush"] = Idle /\ queue # <<>>
  /\ job' = [job EXCEPT !["flush"] = Batch(queue)]
  /\ queue' = AfterBatch(queue)
  /\ UNCHANGED <<emitted, live, up, closing, accepted, historyVars, storeVars, projection, faults>>

-----------------------------------------------------------------------------
Fault == faults < MaxFaults[script] /\ faults' = faults + 1

(* Mutant: `flushing` is not reset when the loop has ended. *)
JobDoneStuck(w) ==
  /\ job' = [job EXCEPT ![w].step = IF w = "replay" THEN "rename" ELSE "idle"]
  /\ UNCHANGED <<emitted, live, up, closing, queue, accepted>>

(* What w does when it has settled its events: the flush loop takes the next *)
(* batch in the same microtask, the replay has its file to rename.           *)
JobDone(w) ==
  /\ \/ /\ w = "flush" /\ queue # <<>>
        /\ job' = [job EXCEPT ![w] = Batch(queue)]
        /\ queue' = AfterBatch(queue)
        /\ UNCHANGED closing
     \/ /\ w = "flush" /\ queue = <<>>
        /\ job' = [job EXCEPT ![w] = Idle]
        /\ closing' = IF closing = "flushing" THEN "flushed" ELSE closing
        /\ UNCHANGED queue
     \/ /\ w = "replay"
        /\ job' = [job EXCEPT ![w].step = "rename"]
        /\ UNCHANGED <<queue, closing>>
     \/ /\ w \in DirectWriters
        /\ job' = [job EXCEPT ![w] = Idle]
        /\ UNCHANGED <<queue, closing>>
  /\ UNCHANGED <<emitted, live, up, accepted>>

NextEvent(w) ==
  \/ /\ Len(job[w].events) > 1
     /\ job' = [job EXCEPT ![w].events = Tail(@), ![w].step = "claim"]
     /\ UNCHANGED bufferVars
  \/ /\ Len(job[w].events) = 1
     /\ JobDone(w)

(* repo.bulkInsert: unordered, and what is there already is not an error. *)
Insert(w) ==
  /\ job[w].step = "insert"
  /\ store' = store \cup Range(job[w].events)
  /\ job' = [job EXCEPT ![w].step = "claim"]
  /\ UNCHANGED <<bufferVars, historyVars, claimed, deadLetter, processed, projection, faults>>

(* Mutant: a batch that failed for the last time is let go. *)
InsertFailsForGood(w) ==
  /\ job[w].step = "insert"
  /\ Fault
  /\ \E some \in SUBSET Range(job[w].events) : store' = store \cup some
  /\ \/ w = "replay" /\ job' = [job EXCEPT ![w] = Idle] /\ UNCHANGED bufferVars
     \/ w # "replay" /\ job[w].tries > 1 /\ job' = [job EXCEPT ![w].tries = @ - 1]
                     /\ UNCHANGED bufferVars
     \/ w # "replay" /\ job[w].tries <= 1 /\ JobDone(w)
  /\ UNCHANGED <<historyVars, claimed, deadLetter, processed, projection>>

(* It throws, with some of the events inserted. The flush retries, then the  *)
(* batch goes to the dead letters, as a direct write does at once; the       *)
(* replay script ends and leaves its file.                                   *)
InsertFails(w) ==
  /\ job[w].step = "insert"
  /\ Fault
  /\ \E some \in SUBSET Range(job[w].events) : store' = store \cup some
  /\ \/ w = "replay" /\ job' = [job EXCEPT ![w] = Idle]
     \/ w # "replay" /\ job[w].tries > 1 /\ job' = [job EXCEPT ![w].tries = @ - 1]
     \/ w # "replay" /\ job[w].tries <= 1 /\ job' = [job EXCEPT ![w].step = "bury"]
  /\ UNCHANGED <<bufferVars, historyVars, claimed, deadLetter, processed, projection>>

(* A bulk error that names no operation (the connection is lost, a write      *)
(* concern not met): "every" error of none is a duplicate, so that bulkInsert *)
(* returns, whatever has been inserted.                                       *)
InsertSwallowed(w) ==
  /\ job[w].step = "insert"
  /\ Fault
  /\ \E some \in SUBSET Range(job[w].events) : store' = store \cup some
  /\ forgotten' = forgotten \cup (Range(job[w].events) \ (store' \cup Range(deadLetter)))
  /\ job' = [job EXCEPT ![w].step = "claim"]
  /\ UNCHANGED <<bufferVars, lost, detoured, claimed, deadLetter, processed, projection>>

(* deadLetter.write; its own failure is logged and the events are given up. *)
Bury(w) ==
  /\ job[w].step = "bury"
  /\ \/ deadLetter' = deadLetter \o job[w].events /\ UNCHANGED lost
     \/ lost' = lost \cup Range(job[w].events) /\ UNCHANGED deadLetter
  /\ detoured' = detoured \cup {e.session : e \in Range(job[w].events)}
  /\ JobDone(w)
  /\ UNCHANGED <<forgotten, store, claimed, processed, projection, faults>>

(* Mutant: the claim is not unique. *)
ClaimAgain(w) ==
  /\ job[w].step = "claim"
  /\ claimed' = claimed \cup {Head(job[w].events)}
  /\ job' = [job EXCEPT ![w].step = "apply"]
  /\ UNCHANGED <<bufferVars, historyVars, store, deadLetter, processed, projection, faults>>

(* applyBatch, one event after the other: tryClaim inserts the event's id,   *)
(* and an event whose id is there is skipped.                                *)
Claim(w) ==
  LET e == Head(job[w].events) IN
  /\ job[w].step = "claim"
  /\ \/ /\ e \notin claimed
        /\ claimed' = claimed \cup {e}
        /\ job' = [job EXCEPT ![w].step = "apply"]
        /\ UNCHANGED bufferVars
     \/ /\ e \in claimed
        /\ NextEvent(w)
        /\ UNCHANGED claimed
  /\ UNCHANGED <<historyVars, store, deadLetter, processed, projection, faults>>

(* An operation of applyBatch throws: it is logged, and the event stays as   *)
(* it is, claimed or not, stored and not applied.                            *)
ApplyFails(w) ==
  /\ job[w].step \in {"claim", "apply", "count", "propagate"}
  /\ Fault
  /\ NextEvent(w)
  /\ detoured' = detoured \cup {Head(job[w].events).session}
  /\ UNCHANGED <<lost, forgotten, storeVars, projection>>

(* onSessionStarted: the document is inserted once. *)
ApplyStarted(s) ==
  /\ status' = [status EXCEPT ![s] = IF @ = "none" THEN "queued" ELSE @]
  /\ UNCHANGED <<tokens, propagated, passedOn, tool, toolErrors>>

(* Mutant: without the filter on the status. *)
ApplyRunningAlways(s) ==
  /\ status' = [status EXCEPT ![s] = IF @ = "none" THEN @ ELSE "running"]
  /\ UNCHANGED <<tokens, propagated, passedOn, tool, toolErrors>>

(* onSessionRunning updates a queued session only. *)
ApplyRunning(s) ==
  /\ status' = [status EXCEPT ![s] = IF @ = "queued" THEN "running" ELSE @]
  /\ UNCHANGED <<tokens, propagated, passedOn, tool, toolErrors>>

(* onSessionDelta: $inc whatever the status, if there is a document. *)
ApplyDelta(s) ==
  /\ tokens' = [tokens EXCEPT ![s] = IF status[s] = "none" THEN @ ELSE @ + 1]
  /\ UNCHANGED <<status, propagated, passedOn, tool, toolErrors>>

ApplyToolStarted(s) ==
  /\ tool' = [tool EXCEPT ![s] = IF @ = "none" THEN "running" ELSE @]
  /\ UNCHANGED <<status, tokens, propagated, passedOn, toolErrors>>

(* onToolEnded's first update, of a failed call: only an open one is closed. *)
ApplyToolEnded(s) ==
  /\ tool' = [tool EXCEPT ![s] = IF @ = "running" THEN "error" ELSE @]
  /\ UNCHANGED <<status, tokens, propagated, passedOn, toolErrors>>

(* onSessionEnded's first update: only a session that is open is closed. *)
Matched(s) == status[s] \in {"queued", "running"}
ApplyEnded(s) ==
  /\ status' = [status EXCEPT ![s] = IF Matched(s) THEN "ended" ELSE @]
  /\ UNCHANGED <<tokens, propagated, passedOn, tool, toolErrors>>

ApplyOne(e) ==
  \/ e.type = "started"     /\ ApplyStarted(e.session)
  \/ e.type = "running"     /\ ApplyRunning(e.session)
  \/ e.type = "delta"       /\ ApplyDelta(e.session)
  \/ e.type = "toolStarted" /\ ApplyToolStarted(e.session)
  \/ e.type = "toolEnded"   /\ ApplyToolEnded(e.session)
  \/ e.type = "ended"       /\ ApplyEnded(e.session)

(* What is left to do when the first update of an event has closed something. *)
FollowUp(e) ==
  CASE e.type = "ended" /\ Matched(e.session) /\ Parent[e.session] # NoSession -> "propagate"
    [] e.type = "toolEnded" /\ tool[e.session] = "running" -> "count"
    [] OTHER -> "none"

Apply(w) ==
  LET e == Head(job[w].events) IN
  /\ job[w].step = "apply"
  /\ ApplyOne(e)
  /\ IF FollowUp(e) # "none"
       THEN /\ job' = [job EXCEPT ![w].step = FollowUp(e)]
            /\ UNCHANGED bufferVars
       ELSE NextEvent(w)
  /\ UNCHANGED <<historyVars, storeVars, faults>>

(* The rest of onToolEnded: the error is counted in the session, if it is there. *)
Count(w) ==
  LET s == Head(job[w].events).session IN
  /\ job[w].step = "count"
  /\ toolErrors' = [toolErrors EXCEPT ![s] = IF status[s] # "none" THEN @ + 1 ELSE @]
  /\ NextEvent(w)
  /\ UNCHANGED <<historyVars, storeVars, status, tokens, propagated, passedOn, tool, faults>>

(* The rest of onSessionEnded: the child's counters, read now, are added to  *)
(* the parent's document if there is one.                                    *)
Propagate(w) ==
  LET s == Head(job[w].events).session
      found == status[Parent[s]] # "none"
  IN
  /\ job[w].step = "propagate"
  /\ propagated' = [propagated EXCEPT ![s] = IF found THEN @ + 1 ELSE @]
  /\ passedOn' = [passedOn EXCEPT ![s] = IF found THEN @ + tokens[s] ELSE @]
  /\ NextEvent(w)
  /\ UNCHANGED <<historyVars, storeVars, status, tokens, tool, toolErrors, faults>>

WriterStep(w) ==
  \/ Insert(w) \/ InsertFails(w) \/ InsertSwallowed(w) \/ Bury(w)
  \/ Claim(w) \/ ApplyFails(w) \/ Apply(w) \/ Count(w) \/ Propagate(w)

(* The replay script reads the dead letters there are. *)
ReplayStarts ==
  /\ job["replay"] = Idle /\ deadLetter # <<>>
  /\ job' = [job EXCEPT !["replay"] = [events |-> deadLetter, step |-> "insert", tries |-> 1]]
  /\ UNCHANGED <<bufferVars, historyVars, storeVars, projection, faults>>

(* It renames the file, with the lines appended since it was read.  The       *)
(* writer keeps its path until it rotates, and creates the file again: a      *)
(* second renaming then replaces the file of the first.                       *)
ReplayRenames ==
  /\ job["replay"].step = "rename"
  /\ job' = [job EXCEPT !["replay"] = Idle]
  /\ \/ /\ processed' = processed \cup Range(deadLetter)
        /\ UNCHANGED forgotten
     \/ /\ processed' = Range(deadLetter)
        /\ forgotten' = forgotten \cup (processed \ (store \cup Range(deadLetter)))
  /\ deadLetter' = <<>>
  /\ UNCHANGED <<bufferVars, lost, detoured, store, claimed, projection, faults>>

(* It dies: its file keeps its name, and its lines are read again. *)
ReplayStops ==
  /\ job["replay"] # Idle
  /\ job' = [job EXCEPT !["replay"] = Idle]
  /\ UNCHANGED <<bufferVars, historyVars, storeVars, projection, faults>>

(* AgentUsageReconciler closes a session or a tool call that has been open   *)
(* for too long. Its cursor is read before, but the update's filter names    *)
(* the status read, and no session returns to it: reading and writing are    *)
(* one step. It touches no other counter.                                    *)
ReconcileSession(s) ==
  /\ status[s] \in {"queued", "running"}
  /\ status' = [status EXCEPT ![s] = "timedOut"]
  /\ UNCHANGED <<bufferVars, historyVars, job, storeVars, tokens, propagated, passedOn,
                 tool, toolErrors, faults>>

ReconcileTool(s) ==
  /\ tool[s] = "running"
  /\ tool' = [tool EXCEPT ![s] = "aborted"]
  /\ UNCHANGED <<bufferVars, historyVars, job, storeVars, status, tokens, propagated,
                 passedOn, toolErrors, faults>>

-----------------------------------------------------------------------------
(* Mutant: shutdown does not wait for the flush it starts. *)
BeginShutdownHasty ==
  /\ up /\ closing = "open"
  /\ closing' = IF job["flush"] # Idle THEN "aside" ELSE "flushed"
  /\ IF job["flush"] # Idle \/ queue = <<>>
       THEN UNCHANGED <<job, queue>>
       ELSE /\ job' = [job EXCEPT !["flush"] = [Batch(queue) EXCEPT !.tries = 1]]
            /\ queue' = AfterBatch(queue)
  /\ UNCHANGED <<emitted, live, up, accepted, historyVars, storeVars, projection, faults>>

(* shutdown: flush() returns at once when another is at work, or when there  *)
(* is nothing to do, and shutdown then takes it for finished.                *)
BeginShutdown ==
  /\ up /\ closing = "open"
  /\ IF job["flush"] # Idle
       THEN closing' = "aside" /\ UNCHANGED <<job, queue>>
       ELSE IF queue = <<>>
       THEN closing' = "flushed" /\ UNCHANGED <<job, queue>>
       ELSE /\ closing' = "flushing"
            /\ job' = [job EXCEPT !["flush"] = [Batch(queue) EXCEPT !.tries = 1]]
            /\ queue' = AfterBatch(queue)
  /\ UNCHANGED <<emitted, live, up, accepted, historyVars, storeVars, projection, faults>>

(* Its budget runs out: what is queued goes to the dead letters. *)
ShutdownTimeout ==
  /\ up /\ closing = "flushing"
  /\ closing' = "timedOut"
  /\ queue' = <<>>
  /\ detoured' = detoured \cup {e.session : e \in Range(queue)}
  /\ \/ deadLetter' = deadLetter \o queue /\ UNCHANGED lost
     \/ lost' = lost \cup Range(queue) /\ UNCHANGED deadLetter
  /\ UNCHANGED <<forgotten, emitted, live, up, accepted, job, store, claimed, processed, projection, faults>>

(* The process is gone, and with it the turns, the queue and what the        *)
(* writers of the process had in hand. The replay is a process of its own.   *)
ProcessGone ==
  /\ up' = FALSE
  /\ live' = {s \in live : Ev(s, "started") \notin emitted}
  /\ queue' = <<>>
  /\ job' = [w \in Writers |-> IF w = "replay" THEN job[w] ELSE Idle]
  /\ detoured' = detoured \cup {e.session : e \in accepted \ claimed}
                          \cup {e.session : e \in {Head(job[w].events) :
                                  w \in {v \in Writers \ {"replay"} : job[v] # Idle}}}
  /\ UNCHANGED <<emitted, lost, forgotten, storeVars, projection>>

(* gracefulShutdown goes on when shutdown has returned, to process.exit. *)
ProcessExit ==
  /\ up /\ closing \in {"flushed", "timedOut", "aside"}
  /\ ProcessGone
  /\ UNCHANGED <<closing, accepted, faults>>

Crash ==
  /\ up /\ Fault
  /\ ProcessGone
  /\ closing' = "killed"
  /\ UNCHANGED accepted

Restart ==
  /\ ~up
  /\ up' = TRUE
  /\ closing' = "open"
  /\ accepted' = {}
  /\ UNCHANGED <<emitted, live, queue, historyVars, job, storeVars, projection, faults>>

Next ==
  /\ UNCHANGED script
  /\ \/ \E s \in Sessions, k \in Types : Emit(s, k)
     \/ FlushTimer
     \/ \E w \in Writers : WriterStep(w)
     \/ ReplayStarts \/ ReplayRenames \/ ReplayStops
     \/ \E s \in Sessions : ReconcileSession(s) \/ ReconcileTool(s)
     \/ BeginShutdown \/ ShutdownTimeout \/ ProcessExit \/ Crash \/ Restart

Spec == Init /\ [][Next]_vars

(* The interval fires, and every operation of the flush loop answers. *)
FairSpec ==
  /\ Spec
  /\ WF_vars(FlushTimer /\ UNCHANGED script)
  /\ WF_vars(WriterStep("flush") /\ UNCHANGED script)

-----------------------------------------------------------------------------
InHand == Range(queue) \cup UNION {Range(job[w].events) : w \in Writers \ {"replay"}}
Durable == store \cup Range(deadLetter) \cup processed

(* tryClaim "makes this exactly-once": whatever is retried, written twice,   *)
(* replayed or cut off by a crash, no delta, tool error or descendant is     *)
(* counted twice, and a parent is never given tokens its child does not have.*)
CountedOnce ==
  \A s \in Sessions :
    /\ tokens[s] <= 1 /\ toolErrors[s] <= 1 /\ propagated[s] <= 1
    /\ passedOn[s] <= tokens[s]

(* "the event survives in some durable sink": an event the buffer has taken  *)
(* is in memory, in Mongo or in a dead-letter file, or the failure to write  *)
(* that file has been logged, but for the two ways the code has of losing it *)
(* without a word: an insertion whose failure bulkInsert takes for           *)
(* duplicates, and a file of dead letters renamed over an earlier one.       *)
NothingVanishes == up => accepted \subseteq InHand \cup Durable \cup lost \cup forgotten

(* A shutdown that waited for its flush and was not out of time has left     *)
(* nothing behind in memory but direct writes, which it does not await: what *)
(* is recorded nowhere was not lost by the shutdown, but by those two.       *)
Kept(e) == e \in Durable \cup lost \cup forgotten \/ (e.type \in Critical /\ e.session \in detoured)
CleanExitKeeps == closing = "flushed" => \A e \in accepted : Kept(e)

(* As long as the events of a session keep their order (none bypassed the    *)
(* queue, was buried, failed to apply or died with the process), the status  *)
(* of its document is what the events applied say, or the reconciler's.      *)
Applying(e) == \E w \in Writers : job[w].step = "apply" /\ Head(job[w].events) = e
Applied(s, k) == Ev(s, k) \in claimed /\ ~Applying(Ev(s, k))
StatusFollowsEvents ==
  \A s \in Sessions \ detoured :
    status[s] # "timedOut" =>
      status[s] = (CASE Applied(s, "ended")   -> "ended"
                     [] Applied(s, "running") /\ ~Applied(s, "ended") -> "running"
                     [] Applied(s, "started") /\ ~Applied(s, "running") /\ ~Applied(s, "ended") -> "queued"
                     [] OTHER -> "none")

(* "a session already closed by the reconciler is never revived", nor does   *)
(* the reconciler overwrite a clean close.                                   *)
ClosedForGood ==
  [][\A s \in Sessions : status[s] \in {"ended", "timedOut"} => status'[s] = status[s]]_vars

(* Every queued event reaches Mongo or the dead letters, unless its process   *)
(* dies: no failure stops the flush loop, also after shutdown has looked away.*)
QueueDrains ==
  (queue # <<>> \/ job["flush"] # Idle) ~> ((queue = <<>> /\ job["flush"] = Idle) \/ ~up)
=============================================================================
