--------------------------- MODULE ChannelWorker ---------------------------
(***************************************************************************)
(* core/src/conversation/ChannelWorker.ts: the single-writer prompt queue  *)
(* of one channel.  Everything between two awaits of the JavaScript runs   *)
(* as one step; the steps of a worker's run loop are                       *)
(*                                                                         *)
(*   none --Enqueue--> turn --TurnSettles--> turn | exiting                *)
(*   turn --SettledListenerThrows--> crashed --LoopCatch--> exiting        *)
(*   a cohort taken and StartedListenerThrows: crashed instead of turn     *)
(*   exiting --LoopFinally--> none                                         *)
(*                                                                         *)
(* "exiting" is the stretch of microtasks between the loop's last test of  *)
(* the queue and the .finally that resets this.runLoop.                    *)
(*                                                                         *)
(* Item ids grow in arrival order, so a set of ids stands for the array    *)
(* that holds them in FIFO order.                                          *)
(***************************************************************************)
EXTENDS Naturals

CONSTANTS
  Workers,                  \* worker incarnations
  MaxItems,                 \* bound: prompts enqueued in a behaviour
  EnqueueWhileExiting,      \* may a caller's continuation enqueue in the exit microtasks?
  StartedListenerMayThrow,  \* may an item.started listener throw?
  SettledListenerMayThrow   \* may an item.settled listener throw?

ASSUME WorkerAssumption ==
  /\ MaxItems \in Nat
  /\ EnqueueWhileExiting \in BOOLEAN
  /\ StartedListenerMayThrow \in BOOLEAN
  /\ SettledListenerMayThrow \in BOOLEAN

VARIABLES
  last,           \* id of the newest item enqueued so far
  status,         \* the completion promise of each item
  started,        \* items whose startedPromise has resolved
  callerAborted,  \* items whose callerSignal has aborted
  stranded,       \* history: items taken off the queue for a turn that never began
  queue,          \* this.queue
  batch,          \* the cohort processQueue is driving
  current,        \* this.currentItem (NoItem is null); its AbortController lives as long
  abortReason,    \* why currentItemAC was aborted
  lifecycle,      \* this.lifecycle
  loop,           \* how far this.runLoop is ("none": null)
  idleTimer       \* is the idle timer armed?

itemVars   == <<last, status, started, callerAborted, stranded>>
loopVars   == <<batch, current, abortReason, loop>>
vars == <<last, status, started, callerAborted, stranded, queue, batch, current,
          abortReason, lifecycle, loop, idleTimer>>

Items  == 1 .. MaxItems
NoItem == 0

Lifecycles == {"idle", "running", "draining", "shutdown"}
Closed     == {"draining", "shutdown"}
LoopStates == {"none", "turn", "crashed", "exiting"}
Reasons    == {"none", "stop", "caller", "shutdown"}
Settled    == {"done", "failed", "cancelled"}

TypeOK ==
  /\ last \in 0 .. MaxItems
  /\ status \in [Items -> {"new", "pending"} \cup Settled]
  /\ started \in SUBSET Items
  /\ callerAborted \in SUBSET Items
  /\ stranded \in SUBSET Items
  /\ queue \in [Workers -> SUBSET Items]
  /\ batch \in [Workers -> SUBSET Items]
  /\ current \in [Workers -> Items \cup {NoItem}]
  /\ abortReason \in [Workers -> Reasons]
  /\ lifecycle \in [Workers -> Lifecycles]
  /\ loop \in [Workers -> LoopStates]
  /\ idleTimer \in [Workers -> BOOLEAN]

Init ==
  /\ last = 0
  /\ status = [i \in Items |-> "new"]
  /\ started = {}
  /\ callerAborted = {}
  /\ stranded = {}
  /\ queue = [w \in Workers |-> {}]
  /\ batch = [w \in Workers |-> {}]
  /\ current = [w \in Workers |-> NoItem]
  /\ abortReason = [w \in Workers |-> "none"]
  /\ lifecycle = [w \in Workers |-> "idle"]
  /\ loop = [w \in Workers |-> "none"]
  /\ idleTimer = [w \in Workers |-> FALSE]

-----------------------------------------------------------------------------
(* The completion promises of the items in S settle as r. *)
Settle(S, r) == [i \in Items |-> IF i \in S THEN r ELSE status[i]]

(* Mutants: the loop takes the newest item and leaves the rest; it keeps the *)
(* AbortController of the turn before.                                       *)
StartTurnLifo(w, backlog) ==
  /\ \E lastItem \in backlog :
       /\ \A i \in backlog : i <= lastItem
       /\ current' = [current EXCEPT ![w] = lastItem]
       /\ batch' = [batch EXCEPT ![w] = {lastItem}]
       /\ queue' = [queue EXCEPT ![w] = backlog \ {lastItem}]
       /\ started' = started \cup {lastItem}
  /\ UNCHANGED stranded
  /\ abortReason' = [abortReason EXCEPT
                       ![w] = IF backlog \cap callerAborted # {} THEN "caller" ELSE "none"]
  /\ loop' = [loop EXCEPT ![w] = "turn"]

StartTurnOldController(w, backlog) ==
  /\ queue' = [queue EXCEPT ![w] = {}]
  /\ batch' = [batch EXCEPT ![w] = backlog]
  /\ started' = started \cup backlog
  /\ \E lastItem \in backlog :
       /\ \A i \in backlog : i <= lastItem
       /\ current' = [current EXCEPT ![w] = lastItem]
  /\ loop' = [loop EXCEPT ![w] = "turn"]
  /\ UNCHANGED <<abortReason, stranded>>

(* The listeners hear of every prompt of the cohort and its turn begins; a   *)
(* signal that is aborted already aborts it.                                 *)
CohortRuns(w, cohort) ==
  /\ batch' = [batch EXCEPT ![w] = cohort]
  /\ started' = started \cup cohort
  /\ abortReason' = [abortReason EXCEPT
                       ![w] = IF cohort \cap callerAborted # {} THEN "caller" ELSE "none"]
  /\ loop' = [loop EXCEPT ![w] = "turn"]
  /\ UNCHANGED stranded

(* A listener of item.started throws at one of them, outside the try: the   *)
(* loop is rejected and nothing holds the cohort any longer.                *)
StartedListenerThrows(w, cohort) ==
  /\ StartedListenerMayThrow
  /\ \E heard \in cohort : started' = started \cup {i \in cohort : i <= heard}
  /\ batch' = [batch EXCEPT ![w] = {}]
  /\ abortReason' = [abortReason EXCEPT ![w] = "none"]
  /\ loop' = [loop EXCEPT ![w] = "crashed"]
  /\ stranded' = stranded \cup cohort

(* One pass of the loop up to its await: the whole backlog becomes one turn *)
(* driven by its last item.                                                 *)
StartTurn(w, backlog) ==
  /\ queue' = [queue EXCEPT ![w] = {}]
  /\ \E lastItem \in backlog :
       /\ \A i \in backlog : i <= lastItem
       /\ current' = [current EXCEPT ![w] = lastItem]
  /\ CohortRuns(w, backlog) \/ StartedListenerThrows(w, backlog)

(* Mutants: the purge forgets to reject; it drops the oldest item only. *)
PurgeQueueNoReject(w) ==
  /\ queue' = [queue EXCEPT ![w] = {}]
  /\ started' = started \cup queue[w]
  /\ UNCHANGED status

PurgeQueueOldestOnly(w) ==
  LET oldest == {i \in queue[w] : \A j \in queue[w] : i <= j} IN
  /\ queue' = [queue EXCEPT ![w] = @ \ oldest]
  /\ status' = Settle(oldest, "cancelled")
  /\ started' = started \cup oldest

(* purgeQueue: everything waiting is rejected; its awaitStart resolves too. *)
PurgeQueue(w) ==
  /\ queue' = [queue EXCEPT ![w] = {}]
  /\ status' = Settle(queue[w], "cancelled")
  /\ started' = started \cup queue[w]

(* currentItemAC.abort(reason); a controller aborts once. *)
AbortCurrent(w, reason) ==
  abortReason' = [abortReason EXCEPT
                    ![w] = IF current[w] # NoItem /\ @ = "none" THEN reason ELSE @]

-----------------------------------------------------------------------------
(* Mutant: ensureRunning starts a second loop over a live one. *)
EnqueueSecondLoop(w) ==
  LET item == last + 1 IN
  /\ last < MaxItems
  /\ lifecycle[w] \notin Closed
  /\ last' = item
  /\ status' = [status EXCEPT ![item] = "pending"]
  /\ idleTimer' = [idleTimer EXCEPT ![w] = FALSE]
  /\ lifecycle' = [lifecycle EXCEPT ![w] = "running"]
  /\ StartTurn(w, queue[w] \cup {item})
  /\ UNCHANGED callerAborted

(* enqueue + ensureRunning: accepted unless the worker is closed; pulled at *)
(* once when no loop runs, otherwise left to the loop.                      *)
Enqueue(w) ==
  LET item == last + 1 IN
  /\ last < MaxItems
  /\ lifecycle[w] \notin Closed
  /\ loop[w] \in {"crashed", "exiting"} => EnqueueWhileExiting
  /\ last' = item
  /\ status' = [status EXCEPT ![item] = "pending"]
  /\ idleTimer' = [idleTimer EXCEPT ![w] = FALSE]
  /\ \/ /\ loop[w] = "none"
        /\ lifecycle' = [lifecycle EXCEPT ![w] = "running"]
        /\ StartTurn(w, queue[w] \cup {item})
     \/ /\ loop[w] # "none"
        /\ queue' = [queue EXCEPT ![w] = @ \cup {item}]
        /\ UNCHANGED <<lifecycle, started, stranded>>
        /\ UNCHANGED loopVars
  /\ UNCHANGED callerAborted

(* The caller's own signal aborts: a turn that took the item is linked to it. *)
CallerAborts(i) ==
  /\ status[i] = "pending"
  /\ callerAborted' = callerAborted \cup {i}
  /\ abortReason' = [w \in Workers |->
                       IF i \in batch[w] /\ abortReason[w] = "none"
                         THEN "caller" ELSE abortReason[w]]
  /\ UNCHANGED <<last, status, started, stranded, queue, batch, current, lifecycle, loop,
                 idleTimer>>

(* abort({kind}): soft stops the turn, hard also purges the backlog. *)
Abort(w, kind) ==
  /\ AbortCurrent(w, "stop")
  /\ IF kind = "hard" THEN PurgeQueue(w) ELSE UNCHANGED <<queue, status, started>>
  /\ UNCHANGED <<last, callerAborted, stranded, batch, current, lifecycle, loop, idleTimer>>

ClearQueue(w) ==
  /\ PurgeQueue(w)
  /\ UNCHANGED <<last, callerAborted, stranded, lifecycle, idleTimer>>
  /\ UNCHANGED loopVars

(* Mutant: the drain does not wait for the run loop. *)
ShutdownDrainAtOnce(w) ==
  /\ lifecycle[w] \notin Closed
  /\ lifecycle' = [lifecycle EXCEPT ![w] = "shutdown"]
  /\ idleTimer' = [idleTimer EXCEPT ![w] = FALSE]
  /\ UNCHANGED <<queue>>
  /\ UNCHANGED itemVars
  /\ UNCHANGED loopVars

(* shutdown({drain: true}) up to its await of the run loop. *)
ShutdownDrain(w) ==
  /\ lifecycle[w] \notin Closed
  /\ lifecycle' = [lifecycle EXCEPT ![w] = IF loop[w] = "none" THEN "shutdown" ELSE "draining"]
  /\ idleTimer' = [idleTimer EXCEPT ![w] = FALSE]
  /\ UNCHANGED <<queue>>
  /\ UNCHANGED itemVars
  /\ UNCHANGED loopVars

(* ... and after it. *)
DrainEnds(w) ==
  /\ lifecycle[w] = "draining" /\ loop[w] = "none"
  /\ lifecycle' = [lifecycle EXCEPT ![w] = "shutdown"]
  /\ UNCHANGED <<queue, idleTimer>>
  /\ UNCHANGED itemVars
  /\ UNCHANGED loopVars

(* shutdown({drain: false}): purge, abort the turn, let the loop run out. *)
(* timers: the idle timers the step spends, the worker's own among them.  *)
Close(w, timers) ==
  /\ lifecycle[w] \notin Closed
  /\ lifecycle' = [lifecycle EXCEPT ![w] = "shutdown"]
  /\ PurgeQueue(w)
  /\ AbortCurrent(w, "shutdown")
  /\ idleTimer' = [v \in Workers |-> idleTimer[v] /\ v \notin timers]
  /\ UNCHANGED <<last, callerAborted, stranded, batch, current, loop>>

ShutdownNow(w) == Close(w, {w})

(* Mutant: one pass, "if" for "while". *)
TurnSettlesOnePass(w, r) ==
  /\ loop[w] = "turn"
  /\ status' = Settle(batch[w], r)
  /\ batch' = [batch EXCEPT ![w] = {}]
  /\ current' = [current EXCEPT ![w] = NoItem]
  /\ abortReason' = [abortReason EXCEPT ![w] = "none"]
  /\ loop' = [loop EXCEPT ![w] = "exiting"]
  /\ UNCHANGED <<last, started, callerAborted, stranded, queue, lifecycle, idleTimer>>

(* runTurn settles: its cohort settles with it, then the loop tests the queue. *)
TurnSettles(w, r) ==
  /\ loop[w] = "turn"
  /\ status' = Settle(batch[w], r)
  /\ \/ /\ queue[w] # {} /\ lifecycle[w] # "shutdown"
        /\ StartTurn(w, queue[w])
     \/ /\ queue[w] = {} \/ lifecycle[w] = "shutdown"
        /\ batch' = [batch EXCEPT ![w] = {}]
        /\ current' = [current EXCEPT ![w] = NoItem]
        /\ abortReason' = [abortReason EXCEPT ![w] = "none"]
        /\ loop' = [loop EXCEPT ![w] = "exiting"]
        /\ UNCHANGED <<queue, started, stranded>>
  /\ UNCHANGED <<last, callerAborted, lifecycle, idleTimer>>

(* Mutant: currentItem is cleared before the listeners run. *)
SettledListenerThrowsLate(w, r) ==
  /\ SettledListenerMayThrow
  /\ loop[w] = "turn"
  /\ status' = Settle(batch[w], r)
  /\ batch' = [batch EXCEPT ![w] = {}]
  /\ current' = [current EXCEPT ![w] = NoItem]
  /\ abortReason' = [abortReason EXCEPT ![w] = "none"]
  /\ loop' = [loop EXCEPT ![w] = "crashed"]
  /\ UNCHANGED <<last, started, callerAborted, stranded, queue, lifecycle, idleTimer>>

(* ... or an item.settled listener throws out of the finally block, before *)
(* currentItem and currentItemAC are cleared.                              *)
SettledListenerThrows(w, r) ==
  /\ SettledListenerMayThrow
  /\ loop[w] = "turn"
  /\ status' = Settle(batch[w], r)
  /\ batch' = [batch EXCEPT ![w] = {}]
  /\ loop' = [loop EXCEPT ![w] = "crashed"]
  /\ UNCHANGED <<last, started, callerAborted, stranded, queue, current, abortReason,
                 lifecycle, idleTimer>>

(* .catch: emits 'fatal'. *)
LoopCatch(w) ==
  /\ loop[w] = "crashed"
  /\ loop' = [loop EXCEPT ![w] = "exiting"]
  /\ UNCHANGED <<queue, batch, current, abortReason, lifecycle, idleTimer>>
  /\ UNCHANGED itemVars

(* Mutants: the loop's end forgets to reset runLoop; it goes idle whatever   *)
(* the lifecycle was.                                                        *)
LoopFinallyKeepsLoop(w) ==
  /\ loop[w] = "exiting" /\ lifecycle[w] = "running"
  /\ lifecycle' = [lifecycle EXCEPT ![w] = "idle"]
  /\ idleTimer' = [idleTimer EXCEPT ![w] = TRUE]
  /\ UNCHANGED <<queue, batch, current, abortReason, loop>>
  /\ UNCHANGED itemVars

LoopFinallyAlwaysIdle(w) ==
  /\ loop[w] = "exiting"
  /\ loop' = [loop EXCEPT ![w] = "none"]
  /\ lifecycle' = [lifecycle EXCEPT ![w] = "idle"]
  /\ idleTimer' = [idleTimer EXCEPT ![w] = TRUE]
  /\ UNCHANGED <<queue, batch, current, abortReason>>
  /\ UNCHANGED itemVars

(* .finally: runLoop = null; a worker still running goes idle and arms its timer. *)
LoopFinally(w) ==
  /\ loop[w] = "exiting"
  /\ loop' = [loop EXCEPT ![w] = "none"]
  /\ IF lifecycle[w] = "running"
       THEN /\ lifecycle' = [lifecycle EXCEPT ![w] = "idle"]
            /\ idleTimer' = [idleTimer EXCEPT ![w] = TRUE]
       ELSE UNCHANGED <<lifecycle, idleTimer>>
  /\ UNCHANGED <<queue, batch, current, abortReason>>
  /\ UNCHANGED itemVars

(* The idle timer's own test, when it fires. *)
AtRest(w) == lifecycle[w] = "idle" /\ queue[w] = {} /\ current[w] = NoItem

IdleTimerSpent(w) ==
  /\ idleTimer[w] /\ ~AtRest(w)
  /\ idleTimer' = [idleTimer EXCEPT ![w] = FALSE]
  /\ UNCHANGED <<queue, lifecycle>>
  /\ UNCHANGED itemVars
  /\ UNCHANGED loopVars

(* onIdleTimeout: the owner closes the worker (registry.close, no drain). *)
IdleTimerCloses(w) == idleTimer[w] /\ AtRest(w) /\ ShutdownNow(w)

-----------------------------------------------------------------------------
(* What the run loop does on its own. *)
LoopStep(w) ==
  \/ \E r \in {"done", "failed"} : TurnSettles(w, r)
  \/ \E r \in {"done", "failed"} : SettledListenerThrows(w, r)
  \/ LoopCatch(w)
  \/ LoopFinally(w)
  \/ DrainEnds(w)

(* What callers and timers do to it. *)
CallerStep(w) ==
  \/ Enqueue(w)
  \/ \E kind \in {"soft", "hard"} : Abort(w, kind)
  \/ ClearQueue(w)
  \/ ShutdownDrain(w)
  \/ ShutdownNow(w)
  \/ IdleTimerSpent(w)
  \/ IdleTimerCloses(w)

Next ==
  \/ \E w \in Workers : LoopStep(w) \/ CallerStep(w)
  \/ \E i \in Items : CallerAborts(i)

Spec == Init /\ [][Next]_vars

(* The event loop runs every queued microtask, and every turn ends: runTurn *)
(* is raced against a deadline (TurnDriver.ts, withOperationTimeout).       *)
FairSpec == Spec /\ \A w \in Workers : WF_vars(LoopStep(w))

-----------------------------------------------------------------------------
(* Every pending prompt is held by one worker, in its backlog or in its      *)
(* cohort, and a settled one by none: no purge, abort or shutdown loses a    *)
(* caller's promise or settles it while it can still run, nor does a         *)
(* listener of item.settled that throws.  The one way out is a listener of   *)
(* item.started that throws: it takes the cohort of its turn, whole, and     *)
(* those prompts are never settled, run or queued again.                     *)
ItemsAccounted ==
  /\ \A i \in Items :
       status[i] = "pending" <=>
         i \in stranded \/ \E w \in Workers : i \in queue[w] \cup batch[w]
  /\ \A w \in Workers :
       /\ queue[w] \cap batch[w] = {}
       /\ stranded \cap (queue[w] \cup batch[w]) = {}
  /\ \A v, w \in Workers :
       v # w => (queue[v] \cup batch[v]) \cap (queue[w] \cup batch[w]) = {}

(* awaitStart has resolved for every item that left a queue, by being run or *)
(* by being purged, and for no other: a caller awaiting it hangs no longer   *)
(* than that, unless its cohort is stranded.                                 *)
StartedIffLeftQueue ==
  \A i \in Items :
    LET leftQueue == status[i] # "new" /\ \A w \in Workers : i \notin queue[w] IN
    /\ i \in started => leftQueue
    /\ leftQueue /\ i \notin stranded => i \in started

(* FIFO: whatever runs is older than whatever waits behind it. *)
NoOvertaking ==
  \A w \in Workers : \A i \in batch[w], j \in queue[w] : i < j

(* A turn runs under a live loop, with the input of one of its own prompts. *)
TurnOwnsLoop ==
  \A w \in Workers :
    /\ loop[w] = "turn" <=> batch[w] # {}
    /\ loop[w] = "turn" => current[w] \in batch[w]
    /\ lifecycle[w] = "idle" => loop[w] = "none"

(* A backlog waits only behind a turn that will hand over to it.  It holds   *)
(* when nothing enqueues during the exit microtasks and no listener throws.  *)
BacklogAttended ==
  \A w \in Workers : queue[w] # {} => loop[w] = "turn"

(* ShutdownOptions.drain: "Wait for current and queued items to settle       *)
(* before resolving": a worker that finished closing holds no prompt.        *)
ClosedHoldsNothing ==
  \A w \in Workers :
    lifecycle[w] = "shutdown" /\ loop[w] = "none" => queue[w] \cup batch[w] = {}

(* A closed worker never takes a turn, a prompt or a life again. *)
ClosedForGood ==
  [][\A w \in Workers : lifecycle[w] = "shutdown" =>
       /\ lifecycle'[w] = "shutdown"
       /\ queue'[w] \subseteq queue[w] /\ batch'[w] \subseteq batch[w]]_vars

(* Stopping a turn never touches the prompts of the next one: a turn that    *)
(* begins is aborted only if one of its own callers had given up.            *)
FreshTurnNotAborted ==
  [][\A w \in Workers :
       batch'[w] \notin {{}, batch[w]} /\ abortReason'[w] # "none" =>
         \E i \in batch'[w] : i \in callerAborted]_vars

(* Every prompt the worker accepted is answered, whatever is stopped, purged *)
(* or shut down meanwhile.                                                   *)
EveryPromptSettles ==
  \A i \in Items : status[i] = "pending" ~> status[i] \in Settled

(* A drain ends. *)
DrainCompletes ==
  \A w \in Workers : lifecycle[w] = "draining" ~> lifecycle[w] = "shutdown"

(* The worker is a prompt queue: the promises are what PromptQueue settles, *)
(* and a stranded cohort is what it may lose.                               *)
Abstract == INSTANCE PromptQueue WITH
  Queues  <- Workers,
  Prompts <- Items,
  MayLose <- StartedListenerMayThrow,
  waiting <- queue,
  running <- batch,
  settled <- {i \in Items : status[i] \in Settled},
  lost    <- stranded

RefinesPromptQueue == Abstract!Spec
=============================================================================
