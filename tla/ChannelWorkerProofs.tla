------------------------ MODULE ChannelWorkerProofs ------------------------
(***************************************************************************)
(* Theorems about ChannelWorker, for any set of workers, any number of     *)
(* prompts and both values of its three environment switches.              *)
(*                                                                         *)
(* The safety invariants are not inductive one by one: that nothing is in  *)
(* two places needs the ids to be handed out in order, and that a settled  *)
(* cohort is really gone needs to know that a cohort exists exactly while  *)
(* its turn runs.  IInv puts the parts together.                           *)
(***************************************************************************)
EXTENDS ChannelWorker, TLAPS

(* Ids are handed out in order: an item is new exactly above the last id. *)
IdsInOrder ==
  \A i \in Items : status[i] = "new" <=> i > last

IInv ==
  /\ TypeOK
  /\ IdsInOrder
  /\ ItemsAccounted
  /\ StartedIffLeftQueue
  /\ NoOvertaking
  /\ TurnOwnsLoop

-----------------------------------------------------------------------------
(* What the helpers of the actions do, worker by worker and item by item. *)

LEMMA PurgeFacts ==
  ASSUME TypeOK, NEW w \in Workers, PurgeQueue(w)
  PROVE  /\ queue' \in [Workers -> SUBSET Items]
         /\ queue'[w] = {}
         /\ \A v \in Workers \ {w} : queue'[v] = queue[v]
         /\ status' \in [Items -> {"new", "pending"} \cup Settled]
         /\ \A i \in queue[w] : status'[i] = "cancelled"
         /\ \A i \in Items \ queue[w] : status'[i] = status[i]
         /\ started' = started \cup queue[w]
BY DEF TypeOK, PurgeQueue, Settle, Settled

LEMMA AbortFacts ==
  ASSUME TypeOK, NEW w \in Workers, NEW reason \in Reasons, AbortCurrent(w, reason)
  PROVE  abortReason' \in [Workers -> Reasons]
BY DEF TypeOK, AbortCurrent

LEMMA SettleFacts ==
  ASSUME TypeOK, NEW S \in SUBSET Items, NEW r \in Settled, status' = Settle(S, r)
  PROVE  /\ status' \in [Items -> {"new", "pending"} \cup Settled]
         /\ \A i \in S : status'[i] = r
         /\ \A i \in Items \ S : status'[i] = status[i]
BY DEF TypeOK, Settle, Settled

(* What a pass of the loop over a backlog shows: its turn begins, or a       *)
(* listener throws and the backlog is stranded.                              *)
StartShows(w, backlog) ==
  /\ queue' \in [Workers -> SUBSET Items]
  /\ batch' \in [Workers -> SUBSET Items]
  /\ current' \in [Workers -> Items \cup {NoItem}]
  /\ abortReason' \in [Workers -> Reasons]
  /\ loop' \in [Workers -> LoopStates]
  /\ started' \in SUBSET Items /\ stranded' \in SUBSET Items
  /\ started \subseteq started' /\ started' \subseteq started \cup backlog
  /\ queue'[w] = {} /\ current'[w] \in backlog
  /\ \/ /\ loop'[w] = "turn" /\ batch'[w] = backlog
        /\ backlog \subseteq started' /\ stranded' = stranded
     \/ /\ StartedListenerMayThrow
        /\ loop'[w] = "crashed" /\ batch'[w] = {}
        /\ stranded' = stranded \cup backlog
  /\ \A v \in Workers \ {w} :
       /\ queue'[v] = queue[v] /\ batch'[v] = batch[v]
       /\ current'[v] = current[v] /\ loop'[v] = loop[v]

LEMMA StartFacts ==
  ASSUME TypeOK, NEW w \in Workers, NEW backlog \in SUBSET Items, StartTurn(w, backlog)
  PROVE  StartShows(w, backlog)
<1>1. CASE CohortRuns(w, backlog)
  BY <1>1 DEF StartShows, TypeOK, StartTurn, CohortRuns, Reasons, LoopStates
<1>2. CASE StartedListenerThrows(w, backlog)
  BY <1>2 DEF StartShows, TypeOK, StartTurn, StartedListenerThrows, Reasons, LoopStates
<1>. QED  BY <1>1, <1>2 DEF StartTurn

-----------------------------------------------------------------------------
(* Each action keeps the invariant. *)

LEMMA EnqueueKeeps ==
  ASSUME IInv, NEW w \in Workers, Enqueue(w)
  PROVE  IInv'
<1>. DEFINE item == last + 1
<1>. USE DEF IInv
<1>1. item \in Items /\ last' = item /\ last' \in 0 .. MaxItems
  BY WorkerAssumption DEF Enqueue, TypeOK, Items
<1>2. /\ status' \in [Items -> {"new", "pending"} \cup Settled]
      /\ status'[item] = "pending"
      /\ \A i \in Items \ {item} : status'[i] = status[i]
  BY <1>1 DEF Enqueue, TypeOK
<1>3. /\ status[item] = "new"
      /\ item \notin started \cup stranded
      /\ \A v \in Workers : item \notin queue[v] \cup batch[v]
  BY <1>1 DEF TypeOK, IdsInOrder, ItemsAccounted, StartedIffLeftQueue
<1>4. \A v \in Workers : \A i \in queue[v] \cup batch[v] : i \in Items /\ i < item
  BY <1>1 DEF TypeOK, IdsInOrder, ItemsAccounted, Items
<1>5. IdsInOrder'
  BY <1>1, <1>2 DEF IdsInOrder, TypeOK, Items
<1>6. CASE loop[w] = "none"
  <2>. DEFINE backlog == queue[w] \cup {item}
  <2>1. /\ StartTurn(w, backlog) /\ lifecycle' = [lifecycle EXCEPT ![w] = "running"]
        /\ idleTimer' = [idleTimer EXCEPT ![w] = FALSE] /\ callerAborted' = callerAborted
    BY <1>6 DEF Enqueue
  <2>2. backlog \in SUBSET Items
    BY <1>1 DEF TypeOK
  <2>. HIDE DEF backlog
  <2>3. StartShows(w, backlog)
    BY <2>1, <2>2, StartFacts
  <2>4. TypeOK'
    BY <1>1, <1>2, <2>1, <2>2, <2>3 DEF TypeOK, Lifecycles, StartShows
  <2>5. batch[w] = {}
    BY <1>6 DEF TurnOwnsLoop
  <2>6. ItemsAccounted'
    BY <1>1, <1>2, <1>3, <2>3, <2>5 DEF ItemsAccounted, backlog, StartShows
  <2>7. StartedIffLeftQueue'
    BY <1>1, <1>2, <1>3, <2>3, <2>5 DEF StartedIffLeftQueue, ItemsAccounted, backlog, StartShows
  <2>8. NoOvertaking'
    BY <2>3 DEF NoOvertaking, StartShows
  <2>9. TurnOwnsLoop'
    BY <2>1, <2>3, <1>1 DEF TurnOwnsLoop, TypeOK, backlog, StartShows
  <2>. QED  BY <1>5, <2>4, <2>6, <2>7, <2>8, <2>9
<1>7. CASE loop[w] # "none"
  <2>1. /\ queue' = [queue EXCEPT ![w] = @ \cup {item}]
        /\ UNCHANGED <<lifecycle, started, stranded, batch, current, abortReason, loop, callerAborted>>
        /\ idleTimer' = [idleTimer EXCEPT ![w] = FALSE]
    BY <1>7 DEF Enqueue, loopVars
  <2>2. /\ queue' \in [Workers -> SUBSET Items]
        /\ queue'[w] = queue[w] \cup {item}
        /\ \A v \in Workers \ {w} : queue'[v] = queue[v]
    BY <1>1, <2>1 DEF TypeOK
  <2>3. TypeOK'
    BY <1>1, <1>2, <2>1, <2>2 DEF TypeOK
  <2>4. ItemsAccounted'
    BY <1>1, <1>2, <1>3, <2>1, <2>2 DEF ItemsAccounted
  <2>5. StartedIffLeftQueue'
    BY <1>1, <1>2, <1>3, <2>1, <2>2 DEF StartedIffLeftQueue
  <2>6. NoOvertaking'
    BY <1>4, <2>1, <2>2 DEF NoOvertaking
  <2>7. TurnOwnsLoop'
    BY <2>1 DEF TurnOwnsLoop
  <2>. QED  BY <1>5, <2>3, <2>4, <2>5, <2>6, <2>7
<1>. QED  BY <1>6, <1>7

LEMMA CallerAbortsKeeps ==
  ASSUME IInv, NEW i \in Items, CallerAborts(i)
  PROVE  IInv'
<1>. USE DEF IInv, CallerAborts
<1>1. TypeOK'
  BY DEF TypeOK, Reasons
<1>. QED
  BY <1>1 DEF IdsInOrder, ItemsAccounted, StartedIffLeftQueue, NoOvertaking, TurnOwnsLoop

(* A purge, whatever else the step does to lifecycle, timers and signals. *)
LEMMA PurgeKeeps ==
  ASSUME IInv, NEW w \in Workers, PurgeQueue(w), UNCHANGED <<last, stranded, batch, current, loop>>,
         callerAborted' \in SUBSET Items, abortReason' \in [Workers -> Reasons],
         lifecycle' \in [Workers -> Lifecycles], idleTimer' \in [Workers -> BOOLEAN],
         \A v \in Workers : lifecycle'[v] = "idle" => lifecycle[v] = "idle"
  PROVE  IInv'
<1>. USE DEF IInv
<1>1. /\ queue' \in [Workers -> SUBSET Items]
      /\ queue'[w] = {}
      /\ \A v \in Workers \ {w} : queue'[v] = queue[v]
      /\ status' \in [Items -> {"new", "pending"} \cup Settled]
      /\ \A i \in queue[w] : status'[i] = "cancelled"
      /\ \A i \in Items \ queue[w] : status'[i] = status[i]
      /\ started' = started \cup queue[w]
  BY PurgeFacts
<1>2. TypeOK'
  BY <1>1 DEF TypeOK
<1>3. \A i \in queue[w] : i \in Items /\ status[i] = "pending"
  BY DEF TypeOK, ItemsAccounted
<1>4. IdsInOrder'
  BY <1>1, <1>3 DEF IdsInOrder
<1>5. ItemsAccounted'
  BY <1>1, <1>3 DEF ItemsAccounted
<1>6. StartedIffLeftQueue'
  BY <1>1, <1>3 DEF StartedIffLeftQueue, ItemsAccounted
<1>7. NoOvertaking'
  BY <1>1 DEF NoOvertaking
<1>8. TurnOwnsLoop'
  BY DEF TurnOwnsLoop
<1>. QED  BY <1>2, <1>4, <1>5, <1>6, <1>7, <1>8

LEMMA AbortKeeps ==
  ASSUME IInv, NEW w \in Workers, NEW kind \in {"soft", "hard"}, Abort(w, kind)
  PROVE  IInv'
<1>1. abortReason' \in [Workers -> Reasons]
  BY AbortFacts DEF IInv, Abort, Reasons
<1>2. CASE kind = "hard"
  BY <1>1, <1>2, PurgeKeeps DEF Abort, IInv, TypeOK
<1>3. CASE kind = "soft"
  <2>1. UNCHANGED <<last, status, started, callerAborted, stranded, queue, batch, current,
                   lifecycle, loop, idleTimer>>
    BY <1>3 DEF Abort
  <2>. QED
    BY <1>1, <2>1 DEF IInv, TypeOK, IdsInOrder, ItemsAccounted, StartedIffLeftQueue,
                      NoOvertaking, TurnOwnsLoop
<1>. QED  BY <1>2, <1>3

LEMMA ClearQueueKeeps ==
  ASSUME IInv, NEW w \in Workers, ClearQueue(w)
  PROVE  IInv'
BY PurgeKeeps DEF ClearQueue, loopVars, IInv, TypeOK

LEMMA CloseKeeps ==
  ASSUME IInv, NEW w \in Workers, NEW timers, Close(w, timers)
  PROVE  IInv'
<1>1. abortReason' \in [Workers -> Reasons]
  BY AbortFacts DEF IInv, Close, Reasons
<1>2. /\ lifecycle' \in [Workers -> Lifecycles]
      /\ idleTimer' \in [Workers -> BOOLEAN]
      /\ \A v \in Workers : lifecycle'[v] = "idle" => lifecycle[v] = "idle"
  BY DEF IInv, TypeOK, Close, Lifecycles
<1>. QED
  BY <1>1, <1>2, PurgeKeeps DEF Close, IInv, TypeOK

(* The steps that only move the worker's lifecycle, its loop outside a turn, *)
(* or its timer.                                                             *)
LEMMA LifecycleKeeps ==
  ASSUME IInv, NEW w \in Workers, UNCHANGED itemVars,
         UNCHANGED <<queue, batch, current, abortReason>>,
         loop' \in [Workers -> LoopStates],
         lifecycle' \in [Workers -> Lifecycles], idleTimer' \in [Workers -> BOOLEAN],
         \A v \in Workers : loop'[v] = "turn" <=> loop[v] = "turn",
         \A v \in Workers : lifecycle'[v] = "idle" => loop'[v] = "none"
  PROVE  IInv'
<1>. USE DEF IInv, itemVars
<1>1. TypeOK'
  BY DEF TypeOK
<1>2. TurnOwnsLoop'
  BY DEF TurnOwnsLoop
<1>. QED
  BY <1>1, <1>2 DEF IdsInOrder, ItemsAccounted, StartedIffLeftQueue, NoOvertaking

LEMMA ShutdownDrainKeeps ==
  ASSUME IInv, NEW w \in Workers, ShutdownDrain(w)
  PROVE  IInv'
<1>1. /\ lifecycle' \in [Workers -> Lifecycles] /\ idleTimer' \in [Workers -> BOOLEAN]
      /\ \A v \in Workers : lifecycle'[v] = "idle" => lifecycle[v] = "idle"
  BY DEF IInv, TypeOK, ShutdownDrain, Lifecycles
<1>. QED
  BY <1>1, LifecycleKeeps DEF IInv, TypeOK, TurnOwnsLoop, ShutdownDrain, loopVars

LEMMA DrainEndsKeeps ==
  ASSUME IInv, NEW w \in Workers, DrainEnds(w)
  PROVE  IInv'
<1>1. /\ lifecycle' \in [Workers -> Lifecycles]
      /\ \A v \in Workers : lifecycle'[v] = "idle" => lifecycle[v] = "idle"
  BY DEF IInv, TypeOK, DrainEnds, Lifecycles
<1>. QED
  BY <1>1, LifecycleKeeps DEF IInv, TypeOK, TurnOwnsLoop, DrainEnds, loopVars

LEMMA LoopCatchKeeps ==
  ASSUME IInv, NEW w \in Workers, LoopCatch(w)
  PROVE  IInv'
<1>1. /\ loop' \in [Workers -> LoopStates]
      /\ \A v \in Workers : loop'[v] = "turn" <=> loop[v] = "turn"
      /\ \A v \in Workers : lifecycle[v] = "idle" => loop'[v] = "none"
  BY DEF IInv, TypeOK, TurnOwnsLoop, LoopCatch, LoopStates
<1>. QED
  BY <1>1, LifecycleKeeps DEF IInv, TypeOK, LoopCatch

LEMMA LoopFinallyKeeps ==
  ASSUME IInv, NEW w \in Workers, LoopFinally(w)
  PROVE  IInv'
<1>1. /\ loop' \in [Workers -> LoopStates] /\ loop'[w] = "none" /\ loop[w] = "exiting"
      /\ \A v \in Workers \ {w} : loop'[v] = loop[v]
  BY DEF IInv, TypeOK, LoopFinally, LoopStates
<1>2. /\ lifecycle' \in [Workers -> Lifecycles] /\ idleTimer' \in [Workers -> BOOLEAN]
      /\ \A v \in Workers \ {w} : lifecycle'[v] = lifecycle[v]
  <2>1. CASE lifecycle[w] = "running"
    BY <2>1 DEF IInv, TypeOK, LoopFinally, Lifecycles
  <2>2. CASE lifecycle[w] # "running"
    BY <2>2 DEF IInv, TypeOK, LoopFinally
  <2>. QED  BY <2>1, <2>2
<1>3. /\ \A v \in Workers : loop'[v] = "turn" <=> loop[v] = "turn"
      /\ \A v \in Workers : lifecycle'[v] = "idle" => loop'[v] = "none"
  BY <1>1, <1>2 DEF IInv, TurnOwnsLoop
<1>. QED
  BY <1>1, <1>2, <1>3, LifecycleKeeps DEF LoopFinally

LEMMA IdleTimerSpentKeeps ==
  ASSUME IInv, NEW w \in Workers, IdleTimerSpent(w)
  PROVE  IInv'
<1>1. idleTimer' \in [Workers -> BOOLEAN]
  BY DEF IInv, TypeOK, IdleTimerSpent
<1>. QED
  BY <1>1, LifecycleKeeps DEF IInv, TypeOK, TurnOwnsLoop, IdleTimerSpent, loopVars

(* The cohort of a turn that ends settles and is gone; what was waiting is   *)
(* untouched, or is the next cohort.                                         *)
LEMMA TurnSettlesKeeps ==
  ASSUME IInv, NEW w \in Workers, NEW r \in {"done", "failed"}, TurnSettles(w, r)
  PROVE  IInv'
<1>. USE DEF IInv
<1>1. /\ status' \in [Items -> {"new", "pending"} \cup Settled]
      /\ \A i \in batch[w] : status'[i] = r
      /\ \A i \in Items \ batch[w] : status'[i] = status[i]
  BY SettleFacts DEF TurnSettles, TypeOK, Settled
<1>2. \A i \in batch[w] \cup queue[w] : i \in Items /\ status[i] = "pending"
  BY DEF TypeOK, ItemsAccounted
<1>3. UNCHANGED <<last, callerAborted, lifecycle, idleTimer>> /\ loop[w] = "turn"
  BY DEF TurnSettles
<1>4. IdsInOrder'
  BY <1>1, <1>2, <1>3 DEF IdsInOrder
<1>5. CASE queue[w] # {} /\ lifecycle[w] # "shutdown"
  <2>1. StartTurn(w, queue[w]) /\ queue[w] \in SUBSET Items
    BY <1>5 DEF TurnSettles, TypeOK
  <2>2. StartShows(w, queue[w])
    BY <2>1, StartFacts
  <2>3. TypeOK'
    BY <1>1, <1>3, <2>1, <2>2 DEF TypeOK, StartShows
  <2>4. ItemsAccounted'
    BY <1>1, <1>2, <2>2 DEF ItemsAccounted, StartShows
  <2>5. StartedIffLeftQueue'
    BY <1>1, <1>2, <2>2 DEF StartedIffLeftQueue, ItemsAccounted, StartShows
  <2>6. NoOvertaking'
    BY <2>2 DEF NoOvertaking, StartShows
  <2>7. TurnOwnsLoop'
    BY <1>3, <1>5, <2>2 DEF TurnOwnsLoop, StartShows
  <2>. QED  BY <1>4, <2>3, <2>4, <2>5, <2>6, <2>7
<1>6. CASE queue[w] = {} \/ lifecycle[w] = "shutdown"
  <2>1. /\ batch' = [batch EXCEPT ![w] = {}]
        /\ current' = [current EXCEPT ![w] = NoItem]
        /\ abortReason' = [abortReason EXCEPT ![w] = "none"]
        /\ loop' = [loop EXCEPT ![w] = "exiting"]
        /\ UNCHANGED <<queue, started, stranded>>
    BY <1>6 DEF TurnSettles
  <2>2. TypeOK'
    BY <1>1, <1>3, <2>1 DEF TypeOK, Reasons, LoopStates
  <2>3. /\ batch'[w] = {} /\ loop'[w] = "exiting"
        /\ \A v \in Workers \ {w} :
             batch'[v] = batch[v] /\ loop'[v] = loop[v] /\ current'[v] = current[v]
    BY <2>1 DEF TypeOK
  <2>4. ItemsAccounted'
    BY <1>1, <1>2, <2>1, <2>3 DEF ItemsAccounted
  <2>5. StartedIffLeftQueue'
    BY <1>1, <1>2, <2>1 DEF StartedIffLeftQueue
  <2>6. NoOvertaking'
    BY <2>1, <2>3 DEF NoOvertaking
  <2>7. TurnOwnsLoop'
    BY <1>3, <2>3 DEF TurnOwnsLoop
  <2>. QED  BY <1>4, <2>2, <2>4, <2>5, <2>6, <2>7
<1>. QED  BY <1>5, <1>6

LEMMA SettledListenerThrowsKeeps ==
  ASSUME IInv, NEW w \in Workers, NEW r \in {"done", "failed"}, SettledListenerThrows(w, r)
  PROVE  IInv'
<1>. USE DEF IInv
<1>1. /\ status' \in [Items -> {"new", "pending"} \cup Settled]
      /\ \A i \in batch[w] : status'[i] = r
      /\ \A i \in Items \ batch[w] : status'[i] = status[i]
  BY SettleFacts DEF SettledListenerThrows, TypeOK, Settled
<1>2. \A i \in batch[w] : i \in Items /\ status[i] = "pending"
  BY DEF TypeOK, ItemsAccounted
<1>3. /\ loop[w] = "turn"
      /\ UNCHANGED <<last, started, callerAborted, stranded, queue, current, abortReason,
                     lifecycle, idleTimer>>
  BY DEF SettledListenerThrows
<1>4. /\ batch' \in [Workers -> SUBSET Items] /\ loop' \in [Workers -> LoopStates]
      /\ batch'[w] = {} /\ loop'[w] = "crashed"
      /\ \A v \in Workers \ {w} : batch'[v] = batch[v] /\ loop'[v] = loop[v]
  BY DEF SettledListenerThrows, TypeOK, LoopStates
<1>5. TypeOK'
  BY <1>1, <1>3, <1>4 DEF TypeOK
<1>6. IdsInOrder'
  BY <1>1, <1>2, <1>3 DEF IdsInOrder
<1>7. ItemsAccounted'
  BY <1>1, <1>2, <1>3, <1>4 DEF ItemsAccounted
<1>8. StartedIffLeftQueue'
  BY <1>1, <1>2, <1>3 DEF StartedIffLeftQueue
<1>9. NoOvertaking'
  BY <1>3, <1>4 DEF NoOvertaking
<1>10. TurnOwnsLoop'
  BY <1>3, <1>4 DEF TurnOwnsLoop
<1>. QED  BY <1>5, <1>6, <1>7, <1>8, <1>9, <1>10

-----------------------------------------------------------------------------
LEMMA InitIInv == Init => IInv
BY WorkerAssumption DEF Init, IInv, TypeOK, IdsInOrder, ItemsAccounted, StartedIffLeftQueue,
   NoOvertaking, TurnOwnsLoop, Items, NoItem, Settled, Reasons, LoopStates, Lifecycles

LEMMA NextKeepsIInv == IInv /\ [Next]_vars => IInv'
<1>. SUFFICES ASSUME IInv, [Next]_vars PROVE IInv'
  OBVIOUS
<1>1. CASE UNCHANGED vars
  BY <1>1 DEF IInv, vars, TypeOK, IdsInOrder, ItemsAccounted, StartedIffLeftQueue,
              NoOvertaking, TurnOwnsLoop
<1>2. ASSUME NEW w \in Workers, LoopStep(w) PROVE IInv'
  BY <1>2, TurnSettlesKeeps, SettledListenerThrowsKeeps, LoopCatchKeeps, LoopFinallyKeeps,
     DrainEndsKeeps DEF LoopStep
<1>3. ASSUME NEW w \in Workers, CallerStep(w) PROVE IInv'
  BY <1>3, EnqueueKeeps, AbortKeeps, ClearQueueKeeps, ShutdownDrainKeeps, CloseKeeps,
     IdleTimerSpentKeeps DEF CallerStep, ShutdownNow, IdleTimerCloses
<1>4. ASSUME NEW i \in Items, CallerAborts(i) PROVE IInv'
  BY <1>4, CallerAbortsKeeps
<1>. QED  BY <1>1, <1>2, <1>3, <1>4 DEF Next

(* The inductive invariant holds in every behaviour of the worker. *)
THEOREM Invariance == Spec => []IInv
BY InitIInv, NextKeepsIInv, PTL DEF Spec

(* Type correctness. *)
THEOREM TypeCorrect == Spec => []TypeOK
BY Invariance, PTL DEF IInv

(* No prompt is duplicated, settled while a worker still holds it, or lost   *)
(* but to a listener of item.started that throws: enqueue, purge, abort,     *)
(* shutdown and the loop keep each pending promise in exactly one place, and *)
(* what such a listener strands is in none and stays there.                  *)
THEOREM PromptsAccounted == Spec => []ItemsAccounted
BY Invariance, PTL DEF IInv

(* awaitStart resolves exactly when its item leaves the queue. *)
THEOREM StartsResolve == Spec => []StartedIffLeftQueue
BY Invariance, PTL DEF IInv

(* Prompts of a worker run in arrival order. *)
THEOREM Fifo == Spec => []NoOvertaking
BY Invariance, PTL DEF IInv

-----------------------------------------------------------------------------
(* A worker that has shut down never takes a turn, a prompt or a life again: *)
(* neither the run loop that is still running out nor a late call revives it. *)
THEOREM ShutdownIsFinal == Spec => ClosedForGood
<1>. DEFINE Final(w) == lifecycle[w] = "shutdown" =>
              /\ lifecycle'[w] = "shutdown"
              /\ queue'[w] \subseteq queue[w] /\ batch'[w] \subseteq batch[w]
<1>1. ASSUME IInv, [Next]_vars PROVE \A v \in Workers : Final(v)
  <2>. USE <1>1 DEF IInv, TypeOK
  <2>1. CASE UNCHANGED vars
    BY <2>1 DEF vars
  <2>2. ASSUME NEW w \in Workers, LoopStep(w) PROVE \A v \in Workers : Final(v)
    <3>1. ASSUME NEW r \in {"done", "failed"}, TurnSettles(w, r) PROVE \A v \in Workers : Final(v)
      BY <3>1 DEF TurnSettles, StartTurn, CohortRuns, StartedListenerThrows
    <3>2. ASSUME NEW r \in {"done", "failed"}, SettledListenerThrows(w, r)
          PROVE  \A v \in Workers : Final(v)
      BY <3>2 DEF SettledListenerThrows
    <3>3. CASE LoopCatch(w)
      BY <3>3 DEF LoopCatch
    <3>4. CASE LoopFinally(w)
      BY <3>4 DEF LoopFinally
    <3>5. CASE DrainEnds(w)
      BY <3>5 DEF DrainEnds, loopVars
    <3>. QED  BY <2>2, <3>1, <3>2, <3>3, <3>4, <3>5 DEF LoopStep
  <2>3. ASSUME NEW w \in Workers, CallerStep(w) PROVE \A v \in Workers : Final(v)
    <3>1. CASE Enqueue(w)
      BY <3>1 DEF Enqueue, StartTurn, CohortRuns, StartedListenerThrows, Closed, loopVars
    <3>2. ASSUME NEW kind \in {"soft", "hard"}, Abort(w, kind) PROVE \A v \in Workers : Final(v)
      BY <3>2 DEF Abort, PurgeQueue
    <3>3. CASE ClearQueue(w)
      BY <3>3 DEF ClearQueue, PurgeQueue, loopVars
    <3>4. CASE ShutdownDrain(w)
      BY <3>4 DEF ShutdownDrain, Closed, loopVars
    <3>5. CASE Close(w, {w})
      BY <3>5 DEF Close, PurgeQueue, Closed
    <3>6. CASE IdleTimerSpent(w)
      BY <3>6 DEF IdleTimerSpent, loopVars
    <3>. QED
      BY <2>3, <3>1, <3>2, <3>3, <3>4, <3>5, <3>6 DEF CallerStep, ShutdownNow, IdleTimerCloses
  <2>4. ASSUME NEW i \in Items, CallerAborts(i) PROVE \A v \in Workers : Final(v)
    BY <2>4 DEF CallerAborts
  <2>. QED  BY <2>1, <2>2, <2>3, <2>4 DEF Next
<1>2. IInv /\ [Next]_vars =>
        [\A w \in Workers : lifecycle[w] = "shutdown" =>
           /\ lifecycle'[w] = "shutdown"
           /\ queue'[w] \subseteq queue[w] /\ batch'[w] \subseteq batch[w]]_vars
  BY <1>1
<1>. QED  BY <1>2, Invariance, PTL DEF Spec, ClosedForGood

-----------------------------------------------------------------------------
(* The quiet environment: nothing enqueues in the exit microtasks and no     *)
(* listener throws.  A backlog then always has a turn ahead of it that will  *)
(* hand over, which needs that a worker shuts down with nothing waiting.     *)
Quiet ==
  ~EnqueueWhileExiting /\ ~StartedListenerMayThrow /\ ~SettledListenerMayThrow

QuietInv ==
  /\ BacklogAttended
  /\ \A w \in Workers : lifecycle[w] = "shutdown" => queue[w] = {}

LEMMA NextKeepsQuietInv ==
  ASSUME Quiet, IInv, QuietInv, [Next]_vars
  PROVE  QuietInv'
<1>. USE DEF QuietInv, BacklogAttended, IInv, TypeOK
<1>1. CASE UNCHANGED vars
  BY <1>1 DEF vars
<1>2. ASSUME NEW w \in Workers, LoopStep(w) PROVE QuietInv'
  <2>1. ASSUME NEW r \in {"done", "failed"}, TurnSettles(w, r) PROVE QuietInv'
    BY <2>1 DEF TurnSettles, StartTurn, CohortRuns, StartedListenerThrows, Quiet
  <2>2. ASSUME NEW r \in {"done", "failed"}, SettledListenerThrows(w, r) PROVE QuietInv'
    BY <2>2 DEF SettledListenerThrows, Quiet
  <2>3. CASE LoopCatch(w)
    BY <2>3 DEF LoopCatch
  <2>4. CASE LoopFinally(w)
    BY <2>4 DEF LoopFinally
  <2>5. CASE DrainEnds(w)
    BY <2>5 DEF DrainEnds, loopVars
  <2>. QED  BY <1>2, <2>1, <2>2, <2>3, <2>4, <2>5 DEF LoopStep
<1>3. ASSUME NEW w \in Workers, CallerStep(w) PROVE QuietInv'
  <2>1. CASE Enqueue(w)
    <3>1. CASE loop[w] = "none"
      BY <2>1, <3>1 DEF Enqueue, StartTurn, CohortRuns, StartedListenerThrows, Quiet
    <3>2. CASE loop[w] # "none"
      <4>1. loop[w] = "turn"
        BY <2>1, <3>2 DEF Enqueue, Quiet, LoopStates
      <4>. QED  BY <2>1, <3>2, <4>1 DEF Enqueue, Closed, loopVars
    <3>. QED  BY <3>1, <3>2
  <2>2. ASSUME NEW kind \in {"soft", "hard"}, Abort(w, kind) PROVE QuietInv'
    BY <2>2 DEF Abort, PurgeQueue
  <2>3. CASE ClearQueue(w)
    BY <2>3 DEF ClearQueue, PurgeQueue, loopVars
  <2>4. CASE ShutdownDrain(w)
    BY <2>4 DEF ShutdownDrain, loopVars
  <2>5. CASE Close(w, {w})
    BY <2>5 DEF Close, PurgeQueue
  <2>6. CASE IdleTimerSpent(w)
    BY <2>6 DEF IdleTimerSpent, loopVars
  <2>. QED
    BY <1>3, <2>1, <2>2, <2>3, <2>4, <2>5, <2>6 DEF CallerStep, ShutdownNow, IdleTimerCloses
<1>4. ASSUME NEW i \in Items, CallerAborts(i) PROVE QuietInv'
  BY <1>4 DEF CallerAborts
<1>. QED  BY <1>1, <1>2, <1>3, <1>4 DEF Next

LEMMA QuietInvariance == ASSUME Quiet PROVE Spec => []QuietInv
<1>1. Init => QuietInv
  BY DEF Init, QuietInv, BacklogAttended
<1>2. IInv /\ QuietInv /\ [Next]_vars => QuietInv'
  BY NextKeepsQuietInv
<1>. QED  BY <1>1, <1>2, Invariance, PTL DEF Spec

(* In a quiet environment no prompt is ever left behind an ended loop: the   *)
(* loop's last look at the queue really is the last chance to enqueue.       *)
THEOREM NoLostWakeup == ASSUME Quiet PROVE Spec => []BacklogAttended
BY QuietInvariance, PTL DEF QuietInv

(* ... and a worker whose shutdown is over, drained or not, holds no prompt. *)
THEOREM ShutdownSettlesAll == ASSUME Quiet PROVE Spec => []ClosedHoldsNothing
<1>1. IInv /\ QuietInv => ClosedHoldsNothing
  BY DEF IInv, QuietInv, TurnOwnsLoop, ClosedHoldsNothing
<1>. QED  BY <1>1, Invariance, QuietInvariance, PTL

-----------------------------------------------------------------------------
(* A turn begins under a new controller, so that no stop meant for another   *)
(* turn reaches it: it is aborted from the start by its own callers only.    *)
FreshFor(v) ==
  batch'[v] \notin {{}, batch[v]} /\ abortReason'[v] # "none" =>
    \E i \in batch'[v] : i \in callerAborted

LEMMA StartIsFresh ==
  ASSUME TypeOK, NEW w \in Workers, NEW backlog \in SUBSET Items, StartTurn(w, backlog),
         NEW v \in Workers
  PROVE  FreshFor(v)
BY DEF TypeOK, StartTurn, CohortRuns, StartedListenerThrows, FreshFor

THEOREM NewTurnsAreUnaborted == Spec => FreshTurnNotAborted
<1>1. ASSUME TypeOK, batch' = batch, NEW v \in Workers PROVE FreshFor(v)
  BY <1>1 DEF FreshFor
<1>2. ASSUME IInv, [Next]_vars PROVE \A v \in Workers : FreshFor(v)
  <2>1. TypeOK
    BY <1>2 DEF IInv
  <2>2. ASSUME NEW w \in Workers, Enqueue(w), NEW v \in Workers PROVE FreshFor(v)
    <3>1. last + 1 \in Items /\ queue[w] \cup {last + 1} \in SUBSET Items
      BY <2>1, <2>2, WorkerAssumption DEF Enqueue, TypeOK, Items
    <3>. QED  BY <1>1, <2>1, <2>2, <3>1, StartIsFresh DEF Enqueue, loopVars
  <2>3. ASSUME NEW w \in Workers, NEW r \in {"done", "failed"}, TurnSettles(w, r), NEW v \in Workers
        PROVE  FreshFor(v)
    <3>1. CASE StartTurn(w, queue[w])
      BY <2>1, <3>1, StartIsFresh DEF TypeOK
    <3>2. CASE batch' = [batch EXCEPT ![w] = {}]
      BY <2>1, <3>2 DEF TypeOK, FreshFor
    <3>. QED  BY <2>3, <3>1, <3>2 DEF TurnSettles
  <2>4. ASSUME NEW w \in Workers, NEW r \in {"done", "failed"}, SettledListenerThrows(w, r),
               NEW v \in Workers
        PROVE  FreshFor(v)
    BY <2>1, <2>4 DEF SettledListenerThrows, TypeOK, FreshFor
  <2>5. ASSUME NEW w \in Workers, \/ LoopCatch(w) \/ LoopFinally(w) \/ DrainEnds(w)
                                  \/ \E kind \in {"soft", "hard"} : Abort(w, kind)
                                  \/ ClearQueue(w) \/ ShutdownDrain(w) \/ ShutdownNow(w)
                                  \/ IdleTimerSpent(w) \/ IdleTimerCloses(w)
        PROVE  batch' = batch
    BY <2>5 DEF LoopCatch, LoopFinally, DrainEnds, Abort, ClearQueue, ShutdownDrain, ShutdownNow,
       IdleTimerSpent, IdleTimerCloses, Close, loopVars
  <2>6. CASE UNCHANGED vars
    BY <1>1, <2>1, <2>6 DEF vars
  <2>7. ASSUME NEW i \in Items, CallerAborts(i) PROVE batch' = batch
    BY <2>7 DEF CallerAborts
  <2>. QED
    BY <1>1, <1>2, <2>1, <2>2, <2>3, <2>4, <2>5, <2>6, <2>7 DEF Next, LoopStep, CallerStep
<1>3. IInv /\ [Next]_vars =>
        [\A w \in Workers :
           batch'[w] \notin {{}, batch[w]} /\ abortReason'[w] # "none" =>
             \E i \in batch'[w] : i \in callerAborted]_vars
  BY <1>2 DEF FreshFor
<1>. QED  BY <1>3, Invariance, PTL DEF Spec, FreshTurnNotAborted

-----------------------------------------------------------------------------
(* Refinement: the promises of the worker are a PromptQueue. *)
Answered == {i \in Items : status[i] \in Settled}

LEMMA AbstractVars == Abstract!vars = <<queue, batch, Answered, stranded>>
BY DEF Abstract!vars, Answered

(* A purge is Drop, and changes nothing else the queue shows. *)
LEMMA PurgeRefines ==
  ASSUME IInv, NEW w \in Workers, PurgeQueue(w), UNCHANGED <<batch, stranded>>
  PROVE  Abstract!Drop(w)
<1>1. /\ queue' = [queue EXCEPT ![w] = {}]
      /\ \A i \in queue[w] : status'[i] = "cancelled"
      /\ \A i \in Items \ queue[w] : status'[i] = status[i]
  BY PurgeFacts DEF IInv, PurgeQueue
<1>2. Answered' = Answered \cup queue[w]
  BY <1>1 DEF Answered, Settled, IInv, TypeOK
<1>. QED  BY <1>1, <1>2 DEF Abstract!Drop, Answered

LEMMA EnqueueRefines ==
  ASSUME IInv, NEW w \in Workers, Enqueue(w)
  PROVE  \E p \in Items : Abstract!Accept(w, p) \/ Abstract!AcceptAndStart(w, p)
<1>. DEFINE item == last + 1
<1>1. item \in Items /\ status' = [status EXCEPT ![item] = "pending"]
  BY WorkerAssumption DEF Enqueue, IInv, TypeOK, Items
<1>2. status[item] = "new"
  BY <1>1 DEF IInv, TypeOK, IdsInOrder
<1>3. item \notin Answered \cup stranded /\ \A v \in Workers : item \notin queue[v] /\ item \notin batch[v]
  BY <1>1, <1>2 DEF IInv, ItemsAccounted, Answered, Settled
<1>4. Answered' = Answered
  BY <1>1, <1>2 DEF Answered, Settled, IInv, TypeOK
<1>5. Abstract!Fresh(item)
  BY <1>3 DEF Abstract!Fresh, Answered
<1>6. CASE loop[w] = "none"
  <2>1. batch[w] = {}
    BY <1>6 DEF IInv, TurnOwnsLoop
  <2>2. queue' = [queue EXCEPT ![w] = {}] /\ Abstract!Begin(w, queue[w] \cup {item})
    BY <1>6 DEF Enqueue, StartTurn, CohortRuns, StartedListenerThrows, Abstract!Begin
  <2>. HIDE DEF item
  <2>3. Abstract!AcceptAndStart(w, item)
    BY <1>4, <1>5, <2>1, <2>2 DEF Abstract!AcceptAndStart, Answered
  <2>. QED  BY <1>1, <2>3
<1>7. CASE loop[w] # "none"
  <2>1. queue' = [queue EXCEPT ![w] = @ \cup {item}] /\ UNCHANGED <<batch, stranded>>
    BY <1>7 DEF Enqueue, loopVars
  <2>. HIDE DEF item
  <2>2. Abstract!Accept(w, item)
    BY <1>4, <1>5, <2>1 DEF Abstract!Accept, Answered
  <2>. QED  BY <1>1, <2>2
<1>. QED  BY <1>6, <1>7

LEMMA TurnEndRefines ==
  ASSUME IInv, NEW w \in Workers, NEW r \in {"done", "failed"},
         TurnSettles(w, r) \/ SettledListenerThrows(w, r)
  PROVE  \E next \in {{}, queue[w]} : Abstract!Finish(w, next)
<1>1. status' = Settle(batch[w], r) /\ loop[w] = "turn"
  BY DEF TurnSettles, SettledListenerThrows
<1>2. batch[w] # {} /\ batch[w] \in SUBSET Items
  BY <1>1 DEF IInv, TypeOK, TurnOwnsLoop
<1>3. /\ \A i \in batch[w] : status'[i] = r
      /\ \A i \in Items \ batch[w] : status'[i] = status[i]
  BY <1>1, <1>2, SettleFacts DEF IInv, Settled
<1>4. Answered' = Answered \cup batch[w]
  BY <1>2, <1>3 DEF Answered, Settled
<1>5. CASE queue' = [queue EXCEPT ![w] = {}] /\ Abstract!Begin(w, queue[w])
  <2>1. queue' = [queue EXCEPT ![w] = @ \ queue[w]]
    BY <1>5
  <2>. QED
    BY <1>2, <1>4, <1>5, <2>1 DEF Abstract!Finish, Answered
<1>6. CASE queue' = queue /\ batch' = [batch EXCEPT ![w] = {}] /\ stranded' = stranded
  <2>1. queue' = [queue EXCEPT ![w] = @ \ {}] /\ Abstract!Begin(w, {})
    BY <1>6 DEF IInv, TypeOK, Abstract!Begin
  <2>. QED
    BY <1>2, <1>4, <1>6, <2>1 DEF Abstract!Finish, Answered
<1>. QED
  BY <1>5, <1>6 DEF TurnSettles, SettledListenerThrows, StartTurn, CohortRuns,
     StartedListenerThrows, Abstract!Begin

LEMMA StepRefines ==
  ASSUME IInv, [Next]_vars
  PROVE  [Abstract!Next]_(Abstract!vars)
<1>1. CASE UNCHANGED <<queue, batch, status, stranded>>
  BY <1>1, AbstractVars DEF Abstract!vars
<1>2. ASSUME NEW w \in Workers, Abstract!Drop(w) PROVE Abstract!Next
  BY <1>2 DEF Abstract!Next
<1>3. ASSUME NEW w \in Workers, LoopStep(w)
      PROVE  Abstract!Next \/ UNCHANGED <<queue, batch, status, stranded>>
  <2>1. ASSUME NEW r \in {"done", "failed"}, TurnSettles(w, r) \/ SettledListenerThrows(w, r)
        PROVE  Abstract!Next
    BY <2>1, TurnEndRefines DEF Abstract!Next
  <2>2. CASE LoopCatch(w) \/ LoopFinally(w) \/ DrainEnds(w)
    BY <2>2 DEF LoopCatch, LoopFinally, DrainEnds, itemVars, loopVars
  <2>. QED  BY <1>3, <2>1, <2>2 DEF LoopStep
<1>4. ASSUME NEW w \in Workers, CallerStep(w)
      PROVE  Abstract!Next \/ UNCHANGED <<queue, batch, status, stranded>>
  <2>1. CASE Enqueue(w)
    BY <2>1, EnqueueRefines DEF Abstract!Next
  <2>2. ASSUME NEW kind \in {"soft", "hard"}, Abort(w, kind)
        PROVE  Abstract!Next \/ UNCHANGED <<queue, batch, status, stranded>>
    BY <2>2, <1>2, PurgeRefines DEF Abort
  <2>3. CASE ClearQueue(w)
    BY <2>3, <1>2, PurgeRefines DEF ClearQueue, loopVars
  <2>4. CASE Close(w, {w})
    BY <2>4, <1>2, PurgeRefines DEF Close
  <2>5. CASE ShutdownDrain(w) \/ IdleTimerSpent(w)
    BY <2>5 DEF ShutdownDrain, IdleTimerSpent, itemVars, loopVars
  <2>. QED
    BY <1>4, <2>1, <2>2, <2>3, <2>4, <2>5 DEF CallerStep, ShutdownNow, IdleTimerCloses
<1>5. ASSUME NEW i \in Items, CallerAborts(i) PROVE UNCHANGED <<queue, batch, status, stranded>>
  BY <1>5 DEF CallerAborts
<1>6. CASE UNCHANGED vars
  BY <1>1, <1>6 DEF vars
<1>. QED  BY <1>1, <1>3, <1>4, <1>5, <1>6 DEF Next

(* Whatever its callers, its listeners and its timers do, the worker's       *)
(* promises behave as those of a prompt queue: each prompt is accepted once, *)
(* one cohort runs at a time and is the whole backlog of its moment, every   *)
(* prompt is settled at most once, and only a cohort on its way into its     *)
(* turn is ever lost.                                                        *)
THEOREM Refinement == Spec => RefinesPromptQueue
<1>1. Init => Abstract!Init
  BY DEF Init, Abstract!Init, Settled
<1>2. IInv /\ [Next]_vars => [Abstract!Next]_(Abstract!vars)
  BY StepRefines
<1>. QED
  BY <1>1, <1>2, Invariance, PTL DEF Spec, RefinesPromptQueue, Abstract!Spec
=============================================================================
