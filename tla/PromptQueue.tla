---------------------------- MODULE PromptQueue ----------------------------
(***************************************************************************)
(* What a channel's prompt queue promises its callers, without the promise *)
(* plumbing of ChannelWorker.ts: each prompt is accepted once, waits, is   *)
(* run or dropped, and is settled exactly once; a queue runs one cohort at *)
(* a time, and the cohort it starts is its whole backlog.  Only a cohort   *)
(* that is about to start may be lost, whole and for good, where MayLose.  *)
(***************************************************************************)
EXTENDS Naturals

CONSTANTS
  Queues,    \* the prompt queues (one per worker)
  Prompts,   \* every prompt a caller may submit
  MayLose    \* may a cohort be lost on its way into its turn?

VARIABLES
  waiting,   \* waiting[q]: prompts accepted by q that no turn has taken yet
  running,   \* running[q]: the cohort the turn in flight answers
  settled,   \* prompts whose caller has its answer
  lost       \* prompts whose caller will never have one

vars == <<waiting, running, settled, lost>>

Init ==
  /\ waiting = [q \in Queues |-> {}]
  /\ running = [q \in Queues |-> {}]
  /\ settled = {}
  /\ lost = {}

(* No queue knows the prompt yet. *)
Fresh(p) ==
  /\ p \notin settled \cup lost
  /\ \A q \in Queues : p \notin waiting[q] /\ p \notin running[q]

(* The caller's prompt joins the backlog. *)
Accept(q, p) ==
  /\ Fresh(p)
  /\ waiting' = [waiting EXCEPT ![q] = @ \cup {p}]
  /\ UNCHANGED <<running, settled, lost>>

(* The turn of a cohort begins, or the cohort is lost. *)
Begin(q, cohort) ==
  \/ /\ running' = [running EXCEPT ![q] = cohort]
     /\ UNCHANGED lost
  \/ /\ MayLose
     /\ running' = [running EXCEPT ![q] = {}]
     /\ lost' = lost \cup cohort

(* The prompt finds the queue at rest: it starts with everything waiting. *)
AcceptAndStart(q, p) ==
  /\ Fresh(p)
  /\ running[q] = {}
  /\ Begin(q, waiting[q] \cup {p})
  /\ waiting' = [waiting EXCEPT ![q] = {}]
  /\ UNCHANGED settled

(* The turn ends, for its whole cohort at once; the backlog takes over or stays. *)
Finish(q, next) ==
  /\ running[q] # {}
  /\ next \in {{}, waiting[q]}
  /\ settled' = settled \cup running[q]
  /\ Begin(q, next)
  /\ waiting' = [waiting EXCEPT ![q] = @ \ next]

(* A cancellation settles the whole backlog and leaves the turn alone. *)
Drop(q) ==
  /\ settled' = settled \cup waiting[q]
  /\ waiting' = [waiting EXCEPT ![q] = {}]
  /\ UNCHANGED <<running, lost>>

Next ==
  \E q \in Queues :
    \/ \E p \in Prompts : Accept(q, p) \/ AcceptAndStart(q, p)
    \/ \E next \in {{}, waiting[q]} : Finish(q, next)
    \/ Drop(q)

Spec == Init /\ [][Next]_vars
=============================================================================
