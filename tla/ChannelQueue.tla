---------------------------- MODULE ChannelQueue ----------------------------
(***************************************************************************)
(* What a channel promises its callers, whichever workers serve it one     *)
(* after the other: one cohort of prompts runs at a time, the cohort that  *)
(* starts is the whole backlog, and each prompt is answered once.  Only    *)
(* where a listener may throw is anything lost: the backlog, whole and     *)
(* between two turns, or the cohort that was to run next; and for good.    *)
(***************************************************************************)
CONSTANTS
  Prompts,   \* every prompt a caller may submit
  MayLose    \* may the channel lose its backlog or its next cohort?

VARIABLES
  waiting,   \* prompts accepted that no turn has taken yet
  running,   \* the cohort the turn in flight answers
  answered,  \* prompts whose caller has its answer
  lost       \* prompts whose caller will never have one

vars == <<waiting, running, answered, lost>>

Init ==
  /\ waiting = {}
  /\ running = {}
  /\ answered = {}
  /\ lost = {}

(* The prompt was never submitted. *)
Fresh(p) == p \notin waiting \cup running \cup answered \cup lost

(* The caller's prompt joins the backlog. *)
Accept(p) ==
  /\ Fresh(p)
  /\ waiting' = waiting \cup {p}
  /\ UNCHANGED <<running, answered, lost>>

(* The turn of a cohort begins, or the cohort is lost. *)
Begin(cohort) ==
  \/ running' = cohort /\ UNCHANGED lost
  \/ MayLose /\ running' = {} /\ lost' = lost \cup cohort

(* The prompt finds no turn in flight: it starts with everything waiting. *)
AcceptAndStart(p) ==
  /\ Fresh(p)
  /\ running = {}
  /\ Begin(waiting \cup {p})
  /\ waiting' = {}
  /\ UNCHANGED answered

(* The turn ends, for its whole cohort at once; the backlog takes over or stays. *)
Finish ==
  /\ running # {}
  /\ answered' = answered \cup running
  /\ \/ Begin(waiting) /\ waiting' = {}
     \/ running' = {} /\ UNCHANGED <<waiting, lost>>

(* A stop answers the whole backlog and leaves the turn alone. *)
Drop ==
  /\ answered' = answered \cup waiting
  /\ waiting' = {}
  /\ UNCHANGED <<running, lost>>

(* The worker is given up between two turns, and its backlog with it. *)
Lose ==
  /\ MayLose
  /\ running = {}
  /\ lost' = lost \cup waiting
  /\ waiting' = {}
  /\ UNCHANGED <<running, answered>>

Next ==
  \/ \E p \in Prompts : Accept(p) \/ AcceptAndStart(p)
  \/ Finish
  \/ Drop
  \/ Lose

Spec == Init /\ [][Next]_vars
=============================================================================
