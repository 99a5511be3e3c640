--------------------------- MODULE MCUsageEvents ---------------------------
(* One turn that delegates to another: the child goes through the life of a *)
(* turn, or the parent calls a tool beside a child cut short.  Or one turn   *)
(* that meets more faults, up to a replay over the file of an earlier one.   *)
EXTENDS UsageEvents, TLC

CONSTANTS p, c

MCSessions == {p, c}
MCParent == (p :> NoSession) @@ (c :> p)
Life == {"started", "running", "delta", "ended"}
Delegates == (p :> {"started", "running"}) @@ (c :> Life)
CallsTool == (p :> {"started", "running", "toolStarted", "toolEnded"}) @@ (c :> {"started"})
Alone == (p :> {"started", "running", "ended"}) @@ (c :> {})
MCScripts == {Delegates, CallsTool, Alone}
MCMaxFaults == [s \in MCScripts |-> IF s = Alone THEN 4 ELSE 1]
=============================================================================
