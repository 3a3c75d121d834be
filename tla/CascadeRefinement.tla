------------------------- MODULE CascadeRefinement -------------------------
(***************************************************************************)
(* Cascade implements AutoConnect: under every interleaving of timers,     *)
(* events and dialogs, what the user sees is an in-order walk of the       *)
(* candidates.  A retry of the same server is a stutter.                   *)
(***************************************************************************)
EXTENDS Cascade

OpenedServers == {ctl.attempts[i].server : i \in 1..Len(ctl.attempts)}

WalkState ==
    IF Running THEN "walking"
    ELSE IF ctl.phase = "exhausted" /\ BackendGone THEN "nobackend"
    ELSE ctl.phase

Walk ==
    IF Running
    THEN [state |-> "walking", list |-> ctl.queue,
          tried |-> Cardinality(OpenedServers), given |-> ctl.index]
    ELSE [state |-> WalkState, list |-> <<>>, tried |-> 0, given |-> 0]

Promise == INSTANCE AutoConnect WITH Candidates <- Queues, walk <- Walk

(* Timers, retries, dialogs and late events change when the next candidate *)
(* is tried, never which one, never in what order, and never end the walk  *)
(* as EXHAUSTED before the last one was given up.                          *)
KeepsPromise == Promise!Spec
=============================================================================
