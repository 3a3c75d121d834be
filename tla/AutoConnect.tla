---------------------------- MODULE AutoConnect ----------------------------
(***************************************************************************)
(* What "Connect Fastest" promises, without timers, retries or events: the *)
(* candidates are walked in queue order, one at a time, each is tried      *)
(* before it is given up, and the walk is exhausted only when every        *)
(* candidate has been given up.  Cascade implements it                     *)
(* (CascadeRefinement).                                                    *)
(***************************************************************************)
EXTENDS Naturals, Sequences

CONSTANT Candidates     \* the lists a walk may be given

VARIABLE walk
    \* state : where the walk is;       list  : its candidates, in order
    \* tried : how many were opened;    given : how many were given up

Ended == {"succeeded", "exhausted", "cancelled", "nobackend"}
States == {"idle", "preparing", "walking"} \cup Ended

At(state) == [state |-> state, list |-> <<>>, tried |-> 0, given |-> 0]
Pending == walk.state \in {"preparing", "walking"}

Init == walk = At("idle")

(* Latencies are measured first.                                           *)
Prepare ==
    /\ ~Pending
    /\ walk' = At("preparing")

(* The walk starts: an existing tunnel may first have to be taken down,    *)
(* the head may be opened at once, and may fail at once.                   *)
Begin ==
    /\ walk.state # "walking"
    /\ \E q \in Candidates : \E tried \in {0, 1}, given \in {0, 1} :
          /\ q # <<>> /\ given <= tried
          /\ walk' = [state |-> "walking", list |-> q, tried |-> tried, given |-> given]

(* The next candidate is opened; it may fail before the handler returns.   *)
Try ==
    /\ walk.state = "walking" /\ walk.tried = walk.given /\ walk.tried < Len(walk.list)
    /\ \E fails \in {0, 1} :
          walk' = [walk EXCEPT !.tried = @ + 1, !.given = @ + fails]

(* Only a candidate that was opened is given up.                           *)
GiveUp ==
    /\ walk.state = "walking" /\ walk.given < walk.tried
    /\ walk' = [walk EXCEPT !.given = @ + 1]

Succeed == Pending /\ walk' = At("succeeded")

Cancel == Pending /\ walk' = At("cancelled")

(* Nothing is left: no candidate is eligible, or all were given up.        *)
Exhaust ==
    /\ Pending /\ walk.given = Len(walk.list)
    /\ walk' = At("exhausted")

(* There is no connection manager to try anything with.                    *)
LoseBackend == walk' = At("nobackend")

Next ==
    \/ Prepare \/ Begin \/ Try \/ GiveUp
    \/ Succeed \/ Cancel \/ Exhaust \/ LoseBackend

Spec == Init /\ [][Next]_walk
=============================================================================
