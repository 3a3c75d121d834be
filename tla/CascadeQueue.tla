---------------------------- MODULE CascadeQueue ----------------------------
(***************************************************************************)
(* The pure part of auto-connect (eovpn/auto_connect.py): which servers a  *)
(* run tries, in which order, and how long each is given.  Nothing here is *)
(* recursive: a server's place in the queue is its rank, the number of     *)
(* eligible servers whose sort key is smaller.                             *)
(***************************************************************************)
EXTENDS Integers, Sequences, FiniteSets

CONSTANTS
    Names,     \* configuration files the speed test may know
    Rtts,      \* round-trip times, in milliseconds
    MaxFiles,  \* bound: files in the list
    Limits     \* values of max_candidates

Unreachable == -1      \* latencies[name] is None
Unmeasured == -2       \* name not in latencies

ASSUME QueueAssumption ==
    /\ IsFiniteSet(Names)
    /\ Rtts \subseteq Nat
    /\ MaxFiles \in Nat
    /\ Limits \subseteq Int

VARIABLES
    files,      \* the caller's list
    latencies,  \* latencies.get(name), or why there is none
    limit,      \* max_candidates
    queue,      \* what build_cascade_queue returned
    built       \* it has returned

vars == <<files, latencies, limit, queue, built>>

-----------------------------------------------------------------------------
(* build_cascade_queue, with skip_unreachable as the only caller sets it.  *)

Listed(fs) == {fs[i] : i \in 1..Len(fs)}
Position(fs, name) == CHOOSE i \in 1..Len(fs) : fs[i] = name
UpTo(a, b) == IF a < b THEN a ELSE b
Cap(l) == IF l > 1 THEN l ELSE 1

HasAnyRtt(lat) == \E name \in Names : lat[name] >= 0

\* Mutant of Eligible: servers that failed the speed test are kept.
EligibleKeepsDead(fs, lat) == Listed(fs)

Eligible(fs, lat) ==
    {name \in Listed(fs) : ~(HasAnyRtt(lat) /\ lat[name] = Unreachable)}

(* The sort key is (no measurement, measurement, position in the list).    *)
KeyBefore(fs, lat, x, y) ==
    LET known(name) == lat[name] >= 0
    IN  \/ known(x) /\ ~known(y)
        \/ known(x) /\ known(y) /\ lat[x] < lat[y]
        \/ /\ known(x) <=> known(y)
           /\ known(x) => lat[x] = lat[y]
           /\ Position(fs, x) < Position(fs, y)

\* Mutant of Before: the order of the list alone.
BeforeByPosition(fs, lat, x, y) == Position(fs, x) < Position(fs, y)

Before(fs, lat, x, y) ==
    IF HasAnyRtt(lat) THEN KeyBefore(fs, lat, x, y)
                      ELSE Position(fs, x) < Position(fs, y)

Rank(fs, lat, name) ==
    1 + Cardinality({x \in Eligible(fs, lat) : Before(fs, lat, x, name)})

BuildQueue(fs, lat, l) ==
    LET e == Eligible(fs, lat)
    IN  IF e = {}
        THEN SubSeq(fs, 1, UpTo(Len(fs), Cap(l)))
        ELSE [i \in 1..UpTo(Cardinality(e), Cap(l)) |->
                 CHOOSE name \in e : Rank(fs, lat, name) = i]

-----------------------------------------------------------------------------
(* compute_attempt_timeout, in milliseconds; the result is rounded to two  *)
(* decimals of a second.                                                   *)

BaseHandshake == 30000
MinAttempt == 30000
MaxAttempt == 45000
Multiplier == 8

Rounded(ms) == ((ms + 5) \div 10) * 10
AtLeast(a, b) == IF a > b THEN a ELSE b

\* Mutant of AttemptTimeout: the upper bound is not applied.
AttemptTimeoutUnbounded(rtt) ==
    IF rtt < 0 THEN BaseHandshake
    ELSE Rounded(AtLeast(MinAttempt, BaseHandshake + Multiplier * rtt))

AttemptTimeout(rtt) ==
    IF rtt < 0 THEN BaseHandshake
    ELSE Rounded(UpTo(MaxAttempt, AtLeast(MinAttempt, BaseHandshake + Multiplier * rtt)))

-----------------------------------------------------------------------------
Lists == {fs \in UNION {[1..n -> Names] : n \in 0..MaxFiles} :
             \A i, j \in DOMAIN fs : fs[i] = fs[j] => i = j}

Init ==
    /\ files \in Lists
    /\ latencies \in [Names -> Rtts \cup {Unreachable, Unmeasured}]
    /\ limit \in Limits
    /\ queue = <<>>
    /\ built = FALSE

Build ==
    /\ ~built
    /\ built' = TRUE
    /\ queue' = BuildQueue(files, latencies, limit)
    /\ UNCHANGED <<files, latencies, limit>>

Next == Build

Spec == Init /\ [][Next]_vars
-----------------------------------------------------------------------------
(* Properties, stated without ranks or keys.                               *)

Queued == {queue[i] : i \in 1..Len(queue)}
Measured(name) == latencies[name] >= 0

(* The queue is a list of candidates without repetitions, whatever was     *)
(* measured: no server is tried twice in a run.                            *)
TypeOK ==
    /\ files \in Lists
    /\ queue \in Lists
    /\ built \in BOOLEAN

(* "Measured-latency order": the walk meets slower servers only after      *)
(* faster ones, unmeasured ones last, and the cap never cuts off a server  *)
(* that is faster than one it lets through.                                *)
FastestFirst ==
    built =>
        /\ \A i, j \in 1..Len(queue) :
              i < j /\ Measured(queue[j]) =>
                  Measured(queue[i]) /\ latencies[queue[i]] <= latencies[queue[j]]
        /\ \A kept \in Queued, cut \in Listed(files) \ Queued :
              Measured(cut) => Measured(kept) /\ latencies[kept] <= latencies[cut]

(* A server known to be dead is tried only when the list offers nothing    *)
(* else or nothing at all was reachable; and a list is never given up      *)
(* without trying anything.                                                *)
DeadOnlyAsLastResort ==
    built =>
        /\ files # <<>> => queue # <<>>
        /\ \A name \in Queued :
              latencies[name] = Unreachable =>
                  \/ \A other \in Names : ~Measured(other)
                  \/ \A other \in Listed(files) : latencies[other] = Unreachable

(* A run costs the user least time first: no candidate waits behind one     *)
(* that is given longer, and none can hold the walk for more than the       *)
(* upper bound, however slow the server was measured.                       *)
BudgetsFollowQueue ==
    built =>
        \A j \in 1..Len(queue) :
            LET budget(i) == AttemptTimeout(latencies[queue[i]])
            IN  /\ MinAttempt <= budget(j) /\ budget(j) <= MaxAttempt
                /\ Measured(queue[j]) => \A i \in 1..j : budget(i) <= budget(j)
=============================================================================
