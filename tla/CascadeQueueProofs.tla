------------------------- MODULE CascadeQueueProofs -------------------------
(***************************************************************************)
(* Facts about a candidate's budget, for every measurement, and about the  *)
(* queue, for every list, every speed test and every cap.                  *)
(*                                                                         *)
(* The queue is sorted because the keys order the candidates totally, so   *)
(* that ranks run from one to their number without a gap: a rank nobody    *)
(* had would put two candidates into one pigeonhole.                       *)
(***************************************************************************)
EXTENDS CascadeQueue, FiniteSetTheorems, SequenceTheorems, TLAPS

LEMMA RoundedOfBounds ==
    ASSUME NEW ms \in Int, ms >= 30000, ms <= 45000
    PROVE  Rounded(ms) \in Int /\ Rounded(ms) >= 30000 /\ Rounded(ms) <= 45000
BY DEF Rounded

LEMMA RoundedMonotone ==
    ASSUME NEW a \in Int, NEW b \in Int, a <= b
    PROVE  Rounded(a) <= Rounded(b)
BY DEF Rounded

(* compute_attempt_timeout: whatever the measurement, or without one, a    *)
(* candidate gets at least half a minute and at most 45 seconds.           *)
THEOREM BudgetWithinBounds ==
    ASSUME NEW rtt \in Int
    PROVE  /\ AttemptTimeout(rtt) \in Int
           /\ MinAttempt <= AttemptTimeout(rtt)
           /\ AttemptTimeout(rtt) <= MaxAttempt
<1>1. CASE rtt < 0
    BY <1>1 DEF AttemptTimeout, BaseHandshake, MinAttempt, MaxAttempt
<1>2. CASE ~(rtt < 0)
    <2> DEFINE ms == UpTo(MaxAttempt, AtLeast(MinAttempt, BaseHandshake + Multiplier * rtt))
    <2>1. ms \in Int /\ ms >= 30000 /\ ms <= 45000
        BY <1>2 DEF UpTo, AtLeast, MaxAttempt, MinAttempt, BaseHandshake, Multiplier
    <2>2. AttemptTimeout(rtt) = Rounded(ms)
        BY <1>2 DEF AttemptTimeout
    <2> HIDE DEF ms
    <2> QED
        BY <2>1, <2>2, RoundedOfBounds DEF MinAttempt, MaxAttempt
<1> QED
    BY <1>1, <1>2

(* compute_attempt_timeout: a server measured as slower never gets less    *)
(* time, and none gets less than a server nothing is known about.          *)
THEOREM SlowerServersGetNoLess ==
    ASSUME NEW fast \in Int, NEW slow \in Int, fast <= slow
    PROVE  AttemptTimeout(fast) <= AttemptTimeout(slow)
<1>1. CASE fast < 0
    <2>1. AttemptTimeout(fast) = MinAttempt
        BY <1>1 DEF AttemptTimeout, BaseHandshake, MinAttempt
    <2> QED
        BY <2>1, BudgetWithinBounds
<1>2. CASE ~(fast < 0)
    <2> DEFINE clamp(r) == UpTo(MaxAttempt, AtLeast(MinAttempt, BaseHandshake + Multiplier * r))
    <2>1. clamp(fast) \in Int /\ clamp(slow) \in Int /\ clamp(fast) <= clamp(slow)
        BY <1>2 DEF UpTo, AtLeast, MaxAttempt, MinAttempt, BaseHandshake, Multiplier
    <2>2. /\ AttemptTimeout(fast) = Rounded(clamp(fast))
          /\ AttemptTimeout(slow) = Rounded(clamp(slow))
        BY <1>2 DEF AttemptTimeout
    <2> HIDE DEF clamp
    <2> QED
        BY <2>1, <2>2, RoundedMonotone
<1> QED
    BY <1>1, <1>2

-----------------------------------------------------------------------------
(* Lists and positions.                                                    *)

Latency == [Names -> Rtts \cup {Unreachable, Unmeasured}]

LEMMA ListType ==
    ASSUME NEW fs \in Lists
    PROVE  /\ Len(fs) \in 0..MaxFiles /\ fs \in [1..Len(fs) -> Names] /\ fs \in Seq(Names)
           /\ Len(fs) \in Nat
           /\ \A i, j \in 1..Len(fs) : fs[i] = fs[j] => i = j
<1>1. PICK n \in 0..MaxFiles : fs \in [1..n -> Names]
  BY DEF Lists
<1>2. n \in Nat
  BY <1>1, QueueAssumption
<1>3. Len(fs) = n
  BY <1>1, <1>2
<1>4. QED
  BY <1>1, <1>2, <1>3 DEF Lists

LEMMA PositionType ==
    ASSUME NEW fs \in Lists, NEW name \in Listed(fs)
    PROVE  Position(fs, name) \in 1..Len(fs) /\ fs[Position(fs, name)] = name
<1>1. \E i \in 1..Len(fs) : fs[i] = name
  BY DEF Listed
<1>2. QED
  BY <1>1 DEF Position

LEMMA ListedFinite ==
    ASSUME NEW fs \in Lists
    PROVE  Listed(fs) \subseteq Names /\ IsFiniteSet(Listed(fs))
<1>1. Listed(fs) \subseteq Names
  BY ListType DEF Listed
<1>2. QED
  BY <1>1, QueueAssumption, FS_Subset

LEMMA LatencyType ==
    ASSUME NEW lat \in Latency, NEW name \in Names
    PROVE  lat[name] \in Int
<1>1. lat[name] \in Rtts \cup {Unreachable, Unmeasured}
  BY DEF Latency
<1>2. Unreachable \in Int /\ Unmeasured \in Int
  BY DEF Unreachable, Unmeasured
<1>3. Rtts \subseteq Int
  BY QueueAssumption
<1>4. QED
  BY <1>1, <1>2, <1>3

-----------------------------------------------------------------------------
(* The keys order the candidates totally.                                  *)

LEMMA BeforeIrreflexive ==
    ASSUME NEW fs \in Lists, NEW lat \in Latency, NEW x \in Listed(fs)
    PROVE  ~Before(fs, lat, x, x)
<1>1. x \in Names /\ lat[x] \in Int /\ Position(fs, x) \in Int
  BY ListedFinite, LatencyType, PositionType, ListType
<1>2. QED
  BY <1>1 DEF Before, KeyBefore

LEMMA BeforeTransitive ==
    ASSUME NEW fs \in Lists, NEW lat \in Latency,
           NEW x \in Listed(fs), NEW y \in Listed(fs), NEW z \in Listed(fs),
           Before(fs, lat, x, y), Before(fs, lat, y, z)
    PROVE  Before(fs, lat, x, z)
<1>1. /\ lat[x] \in Int /\ lat[y] \in Int /\ lat[z] \in Int
      /\ Position(fs, x) \in Int /\ Position(fs, y) \in Int /\ Position(fs, z) \in Int
  BY ListedFinite, LatencyType, PositionType, ListType
<1>2. QED
  BY <1>1 DEF Before, KeyBefore

LEMMA BeforeTotal ==
    ASSUME NEW fs \in Lists, NEW lat \in Latency,
           NEW x \in Listed(fs), NEW y \in Listed(fs), x # y
    PROVE  Before(fs, lat, x, y) \/ Before(fs, lat, y, x)
<1>1. /\ lat[x] \in Int /\ lat[y] \in Int
      /\ Position(fs, x) \in Int /\ Position(fs, y) \in Int
  BY ListedFinite, LatencyType, PositionType, ListType
<1>2. Position(fs, x) # Position(fs, y)
  BY PositionType
<1>3. QED
  BY <1>1, <1>2 DEF Before, KeyBefore

-----------------------------------------------------------------------------
(* Ranks.                                                                  *)

Earlier(fs, lat, name) == {x \in Eligible(fs, lat) : Before(fs, lat, x, name)}

LEMMA EligibleFinite ==
    ASSUME NEW fs \in Lists, NEW lat \in Latency
    PROVE  /\ Eligible(fs, lat) \subseteq Listed(fs)
           /\ IsFiniteSet(Eligible(fs, lat)) /\ Cardinality(Eligible(fs, lat)) \in Nat
<1>1. Eligible(fs, lat) \subseteq Listed(fs)
  BY DEF Eligible
<1>2. IsFiniteSet(Eligible(fs, lat))
  BY <1>1, ListedFinite, FS_Subset
<1>3. QED
  BY <1>1, <1>2, FS_CardinalityType

LEMMA RankType ==
    ASSUME NEW fs \in Lists, NEW lat \in Latency, NEW x \in Eligible(fs, lat)
    PROVE  Rank(fs, lat, x) \in 1..Cardinality(Eligible(fs, lat))
<1> DEFINE e == Eligible(fs, lat)
           before == Earlier(fs, lat, x)
<1>1. x \in Listed(fs) /\ IsFiniteSet(e) /\ Cardinality(e) \in Nat
  BY EligibleFinite
<1>2. before \in SUBSET e /\ x \notin before
  BY <1>1, BeforeIrreflexive DEF Earlier
<1>3. IsFiniteSet(before) /\ Cardinality(before) <= Cardinality(e) /\ before # e
  BY <1>1, <1>2, FS_Subset
<1>4. Cardinality(before) # Cardinality(e)
  BY <1>1, <1>2, <1>3, FS_Subset
<1>5. Cardinality(before) \in Nat
  BY <1>3, FS_CardinalityType
<1>6. Rank(fs, lat, x) = 1 + Cardinality(before)
  BY DEF Rank, Earlier
<1> HIDE DEF e, before
<1>7. Rank(fs, lat, x) \in 1..Cardinality(e)
  BY <1>1, <1>3, <1>4, <1>5, <1>6
<1>8. QED
  BY <1>7 DEF e

LEMMA RankFollowsKeys ==
    ASSUME NEW fs \in Lists, NEW lat \in Latency,
           NEW x \in Eligible(fs, lat), NEW y \in Eligible(fs, lat),
           Before(fs, lat, x, y)
    PROVE  Rank(fs, lat, x) < Rank(fs, lat, y)
<1> DEFINE e == Eligible(fs, lat)
           fewer == Earlier(fs, lat, x)
           more == Earlier(fs, lat, y)
<1>1. x \in Listed(fs) /\ y \in Listed(fs) /\ IsFiniteSet(e) /\ e \subseteq Listed(fs)
  BY EligibleFinite
<1>2. fewer \subseteq more
  BY <1>1, BeforeTransitive DEF Earlier
<1>3. x \in more /\ x \notin fewer
  BY <1>1, BeforeIrreflexive DEF Earlier
<1>4. more \in SUBSET e
  BY DEF Earlier
<1>5. IsFiniteSet(more)
  BY <1>1, <1>4, FS_Subset
<1> HIDE DEF fewer, more
<1>6. fewer \in SUBSET more /\ fewer # more
  BY <1>2, <1>3
<1>7. IsFiniteSet(fewer) /\ Cardinality(fewer) <= Cardinality(more)
  BY <1>5, <1>6, FS_Subset
<1>8. Cardinality(fewer) # Cardinality(more)
  BY <1>5, <1>6, FS_Subset
<1>9. Cardinality(fewer) \in Nat /\ Cardinality(more) \in Nat
  BY <1>5, <1>7, FS_CardinalityType
<1>10. /\ Rank(fs, lat, x) = 1 + Cardinality(fewer)
       /\ Rank(fs, lat, y) = 1 + Cardinality(more)
  BY DEF Rank, Earlier, fewer, more
<1>11. QED
  BY <1>7, <1>8, <1>9, <1>10

LEMMA RankInjective ==
    ASSUME NEW fs \in Lists, NEW lat \in Latency,
           NEW x \in Eligible(fs, lat), NEW y \in Eligible(fs, lat),
           Rank(fs, lat, x) = Rank(fs, lat, y)
    PROVE  x = y
<1>1. x \in Listed(fs) /\ y \in Listed(fs)
  BY EligibleFinite
<1>2. Rank(fs, lat, x) \in Int /\ Rank(fs, lat, y) \in Int
  BY RankType, EligibleFinite
<1>3. QED
  BY <1>1, <1>2, BeforeTotal, RankFollowsKeys

LEMMA RankReached ==
    ASSUME NEW fs \in Lists, NEW lat \in Latency,
           NEW i \in 1..Cardinality(Eligible(fs, lat))
    PROVE  \E name \in Eligible(fs, lat) : Rank(fs, lat, name) = i
<1> DEFINE e == Eligible(fs, lat)
           n == Cardinality(e)
           f == [name \in e |-> Rank(fs, lat, name)]
<1>1. SUFFICES ASSUME \A name \in e : Rank(fs, lat, name) # i PROVE FALSE
  OBVIOUS
<1>2. IsFiniteSet(e) /\ n \in Nat
  BY EligibleFinite
<1>3. IsFiniteSet(1..n) /\ Cardinality(1..n) = n
  BY <1>2, FS_Interval
<1>4. IsFiniteSet((1..n) \ {i}) /\ Cardinality((1..n) \ {i}) = n - 1
  BY <1>3, FS_RemoveElement
<1>5. f \in [e -> (1..n) \ {i}]
  BY <1>1, RankType
<1> HIDE DEF f
<1>6. \E x, y \in e : x # y /\ f[x] = f[y]
  BY <1>2, <1>4, <1>5, FS_PigeonHole
<1>7. QED
  BY <1>6, RankInjective DEF f

-----------------------------------------------------------------------------
(* What build_cascade_queue returns.                                       *)

Places(fs, lat, l) == UpTo(Cardinality(Eligible(fs, lat)), Cap(l))

LEMMA QueueOfEligible ==
    ASSUME NEW fs \in Lists, NEW lat \in Latency, NEW l \in Int,
           Eligible(fs, lat) # {}
    PROVE  LET q == BuildQueue(fs, lat, l)
               k == Places(fs, lat, l)
           IN  /\ k \in 1..Cardinality(Eligible(fs, lat)) /\ Len(q) = k
               /\ q \in [1..k -> Eligible(fs, lat)]
               /\ \A i \in 1..k : Rank(fs, lat, q[i]) = i
<1> DEFINE e == Eligible(fs, lat)
           q == BuildQueue(fs, lat, l)
           k == Places(fs, lat, l)
<1>1. Cardinality(e) \in Nat /\ Cardinality(e) # 0
  BY EligibleFinite, FS_EmptySet
<1>2. k \in 1..Cardinality(e)
  BY <1>1 DEF Places, UpTo, Cap
<1>3. q = [i \in 1..k |-> CHOOSE name \in e : Rank(fs, lat, name) = i]
  BY DEF BuildQueue, Places
<1>4. \A i \in 1..k : \E name \in e : Rank(fs, lat, name) = i
  <2> TAKE i \in 1..k
  <2>1. i \in 1..Cardinality(e)
    BY <1>1, <1>2
  <2>2. QED
    BY <2>1, RankReached
<1> HIDE DEF e, q, k
<1>5. q \in [1..k -> e] /\ \A i \in 1..k : Rank(fs, lat, q[i]) = i
  BY <1>3, <1>4
<1>6. Len(q) = k
  BY <1>1, <1>2, <1>5
<1>7. QED
  BY <1>2, <1>5, <1>6 DEF e, q, k

(* Nobody is eligible: something was reachable, but nothing in the list.   *)
LEMMA QueueOfDead ==
    ASSUME NEW fs \in Lists, NEW lat \in Latency, NEW l \in Int,
           Eligible(fs, lat) = {}
    PROVE  LET q == BuildQueue(fs, lat, l)
           IN  /\ q \in Lists /\ Len(q) <= Len(fs)
               /\ \A i \in 1..Len(q) : q[i] = fs[i]
               /\ fs # <<>> => q # <<>>
               /\ \A name \in Listed(fs) : lat[name] = Unreachable
<1> DEFINE k == UpTo(Len(fs), Cap(l))
           q == SubSeq(fs, 1, k)
<1>1. /\ Len(fs) \in 0..MaxFiles /\ Len(fs) \in Nat
      /\ fs \in [1..Len(fs) -> Names] /\ fs \in Seq(Names)
      /\ \A i, j \in 1..Len(fs) : fs[i] = fs[j] => i = j
  BY ListType
<1>2. k \in 0..Len(fs) /\ (Len(fs) > 0 => k > 0)
  BY <1>1 DEF UpTo, Cap
<1> HIDE DEF k
<1>3. Len(q) = k /\ q \in [1..k -> Names] /\ \A i \in 1..k : q[i] = fs[i]
  <2>1. \A i \in 1..k : fs[i] \in Names
    BY <1>1, <1>2
  <2>2. /\ q \in Seq(Names) /\ Len(q) = (IF 1 <= k THEN k - 1 + 1 ELSE 0)
        /\ \A i \in 1..(k - 1 + 1) : q[i] = fs[1 + i - 1]
    BY <1>2, <2>1, SubSeqProperties
  <2> HIDE DEF q
  <2>3. Len(q) = k /\ \A i \in 1..k : q[i] = fs[i]
    BY <1>2, <2>2
  <2>4. QED
    BY <2>2, <2>3
<1> HIDE DEF q
<1>4. q \in Lists
  <2>1. k \in 0..MaxFiles
    BY <1>1, <1>2, QueueAssumption
  <2>2. DOMAIN q = 1..k /\ 1..k \subseteq 1..Len(fs)
    BY <1>1, <1>2, <1>3
  <2>3. \A i, j \in DOMAIN q : q[i] = q[j] => i = j
    BY <1>1, <1>3, <2>2
  <2>4. QED
    BY <1>3, <2>1, <2>3 DEF Lists
<1>5. fs # <<>> => q # <<>>
  BY <1>1, <1>2, <1>3
<1>6. \A name \in Listed(fs) : lat[name] = Unreachable
  BY DEF Eligible
<1>7. BuildQueue(fs, lat, l) = q
  BY DEF BuildQueue, q, k
<1>8. QED
  BY <1>1, <1>2, <1>3, <1>4, <1>5, <1>6, <1>7

-----------------------------------------------------------------------------
(* What holds of every queue.                                              *)

LEMMA QueueIsList ==
    ASSUME NEW fs \in Lists, NEW lat \in Latency, NEW l \in Int
    PROVE  LET q == BuildQueue(fs, lat, l)
           IN  /\ q \in Lists /\ Len(q) \in Nat
               /\ \A i \in 1..Len(q) : q[i] \in Listed(fs)
<1> DEFINE q == BuildQueue(fs, lat, l)
           e == Eligible(fs, lat)
<1>1. CASE e = {}
  <2>1. q \in Lists /\ Len(q) <= Len(fs) /\ \A i \in 1..Len(q) : q[i] = fs[i]
    BY <1>1, QueueOfDead
  <2>2. Len(q) \in Nat /\ Len(fs) \in Nat
    BY <2>1, ListType
  <2> HIDE DEF q
  <2>3. \A i \in 1..Len(q) : i \in 1..Len(fs)
    BY <2>1, <2>2
  <2>4. \A i \in 1..Len(q) : q[i] \in Listed(fs)
    BY <2>1, <2>3 DEF Listed
  <2>5. QED
    BY <2>1, <2>2, <2>4 DEF q
<1>2. CASE e # {}
  <2> DEFINE k == Places(fs, lat, l)
  <2>1. /\ k \in 1..Cardinality(e) /\ Len(q) = k /\ q \in [1..k -> e]
        /\ \A i \in 1..k : Rank(fs, lat, q[i]) = i
    BY <1>2, QueueOfEligible
  <2>2. e \subseteq Listed(fs) /\ IsFiniteSet(e) /\ Cardinality(e) \in Nat
    BY EligibleFinite
  <2>3. Listed(fs) \subseteq Names
    BY ListedFinite
  <2>4. Cardinality(e) <= MaxFiles
    <3>1. Len(fs) \in 0..MaxFiles /\ Len(fs) \in Nat /\ fs \in [1..Len(fs) -> Names]
      BY ListType
    <3>2. fs \in Surjection(1..Len(fs), Listed(fs))
      BY <3>1 DEF Listed, Surjection
    <3>3. Cardinality(Listed(fs)) <= Len(fs)
      BY <3>1, <3>2, FS_SurjCardinalityBound DEF ExistsSurjection
    <3>4. IsFiniteSet(Listed(fs)) /\ Cardinality(Listed(fs)) \in Nat
      BY ListedFinite, FS_CardinalityType
    <3>5. Cardinality(e) <= Cardinality(Listed(fs))
      BY <2>2, <3>4, FS_Subset
    <3>6. QED
      BY <2>2, <3>1, <3>3, <3>4, <3>5, QueueAssumption
  <2> HIDE DEF q, e, k
  <2>5. k \in 0..MaxFiles /\ q \in [1..k -> Names]
    BY <2>1, <2>2, <2>3, <2>4, QueueAssumption
  <2>6. \A i, j \in DOMAIN q : q[i] = q[j] => i = j
    BY <2>1
  <2>7. q \in Lists
    BY <2>5, <2>6 DEF Lists
  <2>8. \A i \in 1..Len(q) : q[i] \in Listed(fs)
    BY <2>1, <2>2
  <2>9. Len(q) \in Nat
    BY <2>1, <2>2
  <2>10. QED
    BY <2>7, <2>8, <2>9 DEF q
<1>3. QED
  BY <1>1, <1>2

(* Servers come in the order of their keys.                                *)
LEMMA QueueFollowsKeys ==
    ASSUME NEW fs \in Lists, NEW lat \in Latency, NEW l \in Int,
           Eligible(fs, lat) # {},
           NEW i \in 1..Len(BuildQueue(fs, lat, l)),
           NEW name \in Eligible(fs, lat),
           i < Rank(fs, lat, name)
    PROVE  Before(fs, lat, BuildQueue(fs, lat, l)[i], name)
<1> DEFINE q == BuildQueue(fs, lat, l)
           k == Places(fs, lat, l)
           e == Eligible(fs, lat)
<1>1. /\ k \in 1..Cardinality(e) /\ Len(q) = k /\ q \in [1..k -> e]
      /\ \A j \in 1..k : Rank(fs, lat, q[j]) = j
  BY QueueOfEligible
<1> HIDE DEF q, k
<1>2. i \in 1..k /\ q[i] \in e /\ Rank(fs, lat, q[i]) = i
  BY <1>1 DEF q
<1>3. e \subseteq Listed(fs) /\ Cardinality(e) \in Nat
  BY EligibleFinite
<1>4. Rank(fs, lat, name) \in Int /\ i \in Int
  BY <1>2, <1>3, <1>1, RankType
<1>5. q[i] # name
  BY <1>2, <1>4
<1>6. ~Before(fs, lat, name, q[i])
  <2> SUFFICES ASSUME Before(fs, lat, name, q[i]) PROVE FALSE
    OBVIOUS
  <2>1. Rank(fs, lat, name) < i
    BY <1>2, RankFollowsKeys
  <2>2. QED
    BY <1>4, <2>1
<1>7. QED
  BY <1>2, <1>3, <1>5, <1>6, BeforeTotal DEF q

LEMMA KeysFollowLatency ==
    ASSUME NEW fs \in Lists, NEW lat \in Latency,
           NEW x \in Names, NEW y \in Names, Before(fs, lat, x, y), lat[y] >= 0
    PROVE  lat[x] >= 0 /\ lat[x] <= lat[y]
<1>1. lat[x] \in Int /\ lat[y] \in Int
  BY LatencyType
<1>2. HasAnyRtt(lat)
  BY DEF HasAnyRtt
<1>3. QED
  BY <1>1, <1>2 DEF Before, KeyBefore

-----------------------------------------------------------------------------
(* The specification: the queue is the one built from what was given.      *)

IInv ==
    /\ files \in Lists /\ latencies \in Latency /\ limit \in Int /\ built \in BOOLEAN
    /\ built => queue = BuildQueue(files, latencies, limit)
    /\ ~built => queue = <<>>

LEMMA InitIInv == Init => IInv
BY QueueAssumption DEF Init, IInv, Latency

LEMMA NextIInv ==
    ASSUME IInv, [Next]_vars
    PROVE  IInv'
<1>1. CASE Build
  <2>1. UNCHANGED <<files, latencies, limit>> /\ built' = TRUE
        /\ queue' = BuildQueue(files, latencies, limit)
    BY <1>1 DEF Build
  <2>2. QED
    BY <2>1 DEF IInv
<1>2. CASE UNCHANGED vars
  BY <1>2 DEF IInv, vars
<1>3. QED
  BY <1>1, <1>2 DEF Next

LEMMA SpecIInv == Spec => []IInv
BY InitIInv, NextIInv, PTL DEF Spec

(* build_cascade_queue returns a list of listed servers without            *)
(* repetitions, for any list, measurements and cap.                        *)
THEOREM QueueHasNoRepetitions == Spec => []TypeOK
<1>1. IInv => TypeOK
  <2> SUFFICES ASSUME IInv PROVE TypeOK
    OBVIOUS
  <2>1. CASE built
    BY <2>1, QueueIsList DEF IInv, TypeOK
  <2>2. CASE ~built
    <3>1. <<>> \in [1..0 -> Names] /\ 0 \in 0..MaxFiles
      BY QueueAssumption
    <3>2. <<>> \in Lists
      BY <3>1 DEF Lists
    <3>3. QED
      BY <2>2, <3>2 DEF IInv, TypeOK
  <2>3. QED
    BY <2>1, <2>2
<1>2. QED
  BY SpecIInv, <1>1, PTL

(* "Measured-latency order", for any number of servers: the walk meets     *)
(* slower servers later and the cap cuts off none that is faster than one  *)
(* it lets through.                                                        *)
THEOREM WalkIsFastestFirst == Spec => []FastestFirst
<1>1. IInv => FastestFirst
  <2> SUFFICES ASSUME IInv, built PROVE FastestFirst
    BY DEF FastestFirst
  <2>1. /\ queue = BuildQueue(files, latencies, limit)
        /\ files \in Lists /\ latencies \in Latency /\ limit \in Int
    BY DEF IInv
  <2>2. /\ Len(queue) \in Nat
        /\ \A i \in 1..Len(queue) : queue[i] \in Listed(files)
        /\ Listed(files) \subseteq Names
    BY <2>1, QueueIsList, ListedFinite
  <2>3. CASE Eligible(files, latencies) = {}
    <3>1. \A name \in Listed(files) : ~Measured(name)
      BY <2>1, <2>3, QueueOfDead DEF Measured, Unreachable
    <3>2. QED
      BY <2>2, <3>1 DEF FastestFirst
  <2>4. CASE Eligible(files, latencies) # {}
    <3> DEFINE e == Eligible(files, latencies)
               rank(name) == Rank(files, latencies, name)
    <3>1. /\ e \subseteq Listed(files) /\ Len(queue) \in 1..Cardinality(e)
          /\ Cardinality(e) \in Nat
          /\ queue \in [1..Len(queue) -> e]
          /\ \A i \in 1..Len(queue) : rank(queue[i]) = i
      <4>1. e \subseteq Listed(files) /\ Cardinality(e) \in Nat
        BY <2>1, EligibleFinite
      <4>2. /\ Len(queue) \in 1..Cardinality(e)
            /\ queue \in [1..Len(queue) -> e]
            /\ \A i \in 1..Len(queue) : rank(queue[i]) = i
        BY <2>1, <2>4, QueueOfEligible
      <4>3. QED
        BY <4>1, <4>2
    <3>2. ASSUME NEW i \in 1..Len(queue), NEW name \in e, i < rank(name), Measured(name)
          PROVE  Measured(queue[i]) /\ latencies[queue[i]] <= latencies[name]
      <4>1. Before(files, latencies, queue[i], name)
        BY <2>1, <2>4, <3>2, QueueFollowsKeys
      <4>2. queue[i] \in Names /\ name \in Names
        BY <2>2, <3>1, <3>2
      <4>3. QED
        BY <2>1, <3>2, <4>1, <4>2, KeysFollowLatency DEF Measured
    <3>3. ASSUME NEW i \in 1..Len(queue), NEW j \in 1..Len(queue),
                 i < j, Measured(queue[j])
          PROVE  Measured(queue[i]) /\ latencies[queue[i]] <= latencies[queue[j]]
      <4>1. queue[j] \in e /\ rank(queue[j]) = j
        BY <3>1
      <4>2. QED
        BY <3>2, <3>3, <4>1
    <3>4. ASSUME NEW kept \in Queued, NEW cut \in Listed(files) \ Queued, Measured(cut)
          PROVE  Measured(kept) /\ latencies[kept] <= latencies[cut]
      <4>1. PICK i \in 1..Len(queue) : queue[i] = kept
        BY DEF Queued
      <4>2. cut \in e
        BY <2>2, <3>4 DEF Eligible, Measured, Unreachable
      <4>3. rank(cut) \in 1..Cardinality(e)
        BY <2>1, <4>2, RankType
      <4>4. rank(cut) \notin 1..Len(queue)
        <5> SUFFICES ASSUME rank(cut) \in 1..Len(queue) PROVE FALSE
          OBVIOUS
        <5>1. queue[rank(cut)] \in e /\ rank(queue[rank(cut)]) = rank(cut)
          BY <3>1
        <5>2. queue[rank(cut)] = cut
          BY <2>1, <4>2, <5>1, RankInjective
        <5>3. QED
          BY <3>4, <5>2 DEF Queued
      <4>5. i < rank(cut)
        BY <2>2, <3>1, <4>3, <4>4
      <4>6. QED
        BY <3>2, <3>4, <4>1, <4>2, <4>5
    <3>5. QED
      BY <3>3, <3>4 DEF FastestFirst
  <2>5. QED
    BY <2>3, <2>4
<1>2. QED
  BY SpecIInv, <1>1, PTL

(* A dead server is tried only if there is nothing else to try, and a list *)
(* with servers never yields an empty queue.                               *)
THEOREM DeadServersOnlyIfNoOther == Spec => []DeadOnlyAsLastResort
<1>1. IInv => DeadOnlyAsLastResort
  <2> SUFFICES ASSUME IInv, built PROVE DeadOnlyAsLastResort
    BY DEF DeadOnlyAsLastResort
  <2>1. /\ queue = BuildQueue(files, latencies, limit)
        /\ files \in Lists /\ latencies \in Latency /\ limit \in Int
    BY DEF IInv
  <2>2. CASE Eligible(files, latencies) = {}
    BY <2>1, <2>2, QueueOfDead DEF DeadOnlyAsLastResort
  <2>3. CASE Eligible(files, latencies) # {}
    <3>1. /\ Len(queue) \in 1..Cardinality(Eligible(files, latencies))
          /\ Cardinality(Eligible(files, latencies)) \in Nat
          /\ queue \in [1..Len(queue) -> Eligible(files, latencies)]
      BY <2>1, <2>3, QueueOfEligible, EligibleFinite
    <3>2. queue # <<>>
      BY <3>1
    <3>3. \A name \in Queued : name \in Eligible(files, latencies)
      BY <3>1 DEF Queued
    <3>4. \A name \in Queued : latencies[name] = Unreachable => ~HasAnyRtt(latencies)
      BY <3>3 DEF Eligible
    <3>5. QED
      BY <3>2, <3>4 DEF DeadOnlyAsLastResort, HasAnyRtt, Measured
  <2>4. QED
    BY <2>2, <2>3
<1>2. QED
  BY SpecIInv, <1>1, PTL

(* No candidate waits behind one that is given more time, and none is given*)
(* more than the upper bound.                                              *)
THEOREM QueueSpendsLeastFirst == Spec => []BudgetsFollowQueue
<1>1. IInv /\ TypeOK /\ FastestFirst => BudgetsFollowQueue
  <2> DEFINE budget(i) == AttemptTimeout(latencies[queue[i]])
  <2> SUFFICES ASSUME IInv, TypeOK, FastestFirst, built, NEW j \in 1..Len(queue)
               PROVE  /\ MinAttempt <= budget(j) /\ budget(j) <= MaxAttempt
                      /\ Measured(queue[j]) => \A i \in 1..j : budget(i) <= budget(j)
    BY DEF BudgetsFollowQueue
  <2>1. Len(queue) \in Nat /\ \A i \in 1..Len(queue) : latencies[queue[i]] \in Int
    BY ListType, LatencyType DEF TypeOK, IInv
  <2>2. MinAttempt <= budget(j) /\ budget(j) <= MaxAttempt
    BY <2>1, BudgetWithinBounds
  <2>3. ASSUME Measured(queue[j]), NEW i \in 1..j PROVE budget(i) <= budget(j)
    <3>1. i \in 1..Len(queue) /\ (i = j \/ i < j)
      BY <2>1
    <3>2. latencies[queue[i]] <= latencies[queue[j]]
      BY <2>1, <2>3, <3>1 DEF FastestFirst
    <3>3. QED
      BY <2>1, <3>1, <3>2, SlowerServersGetNoLess
  <2>4. QED
    BY <2>2, <2>3
<1>2. QED
  BY SpecIInv, QueueHasNoRepetitions, WalkIsFastestFirst, <1>1, PTL
=============================================================================
