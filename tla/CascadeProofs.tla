--------------------------- MODULE CascadeProofs ---------------------------
(***************************************************************************)
(* Proofs about Cascade for all values of its constants.  Each method of   *)
(* the controller is an operator on its record, so each lemma says what one*)
(* method preserves, and the step lemmas only put the methods together.    *)
(*                                                                         *)
(* The first part has the types, and that a running cascade is never stuck.*)
(* The second is about the walk: one verdict per server in the order of the*)
(* queue, every server of an exhausted run tried (both for punctual        *)
(* dispatch: with a tick that comes before a timeout that is due, TLC finds*)
(* a server given up untried), no run brought back under a generation that *)
(* has been used, and no server opened more than four times in a run.  The *)
(* last shows that Cascade implements AutoConnect by the mapping of        *)
(* CascadeRefinement.                                                      *)
(***************************************************************************)
EXTENDS CascadeRefinement, SequenceTheorems, FiniteSetTheorems, FunctionTheorems, TLAPS

(* Turning timers on and off keeps the record well typed.                  *)
LEMMA DisarmType ==
    ASSUME NEW c \in Controller
    PROVE  DisarmTimers(c) \in Controller
BY DEF DisarmTimers, Controller, Off, Timer

(* So does the end of a run, before its attempt is closed.                 *)
LEMMA EndedType ==
    ASSUME NEW c \in Controller, NEW phase \in Phases
    PROVE  [DisarmTimers(c) EXCEPT !.active = FALSE, !.phase = phase,
              !.expect = FALSE, !.autoTest = FALSE,
              !.locked = FALSE, !.testBtn = TRUE] \in Controller
<1> DEFINE d == DisarmTimers(c)
<1>1. d \in Controller
  BY DisarmType
<1> HIDE DEF d
<1>2. [d EXCEPT !.active = FALSE, !.phase = phase, !.expect = FALSE,
         !.autoTest = FALSE, !.locked = FALSE, !.testBtn = TRUE] \in Controller
  BY <1>1 DEF Controller
<1>3. QED
  BY <1>2 DEF d

(* And a connection that was waited for.                                   *)
LEMMA UpType ==
    ASSUME NEW c \in Controller
    PROVE  [DisarmTimers(c) EXCEPT !.expect = FALSE] \in Controller
<1> DEFINE d == DisarmTimers(c)
<1>1. d \in Controller
  BY DisarmType
<1> HIDE DEF d
<1>2. [d EXCEPT !.expect = FALSE] \in Controller
  BY <1>1 DEF Controller
<1>3. QED
  BY <1>2 DEF d

(* A fresh orphan identifier exists whenever there is room for one.        *)
LEMMA FreshIdType ==
    ASSUME NEW c \in Controller, HasRoom(c)
    PROVE  FreshId(c) \in OrphanIds
BY DEF HasRoom, FreshId

LEMMA ForgetType ==
    ASSUME NEW c \in Controller, HasRoom(c)
    PROVE  ForgetTimeout(c) \in Controller
<1>1. FreshId(c) \in OrphanIds
  BY FreshIdType
<1> DEFINE left == [id |-> FreshId(c), gen |-> c.timeout.gen, fuse |-> c.timeout.fuse]
<1>2. c.timeout \in Timer /\ c.orphans \subseteq Orphan
  BY DEF Controller
<1>3. left \in Orphan
  BY <1>1, <1>2 DEF Orphan, Timer
<1> HIDE DEF left
<1>4. c.orphans \cup {left} \subseteq Orphan /\ Off \in Timer
  BY <1>2, <1>3 DEF Off, Timer
<1>5. [c EXCEPT !.timeout = Off, !.orphans = c.orphans \cup {left}] \in Controller
  BY <1>4 DEF Controller
<1>6. QED
  BY <1>5 DEF ForgetTimeout, left

LEMMA ArmTimeoutType ==
    ASSUME NEW c \in Controller
    PROVE  ArmTimeoutAndTicks(c) \in Controller
BY DEF ArmTimeoutAndTicks, DisarmTimers, On, Controller, Off, Timer

LEMMA ArmSettleType ==
    ASSUME NEW c \in Controller
    PROVE  ArmSettle(c) \in Controller
BY CascadeAssumption DEF ArmSettle, On, Controller, Timer

LEMMA EmitType ==
    ASSUME NEW c \in Controller, NEW call \in Calls
    PROVE  Emit(c, call) \in Controller
<1>1. c.out \in Seq(Calls)
  BY DEF Controller
<1>2. Append(c.out, call) \in Seq(Calls)
  BY <1>1
<1>3. QED
  BY <1>2 DEF Emit, Controller

LEMMA CompleteType ==
    ASSUME NEW c \in Controller, NEW result \in Results
    PROVE  CompleteActiveAttempt(c, result) \in Controller
<1>1. CASE IsOpen(c)
  <2> DEFINE n == Len(c.attempts)
             closed == [c.attempts[n] EXCEPT !.result = result]
  <2>1. c.attempts \in Seq(Attempt) /\ n \in 1..n
    BY <1>1, EmptySeq DEF IsOpen, Controller
  <2>2. c.attempts[n] \in Attempt
    BY <2>1, ElementOfSeq
  <2>3. closed \in Attempt
    BY <2>2 DEF Attempt
  <2>4. [c.attempts EXCEPT ![n] = closed] \in Seq(Attempt)
    BY <2>1, <2>3, ExceptSeq
  <2>5. CompleteActiveAttempt(c, result) = [c EXCEPT !.attempts = [c.attempts EXCEPT ![n] = closed]]
    BY <1>1, <2>1 DEF CompleteActiveAttempt, Controller
  <2> HIDE DEF n, closed
  <2>6. QED
    BY <2>4, <2>5 DEF Controller
<1>2. CASE ~IsOpen(c)
  BY <1>2 DEF CompleteActiveAttempt
<1>3. QED
  BY <1>1, <1>2

LEMMA FinishType ==
    ASSUME NEW c \in Controller, NEW phase \in Phases,
           NEW restore \in BOOLEAN, NEW status \in BOOLEAN
    PROVE  Finish(c, phase, restore, status) \in Controller
<1> DEFINE ended == [DisarmTimers(c) EXCEPT !.active = FALSE, !.phase = phase,
                        !.expect = FALSE, !.autoTest = FALSE,
                        !.locked = FALSE, !.testBtn = TRUE]
<1>1. ended \in Controller
  BY EndedType
<1> HIDE DEF ended
<1>2. \A r \in {"success", "cancelled", "backend_error"} :
         CompleteActiveAttempt(ended, r) \in Controller
  BY <1>1, CompleteType DEF Results
<1>3. [CompleteActiveAttempt(ended, "cancelled") EXCEPT !.manual = TRUE] \in Controller
  BY <1>2 DEF Controller
<1>4. Emit([CompleteActiveAttempt(ended, "cancelled") EXCEPT !.manual = TRUE], "disconnect")
         \in Controller
  BY <1>3, EmitType DEF Calls
<1>5. QED
  BY <1>2, <1>4 DEF Finish, ended

LEMMA RecordFailureType ==
    ASSUME NEW c \in Controller, NEW reason \in Reasons
    PROVE  RecordFailure(c, reason) \in Controller
<1>1. CASE c.current = NoServer
  BY <1>1 DEF RecordFailure
<1>2. CASE c.current # NoServer
  <2> DEFINE blamed == Append(c.failures, [server |-> c.current, reason |-> reason])
  <2>1. c.failures \in Seq(Failure) /\ c.current \in Servers
    BY <1>2 DEF Controller
  <2>2. [server |-> c.current, reason |-> reason] \in Failure
    BY <2>1 DEF Failure
  <2>3. blamed \in Seq(Failure)
    BY <2>1, <2>2
  <2> HIDE DEF blamed
  <2>4. [c EXCEPT !.failures = blamed] \in Controller
    BY <2>3 DEF Controller
  <2>5. reason \in Results
    BY DEF Results
  <2>6. QED
    BY <1>2, <2>4, <2>5, CompleteType DEF RecordFailure, blamed
<1>3. QED
  BY <1>1, <1>2

(* The record that has left the server at index.                           *)
LEMMA MovedType ==
    ASSUME NEW c \in Controller
    PROVE  [c EXCEPT !.index = @ + 1, !.phase = "settling",
                     !.expect = TRUE, !.manual = TRUE] \in Controller
<1>1. c.index + 1 \in Nat /\ "settling" \in Phases
  BY DEF Controller, Phases
<1>2. QED
  BY <1>1 DEF Controller, Phases

(* The record of a run that is being called off.                           *)
LEMMA CalledOffType ==
    ASSUME NEW c \in Controller
    PROVE  [c EXCEPT !.autoTest = FALSE, !.gen = @ + 1] \in Controller
<1>1. c.gen + 1 \in Nat
  BY DEF Controller
<1>2. QED
  BY <1>1 DEF Controller

LEMMA AdvanceType ==
    ASSUME NEW c \in Controller, NEW reason \in Reasons, NEW status \in BOOLEAN
    PROVE  Advance(c, reason, status) \in Controller
<1> DEFINE recorded == DisarmTimers(RecordFailure(c, reason))
           moved == [recorded EXCEPT !.index = @ + 1, !.phase = "settling",
                                     !.expect = TRUE, !.manual = TRUE]
<1>1. recorded \in Controller
  BY RecordFailureType, DisarmType
<1> HIDE DEF recorded
<1>2. moved \in Controller
  BY <1>1, MovedType
<1> HIDE DEF moved
<1>3. Emit(moved, "disconnect") \in Controller
  BY <1>2, EmitType DEF Calls
<1>4. (IF status THEN Emit(moved, "disconnect") ELSE moved) \in Controller
  BY <1>2, <1>3
<1>5. QED
  BY <1>4, ArmSettleType DEF Advance, moved, recorded

(* The record in which an attempt on server s is open.                     *)
LEMMA EnteredType ==
    ASSUME NEW c \in Controller, NEW s \in Servers, NEW as \in Seq(Attempt)
    PROVE  [c EXCEPT !.current = s, !.phase = "connecting", !.left = Budget[s],
              !.attempts = as, !.expect = FALSE, !.manual = FALSE] \in Controller
<1>1. Budget[s] \in Nat
  BY CascadeAssumption
<1>2. "connecting" \in Phases
  BY DEF Phases
<1>3. QED
  BY <1>1, <1>2 DEF Controller, Phases

LEMMA OpenAttemptType ==
    ASSUME NEW c \in Controller, c.index < Len(c.queue)
    PROVE  OpenAttempt(c) \in Controller
<1> DEFINE s == c.queue[c.index + 1]
           entered == [c EXCEPT !.current = s, !.phase = "connecting", !.left = Budget[s],
                         !.attempts = Append(@, [server |-> s, result |-> "open"]),
                         !.expect = FALSE, !.manual = FALSE]
<1>1. c.queue \in Seq(Servers) /\ c.index + 1 \in 1..Len(c.queue)
  BY DEF Controller
<1>2. s \in Servers
  BY <1>1, ElementOfSeq
<1> HIDE DEF s
<1>4. [server |-> s, result |-> "open"] \in Attempt
  BY <1>2 DEF Attempt, Results
<1>5. Append(c.attempts, [server |-> s, result |-> "open"]) \in Seq(Attempt)
  BY <1>4 DEF Controller
<1>6. entered \in Controller
  BY <1>2, <1>5, EnteredType
<1> HIDE DEF entered
<1>7. QED
  BY <1>6, ArmTimeoutType DEF OpenAttempt, entered, s

LEMMA StillConnectedType ==
    ASSUME NEW c \in Controller, NEW answer, NEW status \in BOOLEAN
    PROVE  StillConnected(c, answer, status) \in Controller
<1> DEFINE again == [c EXCEPT !.retries = @ + 1]
           expecting == [again EXCEPT !.expect = TRUE, !.manual = TRUE, !.phase = "settling"]
<1>1. again \in Controller
  <2>1. c.retries + 1 \in Nat
    BY DEF Controller
  <2>2. QED
    BY <2>1 DEF Controller
<1>2. expecting \in Controller
  BY <1>1 DEF Controller, Phases
<1> HIDE DEF again, expecting
<1>3. /\ Advance(again, "disconnect", status) \in Controller
      /\ Advance(expecting, "error", status) \in Controller
  BY <1>1, <1>2, AdvanceType DEF Reasons
<1>4. ArmSettle(Emit(expecting, "disconnect")) \in Controller
  BY <1>2, EmitType, ArmSettleType DEF Calls
<1>5. QED
  BY <1>3, <1>4 DEF StillConnected, again, expecting

LEMMA TryCurrentServerType ==
    ASSUME NEW c \in Controller, NEW answer, NEW status \in BOOLEAN
    PROVE  TryCurrentServer(c, answer, status) \in Controller
<1>1. CASE ~c.active
  BY <1>1 DEF TryCurrentServer
<1>2. CASE c.active /\ c.index >= Len(c.queue)
  BY <1>2, FinishType DEF TryCurrentServer, Phases
<1>3. CASE c.active /\ ~(c.index >= Len(c.queue))
  <2> DEFINE opened  == OpenAttempt(c)
             watched == Emit(opened, "start_watch")
             free    == [watched EXCEPT !.retries = 0]
  <2>1. c.index < Len(c.queue)
    BY <1>3 DEF Controller
  <2>2. opened \in Controller
    BY <2>1, OpenAttemptType
  <2> HIDE DEF opened
  <2>3. watched \in Controller
    BY <2>2, EmitType DEF Calls
  <2> HIDE DEF watched
  <2>4. free \in Controller
    BY <2>3 DEF Controller
  <2> HIDE DEF free
  <2>5. Finish(opened, "exhausted", TRUE, status) \in Controller
    BY <2>2, FinishType DEF Phases
  <2>6. Advance(watched, "error", status) \in Controller
    BY <2>3, AdvanceType DEF Reasons
  <2>7. StillConnected(watched, answer, status) \in Controller
    BY <2>3, StillConnectedType
  <2>8. /\ Advance(free, "missing", status) \in Controller
        /\ Advance(free, "error", status) \in Controller
        /\ Emit(free, "connect") \in Controller
    BY <2>4, AdvanceType, EmitType DEF Reasons, Calls
  <2>9. QED
    BY <1>3, <2>5, <2>6, <2>7, <2>8 DEF TryCurrentServer, free, watched, opened
<1>4. QED
  BY <1>1, <1>2, <1>3

LEMMA BeginType ==
    ASSUME NEW c \in Controller, NEW q \in Queues, NEW opening, NEW status \in BOOLEAN
    PROVE  Begin(c, q, opening, status) \in Controller
<1> DEFINE fresh == [c EXCEPT !.gen = @ + 1, !.active = TRUE, !.queue = q, !.index = 0,
                        !.failures = <<>>, !.attempts = <<>>, !.expect = FALSE,
                        !.retries = 0, !.phase = "connecting", !.current = NoServer,
                        !.manual = FALSE, !.locked = TRUE, !.testBtn = FALSE]
           leaving == [fresh EXCEPT !.expect = TRUE, !.manual = TRUE, !.phase = "settling"]
<1>1. q \in Seq(Servers) /\ <<>> \in Seq(Failure) /\ <<>> \in Seq(Attempt)
  BY CascadeAssumption, EmptySeq
<1>2. fresh \in Controller
  <2>1. c.gen + 1 \in Nat /\ "connecting" \in Phases
    BY DEF Controller, Phases
  <2>2. QED
    BY <1>1, <2>1 DEF Controller
<1> HIDE DEF fresh
<1>3. leaving \in Controller
  BY <1>2 DEF Controller, Phases
<1> HIDE DEF leaving
<1>4. ArmSettle(Emit(Emit(leaving, "start_watch"), "disconnect")) \in Controller
  BY <1>3, EmitType, ArmSettleType DEF Calls
<1>5. TryCurrentServer(fresh, opening, status) \in Controller
  BY <1>2, TryCurrentServerType
<1>6. QED
  BY <1>4, <1>5 DEF Begin, leaving, fresh

LEMMA StartFromVisibleListType ==
    ASSUME NEW c \in Controller, NEW q \in Queues, NEW opening, NEW status \in BOOLEAN
    PROVE  StartFromVisibleList(c, q, opening, status) \in Controller
<1>1. Finish(c, "exhausted", TRUE, status) \in Controller
  BY FinishType DEF Phases
<1>2. CASE q # <<>>
  <2>1. q \in Seq(Servers)
    BY CascadeAssumption
  <2>2. Head(q) \in Servers
    BY <1>2, <2>1, HeadTailProperties
  <2>3. [c EXCEPT !.current = Head(q)] \in Controller
    BY <2>2 DEF Controller
  <2>4. Finish([c EXCEPT !.current = Head(q)], "succeeded", TRUE, status) \in Controller
    BY <2>3, FinishType DEF Phases
  <2>5. QED
    BY <1>2, <2>4, BeginType DEF StartFromVisibleList
<1>3. QED
  BY <1>1, <1>2 DEF StartFromVisibleList

LEMMA CancelType ==
    ASSUME NEW c \in Controller, NEW status \in BOOLEAN
    PROVE  Cancel(c, status) \in Controller
<1> DEFINE told == Emit(c, "cancel_current_operation")
           next == [told EXCEPT !.autoTest = FALSE, !.gen = @ + 1]
<1>1. told \in Controller
  BY EmitType DEF Calls
<1> HIDE DEF told
<1>2. next \in Controller
  BY <1>1, CalledOffType
<1> HIDE DEF next
<1>3. Finish(next, "cancelled", TRUE, status) \in Controller
  BY <1>2, FinishType DEF Phases
<1>4. QED
  BY <1>3 DEF Cancel, next, told

LEMMA OnConnectionEventType ==
    ASSUME NEW c \in Controller, NEW event \in Events, NEW status \in BOOLEAN
    PROVE  OnConnectionEvent(c, event, status) \in Controller
<1>1. [DisarmTimers(c) EXCEPT !.expect = FALSE] \in Controller
  BY UpType
<1>2. Finish([DisarmTimers(c) EXCEPT !.expect = FALSE], "succeeded", FALSE, status)
         \in Controller
  BY <1>1, FinishType DEF Phases
<1>3. [c EXCEPT !.expect = FALSE, !.manual = TRUE] \in Controller
  BY DEF Controller
<1>4. FailureReason(event) \in Reasons
  BY DEF FailureReason, Reasons
<1>5. Advance(c, FailureReason(event), status) \in Controller
  BY <1>4, AdvanceType
<1>6. QED
  BY <1>2, <1>3, <1>5 DEF OnConnectionEvent

LEMMA OnTimeoutType ==
    ASSUME NEW c \in Controller, NEW gen, NEW busy, NEW status \in BOOLEAN
    PROVE  OnTimeout(c, gen, busy, status) \in Controller
<1>1. [c EXCEPT !.left = Extension] \in Controller
  BY CascadeAssumption DEF Controller
<1>2. ArmTimeoutAndTicks([c EXCEPT !.left = Extension]) \in Controller
  BY <1>1, ArmTimeoutType
<1>3. Advance(c, "timeout", status) \in Controller
  BY AdvanceType DEF Reasons
<1>4. QED
  BY <1>2, <1>3 DEF OnTimeout

LEMMA OnTickType ==
    ASSUME NEW c \in Controller, HasRoom(c), NEW busy, NEW status \in BOOLEAN
    PROVE  OnTick(c, busy, status) \in Controller
<1> DEFINE again == [c EXCEPT !.tick.fuse = 1]
<1>1. [c.tick EXCEPT !.fuse = 1] \in Timer /\ Off \in Timer /\ c.left + 1 \in Nat
  <2>1. c.tick \in Timer /\ c.left \in Nat
    BY DEF Controller
  <2>2. QED
    BY <2>1 DEF Timer, Off
<1>2. again \in Controller /\ [c EXCEPT !.tick = Off] \in Controller
  BY <1>1 DEF Controller
<1>3. again.left = c.left
  BY DEF Controller
<1> HIDE DEF again
<1>4. [again EXCEPT !.left = @ + 1] \in Controller
  BY <1>1, <1>2, <1>3 DEF Controller
<1>5. OnTimeout(ForgetTimeout(c), c.tick.gen, FALSE, status) \in Controller
  BY ForgetType, OnTimeoutType
<1>6. QED
  BY <1>2, <1>4, <1>5 DEF OnTick, again

LEMMA OnSettledType ==
    ASSUME NEW c \in Controller, NEW answer, NEW status \in BOOLEAN
    PROVE  OnSettled(c, answer, status) \in Controller
<1>1. [c EXCEPT !.settle = Off] \in Controller
  BY DEF Controller, Off, Timer
<1>2. QED
  BY <1>1, TryCurrentServerType DEF OnSettled

LEMMA TriggerSpeedTestType ==
    ASSUME NEW c \in Controller, test \in {"idle", "running", "cancelling"},
           TriggerSpeedTest(c)
    PROVE  ctl' \in Controller /\ test' \in {"idle", "running", "cancelling"}
<1>1. [c EXCEPT !.testBtn = FALSE] \in Controller
  BY DEF Controller
<1>2. QED
  BY <1>1 DEF TriggerSpeedTest

LEMMA QuietType ==
    ASSUME NEW c \in Controller
    PROVE  Quiet(c) \in Controller
BY EmptySeq DEF Quiet, Controller

LEMMA ShowPreparingType ==
    ASSUME NEW c \in Controller
    PROVE  ShowPreparing(c) \in Controller
<1>1. c.gen + 1 \in Nat /\ "preparing" \in Phases
  BY DEF Controller, Phases
<1>2. <<>> \in Seq(Servers)
  BY EmptySeq
<1>3. QED
  BY <1>1, <1>2 DEF ShowPreparing, Controller

-----------------------------------------------------------------------------
(* A running cascade is never stuck.  Alive is the part of the inductive   *)
(* invariant about one record c and the state t of the speed test.  Most   *)
(* methods leave a record that is Fit, which is Alive for every t.         *)

Alive(c, t) ==
    /\ (Waiting(c) /\ t # "idle") \/ Moving(c)
    /\ c.testBtn \/ c.active \/ t # "idle"

Fit(c) == Moving(c) /\ (c.testBtn \/ c.active)

LEMMA FitAlive ==
    ASSUME NEW c, NEW t, Fit(c)
    PROVE  Alive(c, t)
BY DEF Fit, Alive

LEMMA FinishFit ==
    ASSUME NEW c \in Controller, NEW phase, NEW restore, NEW status
    PROVE  Fit(Finish(c, phase, restore, status))
<1> DEFINE ended == [DisarmTimers(c) EXCEPT !.active = FALSE, !.phase = phase,
                        !.expect = FALSE, !.autoTest = FALSE,
                        !.locked = FALSE, !.testBtn = TRUE]
           Over(d) == ~d.active /\ d.testBtn
<1>1. Over(ended)
  BY DEF DisarmTimers, Controller
<1>2. \A r : Over(CompleteActiveAttempt(ended, r))
  BY <1>1 DEF CompleteActiveAttempt, DisarmTimers, Controller
<1> HIDE DEF ended
<1>3. Over(Finish(c, phase, restore, status))
  BY <1>2 DEF Finish, Emit, ended
<1>4. QED
  BY <1>3 DEF Fit, Moving

LEMMA AdvanceFit ==
    ASSUME NEW c \in Controller, c.active, NEW reason \in Reasons, NEW status \in BOOLEAN
    PROVE  Fit(Advance(c, reason, status))
<1> DEFINE recorded == DisarmTimers(RecordFailure(c, reason))
           moved == [recorded EXCEPT !.index = @ + 1, !.phase = "settling",
                                     !.expect = TRUE, !.manual = TRUE]
           told == IF status THEN Emit(moved, "disconnect") ELSE moved
<1>1. recorded \in Controller
  BY RecordFailureType, DisarmType
<1>2. recorded.active
  BY DEF DisarmTimers, RecordFailure, CompleteActiveAttempt, Controller
<1> HIDE DEF recorded
<1>3. /\ ArmSettle(told).phase = "settling"
      /\ ArmSettle(told).gen = recorded.gen
      /\ ArmSettle(told).active
  BY <1>1, <1>2 DEF ArmSettle, Emit, Controller
<1>4. ArmSettle(told).settle = On(recorded.gen, Settle)
  BY <1>1 DEF ArmSettle, Emit, Controller
<1> HIDE DEF told, moved
<1>5. Fit(ArmSettle(told))
  BY <1>3, <1>4 DEF Fit, Moving, HasSource, On
<1>6. QED
  BY <1>5 DEF Advance, told, moved, recorded

(* A settle timer armed for a run that is settling is enough.              *)
LEMMA ArmSettleFit ==
    ASSUME NEW c \in Controller, c.active, c.phase = "settling"
    PROVE  Fit(ArmSettle(c))
BY DEF ArmSettle, On, Fit, Moving, HasSource, Controller

LEMMA EmitKeeps ==
    ASSUME NEW c \in Controller, NEW call \in Calls
    PROVE  /\ Fit(c) => Fit(Emit(c, call))
           /\ Emit(c, call).active = c.active
           /\ Emit(c, call).phase = c.phase
BY DEF Emit, Fit, Moving, HasSource, Controller

LEMMA ArmTimeoutFit ==
    ASSUME NEW c \in Controller, c.phase \in {"connecting", "settling"}, c.active
    PROVE  Fit(ArmTimeoutAndTicks(c)) /\ ArmTimeoutAndTicks(c).active
BY DEF ArmTimeoutAndTicks, DisarmTimers, On, Fit, Moving, HasSource, Controller

LEMMA OpenAttemptFit ==
    ASSUME NEW c \in Controller, c.active, c.index < Len(c.queue)
    PROVE  Fit(OpenAttempt(c)) /\ OpenAttempt(c).active
BY DEF OpenAttempt, ArmTimeoutAndTicks, DisarmTimers, On, Fit, Moving, HasSource, Controller

LEMMA StillConnectedFit ==
    ASSUME NEW c \in Controller, c.active, NEW answer, NEW status \in BOOLEAN
    PROVE  Fit(StillConnected(c, answer, status))
<1> DEFINE again == [c EXCEPT !.retries = @ + 1]
           expecting == [again EXCEPT !.expect = TRUE, !.manual = TRUE, !.phase = "settling"]
<1>1. c.retries + 1 \in Nat /\ "settling" \in Phases
  BY DEF Controller, Phases
<1>2. again \in Controller /\ again.active
  BY <1>1 DEF Controller
<1>3. expecting \in Controller /\ expecting.active /\ expecting.phase = "settling"
  BY <1>1, <1>2 DEF Controller
<1> HIDE DEF again, expecting
<1>4. /\ Fit(Advance(again, "disconnect", status))
      /\ Fit(Advance(expecting, "error", status))
  BY <1>2, <1>3, AdvanceFit DEF Reasons
<1>5. /\ Emit(expecting, "disconnect") \in Controller
      /\ Emit(expecting, "disconnect").active
      /\ Emit(expecting, "disconnect").phase = "settling"
  BY <1>3, EmitType, EmitKeeps DEF Calls
<1>6. Fit(ArmSettle(Emit(expecting, "disconnect")))
  BY <1>5, ArmSettleFit
<1>7. QED
  BY <1>4, <1>6 DEF StillConnected, again, expecting

LEMMA TryCurrentServerFit ==
    ASSUME NEW c \in Controller, c.active, NEW answer, NEW status \in BOOLEAN
    PROVE  Fit(TryCurrentServer(c, answer, status))
<1>1. CASE c.index >= Len(c.queue)
  BY <1>1, FinishFit DEF TryCurrentServer
<1>2. CASE ~(c.index >= Len(c.queue))
  <2> DEFINE opened  == OpenAttempt(c)
             watched == Emit(opened, "start_watch")
             free    == [watched EXCEPT !.retries = 0]
  <2>1. c.index < Len(c.queue)
    BY <1>2 DEF Controller
  <2>2. opened \in Controller /\ opened.active /\ Fit(opened)
    BY <2>1, OpenAttemptType, OpenAttemptFit
  <2> HIDE DEF opened
  <2>3. watched \in Controller /\ watched.active /\ Fit(watched)
    BY <2>2, EmitType, EmitKeeps DEF Calls
  <2> HIDE DEF watched
  <2>4. free \in Controller /\ free.active /\ Fit(free)
    BY <2>3 DEF Controller, Fit, Moving, HasSource
  <2> HIDE DEF free
  <2>5. Fit(Finish(opened, "exhausted", TRUE, status))
    BY <2>2, FinishFit
  <2>6. Fit(Advance(watched, "error", status))
    BY <2>3, AdvanceFit DEF Reasons
  <2>7. Fit(StillConnected(watched, answer, status))
    BY <2>3, StillConnectedFit
  <2>8. /\ Fit(Advance(free, "missing", status))
        /\ Fit(Advance(free, "error", status))
        /\ Fit(Emit(free, "connect"))
    BY <2>4, AdvanceFit, EmitKeeps DEF Reasons, Calls
  <2>9. QED
    BY <1>2, <2>5, <2>6, <2>7, <2>8 DEF TryCurrentServer, free, watched, opened
<1>3. QED
  BY <1>1, <1>2

LEMMA BeginFit ==
    ASSUME NEW c \in Controller, NEW q \in Queues, NEW opening, NEW status \in BOOLEAN
    PROVE  Fit(Begin(c, q, opening, status))
<1> DEFINE fresh == [c EXCEPT !.gen = @ + 1, !.active = TRUE, !.queue = q, !.index = 0,
                        !.failures = <<>>, !.attempts = <<>>, !.expect = FALSE,
                        !.retries = 0, !.phase = "connecting", !.current = NoServer,
                        !.manual = FALSE, !.locked = TRUE, !.testBtn = FALSE]
           leaving == [fresh EXCEPT !.expect = TRUE, !.manual = TRUE, !.phase = "settling"]
           watched == Emit(leaving, "start_watch")
           told == Emit(watched, "disconnect")
<1>1. q \in Seq(Servers) /\ <<>> \in Seq(Failure) /\ <<>> \in Seq(Attempt)
  BY CascadeAssumption, EmptySeq
<1>2. c.gen + 1 \in Nat /\ "connecting" \in Phases /\ "settling" \in Phases
  BY DEF Controller, Phases
<1>3. fresh \in Controller /\ fresh.active
  BY <1>1, <1>2 DEF Controller
<1> HIDE DEF fresh
<1>4. /\ leaving \in Controller
      /\ leaving.active
      /\ leaving.phase = "settling"
  <2>1. leaving \in Controller
    BY <1>2, <1>3 DEF Controller
  <2>2. leaving.active /\ leaving.phase = "settling"
    BY <1>3 DEF Controller
  <2>3. QED
    BY <2>1, <2>2
<1> HIDE DEF leaving
<1>5. watched \in Controller /\ watched.active /\ watched.phase = "settling"
  BY <1>4, EmitType, EmitKeeps DEF Calls
<1> HIDE DEF watched
<1>6. told \in Controller /\ told.active /\ told.phase = "settling"
  BY <1>5, EmitType, EmitKeeps DEF Calls
<1> HIDE DEF told
<1>7. Fit(ArmSettle(told))
  BY <1>6, ArmSettleFit
<1>8. Fit(TryCurrentServer(fresh, opening, status))
  BY <1>3, TryCurrentServerFit
<1>9. QED
  BY <1>7, <1>8 DEF Begin, told, watched, leaving, fresh

LEMMA StartFromVisibleListFit ==
    ASSUME NEW c \in Controller, NEW q \in Queues, NEW opening, NEW status \in BOOLEAN
    PROVE  LET r == StartFromVisibleList(c, q, opening, status)
           IN  Fit(r) \/ (r = c /\ ~c.active)
<1>1. CASE q # <<>>
  <2>1. q \in Seq(Servers)
    BY CascadeAssumption
  <2>2. Head(q) \in Servers
    BY <1>1, <2>1, HeadTailProperties
  <2>3. [c EXCEPT !.current = Head(q)] \in Controller
    BY <2>2 DEF Controller
  <2>4. Fit(Finish([c EXCEPT !.current = Head(q)], "succeeded", TRUE, status))
    BY <2>3, FinishFit
  <2>5. QED
    BY <1>1, <2>4, BeginFit DEF StartFromVisibleList
<1>2. QED
  BY <1>1, FinishFit DEF StartFromVisibleList

LEMMA CancelFit ==
    ASSUME NEW c \in Controller, Busy(c), NEW status \in BOOLEAN
    PROVE  Fit(Cancel(c, status))
<1> DEFINE told == Emit(c, "cancel_current_operation")
           next == [told EXCEPT !.autoTest = FALSE, !.gen = @ + 1]
<1>1. told \in Controller
  BY EmitType DEF Calls
<1> HIDE DEF told
<1>2. next \in Controller
  BY <1>1, CalledOffType
<1> HIDE DEF next
<1>3. Fit(Finish(next, "cancelled", TRUE, status))
  BY <1>2, FinishFit
<1>4. QED
  BY <1>3 DEF Cancel, next, told

LEMMA OnConnectionEventAlive ==
    ASSUME NEW c \in Controller, NEW t, Alive(c, t),
           NEW event \in Events, NEW status \in BOOLEAN
    PROVE  Alive(OnConnectionEvent(c, event, status), t)
<1>1. [DisarmTimers(c) EXCEPT !.expect = FALSE] \in Controller
  BY UpType
<1>2. Fit(Finish([DisarmTimers(c) EXCEPT !.expect = FALSE], "succeeded", FALSE, status))
  BY <1>1, FinishFit
<1>3. CASE c.active /\ c.phase = "settling"
  <2> DEFINE told == [c EXCEPT !.expect = FALSE, !.manual = TRUE]
  <2>1. Fit(c)
    BY <1>3 DEF Alive, Waiting, Fit
  <2>2. Fit(told)
    BY <2>1 DEF Fit, Moving, HasSource, Controller
  <2> HIDE DEF told
  <2>3. OnConnectionEvent(c, event, status) \in
           {c, told, Finish([DisarmTimers(c) EXCEPT !.expect = FALSE], "succeeded", FALSE, status)}
    BY <1>3 DEF OnConnectionEvent, told
  <2>4. QED
    BY <1>2, <2>1, <2>2, <2>3, FitAlive
<1>4. CASE c.active /\ c.phase = "connecting"
  <2>1. FailureReason(event) \in Reasons
    BY DEF FailureReason, Reasons
  <2>2. Fit(Advance(c, FailureReason(event), status))
    BY <1>4, <2>1, AdvanceFit
  <2>3. QED
    BY <1>2, <1>4, <2>2, FitAlive DEF OnConnectionEvent
<1>5. CASE ~c.active \/ c.phase \notin {"settling", "connecting"}
  BY <1>2, <1>5, FitAlive DEF OnConnectionEvent
<1>6. QED
  BY <1>3, <1>4, <1>5

(* fired: the record just after the source that runs was detached.  Losing *)
(* that source is harmless when it belonged to another generation, and     *)
(* OnTimeout replaces it otherwise.                                        *)
LEMMA OnTimeoutAlive ==
    ASSUME NEW c \in Controller, NEW gen, NEW t, NEW busy, NEW status \in BOOLEAN,
           gen # c.gen => Alive(c, t),
           c.testBtn \/ c.active \/ t # "idle",
           c.active => \/ c.phase \in {"connecting", "settling"}
                       \/ Waiting(c) /\ t # "idle"
    PROVE  Alive(OnTimeout(c, gen, busy, status), t)
<1>1. CASE gen # c.gen
  BY <1>1 DEF OnTimeout
<1>2. CASE gen = c.gen /\ ~c.active
  BY <1>2 DEF OnTimeout, Alive, Moving
<1>3. CASE gen = c.gen /\ c.active
  <2> DEFINE later == [c EXCEPT !.left = Extension]
  <2>1. /\ later \in Controller
        /\ later.active /\ later.phase = c.phase /\ later.autoTest = c.autoTest
        /\ later.testBtn = c.testBtn
    BY <1>3, CascadeAssumption DEF Controller
  <2> HIDE DEF later
  <2>2. Alive(ArmTimeoutAndTicks(later), t)
    <3>1. CASE c.phase \in {"connecting", "settling"}
      BY <2>1, <3>1, ArmTimeoutFit, FitAlive
    <3>2. CASE Waiting(c) /\ t # "idle"
      BY <2>1, <3>2 DEF ArmTimeoutAndTicks, DisarmTimers, Waiting, Alive, Controller
    <3>3. QED
      BY <1>3, <3>1, <3>2
  <2>3. Fit(Advance(c, "timeout", status))
    BY <1>3, AdvanceFit DEF Reasons
  <2>4. QED
    BY <1>3, <2>2, <2>3, FitAlive DEF OnTimeout, later
<1>4. QED
  BY <1>1, <1>2, <1>3

(* _timeout_id = None loses no source.                                     *)
LEMMA ForgetAlive ==
    ASSUME NEW c \in Controller, NEW t, HasRoom(c)
    PROVE  /\ Alive(c, t) => Alive(ForgetTimeout(c), t)
           /\ ForgetTimeout(c).active = c.active
           /\ ForgetTimeout(c).phase = c.phase
           /\ ForgetTimeout(c).autoTest = c.autoTest
           /\ ForgetTimeout(c).testBtn = c.testBtn
           /\ ForgetTimeout(c).gen = c.gen
<1>1. CASE ~c.timeout.armed
  BY <1>1 DEF ForgetTimeout
<1>2. CASE c.timeout.armed
  <2> DEFINE left == [id |-> FreshId(c), gen |-> c.timeout.gen, fuse |-> c.timeout.fuse]
             r == [c EXCEPT !.timeout = Off, !.orphans = @ \cup {left}]
  <2>1. /\ r.active = c.active /\ r.phase = c.phase /\ r.autoTest = c.autoTest
        /\ r.testBtn = c.testBtn /\ r.gen = c.gen /\ r.settle = c.settle
        /\ r.orphans = c.orphans \cup {left}
    BY DEF Controller
  <2>2. left.gen = c.timeout.gen
    OBVIOUS
  <2>3. r = ForgetTimeout(c)
    BY <1>2 DEF ForgetTimeout
  <2> HIDE DEF r, left
  <2>4. HasSource(c) => HasSource(r)
    BY <2>1, <2>2 DEF HasSource
  <2>5. QED
    BY <2>1, <2>3, <2>4 DEF Alive, Moving, Waiting
<1>3. QED
  BY <1>1, <1>2

LEMMA OnTickAlive ==
    ASSUME NEW c \in Controller, NEW t, HasRoom(c), Alive(c, t),
           NEW busy, NEW status \in BOOLEAN
    PROVE  Alive(OnTick(c, busy, status), t)
<1> DEFINE again == [c EXCEPT !.tick.fuse = 1]
           frozen == [again EXCEPT !.left = @ + 1]
<1>1. Alive([c EXCEPT !.tick = Off], t)
  BY DEF Alive, Moving, Waiting, HasSource, Controller
<1>2. Alive(again, t)
  BY DEF Alive, Moving, Waiting, HasSource, Controller
<1>3. Alive(frozen, t)
  BY DEF Alive, Moving, Waiting, HasSource, Controller
<1>4. Alive(OnTimeout(ForgetTimeout(c), c.tick.gen, FALSE, status), t)
  <2>1. ForgetTimeout(c) \in Controller /\ Alive(ForgetTimeout(c), t)
    BY ForgetType, ForgetAlive
  <2> DEFINE d == ForgetTimeout(c)
  <2> HIDE DEF again, frozen, d
  <2>2. /\ d.testBtn \/ d.active \/ t # "idle"
        /\ d.active => d.phase \in {"connecting", "settling"} \/ (Waiting(d) /\ t # "idle")
    BY <2>1 DEF Alive, Moving, d
  <2>3. d \in Controller /\ Alive(d, t)
    BY <2>1 DEF d
  <2>4. \A g, b : Alive(OnTimeout(d, g, b, status), t)
    <3> TAKE g, b
    <3>1. g # d.gen => Alive(d, t)
      BY <2>3
    <3>2. QED
      BY <2>2, <2>3, <3>1, OnTimeoutAlive
  <2>5. QED
    BY <2>4 DEF d
<1>5. QED
  BY <1>1, <1>2, <1>3, <1>4 DEF OnTick

LEMMA OnSettledAlive ==
    ASSUME NEW c \in Controller, NEW t, Alive(c, t), NEW answer, NEW status \in BOOLEAN
    PROVE  Alive(OnSettled(c, answer, status), t)
<1> DEFINE fired == [c EXCEPT !.settle = Off]
<1>1. fired \in Controller /\ fired.active = c.active
  BY DEF Controller, Off, Timer
<1>2. CASE c.active /\ c.settle.gen = c.gen
  <2> HIDE DEF fired
  <2>1. Fit(TryCurrentServer(fired, answer, status))
    BY <1>1, <1>2, TryCurrentServerFit
  <2>2. QED
    BY <1>2, <2>1, FitAlive DEF OnSettled, fired
<1>3. CASE ~(c.active /\ c.settle.gen = c.gen)
  <2>1. Alive(fired, t)
    BY <1>3 DEF Alive, Moving, Waiting, HasSource, Controller
  <2>2. QED
    BY <1>3, <2>1 DEF OnSettled
<1>4. QED
  BY <1>2, <1>3

LEMMA QuietAlive ==
    ASSUME NEW c \in Controller, NEW t
    PROVE  /\ Alive(c, t) => Alive(Quiet(c), t)
           /\ Quiet(c).active = c.active
           /\ Quiet(c).autoTest = c.autoTest
           /\ Quiet(c).phase = c.phase
           /\ Quiet(c).testBtn = c.testBtn
BY DEF Quiet, Alive, Moving, Waiting, HasSource, Controller

-----------------------------------------------------------------------------
(* The inductive invariant and its theorems.                               *)

IInv == TypeOK /\ NeverStuck /\ TestButtonAlive

LEMMA InitIInv == Init => IInv
<1> SUFFICES ASSUME Init PROVE IInv
  OBVIOUS
<1>1. /\ <<>> \in Seq(Servers) /\ <<>> \in Seq(Failure)
      /\ <<>> \in Seq(Attempt) /\ <<>> \in Seq(Calls)
  BY EmptySeq
<1>2. ctl \in Controller
  BY <1>1 DEF Init, InitController, Controller, Off, Timer, Phases
<1>3. ~ctl.active /\ ctl.testBtn
  BY DEF Init, InitController
<1>4. QED
  BY <1>2, <1>3 DEF Init, IInv, TypeOK, NeverStuck, TestButtonAlive, Moving

(* IInv is about the four variables only through Alive and the types.      *)
LEMMA IInvOfRecord ==
    IInv <=> /\ ctl \in Controller /\ Alive(ctl, test)
             /\ dialog \in BOOLEAN /\ measured \in BOOLEAN
             /\ test \in {"idle", "running", "cancelling"}
BY DEF IInv, TypeOK, NeverStuck, TestButtonAlive, Alive

LEMMA ElapseKeeps ==
    ASSUME NEW c \in Controller, NEW t,
           ~Due(c.timeout), ~Due(c.tick), ~Due(c.settle), \A o \in c.orphans : o.fuse > 0,
           Alive(c, t)
    PROVE  LET r == [c EXCEPT !.left = IF @ > 0 THEN @ - 1 ELSE 0,
                        !.timeout = Elapsed(@), !.tick = Elapsed(@), !.settle = Elapsed(@),
                        !.orphans = {[o EXCEPT !.fuse = @ - 1] : o \in @}]
           IN  r \in Controller /\ Alive(r, t)
<1> DEFINE older == {[o EXCEPT !.fuse = @ - 1] : o \in c.orphans}
           left == IF c.left > 0 THEN c.left - 1 ELSE 0
           r == [c EXCEPT !.left = left,
                    !.timeout = Elapsed(@), !.tick = Elapsed(@), !.settle = Elapsed(@),
                    !.orphans = older]
<1>1. /\ c.timeout \in Timer /\ c.tick \in Timer /\ c.settle \in Timer
      /\ c.left \in Nat /\ c.orphans \subseteq Orphan
  BY DEF Controller
<1>2. \A x \in Timer : ~Due(x) => /\ Elapsed(x) \in Timer
                                  /\ Elapsed(x).armed = x.armed
                                  /\ Elapsed(x).gen = x.gen
  BY DEF Timer, Due, Elapsed
<1>3. \A o \in Orphan : o.fuse > 0 => /\ [o EXCEPT !.fuse = @ - 1] \in Orphan
                                      /\ [o EXCEPT !.fuse = @ - 1].gen = o.gen
  BY DEF Orphan
<1>4. older \subseteq Orphan
  BY <1>1, <1>3
<1>5. left \in Nat
  BY <1>1
<1>6. (\E o \in c.orphans : o.gen = c.gen) => (\E o \in older : o.gen = c.gen)
  BY <1>1, <1>3
<1> HIDE DEF older, left
<1>7. r \in Controller
  BY <1>1, <1>2, <1>4, <1>5 DEF Controller
<1>8. /\ r.timeout = Elapsed(c.timeout) /\ r.settle = Elapsed(c.settle)
      /\ r.orphans = older /\ r.gen = c.gen /\ r.active = c.active /\ r.phase = c.phase
      /\ r.autoTest = c.autoTest /\ r.testBtn = c.testBtn
  BY DEF Controller
<1> HIDE DEF r
<1>9. HasSource(c) => HasSource(r)
  BY <1>1, <1>2, <1>6, <1>8 DEF HasSource
<1>10. Alive(r, t)
  BY <1>8, <1>9 DEF Alive, Moving, Waiting
<1>11. QED
  BY <1>7, <1>10 DEF r, left, older

LEMMA NextIInv ==
    ASSUME IInv, [Next]_vars
    PROVE  IInv'
<1>1. /\ ctl \in Controller /\ Alive(ctl, test)
      /\ dialog \in BOOLEAN /\ measured \in BOOLEAN
      /\ test \in {"idle", "running", "cancelling"}
  BY IInvOfRecord
<1> DEFINE now == Quiet(ctl)
<1>2. /\ now \in Controller /\ Alive(now, test)
      /\ now.active = ctl.active /\ now.autoTest = ctl.autoTest
      /\ now.phase = ctl.phase /\ now.testBtn = ctl.testBtn
  BY <1>1, QuietType, QuietAlive
<1> DEFINE Good == /\ ctl' \in Controller /\ Alive(ctl', test')
                   /\ dialog' \in BOOLEAN /\ measured' \in BOOLEAN
                   /\ test' \in {"idle", "running", "cancelling"}
<1> HIDE DEF now
<1>3. ASSUME Start PROVE Good
  <2>1. PICK q \in Queues, opening \in Openings, status \in BOOLEAN :
           ctl' = StartFromVisibleList(now, q, opening, status)
    BY <1>3 DEF Start, now
  <2>2. ctl' \in Controller /\ Alive(ctl', test)
    BY <1>2, <2>1, StartFromVisibleListType, StartFromVisibleListFit, FitAlive
  <2>3. QED
    BY <1>1, <1>3, <2>2 DEF Start
<1>4. ASSUME StartMeasuring PROVE Good
  <2> DEFINE asked == [now EXCEPT !.autoTest = TRUE]
             shown == ShowPreparing(asked)
  <2>1. TriggerSpeedTest(shown) /\ ~ctl.active /\ dialog' = dialog /\ measured' = measured
    BY <1>4 DEF StartMeasuring, Busy, now
  <2>2. asked \in Controller /\ asked.autoTest /\ asked.testBtn = now.testBtn
    BY <1>2 DEF Controller
  <2> HIDE DEF asked
  <2>3. shown \in Controller
    BY <2>2, ShowPreparingType
  <2>4. Waiting(shown) /\ shown.testBtn = now.testBtn
    BY <2>2 DEF ShowPreparing, Waiting, Controller
  <2> HIDE DEF shown
  <2>5. ctl.testBtn \/ test # "idle"
    BY <1>1, <2>1 DEF Alive
  <2>6. ctl' \in Controller /\ test' \in {"idle", "running", "cancelling"}
    BY <1>1, <2>1, <2>3, TriggerSpeedTestType
  <2>7. test' # "idle" /\ Waiting(ctl')
    BY <1>2, <2>1, <2>3, <2>4, <2>5 DEF TriggerSpeedTest, Waiting, Controller
  <2>8. QED
    BY <1>1, <2>1, <2>6, <2>7 DEF Alive
<1>5. ASSUME CancelRun PROVE Good
  <2>1. PICK status \in BOOLEAN : ctl' = Cancel(now, status)
    BY <1>5 DEF CancelRun, now
  <2>2. Busy(now)
    BY <1>2, <1>5 DEF CancelRun, Busy
  <2>3. ctl' \in Controller /\ Alive(ctl', test)
    BY <1>2, <2>1, <2>2, CancelType, CancelFit, FitAlive
  <2>4. QED
    BY <1>1, <1>5, <2>3 DEF CancelRun
<1>6. ASSUME UserSpeedTest PROVE Good
  <2>1. TriggerSpeedTest(now) /\ dialog' = dialog /\ measured' = measured /\ ctl.testBtn
    BY <1>6 DEF UserSpeedTest, now
  <2>2. ctl' \in Controller /\ test' \in {"idle", "running", "cancelling"}
    BY <1>1, <1>2, <2>1, TriggerSpeedTestType
  <2>3. test' # "idle"
    BY <1>2, <2>1 DEF TriggerSpeedTest
  <2>4. ctl' = now \/ ctl' = [now EXCEPT !.testBtn = FALSE]
    BY <2>1 DEF TriggerSpeedTest
  <2>5. /\ ctl'.active = now.active /\ ctl'.phase = now.phase
        /\ ctl'.gen = now.gen /\ ctl'.autoTest = now.autoTest
        /\ ctl'.timeout = now.timeout /\ ctl'.settle = now.settle
        /\ ctl'.orphans = now.orphans
    BY <1>2, <2>4 DEF Controller
  <2>6. HasSource(now) => HasSource(ctl')
    BY <2>5 DEF HasSource
  <2>7. Alive(ctl', test')
    BY <1>2, <2>3, <2>5, <2>6 DEF Alive, Moving, Waiting
  <2>8. QED
    BY <1>1, <2>1, <2>2, <2>7
<1>7. ASSUME SpeedTestComplete PROVE Good
  <2>1. PICK status \in BOOLEAN :
           LET told == IF test = "cancelling" /\ ctl.autoTest THEN Cancel(now, status)
                                                              ELSE now
               idle == [told EXCEPT !.testBtn = TRUE]
               free == [idle EXCEPT !.autoTest = FALSE]
           IN  IF idle.autoTest /\ idle.active /\ idle.phase = "preparing"
               THEN \E q \in Queues, opening \in Openings :
                       ctl' = StartFromVisibleList(free, q, opening, status)
               ELSE ctl' = free
    BY <1>7 DEF SpeedTestComplete, now
  <2> DEFINE told == IF test = "cancelling" /\ ctl.autoTest THEN Cancel(now, status) ELSE now
             idle == [told EXCEPT !.testBtn = TRUE]
             free == [idle EXCEPT !.autoTest = FALSE]
  <2>2. told \in Controller /\ (Waiting(told) \/ Moving(told))
    <3>1. CASE test = "cancelling" /\ ctl.autoTest
      BY <1>2, <3>1, CancelType, CancelFit DEF Busy, Fit
    <3>2. CASE ~(test = "cancelling" /\ ctl.autoTest)
      BY <1>2, <3>2 DEF Alive
    <3>3. QED
      BY <3>1, <3>2
  <2> HIDE DEF told
  <2>3. /\ idle \in Controller /\ idle.testBtn
        /\ Waiting(idle) \/ Moving(idle)
    BY <2>2 DEF Waiting, Moving, HasSource, Controller
  <2> HIDE DEF idle
  <2>4. /\ free \in Controller /\ free.testBtn /\ free.active = idle.active
        /\ free.phase = idle.phase
        /\ Moving(idle) => Moving(free)
    BY <2>3 DEF Moving, HasSource, Controller
  <2> HIDE DEF free
  <2>5. CASE idle.autoTest /\ idle.active /\ idle.phase = "preparing"
    <3>1. PICK q \in Queues, opening \in Openings :
             ctl' = StartFromVisibleList(free, q, opening, status)
      BY <2>1, <2>5 DEF free, idle, told
    <3>2. ctl' \in Controller /\ Fit(ctl')
      BY <2>4, <2>5, <3>1, StartFromVisibleListType, StartFromVisibleListFit
    <3>3. QED
      BY <1>1, <1>7, <3>2, FitAlive DEF SpeedTestComplete
  <2>6. CASE ~(idle.autoTest /\ idle.active /\ idle.phase = "preparing")
    <3>1. ctl' = free
      BY <2>1, <2>6 DEF free, idle, told
    <3>2. Moving(idle)
      BY <2>3, <2>6 DEF Waiting
    <3>3. Fit(free)
      BY <2>4, <3>2 DEF Fit
    <3>4. QED
      BY <1>1, <1>7, <2>4, <3>1, <3>3, FitAlive DEF SpeedTestComplete
  <2>7. QED
    BY <2>5, <2>6
<1>8. ASSUME ConnectionEvent PROVE Good
  <2>1. PICK event \in Events, status \in BOOLEAN :
           ctl' = OnConnectionEvent(now, event, status)
    BY <1>8 DEF ConnectionEvent, now
  <2>2. ctl' \in Controller /\ Alive(ctl', test)
    BY <1>2, <2>1, OnConnectionEventType, OnConnectionEventAlive
  <2>3. QED
    BY <1>1, <1>8, <2>2 DEF ConnectionEvent
<1>9. ASSUME TimeoutFires PROVE Good
  <2> DEFINE fired == [now EXCEPT !.timeout = Off]
  <2>1. PICK status \in BOOLEAN : ctl' = OnTimeout(fired, ctl.timeout.gen, dialog, status)
    BY <1>9 DEF TimeoutFires, now
  <2>2. now.timeout = ctl.timeout
    BY <1>1 DEF now, Quiet, Controller
  <2>3. /\ fired \in Controller
        /\ now.timeout.gen # fired.gen => Alive(fired, test)
        /\ fired.testBtn \/ fired.active \/ test # "idle"
        /\ fired.active => \/ fired.phase \in {"connecting", "settling"}
                           \/ Waiting(fired) /\ test # "idle"
    <3>1. fired \in Controller
      BY <1>2 DEF Controller, Off, Timer
    <3>2. /\ fired.active = now.active /\ fired.phase = now.phase /\ fired.gen = now.gen
          /\ fired.autoTest = now.autoTest /\ fired.testBtn = now.testBtn
          /\ fired.settle = now.settle /\ fired.orphans = now.orphans
      BY <1>2 DEF Controller
    <3>3. now.timeout.gen # now.gen /\ HasSource(now) => HasSource(fired)
      BY <3>2 DEF HasSource
    <3>4. QED
      BY <1>2, <3>1, <3>2, <3>3 DEF Alive, Moving, Waiting
  <2> HIDE DEF fired
  <2>4. ctl' \in Controller
    BY <2>1, <2>3, OnTimeoutType
  <2>5. Alive(ctl', test)
    BY <2>1, <2>2, <2>3, OnTimeoutAlive
  <2>6. QED
    BY <1>1, <1>9, <2>4, <2>5 DEF TimeoutFires
<1>10. ASSUME OrphanFires PROVE Good
  <2> DEFINE Without(o) == [now EXCEPT !.orphans = @ \ {o}]
  <2>1. PICK o \in ctl.orphans, status \in BOOLEAN :
           /\ HasRoom(Without(o))
           /\ ctl' = OnTimeout(ForgetTimeout(Without(o)), o.gen, dialog, status)
    BY <1>10 DEF OrphanFires, now
  <2> DEFINE rest == Without(o)
  <2>2. /\ rest \in Controller
        /\ o.gen # rest.gen => Alive(rest, test)
        /\ rest.testBtn \/ rest.active \/ test # "idle"
        /\ rest.active => \/ rest.phase \in {"connecting", "settling"}
                          \/ Waiting(rest) /\ test # "idle"
    <3>1. rest \in Controller
      BY <1>2 DEF Controller
    <3>2. /\ rest.active = now.active /\ rest.phase = now.phase /\ rest.gen = now.gen
          /\ rest.autoTest = now.autoTest /\ rest.testBtn = now.testBtn
          /\ rest.settle = now.settle /\ rest.timeout = now.timeout
          /\ rest.orphans = now.orphans \ {o}
      BY <1>2 DEF Controller
    <3>3. o.gen # now.gen /\ HasSource(now) => HasSource(rest)
      BY <3>2 DEF HasSource
    <3>4. QED
      BY <1>2, <3>1, <3>2, <3>3 DEF Alive, Moving, Waiting
  <2>3. HasRoom(rest)
    BY <2>1
  <2> HIDE DEF rest
  <2> DEFINE forgot == ForgetTimeout(rest)
  <2>4. /\ forgot \in Controller
        /\ o.gen # forgot.gen => Alive(forgot, test)
        /\ forgot.testBtn \/ forgot.active \/ test # "idle"
        /\ forgot.active => \/ forgot.phase \in {"connecting", "settling"}
                            \/ Waiting(forgot) /\ test # "idle"
    BY <2>2, <2>3, ForgetType, ForgetAlive DEF Waiting
  <2>5. ctl' = OnTimeout(forgot, o.gen, dialog, status)
    BY <2>1 DEF rest
  <2> HIDE DEF forgot
  <2>6. ctl' \in Controller
    BY <2>4, <2>5, OnTimeoutType
  <2>7. Alive(ctl', test)
    BY <2>4, <2>5, OnTimeoutAlive
  <2>8. QED
    BY <1>1, <1>10, <2>6, <2>7 DEF OrphanFires
<1>11. ASSUME TickFires PROVE Good
  <2>1. PICK status \in BOOLEAN : HasRoom(ctl) /\ ctl' = OnTick(now, dialog, status)
    BY <1>11 DEF TickFires, now
  <2>2. HasRoom(now)
    BY <1>1, <2>1 DEF now, Quiet, HasRoom, Controller
  <2>3. ctl' \in Controller /\ Alive(ctl', test)
    BY <1>2, <2>1, <2>2, OnTickType, OnTickAlive
  <2>4. QED
    BY <1>1, <1>11, <2>3 DEF TickFires
<1>12. ASSUME SettleFires PROVE Good
  <2>1. PICK answer \in Answers, status \in BOOLEAN : ctl' = OnSettled(now, answer, status)
    BY <1>12 DEF SettleFires, now
  <2>2. ctl' \in Controller /\ Alive(ctl', test)
    BY <1>2, <2>1, OnSettledType, OnSettledAlive
  <2>3. QED
    BY <1>1, <1>12, <2>2 DEF SettleFires
<1>13. ASSUME Elapse PROVE Good
  <2>1. /\ now.timeout = ctl.timeout /\ now.tick = ctl.tick
        /\ now.settle = ctl.settle /\ now.orphans = ctl.orphans
    BY <1>1 DEF now, Quiet, Controller
  <2>2. /\ ~Due(now.timeout) /\ ~Due(now.tick) /\ ~Due(now.settle)
        /\ \A o \in now.orphans : o.fuse > 0
    BY <1>13, <2>1 DEF Elapse, NoTimeoutDue
  <2>3. ctl' = [now EXCEPT
                  !.left = IF @ > 0 THEN @ - 1 ELSE 0,
                  !.timeout = Elapsed(@), !.tick = Elapsed(@), !.settle = Elapsed(@),
                  !.orphans = {[o EXCEPT !.fuse = @ - 1] : o \in @}]
    BY <1>13 DEF Elapse, now
  <2>4. ctl' \in Controller /\ Alive(ctl', test)
    BY <1>2, <2>2, <2>3, ElapseKeeps
  <2>5. QED
    BY <1>1, <1>13, <2>4 DEF Elapse
<1>14. ASSUME OpenDialog \/ CloseDialog PROVE Good
  BY <1>1, <1>2, <1>14 DEF OpenDialog, CloseDialog, now
<1>15. ASSUME UNCHANGED vars PROVE Good
  BY <1>1, <1>15 DEF vars
<1>16. Good
  BY <1>3, <1>4, <1>5, <1>6, <1>7, <1>8, <1>9, <1>10, <1>11, <1>12, <1>13, <1>14, <1>15
     DEF Next, MainLoop
<1>17. QED
  BY <1>16 DEF IInv, TypeOK, NeverStuck, TestButtonAlive, Alive

(* The controller's fields, its timers and the window's flags keep their   *)
(* types under every interleaving of handlers and for every instance.      *)
THEOREM TypeCorrect == Spec => []TypeOK
<1>1. IInv => TypeOK
  BY DEF IInv
<1>2. QED
  BY InitIInv, NextIInv, <1>1, PTL DEF Spec

(* For any queue lengths, budgets and dispatch order, and whatever the     *)
(* backend answers, an active cascade always has a live source of its own  *)
(* generation, or a running speed test, that will move it on.              *)
THEOREM CascadeNeverStuck == Spec => []NeverStuck
<1>1. IInv => NeverStuck
  BY DEF IInv
<1>2. QED
  BY InitIInv, NextIInv, <1>1, PTL DEF Spec

(* The speed-test button, without which no later run could measure, comes  *)
(* back whenever the run that locked it is over.                           *)
THEOREM ButtonComesBack == Spec => []TestButtonAlive
<1>1. IInv => TestButtonAlive
  BY DEF IInv
<1>2. QED
  BY InitIInv, NextIInv, <1>1, PTL DEF Spec

-----------------------------------------------------------------------------
(* The walk.                                                               *)


InRun(c) == c.active /\ c.phase \in {"connecting", "settling"}

TriedIn(c, s) == \E i \in 1..Len(c.attempts) : c.attempts[i].server = s

(* The servers before index have been tried and blamed, in their order.    *)
Walked(c) ==
    /\ Len(c.failures) = c.index
    /\ c.index <= Len(c.queue)
    /\ \A i \in 1..c.index : /\ c.failures[i].server = c.queue[i]
                             /\ TriedIn(c, c.queue[i])

(* The attempt in progress is the one at index.                            *)
Trying(c) ==
    /\ c.index < Len(c.queue)
    /\ c.current = c.queue[c.index + 1]
    /\ TriedIn(c, c.current)

AllTried(c) == \A i \in 1..Len(c.queue) : TriedIn(c, c.queue[i])

LastGone(c) ==
    /\ c.attempts # <<>>
    /\ c.attempts[Len(c.attempts)].result = "backend_error"

(* Timers belong to a run that is under way, a tick never outlives the     *)
(* timeout it was armed with nor gets to see the deadline before it, and   *)
(* whenever a verdict may be given there is an attempt to give it on.      *)
InOrder(c) ==
    /\ c.orphans = {}
    /\ c.timeout.armed \/ c.tick.armed \/ c.settle.armed => InRun(c)
    /\ c.timeout.armed => c.timeout.gen = c.gen
    /\ c.tick.armed => c.timeout.armed /\ c.timeout.fuse <= c.left
    /\ InRun(c) => Walked(c)
    /\ InRun(c) /\ (c.phase = "connecting" \/ c.timeout.armed) => Trying(c)
    /\ c.active /\ c.phase = "preparing" => c.queue = <<>>
    /\ c.phase = "exhausted" => AllTried(c) \/ LastGone(c)

(* The fields InOrder is about.                                            *)
Alike(c, d) ==
    /\ d.orphans = c.orphans /\ d.timeout = c.timeout /\ d.tick = c.tick
    /\ d.settle = c.settle /\ d.active = c.active /\ d.phase = c.phase
    /\ d.gen = c.gen /\ d.left = c.left /\ d.failures = c.failures
    /\ d.queue = c.queue /\ d.index = c.index /\ d.attempts = c.attempts
    /\ d.current = c.current

LEMMA AlikeInOrder ==
    ASSUME NEW c, NEW d, Alike(c, d)
    PROVE  /\ InOrder(c) => InOrder(d)
           /\ Walked(c) => Walked(d)
           /\ Trying(c) => Trying(d)
           /\ AllTried(c) => AllTried(d)
           /\ InRun(c) => InRun(d)
           /\ IsOpen(c) => IsOpen(d)
BY DEF Alike, InOrder, InRun, Walked, Trying, AllTried, TriedIn, LastGone, IsOpen

LEMMA EmitAlike ==
    ASSUME NEW c \in Controller, NEW call
    PROVE  Alike(c, Emit(c, call))
BY DEF Emit, Alike, Controller

LEMMA QuietAlike ==
    ASSUME NEW c \in Controller
    PROVE  Alike(c, Quiet(c))
BY DEF Quiet, Alike, Controller

-----------------------------------------------------------------------------
(* What the methods leave behind.                                          *)

(* Closing an attempt changes its result only.                             *)
LEMMA CompleteKeeps ==
    ASSUME NEW c \in Controller, NEW result \in Results
    PROVE  LET d == CompleteActiveAttempt(c, result)
           IN  /\ d.orphans = c.orphans /\ d.timeout = c.timeout /\ d.tick = c.tick
               /\ d.settle = c.settle /\ d.active = c.active /\ d.phase = c.phase
               /\ d.gen = c.gen /\ d.left = c.left /\ d.failures = c.failures
               /\ d.queue = c.queue /\ d.index = c.index /\ d.current = c.current
               /\ \A s : TriedIn(c, s) => TriedIn(d, s)
               /\ IsOpen(c) /\ result = "backend_error" => LastGone(d)
<1>1. CASE IsOpen(c)
  <2> DEFINE n == Len(c.attempts)
             closed == [c.attempts[n] EXCEPT !.result = result]
             as == [c.attempts EXCEPT ![n] = closed]
             d == [c EXCEPT !.attempts = as]
  <2>1. c.attempts \in Seq(Attempt) /\ n \in Nat /\ n \in 1..n
    BY <1>1, EmptySeq DEF IsOpen, Controller
  <2>2. c.attempts[n] \in Attempt
    BY <2>1, ElementOfSeq
  <2>3. closed \in Attempt /\ closed.server = c.attempts[n].server /\ closed.result = result
    BY <2>2 DEF Attempt
  <2>4. CompleteActiveAttempt(c, result) = d
    BY <1>1, <2>1 DEF CompleteActiveAttempt, Controller
  <2>5. as \in Seq(Attempt) /\ Len(as) = n /\ as[n] = closed
        /\ \A i \in 1..n : i # n => as[i] = c.attempts[i]
    BY <2>1, <2>3, ExceptSeq
  <2> HIDE DEF closed, as
  <2>6. d.attempts = as /\ d.orphans = c.orphans /\ d.timeout = c.timeout
        /\ d.tick = c.tick /\ d.settle = c.settle /\ d.active = c.active
        /\ d.phase = c.phase /\ d.gen = c.gen /\ d.left = c.left
        /\ d.failures = c.failures /\ d.queue = c.queue /\ d.index = c.index
        /\ d.current = c.current
    BY DEF Controller
  <2> HIDE DEF d
  <2>7. \A i \in 1..n : as[i].server = c.attempts[i].server
    BY <2>3, <2>5
  <2>8. \A s : TriedIn(c, s) => TriedIn(d, s)
    BY <2>5, <2>6, <2>7 DEF TriedIn
  <2>9. d.attempts # <<>> /\ d.attempts[Len(d.attempts)].result = result
    <3> HIDE DEF n
    <3>1. n >= 1
      BY <2>1
    <3>2. as # <<>>
      <4>1. ASSUME as = <<>> PROVE FALSE
        <5>1. Len(<<>>) = n
          BY <2>5, <4>1
        <5>2. Len(<<>>) = 0
          OBVIOUS
        <5>3. QED
          BY <3>1, <5>1, <5>2
      <4>2. QED
        BY <4>1
    <3>3. QED
      BY <2>3, <2>5, <2>6, <3>2
  <2>10. QED
    BY <2>4, <2>6, <2>8, <2>9 DEF LastGone
<1>2. CASE ~IsOpen(c)
  BY <1>2 DEF CompleteActiveAttempt
<1>3. QED
  BY <1>1, <1>2

(* A run that is over has no timers; one that is exhausted has tried every *)
(* server, or lost its backend in the middle of an attempt.                *)
LEMMA FinishInOrder ==
    ASSUME NEW c \in Controller, c.orphans = {},
           NEW phase \in {"succeeded", "exhausted", "cancelled"},
           phase = "exhausted" => AllTried(c) \/ IsOpen(c),
           NEW restore \in BOOLEAN, NEW status \in BOOLEAN
    PROVE  InOrder(Finish(c, phase, restore, status))
<1> DEFINE ended == [DisarmTimers(c) EXCEPT !.active = FALSE, !.phase = phase,
                        !.expect = FALSE, !.autoTest = FALSE,
                        !.locked = FALSE, !.testBtn = TRUE]
           Over(d) == /\ d.orphans = {} /\ ~d.active /\ d.phase = phase
                      /\ ~d.timeout.armed /\ ~d.tick.armed /\ ~d.settle.armed
                      /\ phase = "exhausted" => AllTried(d) \/ LastGone(d)
           closed == CompleteActiveAttempt(ended, "cancelled")
           told == [closed EXCEPT !.manual = TRUE]
<1>1. ended \in Controller
  BY EndedType DEF Phases
<1>2. /\ ended.orphans = {} /\ ~ended.active /\ ended.phase = phase
      /\ ~ended.timeout.armed /\ ~ended.tick.armed /\ ~ended.settle.armed
      /\ ended.queue = c.queue /\ ended.attempts = c.attempts
  BY DEF DisarmTimers, Off, Controller
<1>3. /\ AllTried(c) => AllTried(ended)
      /\ IsOpen(c) => IsOpen(ended)
  BY <1>2 DEF AllTried, TriedIn, IsOpen
<1> HIDE DEF ended
<1>4. phase = "exhausted" => Over(CompleteActiveAttempt(ended, "backend_error"))
  BY <1>1, <1>2, <1>3, CompleteKeeps DEF AllTried, Results
<1>5. phase = "succeeded" => Over(CompleteActiveAttempt(ended, "success"))
  BY <1>1, <1>2, CompleteKeeps DEF Results
<1>6. closed \in Controller /\ (phase = "cancelled" => Over(closed))
  BY <1>1, <1>2, CompleteKeeps, CompleteType DEF Results
<1> HIDE DEF closed
<1>7. told \in Controller /\ (phase = "cancelled" => Over(told))
  BY <1>6 DEF Controller
<1> HIDE DEF told
<1>8. phase = "cancelled" => Over(Emit(told, "disconnect"))
  BY <1>7, EmitAlike DEF Alike
<1> DEFINE r == Finish(c, phase, restore, status)
<1>9. Over(r)
  <2>1. CASE phase = "succeeded"
    BY <1>5, <2>1 DEF Finish, ended
  <2>2. CASE phase = "cancelled"
    BY <1>6, <1>8, <2>2 DEF Finish, told, closed, ended
  <2>3. CASE phase = "exhausted"
    BY <1>4, <2>3 DEF Finish, ended
  <2>4. QED
    BY <2>1, <2>2, <2>3
<1> HIDE DEF r
<1>10. InOrder(r)
  BY <1>9 DEF InOrder, InRun
<1>11. QED
  BY <1>10 DEF r

(* A verdict on the attempt in progress extends the walk by one server.    *)
LEMMA AdvanceInOrder ==
    ASSUME NEW c \in Controller, c.active, c.orphans = {}, Walked(c), Trying(c),
           NEW reason \in Reasons, NEW status \in BOOLEAN
    PROVE  InOrder(Advance(c, reason, status))
<1> DEFINE verdict == [server |-> c.current, reason |-> reason]
           blamed == [c EXCEPT !.failures = Append(@, verdict)]
           recorded == RecordFailure(c, reason)
           disarmed == DisarmTimers(recorded)
           moved == [disarmed EXCEPT !.index = @ + 1, !.phase = "settling",
                                     !.expect = TRUE, !.manual = TRUE]
           told == IF status THEN Emit(moved, "disconnect") ELSE moved
           r == ArmSettle(told)
<1>1. /\ c.queue \in Seq(Servers) /\ c.index \in Nat /\ c.failures \in Seq(Failure)
      /\ c.index + 1 \in 1..Len(c.queue)
  BY DEF Controller, Trying
<1>2. c.current \in Servers /\ c.current # NoServer
  BY <1>1, ElementOfSeq, CascadeAssumption DEF Trying
<1>3. verdict \in Failure /\ verdict.server = c.current
  BY <1>2 DEF Failure
<1> HIDE DEF verdict
<1>4. /\ Append(c.failures, verdict) \in Seq(Failure)
      /\ Len(Append(c.failures, verdict)) = c.index + 1
      /\ Append(c.failures, verdict)[c.index + 1] = verdict
      /\ \A i \in 1..c.index : Append(c.failures, verdict)[i] = c.failures[i]
  BY <1>1, <1>3 DEF Walked
<1>5. blamed \in Controller
  BY <1>4 DEF Controller
<1>6. /\ blamed.failures = Append(c.failures, verdict)
      /\ blamed.queue = c.queue /\ blamed.index = c.index /\ blamed.orphans = {}
      /\ blamed.active /\ blamed.attempts = c.attempts
  BY DEF Controller
<1> HIDE DEF blamed
<1>7. recorded = CompleteActiveAttempt(blamed, reason)
  BY <1>2 DEF RecordFailure, recorded, blamed, verdict
<1>8. /\ recorded \in Controller
      /\ recorded.failures = Append(c.failures, verdict)
      /\ recorded.queue = c.queue /\ recorded.index = c.index /\ recorded.orphans = {}
      /\ recorded.active
      /\ \A s : TriedIn(blamed, s) => TriedIn(recorded, s)
  BY <1>5, <1>6, <1>7, CompleteKeeps, CompleteType DEF Results
<1>9. ASSUME NEW s, TriedIn(c, s) PROVE TriedIn(recorded, s)
  <2>1. TriedIn(blamed, s)
    BY <1>6, <1>9 DEF TriedIn
  <2>2. QED
    BY <1>8, <2>1
<1> HIDE DEF recorded
<1>10. disarmed \in Controller
  BY <1>8, DisarmType
<1>11. /\ disarmed.failures = recorded.failures /\ disarmed.queue = c.queue
       /\ disarmed.index = c.index /\ disarmed.orphans = {} /\ disarmed.active
       /\ disarmed.attempts = recorded.attempts
       /\ ~disarmed.timeout.armed /\ ~disarmed.tick.armed
  BY <1>8 DEF DisarmTimers, Off, Controller
<1> HIDE DEF disarmed
<1>12. moved \in Controller
  BY <1>10, MovedType
<1>13. /\ moved.failures = Append(c.failures, verdict) /\ moved.queue = c.queue
       /\ moved.index = c.index + 1 /\ moved.orphans = {} /\ moved.active
       /\ moved.attempts = recorded.attempts /\ moved.phase = "settling"
       /\ ~moved.timeout.armed /\ ~moved.tick.armed
  BY <1>8, <1>10, <1>11 DEF Controller
<1> HIDE DEF moved
<1>14. told \in Controller /\ Alike(moved, told)
  BY <1>12, EmitType, EmitAlike DEF Calls, Alike
<1> HIDE DEF told
<1>15. /\ r.failures = Append(c.failures, verdict) /\ r.queue = c.queue
       /\ r.index = c.index + 1 /\ r.orphans = {} /\ r.active
       /\ r.attempts = recorded.attempts /\ r.phase = "settling"
       /\ ~r.timeout.armed /\ ~r.tick.armed
  BY ZenonT(30), <1>13, <1>14 DEF ArmSettle, Alike, Controller
<1> HIDE DEF r
<1>16. \A s : TriedIn(c, s) => TriedIn(r, s)
  BY <1>9, <1>15 DEF TriedIn
<1>17. Walked(r)
  <2>1. \A i \in 1..(c.index + 1) : i = c.index + 1 \/ i \in 1..c.index
    BY <1>1
  <2>2. \A i \in 1..(c.index + 1) : /\ r.failures[i].server = r.queue[i]
                                    /\ TriedIn(r, r.queue[i])
    BY <1>3, <1>4, <1>15, <1>16, <2>1 DEF Walked, Trying
  <2>3. QED
    BY <1>1, <1>4, <1>15, <2>2 DEF Walked
<1>18. InOrder(r)
  BY <1>15, <1>17 DEF InOrder, InRun
<1>19. Advance(c, reason, status) = r
  BY DEF Advance, r, told, moved, disarmed, recorded
<1>20. QED
  BY <1>18, <1>19

LEMMA ArmTimeoutInOrder ==
    ASSUME NEW c \in Controller, c.orphans = {}, InRun(c), Walked(c), Trying(c)
    PROVE  LET r == ArmTimeoutAndTicks(c)
           IN  InOrder(r) /\ Walked(r) /\ Trying(r) /\ r.orphans = {}
               /\ r.active = c.active /\ r.phase = c.phase /\ r.attempts = c.attempts
<1> DEFINE r == ArmTimeoutAndTicks(c)
<1>1. /\ r.orphans = {} /\ r.active = c.active /\ r.phase = c.phase /\ r.gen = c.gen
      /\ r.left = c.left /\ r.failures = c.failures /\ r.queue = c.queue
      /\ r.index = c.index /\ r.attempts = c.attempts /\ r.current = c.current
      /\ r.timeout = On(c.gen, c.left) /\ r.tick = On(c.gen, 1)
  BY DEF ArmTimeoutAndTicks, DisarmTimers, Controller
<1>2. c.left \in Nat
  BY DEF Controller
<1> HIDE DEF r
<1>3. Walked(r) /\ Trying(r) /\ InRun(r)
  <2>1. \A x : TriedIn(c, x) => TriedIn(r, x)
    BY <1>1 DEF TriedIn
  <2>2. QED
    BY <1>1, <2>1 DEF Walked, Trying, InRun
<1>4. InOrder(r)
  BY <1>1, <1>2, <1>3 DEF InOrder, InRun, On
<1>5. QED
  BY <1>1, <1>3, <1>4 DEF r

LEMMA ArmSettleInOrder ==
    ASSUME NEW c \in Controller, InOrder(c), InRun(c)
    PROVE  InOrder(ArmSettle(c))
<1> DEFINE r == ArmSettle(c)
<1>1. /\ r.orphans = c.orphans /\ r.active = c.active /\ r.phase = c.phase
      /\ r.gen = c.gen /\ r.left = c.left /\ r.failures = c.failures
      /\ r.queue = c.queue /\ r.index = c.index /\ r.attempts = c.attempts
      /\ r.current = c.current /\ r.timeout = c.timeout /\ r.tick = c.tick
  BY DEF ArmSettle, Controller
<1> HIDE DEF r
<1>2. InOrder(r)
  BY <1>1 DEF InOrder, InRun, Walked, Trying, TriedIn, AllTried, LastGone
<1>3. QED
  BY <1>2 DEF r

LEMMA OpenAttemptInOrder ==
    ASSUME NEW c \in Controller, c.active, c.orphans = {}, Walked(c),
           c.index < Len(c.queue)
    PROVE  LET r == OpenAttempt(c)
           IN  InOrder(r) /\ Walked(r) /\ Trying(r) /\ IsOpen(r)
               /\ r.orphans = {} /\ r.active /\ r.phase = "connecting"
<1> DEFINE s == c.queue[c.index + 1]
           opened == [server |-> s, result |-> "open"]
           entered == [c EXCEPT !.current = s, !.phase = "connecting", !.left = Budget[s],
                         !.attempts = Append(@, opened),
                         !.expect = FALSE, !.manual = FALSE]
<1>1. c.queue \in Seq(Servers) /\ c.index + 1 \in 1..Len(c.queue)
  BY DEF Controller
<1>2. s \in Servers
  BY <1>1, ElementOfSeq
<1>3. Budget[s] \in Nat
  BY <1>2, CascadeAssumption
<1>4. s = c.queue[c.index + 1]
  OBVIOUS
<1> HIDE DEF s
<1>5. opened \in Attempt /\ opened.server = s /\ opened.result = "open"
  BY <1>2 DEF Attempt, Results
<1> HIDE DEF opened
<1>6. /\ c.attempts \in Seq(Attempt)
      /\ Append(c.attempts, opened) \in Seq(Attempt)
      /\ Len(Append(c.attempts, opened)) = Len(c.attempts) + 1
      /\ Append(c.attempts, opened)[Len(c.attempts) + 1] = opened
      /\ \A i \in 1..Len(c.attempts) : Append(c.attempts, opened)[i] = c.attempts[i]
  BY <1>5 DEF Controller
<1>7. entered \in Controller
  BY <1>2, <1>3, <1>6 DEF Controller, Phases
<1>8. /\ entered.orphans = {} /\ entered.active /\ entered.phase = "connecting"
      /\ entered.failures = c.failures /\ entered.queue = c.queue
      /\ entered.index = c.index /\ entered.current = s
      /\ entered.attempts = Append(c.attempts, opened)
  BY DEF Controller
<1> HIDE DEF entered
<1>9. \A x : TriedIn(c, x) => TriedIn(entered, x)
  BY <1>6, <1>8 DEF TriedIn
<1>10. TriedIn(entered, s)
  <2>1. Len(c.attempts) + 1 \in 1..Len(entered.attempts)
    BY <1>6, <1>8
  <2>2. entered.attempts[Len(c.attempts) + 1].server = s
    BY <1>5, <1>6, <1>8
  <2>3. QED
    BY <2>1, <2>2 DEF TriedIn
<1>11. Walked(entered) /\ Trying(entered) /\ InRun(entered)
  BY <1>4, <1>8, <1>9, <1>10 DEF Walked, Trying, InRun
<1>12. IsOpen(entered)
  <2>1. entered.attempts # <<>>
    BY <1>6, <1>8, AppendProperties
  <2>2. QED
    BY <1>5, <1>6, <1>8, <2>1 DEF IsOpen
<1> DEFINE r == ArmTimeoutAndTicks(entered)
<1>13. InOrder(r) /\ Walked(r) /\ Trying(r) /\ r.orphans = {}
       /\ r.active /\ r.phase = "connecting" /\ r.attempts = entered.attempts
  BY <1>7, <1>8, <1>11, ArmTimeoutInOrder
<1> HIDE DEF r
<1>14. IsOpen(r)
  BY <1>12, <1>13 DEF IsOpen
<1>15. OpenAttempt(c) = r
  BY DEF OpenAttempt, r, entered, opened, s
<1>16. QED
  BY <1>13, <1>14, <1>15

LEMMA StillConnectedInOrder ==
    ASSUME NEW c \in Controller, c.active, c.phase = "connecting", InOrder(c),
           NEW answer, NEW status \in BOOLEAN
    PROVE  InOrder(StillConnected(c, answer, status))
<1> DEFINE again == [c EXCEPT !.retries = @ + 1]
           expecting == [again EXCEPT !.expect = TRUE, !.manual = TRUE, !.phase = "settling"]
           told == Emit(expecting, "disconnect")
<1>1. again \in Controller /\ Alike(c, again)
  <2>1. c.retries + 1 \in Nat
    BY DEF Controller
  <2>2. QED
    BY <2>1 DEF Controller, Alike
<1> HIDE DEF again
<1>2. /\ again.active /\ again.orphans = {} /\ again.phase = "connecting"
      /\ InOrder(again) /\ Walked(again) /\ Trying(again)
  <2>1. InOrder(again) /\ again.active /\ again.phase = "connecting"
    BY <1>1, AlikeInOrder DEF Alike
  <2>2. QED
    BY <2>1 DEF InOrder, InRun
<1>3. expecting \in Controller
  BY <1>1 DEF Controller, Phases
<1>4. /\ expecting.orphans = again.orphans /\ expecting.timeout = again.timeout
      /\ expecting.tick = again.tick /\ expecting.settle = again.settle
      /\ expecting.active = again.active /\ expecting.phase = "settling"
      /\ expecting.gen = again.gen /\ expecting.left = again.left
      /\ expecting.failures = again.failures /\ expecting.queue = again.queue
      /\ expecting.index = again.index /\ expecting.attempts = again.attempts
      /\ expecting.current = again.current
  BY <1>1 DEF Controller
<1> HIDE DEF expecting
<1>5. Walked(expecting) /\ Trying(expecting) /\ InRun(expecting)
  BY <1>2, <1>4 DEF Walked, Trying, TriedIn, InRun
<1>6. InOrder(expecting)
  BY <1>2, <1>4, <1>5 DEF InOrder, InRun
<1>7. told \in Controller /\ InOrder(told) /\ InRun(told)
  BY <1>3, <1>5, <1>6, EmitType, EmitAlike, AlikeInOrder DEF Calls
<1> HIDE DEF told
<1>8. InOrder(ArmSettle(told))
  BY <1>7, ArmSettleInOrder
<1>9. /\ InOrder(Advance(again, "disconnect", status))
      /\ InOrder(Advance(expecting, "error", status))
  BY <1>1, <1>2, <1>3, <1>4, <1>5, AdvanceInOrder DEF Reasons
<1>10. QED
  BY <1>8, <1>9 DEF StillConnected, again, expecting, told

LEMMA TryCurrentServerInOrder ==
    ASSUME NEW c \in Controller, c.active, c.orphans = {}, Walked(c),
           NEW answer, NEW status \in BOOLEAN
    PROVE  InOrder(TryCurrentServer(c, answer, status))
<1>1. CASE c.index >= Len(c.queue)
  <2>1. c.index = Len(c.queue)
    BY <1>1 DEF Walked, Controller
  <2>2. AllTried(c)
    BY <2>1 DEF Walked, AllTried
  <2>3. InOrder(Finish(c, "exhausted", TRUE, status))
    BY <2>2, FinishInOrder
  <2>4. QED
    BY <1>1, <2>3 DEF TryCurrentServer
<1>2. CASE ~(c.index >= Len(c.queue))
  <2> DEFINE opened  == OpenAttempt(c)
             watched == Emit(opened, "start_watch")
             free    == [watched EXCEPT !.retries = 0]
             Ready(d) == /\ d \in Controller /\ d.active /\ d.phase = "connecting"
                         /\ d.orphans = {} /\ InOrder(d) /\ Walked(d) /\ Trying(d)
  <2>1. c.index < Len(c.queue)
    BY <1>2 DEF Controller
  <2>2. Ready(opened) /\ IsOpen(opened)
    BY <2>1, OpenAttemptType, OpenAttemptInOrder
  <2> HIDE DEF opened
  <2>3. Alike(opened, watched) /\ watched \in Controller
    BY <2>2, EmitType, EmitAlike DEF Calls
  <2>4. Ready(watched)
    BY <2>2, <2>3, AlikeInOrder DEF Alike
  <2> HIDE DEF watched
  <2>5. Alike(watched, free) /\ free \in Controller
    BY <2>3 DEF Alike, Controller
  <2>6. Ready(free)
    BY <2>4, <2>5, AlikeInOrder DEF Alike
  <2> HIDE DEF free
  <2>7. InOrder(Finish(opened, "exhausted", TRUE, status))
    BY <2>2, FinishInOrder
  <2>8. InOrder(Advance(watched, "error", status))
    BY <2>4, AdvanceInOrder DEF Reasons
  <2>9. InOrder(StillConnected(watched, answer, status))
    BY <2>4, StillConnectedInOrder
  <2>10. /\ InOrder(Advance(free, "missing", status))
         /\ InOrder(Advance(free, "error", status))
    BY <2>6, AdvanceInOrder DEF Reasons
  <2>11. InOrder(Emit(free, "connect"))
    BY <2>6, EmitAlike, AlikeInOrder
  <2>12. QED
    BY <1>2, <2>7, <2>8, <2>9, <2>10, <2>11 DEF TryCurrentServer, free, watched, opened
<1>3. QED
  BY <1>1, <1>2

(* Before a run starts nothing is armed.                                   *)
Unarmed(c) == ~c.timeout.armed /\ ~c.tick.armed /\ ~c.settle.armed

LEMMA BeginInOrder ==
    ASSUME NEW c \in Controller, c.orphans = {}, Unarmed(c),
           NEW q \in Queues, NEW opening, NEW status \in BOOLEAN
    PROVE  InOrder(Begin(c, q, opening, status))
<1> DEFINE fresh == [c EXCEPT !.gen = @ + 1, !.active = TRUE, !.queue = q, !.index = 0,
                        !.failures = <<>>, !.attempts = <<>>, !.expect = FALSE,
                        !.retries = 0, !.phase = "connecting", !.current = NoServer,
                        !.manual = FALSE, !.locked = TRUE, !.testBtn = FALSE]
           leaving == [fresh EXCEPT !.expect = TRUE, !.manual = TRUE, !.phase = "settling"]
           watched == Emit(leaving, "start_watch")
           told == Emit(watched, "disconnect")
<1>1. q \in Seq(Servers) /\ <<>> \in Seq(Failure) /\ <<>> \in Seq(Attempt)
  BY CascadeAssumption, EmptySeq
<1>2. fresh \in Controller
  <2>1. c.gen + 1 \in Nat /\ "connecting" \in Phases
    BY DEF Controller, Phases
  <2>2. QED
    BY <1>1, <2>1 DEF Controller
<1>3. /\ fresh.active /\ fresh.orphans = {} /\ fresh.queue = q /\ fresh.index = 0
      /\ fresh.failures = <<>> /\ Unarmed(fresh)
  BY DEF Controller, Unarmed
<1> HIDE DEF fresh
<1>4. Walked(fresh)
  <2>1. Len(fresh.failures) = 0 /\ Len(q) \in Nat /\ 1..0 = {}
    BY <1>1, <1>3
  <2>2. QED
    BY <1>3, <2>1 DEF Walked
<1>5. leaving \in Controller
  BY <1>2 DEF Controller, Phases
<1>6. /\ leaving.active /\ leaving.orphans = {} /\ leaving.phase = "settling"
      /\ leaving.queue = fresh.queue /\ leaving.index = fresh.index
      /\ leaving.failures = fresh.failures /\ leaving.attempts = fresh.attempts
      /\ Unarmed(leaving)
  BY <1>2, <1>3 DEF Controller, Unarmed
<1> HIDE DEF leaving
<1>7. Walked(leaving) /\ InRun(leaving)
  BY <1>4, <1>6 DEF Walked, TriedIn, InRun
<1>8. InOrder(leaving)
  BY <1>6, <1>7 DEF InOrder, Unarmed
<1>9. watched \in Controller /\ InOrder(watched) /\ InRun(watched)
  BY <1>5, <1>7, <1>8, EmitType, EmitAlike, AlikeInOrder DEF Calls
<1> HIDE DEF watched
<1>10. told \in Controller /\ InOrder(told) /\ InRun(told)
  BY <1>9, EmitType, EmitAlike, AlikeInOrder DEF Calls
<1> HIDE DEF told
<1>11. InOrder(ArmSettle(told))
  BY <1>10, ArmSettleInOrder
<1>12. InOrder(TryCurrentServer(fresh, opening, status))
  BY <1>2, <1>3, <1>4, TryCurrentServerInOrder
<1>13. QED
  BY <1>11, <1>12 DEF Begin, told, watched, leaving, fresh

LEMMA StartFromVisibleListInOrder ==
    ASSUME NEW c \in Controller, InOrder(c), c.active => c.phase = "preparing",
           NEW q \in Queues, NEW opening, NEW status \in BOOLEAN
    PROVE  InOrder(StartFromVisibleList(c, q, opening, status))
<1>1. c.orphans = {} /\ Unarmed(c) /\ (c.active => c.queue = <<>>)
  BY DEF InOrder, InRun, Unarmed
<1>2. CASE q = <<>>
  <2>1. ASSUME c.active PROVE InOrder(Finish(c, "exhausted", TRUE, status))
    <3>1. Len(c.queue) = 0
      BY <1>1, <2>1
    <3>2. AllTried(c)
      BY <3>1 DEF AllTried
    <3>3. QED
      BY <1>1, <3>2, FinishInOrder
  <2>2. QED
    BY <1>2, <2>1 DEF StartFromVisibleList
<1>3. CASE q # <<>>
  <2> DEFINE named == [c EXCEPT !.current = Head(q)]
  <2>1. q \in Seq(Servers)
    BY CascadeAssumption
  <2>2. Head(q) \in Servers
    BY <1>3, <2>1, HeadTailProperties
  <2>3. named \in Controller /\ named.orphans = {}
    BY <1>1, <2>2 DEF Controller
  <2> HIDE DEF named
  <2>4. InOrder(Finish(named, "succeeded", TRUE, status))
    BY <2>3, FinishInOrder
  <2>5. InOrder(Begin(c, q, opening, status))
    BY <1>1, BeginInOrder
  <2>6. QED
    BY <1>3, <2>4, <2>5 DEF StartFromVisibleList, named
<1>4. QED
  BY <1>2, <1>3

LEMMA CancelInOrder ==
    ASSUME NEW c \in Controller, InOrder(c), NEW status \in BOOLEAN
    PROVE  InOrder(Cancel(c, status))
<1> DEFINE told == Emit(c, "cancel_current_operation")
           next == [told EXCEPT !.autoTest = FALSE, !.gen = @ + 1]
<1>1. told \in Controller /\ told.orphans = {}
  BY EmitType, EmitAlike DEF Calls, Alike, InOrder
<1> HIDE DEF told
<1>2. next \in Controller /\ next.orphans = {}
  <2>1. next \in Controller
    BY <1>1, CalledOffType
  <2>2. next.orphans = told.orphans
    BY <1>1 DEF Controller
  <2>3. QED
    BY <1>1, <2>1, <2>2
<1> HIDE DEF next
<1>3. InOrder(Finish(next, "cancelled", TRUE, status))
  BY <1>2, FinishInOrder
<1>4. QED
  BY <1>3 DEF Cancel, next, told

LEMMA ShowPreparingInOrder ==
    ASSUME NEW c \in Controller, InOrder(c), ~c.active
    PROVE  InOrder(ShowPreparing(c))
<1> DEFINE r == ShowPreparing(c)
<1>1. c.orphans = {} /\ Unarmed(c)
  BY DEF InOrder, InRun, Unarmed
<1>2. r.orphans = {} /\ Unarmed(r) /\ r.phase = "preparing" /\ r.queue = <<>>
  BY <1>1 DEF ShowPreparing, Unarmed, Controller
<1> HIDE DEF r
<1>3. InOrder(r)
  BY <1>2 DEF InOrder, InRun, Unarmed
<1>4. QED
  BY <1>3 DEF r

-----------------------------------------------------------------------------
(* Events and timers.                                                      *)

LEMMA OnConnectionEventInOrder ==
    ASSUME NEW c \in Controller, InOrder(c), NEW event \in Events, NEW status \in BOOLEAN
    PROVE  InOrder(OnConnectionEvent(c, event, status))
<1> DEFINE up == [DisarmTimers(c) EXCEPT !.expect = FALSE]
           told == [c EXCEPT !.expect = FALSE, !.manual = TRUE]
<1>1. up \in Controller /\ up.orphans = {}
  <2>1. up \in Controller
    BY UpType
  <2>2. up.orphans = {}
    BY DEF DisarmTimers, Controller, InOrder
  <2>3. QED
    BY <2>1, <2>2
<1> HIDE DEF up
<1>2. InOrder(Finish(up, "succeeded", FALSE, status))
  BY <1>1, FinishInOrder
<1>3. Alike(c, told)
  BY DEF Alike, Controller
<1>4. InOrder(told)
  BY <1>3, AlikeInOrder
<1> HIDE DEF told
<1>5. ASSUME c.active, c.phase = "connecting"
      PROVE  InOrder(Advance(c, FailureReason(event), status))
  <2>1. c.orphans = {} /\ Walked(c) /\ Trying(c)
    BY <1>5 DEF InOrder, InRun
  <2>2. FailureReason(event) \in Reasons
    BY DEF FailureReason, Reasons
  <2>3. QED
    BY <1>5, <2>1, <2>2, AdvanceInOrder
<1>6. QED
  BY <1>2, <1>4, <1>5 DEF OnConnectionEvent, up, told

(* The timeout that fires belongs to the run, and to an attempt of it.     *)
LEMMA OnTimeoutInOrder ==
    ASSUME NEW c \in Controller, InOrder(c), c.timeout.armed,
           NEW busy, NEW status \in BOOLEAN
    PROVE  InOrder(OnTimeout([c EXCEPT !.timeout = Off], c.timeout.gen, busy, status))
<1> DEFINE fired == [c EXCEPT !.timeout = Off]
           later == [fired EXCEPT !.left = Extension]
<1>1. /\ c.orphans = {} /\ InRun(c) /\ Walked(c) /\ Trying(c) /\ c.timeout.gen = c.gen
  BY DEF InOrder
<1>2. fired \in Controller
  BY DEF Controller, Off, Timer
<1>3. /\ fired.orphans = {} /\ fired.active = c.active /\ fired.phase = c.phase
      /\ fired.failures = c.failures /\ fired.queue = c.queue /\ fired.gen = c.gen
      /\ fired.index = c.index /\ fired.attempts = c.attempts
      /\ fired.current = c.current
  BY <1>1 DEF Controller
<1> HIDE DEF fired
<1>4. \A x : TriedIn(c, x) => TriedIn(fired, x)
  BY <1>3 DEF TriedIn
<1>5. InRun(fired) /\ Walked(fired) /\ Trying(fired)
  BY <1>1, <1>3, <1>4 DEF InRun, Walked, Trying
<1>6. InOrder(Advance(fired, "timeout", status))
  BY <1>2, <1>3, <1>5, AdvanceInOrder DEF InRun, Reasons
<1>7. later \in Controller
  BY <1>2, CascadeAssumption DEF Controller
<1>8. /\ later.orphans = {} /\ later.active = c.active /\ later.phase = c.phase
      /\ later.failures = c.failures /\ later.queue = c.queue
      /\ later.index = c.index /\ later.attempts = c.attempts
      /\ later.current = c.current
  BY <1>2, <1>3 DEF Controller
<1> HIDE DEF later
<1>9. \A x : TriedIn(c, x) => TriedIn(later, x)
  BY <1>8 DEF TriedIn
<1>10. InRun(later) /\ Walked(later) /\ Trying(later)
  BY <1>1, <1>8, <1>9 DEF InRun, Walked, Trying
<1>11. InOrder(ArmTimeoutAndTicks(later))
  BY <1>7, <1>8, <1>10, ArmTimeoutInOrder
<1>12. QED
  BY <1>6, <1>11, <1>1, <1>3 DEF OnTimeout, InRun, fired, later

(* A tick never finds the deadline passed: the timeout armed with it would *)
(* be due, and goes first.                                                 *)
LEMMA OnTickInOrder ==
    ASSUME NEW c \in Controller, InOrder(c), c.tick.armed, ~Due(c.timeout),
           NEW busy, NEW status \in BOOLEAN
    PROVE  InOrder(OnTick(c, busy, status))
<1> DEFINE Same(r) == /\ r.orphans = c.orphans /\ r.timeout = c.timeout
                      /\ r.settle = c.settle /\ r.active = c.active
                      /\ r.phase = c.phase /\ r.gen = c.gen
                      /\ r.failures = c.failures /\ r.queue = c.queue
                      /\ r.index = c.index /\ r.attempts = c.attempts
                      /\ r.current = c.current
           again == [c EXCEPT !.tick.fuse = 1]
           waiting == [again EXCEPT !.left = @ + 1]
           off == [c EXCEPT !.tick = Off]
<1>1. /\ c.timeout.armed /\ c.timeout.fuse <= c.left
      /\ c.timeout.fuse \in Nat /\ c.left \in Nat
  BY DEF InOrder, Controller, Timer
<1>2. c.left # 0
  BY <1>1 DEF Due
<1>3. \A r : /\ Same(r)
             /\ (r.left \in Nat /\ r.left >= c.left) \/ ~r.tick.armed
             => InOrder(r)
  <2>1. SUFFICES ASSUME NEW r, Same(r), (r.left \in Nat /\ r.left >= c.left) \/ ~r.tick.armed
                 PROVE  InOrder(r)
    OBVIOUS
  <2>2. \A x : TriedIn(c, x) => TriedIn(r, x)
    BY <2>1 DEF TriedIn
  <2>3. /\ InRun(c) => InRun(r)
        /\ Walked(c) => Walked(r)
        /\ Trying(c) => Trying(r)
        /\ AllTried(c) => AllTried(r)
        /\ LastGone(c) => LastGone(r)
    BY <2>1, <2>2 DEF InRun, Walked, Trying, AllTried, LastGone
  <2>4. r.tick.armed => r.timeout.armed /\ r.timeout.fuse <= r.left
    BY <1>1, <2>1
  <2>5. InRun(r) => InRun(c)
    BY <2>1 DEF InRun
  <2> HIDE DEF again, waiting, off
  <2>6. QED
    BY <1>1, <2>1, <2>3, <2>4, <2>5 DEF InOrder
<1>4. again.left = c.left /\ Same(again)
  BY DEF Controller
<1>5. waiting.left = c.left + 1 /\ Same(waiting)
  BY DEF Controller
<1>6. ~off.tick.armed /\ Same(off)
  BY DEF Off, Controller
<1> HIDE DEF again, waiting, off
<1>7. InOrder(again) /\ InOrder(waiting) /\ InOrder(off)
  <2> HIDE DEF Same
  <2>1. QED
    BY <1>1, <1>3, <1>4, <1>5, <1>6
<1>8. QED
  BY <1>2, <1>7 DEF OnTick, again, waiting, off

LEMMA OnSettledInOrder ==
    ASSUME NEW c \in Controller, InOrder(c), c.settle.armed,
           NEW answer, NEW status \in BOOLEAN
    PROVE  InOrder(OnSettled(c, answer, status))
<1> DEFINE fired == [c EXCEPT !.settle = Off]
<1>1. fired \in Controller
  BY DEF Controller, Off, Timer
<1>2. /\ fired.orphans = c.orphans /\ fired.active = c.active /\ fired.phase = c.phase
      /\ fired.gen = c.gen /\ fired.left = c.left /\ fired.failures = c.failures
      /\ fired.queue = c.queue /\ fired.index = c.index /\ fired.attempts = c.attempts
      /\ fired.current = c.current /\ fired.timeout = c.timeout /\ fired.tick = c.tick
      /\ ~fired.settle.armed
  BY DEF Off, Controller
<1> HIDE DEF fired
<1>3. \A x : TriedIn(c, x) => TriedIn(fired, x)
  BY <1>2 DEF TriedIn
<1>4. /\ InRun(c) => InRun(fired)
      /\ Walked(c) => Walked(fired)
      /\ Trying(c) => Trying(fired)
      /\ AllTried(c) => AllTried(fired)
      /\ LastGone(c) => LastGone(fired)
      /\ InRun(fired) => InRun(c)
  BY <1>2, <1>3 DEF InRun, Walked, Trying, AllTried, LastGone
<1>5. InOrder(fired) /\ fired.active /\ Walked(fired) /\ fired.orphans = {}
  BY <1>2, <1>4 DEF InOrder, InRun
<1>6. InOrder(TryCurrentServer(fired, answer, status))
  BY <1>1, <1>5, TryCurrentServerInOrder
<1>7. QED
  BY <1>5, <1>6 DEF OnSettled, fired

LEMMA ElapseInOrder ==
    ASSUME NEW c \in Controller, InOrder(c), ~Due(c.timeout), ~Due(c.tick), ~Due(c.settle)
    PROVE  InOrder([c EXCEPT
              !.left = IF @ > 0 THEN @ - 1 ELSE 0,
              !.timeout = Elapsed(@), !.tick = Elapsed(@), !.settle = Elapsed(@),
              !.orphans = {[o EXCEPT !.fuse = @ - 1] : o \in @}])
<1> DEFINE left == IF c.left > 0 THEN c.left - 1 ELSE 0
           older == {[o EXCEPT !.fuse = @ - 1] : o \in c.orphans}
           r == [c EXCEPT !.left = left,
                    !.timeout = Elapsed(@), !.tick = Elapsed(@), !.settle = Elapsed(@),
                    !.orphans = older]
<1>1. /\ c.timeout \in Timer /\ c.tick \in Timer /\ c.settle \in Timer
      /\ c.left \in Nat /\ c.orphans = {}
  BY DEF Controller, InOrder
<1>2. \A x \in Timer : ~Due(x) => /\ Elapsed(x).armed = x.armed
                                  /\ Elapsed(x).gen = x.gen
                                  /\ x.armed => Elapsed(x).fuse = x.fuse - 1 /\ x.fuse > 0
  BY DEF Timer, Due, Elapsed
<1>3. older = {}
  BY <1>1
<1> HIDE DEF older
<1>4. c.timeout.armed /\ c.timeout.fuse <= c.left => c.timeout.fuse - 1 <= left
  BY <1>1, <1>2 DEF Timer
<1> HIDE DEF left
<1>5. /\ r.orphans = {} /\ r.active = c.active /\ r.phase = c.phase /\ r.gen = c.gen
      /\ r.failures = c.failures /\ r.queue = c.queue /\ r.index = c.index
      /\ r.attempts = c.attempts /\ r.current = c.current /\ r.left = left
      /\ r.timeout = Elapsed(c.timeout) /\ r.tick = Elapsed(c.tick)
      /\ r.settle = Elapsed(c.settle)
  BY <1>3 DEF Controller
<1> HIDE DEF r
<1>6. \A x : TriedIn(c, x) => TriedIn(r, x)
  BY <1>5 DEF TriedIn
<1>7. /\ InRun(c) <=> InRun(r)
      /\ Walked(c) => Walked(r)
      /\ Trying(c) => Trying(r)
      /\ AllTried(c) => AllTried(r)
      /\ LastGone(c) => LastGone(r)
  BY <1>5, <1>6 DEF InRun, Walked, Trying, AllTried, LastGone
<1>8. /\ r.timeout.armed = c.timeout.armed /\ r.timeout.gen = c.timeout.gen
      /\ r.tick.armed = c.tick.armed /\ r.settle.armed = c.settle.armed
      /\ c.timeout.armed => r.timeout.fuse = c.timeout.fuse - 1
  BY <1>1, <1>2, <1>5
<1>9. InOrder(r)
  BY <1>4, <1>5, <1>7, <1>8 DEF InOrder
<1>10. QED
  BY <1>9 DEF r, left, older

-----------------------------------------------------------------------------
(* The walk, for punctual dispatch.                                        *)

LEMMA InitInOrder == Init => InOrder(ctl)
BY DEF Init, InitController, Off, InOrder, InRun

LEMMA NextInOrder ==
    ASSUME LateDispatch = FALSE, IInv, InOrder(ctl), [Next]_vars
    PROVE  InOrder(ctl')
<1> DEFINE now == Quiet(ctl)
<1>1. ctl \in Controller /\ now \in Controller /\ Alike(ctl, now) /\ InOrder(now)
  BY QuietType, QuietAlike, AlikeInOrder DEF IInv, TypeOK
<1> HIDE DEF now
<1>2. CASE Start
  <2>1. PICK q \in Queues, opening \in Openings, status \in BOOLEAN :
           ctl' = StartFromVisibleList(now, q, opening, status)
    BY <1>2 DEF Start, now
  <2>2. ~now.active
    BY <1>1, <1>2 DEF Start, Busy, Alike
  <2>3. QED
    BY <1>1, <2>1, <2>2, StartFromVisibleListInOrder
<1>3. CASE StartMeasuring
  <2> DEFINE asked == [now EXCEPT !.autoTest = TRUE]
             shown == ShowPreparing(asked)
             locked == [shown EXCEPT !.testBtn = FALSE]
  <2>1. TriggerSpeedTest(shown) /\ ~ctl.active
    BY <1>3 DEF StartMeasuring, Busy, now
  <2>2. asked \in Controller /\ Alike(now, asked)
    BY <1>1 DEF Controller, Alike
  <2> HIDE DEF asked
  <2>3. shown \in Controller /\ InOrder(shown)
    BY <1>1, <2>1, <2>2, AlikeInOrder, ShowPreparingType, ShowPreparingInOrder DEF Alike
  <2> HIDE DEF shown
  <2>4. Alike(shown, locked)
    BY <2>3 DEF Controller, Alike
  <2>5. InOrder(locked)
    BY <2>3, <2>4, AlikeInOrder
  <2>6. ctl' = shown \/ ctl' = locked
    BY <2>1 DEF TriggerSpeedTest
  <2> HIDE DEF locked
  <2>7. QED
    BY <2>3, <2>5, <2>6
<1>4. CASE CancelRun
  <2>1. PICK status \in BOOLEAN : ctl' = Cancel(now, status)
    BY <1>4 DEF CancelRun, now
  <2>2. QED
    BY <1>1, <2>1, CancelInOrder
<1>5. CASE UserSpeedTest
  <2> DEFINE locked == [now EXCEPT !.testBtn = FALSE]
  <2>1. ctl' = now \/ ctl' = locked
    BY <1>5 DEF UserSpeedTest, TriggerSpeedTest, now
  <2>2. Alike(now, locked)
    BY <1>1 DEF Controller, Alike
  <2>3. InOrder(locked)
    BY <1>1, <2>2, AlikeInOrder
  <2> HIDE DEF locked
  <2>4. QED
    BY <1>1, <2>1, <2>3
<1>6. CASE SpeedTestComplete
  <2>1. PICK status \in BOOLEAN :
           LET told == IF test = "cancelling" /\ ctl.autoTest THEN Cancel(now, status)
                                                              ELSE now
               idle == [told EXCEPT !.testBtn = TRUE]
               free == [idle EXCEPT !.autoTest = FALSE]
           IN  IF idle.autoTest /\ idle.active /\ idle.phase = "preparing"
               THEN \E q \in Queues, opening \in Openings :
                       ctl' = StartFromVisibleList(free, q, opening, status)
               ELSE ctl' = free
    BY <1>6 DEF SpeedTestComplete, now
  <2> DEFINE told == IF test = "cancelling" /\ ctl.autoTest THEN Cancel(now, status) ELSE now
             idle == [told EXCEPT !.testBtn = TRUE]
             free == [idle EXCEPT !.autoTest = FALSE]
  <2>2. told \in Controller /\ InOrder(told)
    BY <1>1, CancelType, CancelInOrder
  <2> HIDE DEF told
  <2>3. idle \in Controller /\ Alike(told, idle)
    BY <2>2 DEF Controller, Alike
  <2>4. InOrder(idle)
    BY <2>2, <2>3, AlikeInOrder
  <2> HIDE DEF idle
  <2>5. free \in Controller /\ Alike(idle, free)
    BY <2>3 DEF Controller, Alike
  <2>6. InOrder(free)
    BY <2>4, <2>5, AlikeInOrder
  <2> HIDE DEF free
  <2>7. CASE idle.autoTest /\ idle.active /\ idle.phase = "preparing"
    <3>1. PICK q \in Queues, opening \in Openings :
             ctl' = StartFromVisibleList(free, q, opening, status)
      BY <2>1, <2>7 DEF free, idle, told
    <3>2. free.phase = "preparing"
      BY <2>5, <2>7 DEF Alike
    <3>3. QED
      BY <2>5, <2>6, <3>1, <3>2, StartFromVisibleListInOrder
  <2>8. CASE ~(idle.autoTest /\ idle.active /\ idle.phase = "preparing")
    <3>1. ctl' = free
      BY <2>1, <2>8 DEF free, idle, told
    <3>2. QED
      BY <2>6, <3>1
  <2>9. QED
    BY <2>7, <2>8
<1>7. CASE ConnectionEvent
  <2>1. PICK event \in Events, status \in BOOLEAN :
           ctl' = OnConnectionEvent(now, event, status)
    BY <1>7 DEF ConnectionEvent, now
  <2>2. QED
    BY <1>1, <2>1, OnConnectionEventInOrder
<1>8. CASE TimeoutFires
  <2>1. PICK status \in BOOLEAN :
           ctl' = OnTimeout([now EXCEPT !.timeout = Off], now.timeout.gen, dialog, status)
    BY <1>1, <1>8 DEF TimeoutFires, Alike, now
  <2>2. now.timeout.armed
    BY <1>1, <1>8 DEF TimeoutFires, Due, Alike
  <2>3. QED
    BY <1>1, <2>1, <2>2, OnTimeoutInOrder
<1>9. CASE OrphanFires
  BY <1>9 DEF OrphanFires, InOrder
<1>10. CASE TickFires
  <2>1. PICK status \in BOOLEAN : ctl' = OnTick(now, dialog, status)
    BY <1>10 DEF TickFires, now
  <2>2. now.tick.armed /\ ~Due(now.timeout)
    BY <1>1, <1>10 DEF TickFires, NoTimeoutDue, Due, Alike
  <2>3. QED
    BY <1>1, <2>1, <2>2, OnTickInOrder
<1>11. CASE SettleFires
  <2>1. PICK answer \in Answers, status \in BOOLEAN : ctl' = OnSettled(now, answer, status)
    BY <1>11 DEF SettleFires, now
  <2>2. now.settle.armed
    BY <1>1, <1>11 DEF SettleFires, Due, Alike
  <2>3. QED
    BY <1>1, <2>1, <2>2, OnSettledInOrder
<1>12. CASE Elapse
  <2>1. ~Due(now.timeout) /\ ~Due(now.tick) /\ ~Due(now.settle)
    BY <1>1, <1>12 DEF Elapse, NoTimeoutDue, Alike
  <2>2. ctl' = [now EXCEPT
                  !.left = IF @ > 0 THEN @ - 1 ELSE 0,
                  !.timeout = Elapsed(@), !.tick = Elapsed(@), !.settle = Elapsed(@),
                  !.orphans = {[o EXCEPT !.fuse = @ - 1] : o \in @}]
    BY <1>12 DEF Elapse, now
  <2>3. QED
    BY <1>1, <2>1, <2>2, ElapseInOrder
<1>13. CASE OpenDialog \/ CloseDialog
  BY <1>1, <1>13 DEF OpenDialog, CloseDialog, now
<1>14. CASE UNCHANGED vars
  BY <1>14 DEF vars
<1>15. QED
  BY <1>2, <1>3, <1>4, <1>5, <1>6, <1>7, <1>8, <1>9, <1>10, <1>11, <1>12, <1>13, <1>14
     DEF Next, MainLoop

(* Where due timeouts are dispatched before ticks, a running cascade has   *)
(* given one verdict to each server before index, in queue order.          *)
THEOREM VerdictsInOrder ==
    ASSUME LateDispatch = FALSE
    PROVE  Spec => []VerdictsFollowQueue
<1>1. InOrder(ctl) => VerdictsFollowQueue
  BY DEF InOrder, InRun, Walked, VerdictsFollowQueue, Running
<1>2. IInv /\ InOrder(ctl) /\ [Next]_vars => IInv' /\ InOrder(ctl)'
  BY NextIInv, NextInOrder
<1>3. QED
  BY InitIInv, InitInOrder, <1>1, <1>2, PTL DEF Spec

(* And a run that ends exhausted has tried every server of its queue,      *)
(* unless the backend went away under its last attempt.                    *)
THEOREM ExhaustedHasTriedAll ==
    ASSUME LateDispatch = FALSE
    PROVE  Spec => []ExhaustedTriedAll
<1>1. InOrder(ctl) => ExhaustedTriedAll
  BY DEF InOrder, AllTried, TriedIn, LastGone, ExhaustedTriedAll, BackendGone, Tried
<1>2. IInv /\ InOrder(ctl) /\ [Next]_vars => IInv' /\ InOrder(ctl)'
  BY NextIInv, NextInOrder
<1>3. QED
  BY InitIInv, InitInOrder, <1>1, <1>2, PTL DEF Spec

-----------------------------------------------------------------------------
(* Generations, for any dispatch order.                                    *)

LEMMA FinishGen ==
    ASSUME NEW c \in Controller, NEW phase, NEW restore \in BOOLEAN,
           NEW status \in BOOLEAN
    PROVE  LET r == Finish(c, phase, restore, status)
           IN  ~r.active /\ r.gen = c.gen
<1> DEFINE ended == [DisarmTimers(c) EXCEPT !.active = FALSE, !.phase = phase,
                        !.expect = FALSE, !.autoTest = FALSE,
                        !.locked = FALSE, !.testBtn = TRUE]
           Over(d) == ~d.active /\ d.gen = c.gen
<1>1. Over(ended)
  BY DEF DisarmTimers, Controller
<1>2. \A r : Over(CompleteActiveAttempt(ended, r))
  BY <1>1 DEF CompleteActiveAttempt, DisarmTimers, Controller
<1> HIDE DEF ended
<1>3. Over(Finish(c, phase, restore, status))
  BY <1>2 DEF Finish, Emit, ended
<1>4. QED
  BY <1>3

LEMMA AdvanceGen ==
    ASSUME NEW c \in Controller, NEW reason \in Reasons, NEW status \in BOOLEAN
    PROVE  Advance(c, reason, status).gen = c.gen
<1> DEFINE recorded == DisarmTimers(RecordFailure(c, reason))
<1>1. recorded \in Controller
  BY RecordFailureType, DisarmType
<1>2. recorded.gen = c.gen
  BY DEF DisarmTimers, RecordFailure, CompleteActiveAttempt, Controller
<1> HIDE DEF recorded
<1>3. QED
  BY <1>1, <1>2 DEF Advance, ArmSettle, Emit, recorded, Controller

LEMMA TryCurrentServerGen ==
    ASSUME NEW c \in Controller, NEW answer, NEW status \in BOOLEAN
    PROVE  TryCurrentServer(c, answer, status).gen = c.gen
<1>1. CASE ~c.active
  BY <1>1 DEF TryCurrentServer
<1>2. CASE c.active /\ c.index >= Len(c.queue)
  BY <1>2, FinishGen DEF TryCurrentServer
<1>3. CASE c.active /\ ~(c.index >= Len(c.queue))
  <2> DEFINE opened  == OpenAttempt(c)
             watched == Emit(opened, "start_watch")
             free    == [watched EXCEPT !.retries = 0]
             again   == [watched EXCEPT !.retries = @ + 1]
             expecting == [again EXCEPT !.expect = TRUE, !.manual = TRUE,
                                        !.phase = "settling"]
  <2>1. c.index < Len(c.queue)
    BY <1>3 DEF Controller
  <2>2. opened \in Controller /\ opened.gen = c.gen
    <3>1. opened \in Controller
      BY <2>1, OpenAttemptType
    <3>2. opened.gen = c.gen
      BY DEF OpenAttempt, ArmTimeoutAndTicks, DisarmTimers, Controller
    <3>3. QED
      BY <3>1, <3>2
  <2> HIDE DEF opened
  <2>3. watched \in Controller /\ watched.gen = c.gen
    BY <2>2, EmitType, EmitAlike DEF Calls, Alike
  <2> HIDE DEF watched
  <2>4. free \in Controller /\ free.gen = c.gen
    BY <2>3 DEF Controller
  <2> HIDE DEF free
  <2>5. again \in Controller /\ again.gen = c.gen
    <3>1. watched.retries + 1 \in Nat
      BY SMTT(30), <2>3 DEF Controller
    <3>2. QED
      BY <2>3, <3>1 DEF Controller
  <2> HIDE DEF again
  <2>6. expecting \in Controller /\ expecting.gen = c.gen
    BY <2>5 DEF Controller, Phases
  <2> HIDE DEF expecting
  <2>7. ArmSettle(Emit(expecting, "disconnect")).gen = c.gen
    <3>1. /\ Emit(expecting, "disconnect") \in Controller
          /\ Emit(expecting, "disconnect").gen = c.gen
      BY <2>6, EmitType, EmitAlike DEF Calls, Alike
    <3>2. QED
      BY <3>1 DEF ArmSettle, Controller
  <2>8. /\ Advance(again, "disconnect", status).gen = c.gen
        /\ Advance(expecting, "error", status).gen = c.gen
        /\ Advance(watched, "error", status).gen = c.gen
        /\ Advance(free, "missing", status).gen = c.gen
        /\ Advance(free, "error", status).gen = c.gen
    BY <2>3, <2>4, <2>5, <2>6, AdvanceGen DEF Reasons
  <2>9. StillConnected(watched, answer, status).gen = c.gen
    BY <2>7, <2>8 DEF StillConnected, again, expecting
  <2>10. Finish(opened, "exhausted", TRUE, status).gen = c.gen
    BY <2>2, FinishGen
  <2>11. Emit(free, "connect").gen = c.gen
    BY <2>4, EmitAlike DEF Alike
  <2>12. QED
    BY <1>3, <2>8, <2>9, <2>10, <2>11 DEF TryCurrentServer, free, watched, opened
<1>4. QED
  BY <1>1, <1>2, <1>3

LEMMA BeginGen ==
    ASSUME NEW c \in Controller, NEW q \in Queues, NEW opening, NEW status \in BOOLEAN
    PROVE  Begin(c, q, opening, status).gen = c.gen + 1
<1> DEFINE fresh == [c EXCEPT !.gen = @ + 1, !.active = TRUE, !.queue = q, !.index = 0,
                        !.failures = <<>>, !.attempts = <<>>, !.expect = FALSE,
                        !.retries = 0, !.phase = "connecting", !.current = NoServer,
                        !.manual = FALSE, !.locked = TRUE, !.testBtn = FALSE]
           leaving == [fresh EXCEPT !.expect = TRUE, !.manual = TRUE, !.phase = "settling"]
           watched == Emit(leaving, "start_watch")
           told == Emit(watched, "disconnect")
<1>1. q \in Seq(Servers) /\ <<>> \in Seq(Failure) /\ <<>> \in Seq(Attempt)
  BY CascadeAssumption, EmptySeq
<1>2. c.gen + 1 \in Nat /\ "connecting" \in Phases /\ "settling" \in Phases
  BY DEF Controller, Phases
<1>3. fresh \in Controller /\ fresh.gen = c.gen + 1
  BY <1>1, <1>2 DEF Controller
<1> HIDE DEF fresh
<1>4. leaving \in Controller /\ leaving.gen = c.gen + 1
  <2>1. leaving \in Controller
    BY <1>2, <1>3 DEF Controller
  <2>2. leaving.gen = c.gen + 1
    BY <1>3 DEF Controller
  <2>3. QED
    BY <2>1, <2>2
<1> HIDE DEF leaving
<1>5. watched \in Controller /\ watched.gen = c.gen + 1
  BY <1>4, EmitType, EmitAlike DEF Calls, Alike
<1> HIDE DEF watched
<1>6. told \in Controller /\ told.gen = c.gen + 1
  BY <1>5, EmitType, EmitAlike DEF Calls, Alike
<1> HIDE DEF told
<1>7. ArmSettle(told).gen = c.gen + 1
  BY <1>6 DEF ArmSettle, Controller
<1>8. TryCurrentServer(fresh, opening, status).gen = c.gen + 1
  BY <1>3, TryCurrentServerGen
<1>9. QED
  BY <1>7, <1>8 DEF Begin, told, watched, leaving, fresh

(* What is over stays so in every handler but the two that start a run.    *)
LEMMA CancelOver ==
    ASSUME NEW c \in Controller, ~c.active, NEW status \in BOOLEAN
    PROVE  ~Cancel(c, status).active
<1> DEFINE told == Emit(c, "cancel_current_operation")
           next == [told EXCEPT !.autoTest = FALSE, !.gen = @ + 1]
<1>1. told \in Controller
  BY EmitType DEF Calls
<1> HIDE DEF told
<1>2. next \in Controller
  BY <1>1, CalledOffType
<1> HIDE DEF next
<1>3. ~Finish(next, "cancelled", TRUE, status).active
  BY <1>2, FinishGen
<1>4. QED
  BY <1>3 DEF Cancel, next, told

LEMMA SpeedTestCompleteOver ==
    ASSUME ctl \in Controller, ~ctl.active, SpeedTestComplete
    PROVE  ~ctl'.active
<1> DEFINE now == Quiet(ctl)
<1>1. now \in Controller /\ ~now.active
  BY QuietType DEF Quiet, Controller
<1>2. PICK status \in BOOLEAN :
         LET told == IF test = "cancelling" /\ ctl.autoTest THEN Cancel(now, status)
                                                            ELSE now
             idle == [told EXCEPT !.testBtn = TRUE]
             free == [idle EXCEPT !.autoTest = FALSE]
         IN  IF idle.autoTest /\ idle.active /\ idle.phase = "preparing"
             THEN \E q \in Queues, opening \in Openings :
                     ctl' = StartFromVisibleList(free, q, opening, status)
             ELSE ctl' = free
  BY DEF SpeedTestComplete
<1> DEFINE told == IF test = "cancelling" /\ ctl.autoTest THEN Cancel(now, status) ELSE now
           idle == [told EXCEPT !.testBtn = TRUE]
           free == [idle EXCEPT !.autoTest = FALSE]
<1> HIDE DEF now
<1>3. told \in Controller /\ ~told.active
  BY <1>1, CancelType, CancelOver
<1> HIDE DEF told
<1>4. idle \in Controller /\ ~idle.active
  BY <1>3 DEF Controller
<1> HIDE DEF idle
<1>5. free \in Controller /\ ~free.active
  BY <1>4 DEF Controller
<1>6. ctl' = free
  BY <1>2, <1>4 DEF free, idle, told
<1> HIDE DEF free
<1>7. QED
  BY <1>5, <1>6

LEMMA StepsKeepGenerations ==
    ASSUME IInv, Next, ~ctl.active, ctl'.active
    PROVE  ctl'.gen > ctl.gen
<1> DEFINE now == Quiet(ctl)
<1>1. ctl \in Controller /\ now \in Controller /\ Alike(ctl, now) /\ ~now.active
  BY QuietType, QuietAlike DEF IInv, TypeOK, Alike
<1>2. now.gen = ctl.gen /\ ctl.gen \in Nat
  BY <1>1 DEF Alike, Controller
<1> HIDE DEF now
<1>3. CASE Start
  <2>1. PICK q \in Queues, opening \in Openings, status \in BOOLEAN :
           ctl' = StartFromVisibleList(now, q, opening, status)
    BY <1>3 DEF Start, now
  <2>2. ctl' # now
    BY <1>1
  <2>3. ctl' = Begin(now, q, opening, status)
    BY <1>1, <2>1, <2>2 DEF StartFromVisibleList
  <2>4. QED
    BY <1>1, <1>2, <2>3, BeginGen
<1>4. CASE StartMeasuring
  <2> DEFINE asked == [now EXCEPT !.autoTest = TRUE]
             shown == ShowPreparing(asked)
             locked == [shown EXCEPT !.testBtn = FALSE]
  <2>1. TriggerSpeedTest(shown)
    BY <1>4 DEF StartMeasuring, now
  <2>2. asked \in Controller /\ asked.gen = now.gen
    BY <1>1 DEF Controller
  <2> HIDE DEF asked
  <2>3. shown \in Controller
    BY <2>2, ShowPreparingType
  <2>4. shown.gen = ctl.gen + 1
    BY <1>2, <2>2 DEF ShowPreparing, Controller
  <2> HIDE DEF shown
  <2>5. locked.gen = shown.gen
    BY <2>3 DEF Controller
  <2>6. ctl' = shown \/ ctl' = locked
    BY <2>1 DEF TriggerSpeedTest
  <2> HIDE DEF locked
  <2>7. QED
    BY <1>2, <2>4, <2>5, <2>6
<1>5. CASE CancelRun
  <2>1. PICK status \in BOOLEAN : ctl' = Cancel(now, status)
    BY <1>5 DEF CancelRun, now
  <2>2. QED
    BY <1>1, <2>1, CancelOver
<1>6. CASE UserSpeedTest
  <2> DEFINE locked == [now EXCEPT !.testBtn = FALSE]
  <2>1. ctl' = now \/ ctl' = locked
    BY <1>6 DEF UserSpeedTest, TriggerSpeedTest, now
  <2>2. ~locked.active
    BY <1>1 DEF Controller
  <2> HIDE DEF locked
  <2>3. QED
    BY <1>1, <2>1, <2>2
<1>7. CASE SpeedTestComplete
  BY <1>1, <1>7, SpeedTestCompleteOver
<1>8. CASE ConnectionEvent
  <2>1. ctl' = now
    BY <1>1, <1>8 DEF ConnectionEvent, OnConnectionEvent, now
  <2>2. QED
    BY <1>1, <2>1
<1>9. CASE TimeoutFires
  <2> DEFINE fired == [now EXCEPT !.timeout = Off]
  <2>1. PICK status \in BOOLEAN : ctl' = OnTimeout(fired, ctl.timeout.gen, dialog, status)
    BY <1>9 DEF TimeoutFires, now
  <2>2. ~fired.active
    BY <1>1 DEF Controller
  <2> HIDE DEF fired
  <2>3. ctl' = fired
    BY <2>1, <2>2 DEF OnTimeout
  <2>4. QED
    BY <2>2, <2>3
<1>10. CASE OrphanFires
  <2> DEFINE Without(o) == [now EXCEPT !.orphans = @ \ {o}]
  <2>1. PICK o \in ctl.orphans, status \in BOOLEAN :
           ctl' = OnTimeout(ForgetTimeout(Without(o)), o.gen, dialog, status)
    BY <1>10 DEF OrphanFires, now
  <2> DEFINE rest == Without(o)
  <2>2. rest \in Controller /\ ~rest.active
    BY <1>1 DEF Controller
  <2> HIDE DEF rest
  <2> DEFINE forgot == ForgetTimeout(rest)
  <2>3. ~forgot.active
    BY <2>2 DEF ForgetTimeout, Controller
  <2>4. ctl' = OnTimeout(forgot, o.gen, dialog, status)
    BY <2>1 DEF rest
  <2> HIDE DEF forgot
  <2>5. ctl' = forgot
    BY <2>3, <2>4 DEF OnTimeout
  <2>6. QED
    BY <2>3, <2>5
<1>11. CASE TickFires
  <2> DEFINE off == [now EXCEPT !.tick = Off]
  <2>1. ctl' = off
    BY <1>1, <1>11 DEF TickFires, OnTick, now
  <2>2. ~off.active
    BY <1>1 DEF Controller
  <2>3. QED
    BY <2>1, <2>2
<1>12. CASE SettleFires
  <2> DEFINE fired == [now EXCEPT !.settle = Off]
  <2>1. ctl' = fired
    BY <1>1, <1>12 DEF SettleFires, OnSettled, now
  <2>2. ~fired.active
    BY <1>1 DEF Controller
  <2>3. QED
    BY <2>1, <2>2
<1>13. CASE Elapse
  <2>1. ctl'.active = now.active
    BY <1>1, <1>13 DEF Elapse, now, Controller
  <2>2. QED
    BY <1>1, <2>1
<1>14. CASE OpenDialog \/ CloseDialog
  <2>1. ctl' = now
    BY <1>14 DEF OpenDialog, CloseDialog, now
  <2>2. QED
    BY <1>1, <2>1
<1>15. QED
  BY <1>3, <1>4, <1>5, <1>6, <1>7, <1>8, <1>9, <1>10, <1>11, <1>12, <1>13, <1>14
     DEF Next, MainLoop

(* Whatever the dispatch order, a cancelled or finished run comes back     *)
(* only under a generation no source was armed for.                        *)
THEOREM RevivedUnderNewGeneration == Spec => RevivedOnlyAsNewRun
<1>1. IInv /\ [Next]_vars => [~ctl.active /\ ctl'.active => ctl'.gen > ctl.gen]_vars
  BY StepsKeepGenerations
<1>2. QED
  BY InitIInv, NextIInv, <1>1, PTL DEF Spec, RevivedOnlyAsNewRun

-----------------------------------------------------------------------------
(* How often a server is opened.  disconnect_retries is never reset between*)
(* two servers, is reset whenever a connect is accepted, and sources nobody*)
(* names may move the run on at any time; what bounds the attempts is that *)
(* a server is opened again only from the settle timer, and that while it  *)
(* is armed the counter is at least the attempts of the server it is for.  *)

Count(c, s) == Cardinality({i \in 1..Len(c.attempts) : c.attempts[i].server = s})

(* Servers are opened in the order of the queue, none more than four times.*)
Base(c) ==
    /\ \A i, j \in 1..Len(c.queue) : c.queue[i] = c.queue[j] => i = j
    /\ \A s \in Servers : Count(c, s) <= 4
    /\ \A j \in 1..Len(c.queue) : j > c.index + 1 => Count(c, c.queue[j]) = 0

(* The server at index may be opened once more.                            *)
MayOpen(c) ==
    c.index < Len(c.queue) =>
        /\ Count(c, c.queue[c.index + 1]) <= c.retries
        /\ Count(c, c.queue[c.index + 1]) <= 3

Bounded(c) == Base(c) /\ (c.settle.armed => MayOpen(c))

(* What Base and MayOpen depend on.                                        *)
SameTries(c, d) ==
    /\ d.queue = c.queue /\ d.index = c.index /\ d.retries = c.retries
    /\ Len(d.attempts) = Len(c.attempts)
    /\ \A i \in 1..Len(c.attempts) : d.attempts[i].server = c.attempts[i].server

LEMMA SameTriesCount ==
    ASSUME NEW c, NEW d, SameTries(c, d), NEW s
    PROVE  Count(d, s) = Count(c, s)
<1>1. {i \in 1..Len(d.attempts) : d.attempts[i].server = s}
        = {i \in 1..Len(c.attempts) : c.attempts[i].server = s}
  BY DEF SameTries
<1>2. QED
  BY <1>1 DEF Count

LEMMA SameTriesKeep ==
    ASSUME NEW c, NEW d, SameTries(c, d)
    PROVE  /\ Base(c) => Base(d)
           /\ MayOpen(c) => MayOpen(d)
<1>1. \A s : Count(d, s) = Count(c, s)
  BY SameTriesCount
<1>2. QED
  BY <1>1 DEF SameTries, Base, MayOpen

LEMMA CountType ==
    ASSUME NEW c, NEW s, Len(c.attempts) \in Nat
    PROVE  Count(c, s) \in Nat
<1> DEFINE S == {i \in 1..Len(c.attempts) : c.attempts[i].server = s}
<1>1. IsFiniteSet(1..Len(c.attempts))
  BY FS_Interval
<1>2. IsFiniteSet(S)
  BY <1>1, FS_Subset
<1> HIDE DEF S
<1>3. Cardinality(S) \in Nat
  BY <1>2, FS_CardinalityType
<1>4. QED
  BY <1>3 DEF Count, S

(* The fields but for the timers, which most handlers leave alone.         *)
Untouched(c, d) ==
    /\ d.queue = c.queue /\ d.index = c.index /\ d.retries = c.retries
    /\ d.attempts = c.attempts

LEMMA UntouchedKeep ==
    ASSUME NEW c, NEW d, Untouched(c, d)
    PROVE  /\ SameTries(c, d)
           /\ Base(c) => Base(d)
           /\ MayOpen(c) => MayOpen(d)
           /\ Bounded(c) /\ (d.settle.armed => c.settle.armed) => Bounded(d)
<1>1. SameTries(c, d)
  BY DEF Untouched, SameTries
<1>2. QED
  BY <1>1, SameTriesKeep DEF Bounded

-----------------------------------------------------------------------------
(* The methods.                                                            *)

LEMMA EmitUntouched ==
    ASSUME NEW c \in Controller, NEW call
    PROVE  Untouched(c, Emit(c, call)) /\ Emit(c, call).settle = c.settle
BY DEF Emit, Untouched, Controller

LEMMA DisarmUntouched ==
    ASSUME NEW c \in Controller
    PROVE  Untouched(c, DisarmTimers(c)) /\ ~DisarmTimers(c).settle.armed
BY DEF DisarmTimers, Off, Untouched, Controller

LEMMA CompleteSameTries ==
    ASSUME NEW c \in Controller, NEW result \in Results
    PROVE  LET d == CompleteActiveAttempt(c, result)
           IN  SameTries(c, d) /\ d.settle = c.settle
<1>1. CASE IsOpen(c)
  <2> DEFINE n == Len(c.attempts)
             closed == [c.attempts[n] EXCEPT !.result = result]
             as == [c.attempts EXCEPT ![n] = closed]
             d == [c EXCEPT !.attempts = as]
  <2>1. c.attempts \in Seq(Attempt) /\ n \in Nat /\ n \in 1..n
    BY <1>1, EmptySeq DEF IsOpen, Controller
  <2>2. c.attempts[n] \in Attempt
    BY <2>1, ElementOfSeq
  <2>3. closed \in Attempt /\ closed.server = c.attempts[n].server
    BY <2>2 DEF Attempt
  <2>4. CompleteActiveAttempt(c, result) = d
    BY <1>1, <2>1 DEF CompleteActiveAttempt, Controller
  <2>5. Len(as) = n /\ as[n] = closed /\ \A i \in 1..n : i # n => as[i] = c.attempts[i]
    BY <2>1, <2>3, ExceptSeq
  <2> HIDE DEF closed, as
  <2>6. /\ d.attempts = as /\ d.queue = c.queue /\ d.index = c.index
        /\ d.retries = c.retries /\ d.settle = c.settle
    BY DEF Controller
  <2> HIDE DEF d
  <2>7. \A i \in 1..n : as[i].server = c.attempts[i].server
    BY <2>3, <2>5
  <2>8. SameTries(c, d) /\ d.settle = c.settle
    BY <2>5, <2>6, <2>7 DEF SameTries
  <2>9. QED
    BY <2>4, <2>8
<1>2. CASE ~IsOpen(c)
  BY <1>2 DEF CompleteActiveAttempt, SameTries
<1>3. QED
  BY <1>1, <1>2

LEMMA FinishBounded ==
    ASSUME NEW c \in Controller, Base(c),
           NEW phase \in {"succeeded", "exhausted", "cancelled"},
           NEW restore \in BOOLEAN, NEW status \in BOOLEAN
    PROVE  Bounded(Finish(c, phase, restore, status))
<1> DEFINE ended == [DisarmTimers(c) EXCEPT !.active = FALSE, !.phase = phase,
                        !.expect = FALSE, !.autoTest = FALSE,
                        !.locked = FALSE, !.testBtn = TRUE]
           Over(d) == Base(d) /\ ~d.settle.armed
           closed == CompleteActiveAttempt(ended, "cancelled")
           told == [closed EXCEPT !.manual = TRUE]
           r == Finish(c, phase, restore, status)
<1>1. ended \in Controller
  BY EndedType DEF Phases
<1>2. Untouched(c, ended) /\ ~ended.settle.armed
  BY DEF DisarmTimers, Off, Untouched, Controller
<1>3. Base(ended)
  BY <1>2, UntouchedKeep
<1> HIDE DEF ended
<1>4. \A result \in Results : Over(CompleteActiveAttempt(ended, result))
  BY <1>1, <1>2, <1>3, CompleteSameTries, SameTriesKeep
<1>5. closed \in Controller /\ Over(closed)
  BY <1>1, <1>4, CompleteType DEF Results
<1> HIDE DEF closed
<1>6. told \in Controller /\ Untouched(closed, told) /\ told.settle = closed.settle
  BY <1>5 DEF Controller, Untouched
<1> HIDE DEF told
<1>7. Over(told)
  BY <1>5, <1>6, UntouchedKeep
<1>8. Over(Emit(told, "disconnect"))
  BY <1>6, <1>7, EmitUntouched, UntouchedKeep
<1>9. /\ Over(CompleteActiveAttempt(ended, "success"))
      /\ Over(CompleteActiveAttempt(ended, "backend_error"))
  BY <1>4 DEF Results
<1> HIDE DEF Over
<1>10. Over(r)
  BY <1>5, <1>8, <1>9 DEF Finish, told, closed, ended
<1> HIDE DEF r
<1>11. Bounded(r)
  BY <1>10 DEF Over, Bounded
<1>12. QED
  BY <1>11 DEF r

(* The next server has not been opened yet.                                *)
LEMMA AdvanceBounded ==
    ASSUME NEW c \in Controller, c.active, Base(c),
           NEW reason \in Reasons, NEW status \in BOOLEAN
    PROVE  Bounded(Advance(c, reason, status))
<1> DEFINE blamed == [c EXCEPT !.failures =
                         Append(@, [server |-> c.current, reason |-> reason])]
           recorded == RecordFailure(c, reason)
           disarmed == DisarmTimers(recorded)
           moved == [disarmed EXCEPT !.index = @ + 1, !.phase = "settling",
                                     !.expect = TRUE, !.manual = TRUE]
           told == IF status THEN Emit(moved, "disconnect") ELSE moved
           r == ArmSettle(told)
<1>1. SameTries(c, recorded) /\ recorded \in Controller
  <2>1. CASE c.current = NoServer
    BY <2>1 DEF RecordFailure, SameTries
  <2>2. CASE c.current # NoServer
    <3>1. c.current \in Servers
      BY <2>2 DEF Controller
    <3>2. [server |-> c.current, reason |-> reason] \in Failure
      BY <3>1 DEF Failure
    <3>3. Append(c.failures, [server |-> c.current, reason |-> reason]) \in Seq(Failure)
      BY <3>2 DEF Controller
    <3>4. blamed \in Controller
      BY <3>3 DEF Controller
    <3>5. Untouched(c, blamed)
      BY DEF Untouched, Controller
    <3>6. recorded = CompleteActiveAttempt(blamed, reason)
      BY <2>2 DEF RecordFailure
    <3> HIDE DEF blamed, recorded
    <3>7. SameTries(blamed, recorded)
      BY <3>4, <3>6, CompleteSameTries DEF Results
    <3>8. SameTries(c, recorded)
      BY <3>5, <3>7 DEF Untouched, SameTries
    <3>9. QED
      BY <3>8, RecordFailureType DEF recorded
  <2>3. QED
    BY <2>1, <2>2
<1> HIDE DEF recorded
<1>2. disarmed \in Controller /\ Base(disarmed)
  BY <1>1, DisarmType, DisarmUntouched, UntouchedKeep, SameTriesKeep
<1> HIDE DEF disarmed
<1>3. disarmed.index \in Nat /\ disarmed.retries \in Nat /\ disarmed.queue \in Seq(Servers)
  BY <1>2 DEF Controller
<1>4. moved \in Controller
  BY <1>2, MovedType
<1>5. /\ moved.index = disarmed.index + 1 /\ moved.queue = disarmed.queue
      /\ moved.retries = disarmed.retries /\ moved.attempts = disarmed.attempts
  BY <1>2 DEF Controller
<1> HIDE DEF moved
<1>6. \A s : Count(moved, s) = Count(disarmed, s)
  BY <1>5 DEF Count
<1>7. Base(moved) /\ MayOpen(moved)
  <2>1. Len(moved.queue) \in Nat
    BY <1>3, <1>5
  <2>2. \A j \in 1..Len(moved.queue) :
           j > disarmed.index + 1 => Count(moved, moved.queue[j]) = 0
    BY <1>2, <1>5, <1>6 DEF Base
  <2>3. \A j \in 1..Len(moved.queue) :
           j > moved.index + 1 => Count(moved, moved.queue[j]) = 0
    BY <1>3, <1>5, <2>1, <2>2
  <2>4. Base(moved)
    BY <1>2, <1>5, <1>6, <2>3 DEF Base
  <2>5. ASSUME moved.index < Len(moved.queue)
        PROVE  Count(moved, moved.queue[moved.index + 1]) = 0
    <3>1. moved.index + 1 \in 1..Len(moved.queue) /\ moved.index + 1 > disarmed.index + 1
      BY <1>3, <1>5, <2>1, <2>5
    <3>2. QED
      BY <2>2, <3>1
  <2>6. MayOpen(moved)
    BY <1>3, <1>5, <2>5 DEF MayOpen
  <2>7. QED
    BY <2>4, <2>6
<1>8. told \in Controller /\ Base(told) /\ MayOpen(told)
  BY <1>4, <1>7, EmitType, EmitUntouched, UntouchedKeep DEF Calls
<1> HIDE DEF told
<1>9. Untouched(told, r)
  BY <1>8 DEF ArmSettle, Untouched, Controller
<1>10. Bounded(r)
  BY <1>8, <1>9, UntouchedKeep DEF Bounded
<1>11. QED
  BY <1>10 DEF Advance, r, told, moved, disarmed, recorded

(* Opening an attempt counts for the server at index only.                 *)
LEMMA OpenAttemptCounts ==
    ASSUME NEW c \in Controller, c.index < Len(c.queue), Base(c), MayOpen(c)
    PROVE  LET r == OpenAttempt(c)
           IN  /\ Base(r) /\ ~r.settle.armed
               /\ r.queue = c.queue /\ r.index = c.index /\ r.retries = c.retries
               /\ r.active = c.active
               /\ Count(r, c.queue[c.index + 1]) <= c.retries + 1
<1> DEFINE s == c.queue[c.index + 1]
           opened == [server |-> s, result |-> "open"]
           entered == [c EXCEPT !.current = s, !.phase = "connecting", !.left = Budget[s],
                         !.attempts = Append(@, opened),
                         !.expect = FALSE, !.manual = FALSE]
           n == Len(c.attempts)
           Of(d, x) == {i \in 1..Len(d.attempts) : d.attempts[i].server = x}
           r == ArmTimeoutAndTicks(entered)
<1>1. c.queue \in Seq(Servers) /\ c.index + 1 \in 1..Len(c.queue) /\ c.retries \in Nat
  BY DEF Controller
<1>2. s \in Servers
  BY <1>1, ElementOfSeq
<1>3. Count(c, s) <= c.retries /\ Count(c, s) <= 3
  BY DEF MayOpen
<1>4. \A j \in 1..Len(c.queue) : j > c.index + 1 => c.queue[j] # s
  BY <1>1 DEF Base
<1> HIDE DEF s
<1>5. opened \in Attempt /\ opened.server = s
  BY <1>2 DEF Attempt, Results
<1> HIDE DEF opened
<1>6. /\ Append(c.attempts, opened) \in Seq(Attempt)
      /\ n \in Nat /\ Len(Append(c.attempts, opened)) = n + 1
      /\ Append(c.attempts, opened)[n + 1] = opened
      /\ \A i \in 1..n : Append(c.attempts, opened)[i] = c.attempts[i]
  BY <1>5 DEF Controller
<1>7. entered \in Controller
  BY <1>2, <1>6, EnteredType
<1>8. /\ entered.attempts = Append(c.attempts, opened) /\ entered.queue = c.queue
      /\ entered.index = c.index /\ entered.retries = c.retries
      /\ entered.active = c.active
  BY DEF Controller
<1> HIDE DEF entered
<1>9. /\ r.attempts = Append(c.attempts, opened) /\ r.queue = c.queue
      /\ r.index = c.index /\ r.retries = c.retries /\ r.active = c.active
      /\ ~r.settle.armed
  BY <1>7, <1>8 DEF ArmTimeoutAndTicks, DisarmTimers, Off, Controller
<1> HIDE DEF r
<1>10. 1..(n + 1) = (1..n) \cup {n + 1} /\ n + 1 \notin 1..n
  BY <1>6
<1> HIDE DEF n
<1>11. \A x : IsFiniteSet(Of(c, x)) /\ n + 1 \notin Of(c, x)
  <2>1. ASSUME NEW x PROVE IsFiniteSet(Of(c, x)) /\ n + 1 \notin Of(c, x)
    <3>1. Of(c, x) \subseteq 1..n
      BY DEF n
    <3>2. IsFiniteSet(1..n)
      BY <1>6, FS_Interval
    <3>3. QED
      BY <1>10, <3>1, <3>2, FS_Subset
  <2>2. QED
    BY <2>1
<1>12. \A x : Of(r, x) = IF x = s THEN Of(c, x) \cup {n + 1} ELSE Of(c, x)
  <2>1. ASSUME NEW x
        PROVE  Of(r, x) = IF x = s THEN Of(c, x) \cup {n + 1} ELSE Of(c, x)
    <3>1. Of(r, x) = {i \in (1..n) \cup {n + 1} : Append(c.attempts, opened)[i].server = x}
      BY <1>6, <1>9, <1>10
    <3>2. Of(c, x) = {i \in 1..n : Append(c.attempts, opened)[i].server = x}
      BY <1>6 DEF n
    <3> HIDE DEF Of
    <3>3. CASE x = s
      BY <1>5, <1>6, <3>1, <3>2, <3>3
    <3>4. CASE x # s
      BY <1>5, <1>6, <3>1, <3>2, <3>4
    <3>5. QED
      BY <3>3, <3>4
  <2>2. QED
    BY <2>1
<1>13. \A x : Count(c, x) = Cardinality(Of(c, x)) /\ Count(r, x) = Cardinality(Of(r, x))
  BY DEF Count
<1>14. \A x : Count(c, x) \in Nat
  BY <1>6, CountType DEF n
<1> HIDE DEF Of
<1>15. Count(r, s) = Count(c, s) + 1
  BY <1>11, <1>12, <1>13, FS_AddElement
<1>16. \A x : x # s => Count(r, x) = Count(c, x)
  BY <1>12, <1>13
<1>17. Count(r, s) <= c.retries + 1 /\ Count(r, s) <= 4
  BY <1>1, <1>3, <1>14, <1>15
<1>18. Base(r)
  <2>1. \A x \in Servers : Count(r, x) <= 4
    BY <1>16, <1>17 DEF Base
  <2>2. \A j \in 1..Len(c.queue) : j > c.index + 1 => Count(r, c.queue[j]) = 0
    BY <1>4, <1>16 DEF Base
  <2>3. QED
    BY <1>9, <2>1, <2>2 DEF Base
<1>19. OpenAttempt(c) = r
  BY DEF OpenAttempt, r, entered, opened, s
<1>20. QED
  BY <1>9, <1>17, <1>18, <1>19 DEF s

(* Having found a tunnel up, the same server is tried again, at most three *)
(* times.                                                                  *)
LEMMA StillConnectedBounded ==
    ASSUME NEW c \in Controller, c.active, Base(c), c.index < Len(c.queue),
           Count(c, c.queue[c.index + 1]) <= c.retries + 1,
           NEW answer, NEW status \in BOOLEAN
    PROVE  Bounded(StillConnected(c, answer, status))
<1> DEFINE again == [c EXCEPT !.retries = @ + 1]
           expecting == [again EXCEPT !.expect = TRUE, !.manual = TRUE,
                                      !.phase = "settling"]
           told == Emit(expecting, "disconnect")
           r == ArmSettle(told)
           Kept(d) == d.queue = c.queue /\ d.index = c.index /\ d.attempts = c.attempts
                      /\ d.active /\ d.retries = c.retries + 1
<1>1. c.retries \in Nat /\ c.retries + 1 \in Nat
  BY DEF Controller
<1>2. again \in Controller
  BY <1>1 DEF Controller
<1>3. Kept(again)
  BY DEF Controller
<1> HIDE DEF again
<1>4. expecting \in Controller
  BY <1>2 DEF Controller, Phases
<1>5. Kept(expecting)
  BY <1>2, <1>3 DEF Controller
<1> HIDE DEF expecting
<1>6. told \in Controller /\ Untouched(expecting, told)
  BY <1>4, EmitType, EmitUntouched DEF Calls
<1> HIDE DEF told
<1>7. Untouched(told, r)
  BY <1>6 DEF ArmSettle, Untouched, Controller
<1>8. \A d : Kept(d) => Base(d) /\ \A s : Count(d, s) = Count(c, s)
  BY DEF Base, Count
<1>9. Bounded(Advance(again, "disconnect", status))
  BY <1>2, <1>3, <1>8, AdvanceBounded DEF Reasons
<1>10. Bounded(Advance(expecting, "error", status))
  BY <1>4, <1>5, <1>8, AdvanceBounded DEF Reasons
<1>11. again.retries <= 3 => Bounded(r)
  <2>1. SUFFICES ASSUME again.retries <= 3 PROVE Bounded(r)
    OBVIOUS
  <2>2. c.retries + 1 <= 3
    BY <1>3, <2>1
  <2>3. /\ expecting.retries = c.retries + 1 /\ expecting.index = c.index
        /\ expecting.queue = c.queue
        /\ Count(expecting, c.queue[c.index + 1]) = Count(c, c.queue[c.index + 1])
    BY <1>5, <1>8
  <2>4. Count(c, c.queue[c.index + 1]) <= 3
    <3>1. Count(c, c.queue[c.index + 1]) \in Nat
      BY CountType DEF Controller
    <3>2. QED
      BY <1>1, <2>2, <3>1
  <2>5. MayOpen(expecting)
    BY <2>3, <2>4 DEF MayOpen
  <2>6. Base(expecting)
    BY <1>5, <1>8
  <2>7. Base(r) /\ MayOpen(r)
    BY <1>6, <1>7, <2>5, <2>6, UntouchedKeep
  <2>8. QED
    BY <2>7 DEF Bounded
<1>12. again.retries > 3 \/ again.retries <= 3
  BY <1>1, <1>3
<1>13. QED
  BY <1>9, <1>10, <1>11, <1>12 DEF StillConnected, r, told, expecting, again

(* A server is opened because it may be: it is new, or the settle timer    *)
(* was for it.                                                             *)
LEMMA TryCurrentServerBounded ==
    ASSUME NEW c \in Controller, Base(c), MayOpen(c), c.active \/ ~c.settle.armed,
           NEW answer, NEW status \in BOOLEAN
    PROVE  Bounded(TryCurrentServer(c, answer, status))
<1>1. CASE ~c.active
  BY <1>1 DEF TryCurrentServer, Bounded
<1>2. CASE c.active /\ c.index >= Len(c.queue)
  BY <1>2, FinishBounded DEF TryCurrentServer
<1>3. CASE c.active /\ ~(c.index >= Len(c.queue))
  <2> DEFINE opened  == OpenAttempt(c)
             watched == Emit(opened, "start_watch")
             free    == [watched EXCEPT !.retries = 0]
             told    == Emit(free, "connect")
             Kept(d) == d.queue = c.queue /\ d.index = c.index /\ d.retries = c.retries
                        /\ d.active /\ ~d.settle.armed
  <2>1. c.index < Len(c.queue)
    BY <1>3 DEF Controller
  <2>2. opened \in Controller
    BY <2>1, OpenAttemptType
  <2>3. Base(opened) /\ Kept(opened)
        /\ Count(opened, c.queue[c.index + 1]) <= c.retries + 1
    BY <1>3, <2>1, OpenAttemptCounts
  <2> HIDE DEF opened
  <2>4. watched \in Controller /\ Untouched(opened, watched)
        /\ watched.settle = opened.settle /\ watched.active = opened.active
    <3>1. watched.active = opened.active
      BY <2>2 DEF Emit, Controller
    <3>2. QED
      BY <2>2, <3>1, EmitType, EmitUntouched DEF Calls
  <2> HIDE DEF watched
  <2>5. Base(watched) /\ Kept(watched)
        /\ Count(watched, c.queue[c.index + 1]) <= c.retries + 1
    BY <2>3, <2>4, UntouchedKeep DEF Untouched, Count
  <2>6. free \in Controller
    BY <2>4 DEF Controller
  <2>7. /\ free.queue = watched.queue /\ free.index = watched.index
        /\ free.attempts = watched.attempts /\ free.active /\ ~free.settle.armed
    BY <2>4, <2>5 DEF Controller
  <2> HIDE DEF free
  <2>8. Base(free)
    BY <2>5, <2>7 DEF Base, Count
  <2>9. Untouched(free, told) /\ told.settle = free.settle
    BY <2>6, EmitUntouched
  <2>10. Bounded(told)
    BY <2>7, <2>8, <2>9, UntouchedKeep DEF Bounded
  <2>11. Bounded(Finish(opened, "exhausted", TRUE, status))
    BY <2>2, <2>3, FinishBounded
  <2>12. \A reason \in Reasons : Bounded(Advance(watched, reason, status))
    BY <2>4, <2>5, AdvanceBounded
  <2>13. \A reason \in Reasons : Bounded(Advance(free, reason, status))
    BY <2>6, <2>7, <2>8, AdvanceBounded
  <2>14. Bounded(StillConnected(watched, answer, status))
    BY <2>1, <2>4, <2>5, StillConnectedBounded
  <2>15. /\ Bounded(Advance(watched, "error", status))
         /\ Bounded(Advance(free, "missing", status))
         /\ Bounded(Advance(free, "error", status))
    BY <2>12, <2>13 DEF Reasons
  <2>16. QED
    BY <1>3, <2>10, <2>11, <2>14, <2>15
       DEF TryCurrentServer, told, free, watched, opened
<1>4. QED
  BY <1>1, <1>2, <1>3

LEMMA BeginBounded ==
    ASSUME NEW c \in Controller,
           NEW q \in Queues, NEW opening, NEW status \in BOOLEAN
    PROVE  Bounded(Begin(c, q, opening, status))
<1> DEFINE fresh == [c EXCEPT !.gen = @ + 1, !.active = TRUE, !.queue = q, !.index = 0,
                        !.failures = <<>>, !.attempts = <<>>, !.expect = FALSE,
                        !.retries = 0, !.phase = "connecting", !.current = NoServer,
                        !.manual = FALSE, !.locked = TRUE, !.testBtn = FALSE]
           leaving == [fresh EXCEPT !.expect = TRUE, !.manual = TRUE, !.phase = "settling"]
           watched == Emit(leaving, "start_watch")
           told == Emit(watched, "disconnect")
           r == ArmSettle(told)
<1>1. q \in Seq(Servers) /\ <<>> \in Seq(Failure) /\ <<>> \in Seq(Attempt)
      /\ Len(<<>>) = 0 /\ 1..0 = {}
  BY CascadeAssumption, EmptySeq
<1>2. fresh \in Controller
  <2>1. c.gen + 1 \in Nat /\ "connecting" \in Phases
    BY DEF Controller, Phases
  <2>2. QED
    BY <1>1, <2>1 DEF Controller
<1>3. /\ fresh.queue = q /\ fresh.index = 0 /\ fresh.retries = 0
      /\ fresh.attempts = <<>> /\ fresh.active
  BY DEF Controller
<1> HIDE DEF fresh
<1>4. \A s : Count(fresh, s) = 0
  BY <1>1, <1>3, FS_EmptySet DEF Count
<1>5. Base(fresh) /\ MayOpen(fresh)
  BY <1>1, <1>3, <1>4, CascadeAssumption DEF Base, MayOpen
<1>6. leaving \in Controller
  BY <1>2 DEF Controller, Phases
<1>7. Untouched(fresh, leaving)
  BY <1>2 DEF Controller, Untouched
<1> HIDE DEF leaving
<1>8. watched \in Controller /\ Untouched(leaving, watched)
  BY <1>6, EmitType, EmitUntouched DEF Calls
<1> HIDE DEF watched
<1>9. told \in Controller /\ Untouched(watched, told)
  BY <1>8, EmitType, EmitUntouched DEF Calls
<1> HIDE DEF told
<1>10. Untouched(told, r)
  BY <1>9 DEF ArmSettle, Untouched, Controller
<1>11. Untouched(fresh, r)
  BY <1>7, <1>8, <1>9, <1>10 DEF Untouched
<1>12. Bounded(r)
  BY <1>5, <1>11, UntouchedKeep DEF Bounded
<1>13. Bounded(TryCurrentServer(fresh, opening, status))
  BY <1>2, <1>3, <1>5, TryCurrentServerBounded
<1>14. QED
  BY <1>12, <1>13 DEF Begin, r, told, watched, leaving, fresh

LEMMA StartFromVisibleListBounded ==
    ASSUME NEW c \in Controller, Bounded(c),
           NEW q \in Queues, NEW opening, NEW status \in BOOLEAN
    PROVE  Bounded(StartFromVisibleList(c, q, opening, status))
<1>1. Base(c)
  BY DEF Bounded
<1>2. CASE q = <<>>
  BY <1>1, <1>2, FinishBounded DEF StartFromVisibleList
<1>3. CASE q # <<>>
  <2> DEFINE named == [c EXCEPT !.current = Head(q)]
  <2>1. q \in Seq(Servers)
    BY CascadeAssumption
  <2>2. Head(q) \in Servers
    BY <1>3, <2>1
  <2>3. named \in Controller /\ Untouched(c, named)
    BY <2>2 DEF Controller, Untouched
  <2> HIDE DEF named
  <2>4. Bounded(Finish(named, "succeeded", TRUE, status))
    BY <1>1, <2>3, UntouchedKeep, FinishBounded
  <2>5. Bounded(Begin(c, q, opening, status))
    BY BeginBounded
  <2>6. QED
    BY <1>3, <2>4, <2>5 DEF StartFromVisibleList, named
<1>4. QED
  BY <1>2, <1>3

LEMMA ShowPreparingBounded ==
    ASSUME NEW c \in Controller, Bounded(c)
    PROVE  Bounded(ShowPreparing(c))
<1> DEFINE r == ShowPreparing(c)
<1>1. r.queue = <<>> /\ r.index = 0 /\ r.attempts = c.attempts
  BY DEF ShowPreparing, Controller
<1> HIDE DEF r
<1>2. Len(r.queue) = 0 /\ 1..0 = {}
  BY <1>1
<1>3. \A s : Count(r, s) = Count(c, s)
  BY <1>1 DEF Count
<1>4. Base(r) /\ MayOpen(r)
  BY <1>1, <1>2, <1>3 DEF Bounded, Base, MayOpen
<1>5. QED
  BY <1>4 DEF Bounded, r

LEMMA CancelBounded ==
    ASSUME NEW c \in Controller, Bounded(c), NEW status \in BOOLEAN
    PROVE  Bounded(Cancel(c, status))
<1> DEFINE told == Emit(c, "cancel_current_operation")
           next == [told EXCEPT !.autoTest = FALSE, !.gen = @ + 1]
<1>1. told \in Controller /\ Base(told)
  BY EmitType, EmitUntouched, UntouchedKeep DEF Calls, Bounded
<1> HIDE DEF told
<1>2. next \in Controller
  BY <1>1, CalledOffType
<1>3. Untouched(told, next)
  BY <1>1 DEF Untouched, Controller
<1> HIDE DEF next
<1>4. Bounded(Finish(next, "cancelled", TRUE, status))
  BY <1>1, <1>2, <1>3, UntouchedKeep, FinishBounded
<1>5. QED
  BY <1>4 DEF Cancel, next, told

LEMMA OnConnectionEventBounded ==
    ASSUME NEW c \in Controller, Bounded(c), NEW event \in Events, NEW status \in BOOLEAN
    PROVE  Bounded(OnConnectionEvent(c, event, status))
<1> DEFINE up == [DisarmTimers(c) EXCEPT !.expect = FALSE]
           told == [c EXCEPT !.expect = FALSE, !.manual = TRUE]
<1>1. up \in Controller
  BY UpType
<1>2. Untouched(c, up)
  BY DEF DisarmTimers, Controller, Untouched
<1> HIDE DEF up
<1>3. Bounded(Finish(up, "succeeded", FALSE, status))
  BY <1>1, <1>2, UntouchedKeep, FinishBounded DEF Bounded
<1>4. Untouched(c, told) /\ told.settle = c.settle
  BY DEF Untouched, Controller
<1> HIDE DEF told
<1>5. Bounded(told)
  BY <1>4, UntouchedKeep
<1>6. FailureReason(event) \in Reasons
  BY DEF FailureReason, Reasons
<1>7. c.active => Bounded(Advance(c, FailureReason(event), status))
  BY <1>6, AdvanceBounded DEF Bounded
<1>8. QED
  BY <1>3, <1>5, <1>7 DEF OnConnectionEvent, up, told

(* Whichever source fires it, the timer's own or one that was forgotten.   *)
LEMMA OnTimeoutBounded ==
    ASSUME NEW c \in Controller, Bounded(c), NEW gen, NEW busy, NEW status \in BOOLEAN
    PROVE  Bounded(OnTimeout(c, gen, busy, status))
<1> DEFINE later == [c EXCEPT !.left = Extension]
           r == ArmTimeoutAndTicks(later)
<1>1. later \in Controller
  BY CascadeAssumption DEF Controller
<1>2. Untouched(c, later)
  BY DEF Untouched, Controller
<1> HIDE DEF later
<1>3. Untouched(later, r) /\ ~r.settle.armed
  BY <1>1 DEF ArmTimeoutAndTicks, DisarmTimers, Off, Untouched, Controller
<1> HIDE DEF r
<1>4. Bounded(r)
  BY <1>2, <1>3, UntouchedKeep DEF Bounded
<1>5. c.active => Bounded(Advance(c, "timeout", status))
  BY AdvanceBounded DEF Bounded, Reasons
<1>6. QED
  BY <1>4, <1>5 DEF OnTimeout, r, later

LEMMA ForgetBounded ==
    ASSUME NEW c \in Controller, Bounded(c)
    PROVE  Bounded(ForgetTimeout(c))
<1> DEFINE o == [id |-> FreshId(c), gen |-> c.timeout.gen, fuse |-> c.timeout.fuse]
           r == [c EXCEPT !.timeout = Off, !.orphans = @ \cup {o}]
<1> HIDE DEF o
<1>1. Untouched(c, r) /\ r.settle = c.settle
  BY DEF Untouched, Controller
<1> HIDE DEF r
<1>2. Bounded(r)
  BY <1>1, UntouchedKeep
<1>3. QED
  BY <1>2 DEF ForgetTimeout, r, o

LEMMA OnTickBounded ==
    ASSUME NEW c \in Controller, Bounded(c), HasRoom(c), NEW busy, NEW status \in BOOLEAN
    PROVE  Bounded(OnTick(c, busy, status))
<1> DEFINE again == [c EXCEPT !.tick.fuse = 1]
           waiting == [again EXCEPT !.left = @ + 1]
           off == [c EXCEPT !.tick = Off]
           Like(d) == Untouched(c, d) /\ d.settle = c.settle
<1>1. Like(again) /\ Like(waiting) /\ Like(off)
  BY DEF Untouched, Controller
<1>2. Bounded(again) /\ Bounded(waiting) /\ Bounded(off)
  <2> HIDE DEF again, waiting, off
  <2>1. QED
    BY <1>1, UntouchedKeep
<1> HIDE DEF again, waiting, off
<1>3. Bounded(OnTimeout(ForgetTimeout(c), c.tick.gen, FALSE, status))
  BY ForgetType, ForgetBounded, OnTimeoutBounded
<1>4. QED
  BY <1>2, <1>3 DEF OnTick, again, waiting, off

(* The settle timer is what opens a server again.                          *)
LEMMA OnSettledBounded ==
    ASSUME NEW c \in Controller, Bounded(c), c.settle.armed,
           NEW answer, NEW status \in BOOLEAN
    PROVE  Bounded(OnSettled(c, answer, status))
<1> DEFINE fired == [c EXCEPT !.settle = Off]
<1>1. fired \in Controller
  BY DEF Controller, Off, Timer
<1>2. Untouched(c, fired) /\ ~fired.settle.armed
  BY DEF Off, Untouched, Controller
<1> HIDE DEF fired
<1>3. Base(fired) /\ MayOpen(fired)
  BY <1>2, UntouchedKeep DEF Bounded
<1>4. Bounded(TryCurrentServer(fired, answer, status))
  BY <1>1, <1>2, <1>3, TryCurrentServerBounded
<1>5. QED
  BY <1>3, <1>4 DEF OnSettled, Bounded, fired

LEMMA ElapseBounded ==
    ASSUME NEW c \in Controller, Bounded(c), NEW left, NEW timeout, NEW tick, NEW older
    PROVE  Bounded([c EXCEPT !.left = left, !.timeout = timeout, !.tick = tick,
                             !.settle = Elapsed(@), !.orphans = older])
<1> DEFINE r == [c EXCEPT !.left = left, !.timeout = timeout, !.tick = tick,
                          !.settle = Elapsed(@), !.orphans = older]
<1>1. c.settle \in Timer
  BY DEF Controller
<1>2. Elapsed(c.settle).armed = c.settle.armed
  BY <1>1 DEF Elapsed, Timer
<1>3. Untouched(c, r) /\ r.settle = Elapsed(c.settle)
  BY DEF Untouched, Controller
<1> HIDE DEF r
<1>4. Bounded(r)
  BY <1>2, <1>3, UntouchedKeep
<1>5. QED
  BY <1>4 DEF r

-----------------------------------------------------------------------------
(* The steps.                                                              *)

LEMMA InitBounded == Init => Bounded(ctl)
<1> DEFINE c == InitController
<1>1. Len(c.queue) = 0 /\ Len(c.attempts) = 0 /\ 1..0 = {} /\ ~c.settle.armed
  BY DEF InitController, Off
<1> HIDE DEF c
<1>2. \A s : Count(c, s) = 0
  BY <1>1, FS_EmptySet DEF Count
<1>3. Bounded(c)
  BY <1>1, <1>2 DEF Bounded, Base
<1>4. QED
  BY <1>3 DEF Init, c

(* What changes other fields keeps Bounded.                                *)
LEMMA AsideBounded ==
    ASSUME NEW c \in Controller, Bounded(c), NEW autoTest, NEW testBtn
    PROVE  /\ Bounded(Quiet(c))
           /\ Bounded([c EXCEPT !.autoTest = autoTest])
           /\ Bounded([c EXCEPT !.testBtn = testBtn])
           /\ Bounded([c EXCEPT !.timeout = Off])
           /\ \A o : Bounded([c EXCEPT !.orphans = @ \ {o}])
<1> DEFINE Like(d) == Untouched(c, d) /\ d.settle = c.settle
<1>1. \A d : Like(d) => Bounded(d)
  BY UntouchedKeep
<1>2. /\ Like(Quiet(c)) /\ Like([c EXCEPT !.autoTest = autoTest])
      /\ Like([c EXCEPT !.testBtn = testBtn]) /\ Like([c EXCEPT !.timeout = Off])
  BY DEF Quiet, Untouched, Controller
<1>3. \A o : Like([c EXCEPT !.orphans = @ \ {o}])
  BY DEF Untouched, Controller
<1> HIDE DEF Like
<1>4. QED
  BY <1>1, <1>2, <1>3

LEMMA NextBounded ==
    ASSUME IInv, Bounded(ctl), [Next]_vars
    PROVE  Bounded(ctl')
<1> DEFINE now == Quiet(ctl)
<1>1. ctl \in Controller /\ now \in Controller /\ Bounded(now)
      /\ now.settle = ctl.settle
  <2>1. now.settle = ctl.settle
    BY DEF IInv, TypeOK, Quiet, Controller
  <2>2. QED
    BY <2>1, QuietType, AsideBounded DEF IInv, TypeOK
<1> HIDE DEF now
<1>2. CASE Start
  BY <1>1, <1>2, StartFromVisibleListBounded DEF Start, now
<1>3. CASE StartMeasuring
  <2> DEFINE asked == [now EXCEPT !.autoTest = TRUE]
             shown == ShowPreparing(asked)
  <2>1. TriggerSpeedTest(shown)
    BY <1>3 DEF StartMeasuring, now
  <2>2. asked \in Controller /\ Bounded(asked)
    <3>1. asked \in Controller
      BY <1>1 DEF Controller
    <3>2. QED
      BY <1>1, <3>1, AsideBounded
  <2> HIDE DEF asked
  <2>3. shown \in Controller /\ Bounded(shown)
    BY <2>2, ShowPreparingType, ShowPreparingBounded
  <2> HIDE DEF shown
  <2>4. QED
    BY <2>1, <2>3, AsideBounded DEF TriggerSpeedTest
<1>4. CASE CancelRun
  BY <1>1, <1>4, CancelBounded DEF CancelRun, now
<1>5. CASE UserSpeedTest
  BY <1>1, <1>5, AsideBounded DEF UserSpeedTest, TriggerSpeedTest, now
<1>6. CASE SpeedTestComplete
  <2>1. PICK status \in BOOLEAN :
           LET told == IF test = "cancelling" /\ ctl.autoTest THEN Cancel(now, status)
                                                              ELSE now
               idle == [told EXCEPT !.testBtn = TRUE]
               free == [idle EXCEPT !.autoTest = FALSE]
           IN  IF idle.autoTest /\ idle.active /\ idle.phase = "preparing"
               THEN \E q \in Queues, opening \in Openings :
                       ctl' = StartFromVisibleList(free, q, opening, status)
               ELSE ctl' = free
    BY <1>6 DEF SpeedTestComplete, now
  <2> DEFINE told == IF test = "cancelling" /\ ctl.autoTest THEN Cancel(now, status) ELSE now
             idle == [told EXCEPT !.testBtn = TRUE]
             free == [idle EXCEPT !.autoTest = FALSE]
  <2>2. (\E q \in Queues, opening \in Openings :
            ctl' = StartFromVisibleList(free, q, opening, status)) \/ ctl' = free
    BY <2>1
  <2>3. told \in Controller /\ Bounded(told)
    BY <1>1, CancelType, CancelBounded
  <2> HIDE DEF told
  <2>4. idle \in Controller /\ Bounded(idle)
    <3>1. idle \in Controller
      BY <2>3 DEF Controller
    <3>2. QED
      BY <2>3, <3>1, AsideBounded
  <2> HIDE DEF idle
  <2>5. free \in Controller /\ Bounded(free)
    <3>1. free \in Controller
      BY <2>4 DEF Controller
    <3>2. QED
      BY <2>4, <3>1, AsideBounded
  <2> HIDE DEF free
  <2>6. QED
    BY <2>2, <2>5, StartFromVisibleListBounded
<1>7. CASE ConnectionEvent
  BY <1>1, <1>7, OnConnectionEventBounded DEF ConnectionEvent, now
<1>8. CASE TimeoutFires
  <2> DEFINE fired == [now EXCEPT !.timeout = Off]
  <2>1. PICK status \in BOOLEAN : ctl' = OnTimeout(fired, ctl.timeout.gen, dialog, status)
    BY <1>8 DEF TimeoutFires, now
  <2>2. fired \in Controller
    BY <1>1 DEF Controller, Off, Timer
  <2>3. Bounded(fired)
    BY <1>1, AsideBounded
  <2> HIDE DEF fired
  <2>4. QED
    BY <2>1, <2>2, <2>3, OnTimeoutBounded
<1>9. CASE OrphanFires
  <2> DEFINE Without(o) == [now EXCEPT !.orphans = @ \ {o}]
  <2>1. PICK o \in ctl.orphans, status \in BOOLEAN :
           /\ HasRoom(Without(o))
           /\ ctl' = OnTimeout(ForgetTimeout(Without(o)), o.gen, dialog, status)
    BY <1>9 DEF OrphanFires, now
  <2> DEFINE rest == Without(o)
  <2>2. rest \in Controller
    BY <1>1 DEF Controller
  <2>3. HasRoom(rest) /\ Bounded(rest)
    BY <1>1, <2>1, AsideBounded
  <2>4. ctl' = OnTimeout(ForgetTimeout(rest), o.gen, dialog, status)
    BY <2>1
  <2> HIDE DEF rest
  <2>5. QED
    BY <2>2, <2>3, <2>4, ForgetType, ForgetBounded, OnTimeoutBounded
<1>10. CASE TickFires
  <2>1. PICK status \in BOOLEAN : HasRoom(ctl) /\ ctl' = OnTick(now, dialog, status)
    BY <1>10 DEF TickFires, now
  <2>2. HasRoom(now)
    BY <1>1, <2>1 DEF now, Quiet, HasRoom, Controller
  <2>3. QED
    BY <1>1, <2>1, <2>2, OnTickBounded
<1>11. CASE SettleFires
  <2>1. PICK answer \in Answers, status \in BOOLEAN : ctl' = OnSettled(now, answer, status)
    BY <1>11 DEF SettleFires, now
  <2>2. now.settle.armed
    BY <1>1, <1>11 DEF SettleFires, Due
  <2>3. QED
    BY <1>1, <2>1, <2>2, OnSettledBounded
<1>12. CASE Elapse
  <2>1. ctl' = [now EXCEPT
                  !.left = IF @ > 0 THEN @ - 1 ELSE 0,
                  !.timeout = Elapsed(@), !.tick = Elapsed(@), !.settle = Elapsed(@),
                  !.orphans = {[o EXCEPT !.fuse = @ - 1] : o \in @}]
    BY <1>12 DEF Elapse, now
  <2>2. QED
    BY <1>1, <2>1, ElapseBounded
<1>13. CASE OpenDialog \/ CloseDialog
  BY <1>1, <1>13 DEF OpenDialog, CloseDialog, now
<1>14. CASE UNCHANGED vars
  BY <1>14 DEF vars
<1>15. QED
  BY <1>2, <1>3, <1>4, <1>5, <1>6, <1>7, <1>8, <1>9, <1>10, <1>11, <1>12, <1>13, <1>14
     DEF Next, MainLoop

(* However the settle timer, retries and forgotten sources interleave, no  *)
(* server is opened more than four times in a run.                         *)
THEOREM AttemptsAreBounded == Spec => []AttemptsBounded
<1>1. Bounded(ctl) => AttemptsBounded
  BY DEF Bounded, Base, Count, AttemptsBounded
<1>2. IInv /\ Bounded(ctl) /\ [Next]_vars => IInv' /\ Bounded(ctl)'
  BY NextIInv, NextBounded
<1>3. QED
  BY InitIInv, InitBounded, <1>1, <1>2, PTL DEF Spec
-----------------------------------------------------------------------------
(* Cascade implements AutoConnect, for any servers, queues, budgets and    *)
(* number of runs, with dialogs, where due timeouts are dispatched before  *)
(* ticks.  The mapping counts the servers opened, so the invariant of the  *)
(* walk is joined by which servers those are: a prefix of the queue, as    *)
(* long as index or longer by one.                                         *)

(* The mapping of CascadeRefinement, of any record.                        *)
Opened(c) == {c.attempts[i].server : i \in 1..Len(c.attempts)}

At(state) == [state |-> state, list |-> <<>>, tried |-> 0, given |-> 0]
Walking(q, tried, given) ==
    [state |-> "walking", list |-> q, tried |-> tried, given |-> given]

WalkOf(c) ==
    IF InRun(c) THEN Walking(c.queue, Cardinality(Opened(c)), c.index)
    ELSE At(IF c.phase = "exhausted" /\ LastGone(c) THEN "nobackend" ELSE c.phase)

Prefix(q, k) == {q[i] : i \in 1..k}

(* A run that has opened k servers of q and given up g of them.            *)
Shape(c, q, k, g) ==
    /\ InRun(c) /\ ~c.autoTest
    /\ c.queue = q /\ c.index = g
    /\ Opened(c) = Prefix(q, k)

Sound(c) ==
    /\ c.autoTest => c.active /\ c.phase = "preparing"
    /\ ~c.active => c.phase \in {"idle", "succeeded", "exhausted", "cancelled"}
    /\ c.active => c.phase \in {"preparing", "connecting", "settling"}
    /\ InRun(c) => /\ c.queue \in Queues /\ c.queue # <<>>
                   /\ c.index <= Len(c.queue)
                   /\ \E k \in {c.index, c.index + 1} :
                         k <= Len(c.queue) /\ Opened(c) = Prefix(c.queue, k)

(* The steps of AutoConnect, from one walk to another.                     *)
Moves(w, v) ==
    \/ v = w
    \/ w.state \notin {"preparing", "walking"} /\ v = At("preparing")
    \/ /\ w.state # "walking"
       /\ \E q \in Queues : \E tried \in {0, 1}, given \in {0, 1} :
             q # <<>> /\ given <= tried /\ v = Walking(q, tried, given)
    \/ /\ w.state = "walking" /\ w.tried = w.given /\ w.tried < Len(w.list)
       /\ \E fails \in {0, 1} :
             v = [w EXCEPT !.tried = @ + 1, !.given = @ + fails]
    \/ /\ w.state = "walking" /\ w.given < w.tried
       /\ v = [w EXCEPT !.given = @ + 1]
    \/ w.state \in {"preparing", "walking"} /\ v = At("succeeded")
    \/ w.state \in {"preparing", "walking"} /\ v = At("cancelled")
    \/ /\ w.state \in {"preparing", "walking"} /\ w.given = Len(w.list)
       /\ v = At("exhausted")
    \/ v = At("nobackend")

LEMMA WalkIsWalkOf == Walk = WalkOf(ctl)
BY DEF Walk, WalkOf, WalkState, Running, InRun, OpenedServers, Opened, BackendGone,
       LastGone, At, Walking

LEMMA WalkIsWalkOfNext == Walk' = WalkOf(ctl')
BY DEF Walk, WalkOf, WalkState, Running, InRun, OpenedServers, Opened, BackendGone,
       LastGone, At, Walking

LEMMA MovesAreSteps ==
    ASSUME Moves(Walk, Walk')
    PROVE  [Promise!Next]_Walk
BY DEF Moves, At, Walking, Promise!Next, Promise!Prepare, Promise!Begin, Promise!Try,
       Promise!GiveUp, Promise!Succeed, Promise!Cancel, Promise!Exhaust,
       Promise!LoseBackend, Promise!Pending, Promise!At

(* As queues have no duplicates, a prefix has as many servers as it is     *)
(* long.                                                                   *)
LEMMA PrefixCard ==
    ASSUME NEW q \in Queues, NEW k \in 0..Len(q)
    PROVE  Cardinality(Prefix(q, k)) = k
<1> DEFINE f == [i \in 1..k |-> q[i]]
<1>1. q \in Seq(Servers) /\ k \in Nat /\ 1..k \subseteq 1..Len(q)
  BY CascadeAssumption
<1>2. \A i, j \in 1..k : q[i] = q[j] => i = j
  BY <1>1, CascadeAssumption
<1>3. f \in Bijection(1..k, Prefix(q, k))
  BY <1>2, Fun_IsBij DEF Prefix
<1>4. ExistsBijection(1..k, Prefix(q, k))
  BY <1>3 DEF ExistsBijection
<1>5. IsFiniteSet(1..k) /\ Cardinality(1..k) = k
  BY <1>1, FS_Interval
<1>6. QED
  BY <1>4, <1>5, FS_Bijection

LEMMA PrefixGrows ==
    ASSUME NEW q, NEW k \in Nat
    PROVE  Prefix(q, k + 1) = Prefix(q, k) \cup {q[k + 1]}
<1>1. 1..(k + 1) = (1..k) \cup {k + 1}
  OBVIOUS
<1>2. QED
  BY <1>1 DEF Prefix

LEMMA ShapeWalk ==
    ASSUME NEW c, NEW q \in Queues, NEW k \in 0..Len(q), NEW g, Shape(c, q, k, g)
    PROVE  WalkOf(c) = Walking(q, k, g)
BY PrefixCard DEF Shape, WalkOf

LEMMA AlikeWalk ==
    ASSUME NEW c, NEW d, Alike(c, d)
    PROVE  /\ WalkOf(d) = WalkOf(c)
           /\ d.autoTest = c.autoTest /\ Sound(c) => Sound(d)
           /\ \A q, k, g : d.autoTest = c.autoTest /\ Shape(c, q, k, g) => Shape(d, q, k, g)
<1>1. Opened(d) = Opened(c) /\ (InRun(d) <=> InRun(c)) /\ (LastGone(d) <=> LastGone(c))
  BY DEF Alike, Opened, InRun, LastGone
<1>2. QED
  BY <1>1 DEF Alike, WalkOf, Sound, Shape

LEMMA EmitWalk ==
    ASSUME NEW c \in Controller, NEW call, NEW q, NEW k, NEW g, Shape(c, q, k, g)
    PROVE  Shape(Emit(c, call), q, k, g)
<1>1. Emit(c, call).autoTest = c.autoTest
  BY DEF Emit, Controller
<1>2. QED
  BY <1>1, EmitAlike, AlikeWalk

LEMMA ArmSettleWalk ==
    ASSUME NEW c \in Controller, NEW q, NEW k, NEW g, Shape(c, q, k, g)
    PROVE  Shape(ArmSettle(c), q, k, g)
BY DEF ArmSettle, Shape, InRun, Opened, Controller

LEMMA ArmTimeoutWalk ==
    ASSUME NEW c \in Controller, NEW q, NEW k, NEW g, Shape(c, q, k, g)
    PROVE  Shape(ArmTimeoutAndTicks(c), q, k, g)
BY DEF ArmTimeoutAndTicks, DisarmTimers, Shape, InRun, Opened, Controller

-----------------------------------------------------------------------------
(* What the methods do to the walk.                                        *)

LEMMA CompleteOpened ==
    ASSUME NEW c \in Controller, NEW result
    PROVE  LET d == CompleteActiveAttempt(c, result)
           IN  /\ Opened(d) = Opened(c)
               /\ d.active = c.active /\ d.phase = c.phase /\ d.autoTest = c.autoTest
               /\ d.queue = c.queue /\ d.index = c.index
<1>1. CASE IsOpen(c)
  <2> DEFINE n == Len(c.attempts)
             as == [c.attempts EXCEPT ![n] = [c.attempts[n] EXCEPT !.result = result]]
             d == [c EXCEPT !.attempts = as]
  <2>1. c.attempts \in Seq(Attempt) /\ n \in Nat /\ n \in 1..n
    BY <1>1, EmptySeq DEF IsOpen, Controller
  <2>2. c.attempts[n] \in Attempt
    BY <2>1, ElementOfSeq
  <2>3. CompleteActiveAttempt(c, result) = d
    BY <1>1, <2>1 DEF CompleteActiveAttempt, Controller
  <2>4. Len(as) = n /\ \A i \in 1..n : as[i].server = c.attempts[i].server
    BY <2>1, <2>2 DEF Attempt
  <2> HIDE DEF as
  <2>5. /\ d.attempts = as /\ d.active = c.active /\ d.phase = c.phase
        /\ d.autoTest = c.autoTest /\ d.queue = c.queue /\ d.index = c.index
    BY DEF Controller
  <2> HIDE DEF d
  <2>6. Opened(d) = Opened(c)
    BY <2>4, <2>5 DEF Opened
  <2>7. QED
    BY <2>3, <2>5, <2>6
<1>2. CASE ~IsOpen(c)
  BY <1>2 DEF CompleteActiveAttempt
<1>3. QED
  BY <1>1, <1>2

(* The record of a run that is over, and what it is in the walk.           *)
Ends(r, phase) ==
    /\ ~r.active /\ ~r.autoTest /\ r.phase = phase
    /\ WalkOf(r) \in {At(phase), At("nobackend")}
    /\ phase # "exhausted" => WalkOf(r) = At(phase)

LEMMA FinishEnds ==
    ASSUME NEW c \in Controller, NEW phase \in {"succeeded", "exhausted", "cancelled"},
           NEW restore \in BOOLEAN, NEW status \in BOOLEAN
    PROVE  LET r == Finish(c, phase, restore, status)
           IN  Ends(r, phase) /\ Sound(r)
<1> DEFINE ended == [DisarmTimers(c) EXCEPT !.active = FALSE, !.phase = phase,
                        !.expect = FALSE, !.autoTest = FALSE,
                        !.locked = FALSE, !.testBtn = TRUE]
           Over(d) == ~d.active /\ ~d.autoTest /\ d.phase = phase
           closed == CompleteActiveAttempt(ended, "cancelled")
           told == [closed EXCEPT !.manual = TRUE]
           r == Finish(c, phase, restore, status)
<1>1. ended \in Controller
  BY EndedType DEF Phases
<1>2. Over(ended)
  BY DEF DisarmTimers, Controller
<1> HIDE DEF ended
<1>3. \A result : Over(CompleteActiveAttempt(ended, result))
  BY <1>1, <1>2, CompleteOpened
<1>4. closed \in Controller /\ Over(closed)
  BY <1>1, <1>3, CompleteType DEF Results
<1> HIDE DEF closed
<1>5. told \in Controller /\ Over(told)
  BY <1>4 DEF Controller
<1> HIDE DEF told
<1>6. Over(Emit(told, "disconnect"))
  BY <1>5 DEF Emit, Controller
<1>7. Over(r)
  BY <1>3, <1>4, <1>6 DEF Finish, told, closed, ended
<1> HIDE DEF r
<1>8. Ends(r, phase) /\ Sound(r)
  BY <1>7 DEF Ends, Sound, WalkOf, InRun
<1>9. QED
  BY <1>8 DEF r

LEMMA FinishOpenEnds ==
    ASSUME NEW c \in Controller, IsOpen(c), NEW status \in BOOLEAN
    PROVE  WalkOf(Finish(c, "exhausted", TRUE, status)) = At("nobackend")
<1> DEFINE ended == [DisarmTimers(c) EXCEPT !.active = FALSE, !.phase = "exhausted",
                        !.expect = FALSE, !.autoTest = FALSE,
                        !.locked = FALSE, !.testBtn = TRUE]
           r == CompleteActiveAttempt(ended, "backend_error")
<1>1. ended \in Controller
  BY EndedType DEF Phases
<1>2. ~ended.active /\ ended.phase = "exhausted" /\ ended.attempts = c.attempts
  BY DEF DisarmTimers, Controller
<1> HIDE DEF ended
<1>3. IsOpen(ended)
  BY <1>2 DEF IsOpen
<1>4. ~r.active /\ r.phase = "exhausted" /\ LastGone(r)
  BY <1>1, <1>2, <1>3, CompleteKeeps DEF Results
<1>5. Finish(c, "exhausted", TRUE, status) = r
  BY DEF Finish, ended
<1> HIDE DEF r
<1>6. QED
  BY <1>4, <1>5 DEF WalkOf, InRun

LEMMA AdvanceWalk ==
    ASSUME NEW c \in Controller, NEW reason \in Reasons, NEW status \in BOOLEAN,
           NEW q, NEW k, NEW g \in Nat, Shape(c, q, k, g)
    PROVE  Shape(Advance(c, reason, status), q, k, g + 1)
<1> DEFINE verdict == [server |-> c.current, reason |-> reason]
           blamed == [c EXCEPT !.failures = Append(@, verdict)]
           recorded == RecordFailure(c, reason)
           disarmed == DisarmTimers(recorded)
           moved == [disarmed EXCEPT !.index = @ + 1, !.phase = "settling",
                                     !.expect = TRUE, !.manual = TRUE]
           told == IF status THEN Emit(moved, "disconnect") ELSE moved
<1>1. recorded \in Controller
  BY RecordFailureType
<1>2. /\ Opened(recorded) = Opened(c) /\ recorded.active = c.active
      /\ recorded.autoTest = c.autoTest /\ recorded.queue = c.queue
      /\ recorded.index = c.index
  <2>1. CASE c.current = NoServer
    BY <2>1 DEF RecordFailure
  <2>2. CASE c.current # NoServer
    <3>1. c.failures \in Seq(Failure) /\ verdict \in Failure
      BY <2>2 DEF Controller, Failure
    <3> HIDE DEF verdict
    <3>2. Append(c.failures, verdict) \in Seq(Failure)
      BY <3>1
    <3>3. blamed \in Controller
      BY <3>2 DEF Controller
    <3>4. /\ blamed.attempts = c.attempts /\ blamed.active = c.active
          /\ blamed.autoTest = c.autoTest /\ blamed.queue = c.queue
          /\ blamed.index = c.index
      BY DEF Controller
    <3> HIDE DEF blamed
    <3>5. recorded = CompleteActiveAttempt(blamed, reason)
      BY <2>2 DEF RecordFailure, blamed, verdict
    <3> HIDE DEF recorded
    <3>6. Opened(blamed) = Opened(c)
      BY <3>4 DEF Opened
    <3>7. QED
      BY <3>3, <3>4, <3>5, <3>6, CompleteOpened
  <2>3. QED
    BY <2>1, <2>2
<1> HIDE DEF recorded
<1>3. disarmed \in Controller
  BY <1>1, DisarmType
<1>4. /\ disarmed.attempts = recorded.attempts /\ disarmed.active = c.active
      /\ disarmed.autoTest = c.autoTest /\ disarmed.queue = c.queue
      /\ disarmed.index = c.index
  BY <1>1, <1>2 DEF DisarmTimers, Controller
<1> HIDE DEF disarmed
<1>5. moved \in Controller
  BY <1>3, MovedType
<1>6. /\ moved.attempts = recorded.attempts /\ moved.active = c.active
      /\ moved.autoTest = c.autoTest /\ moved.queue = c.queue
      /\ moved.index = c.index + 1 /\ moved.phase = "settling"
  BY <1>3, <1>4 DEF Controller
<1> HIDE DEF moved
<1>7. Shape(moved, q, k, g + 1)
  <2>1. Opened(moved) = Opened(c)
    BY <1>2, <1>6 DEF Opened
  <2>2. QED
    BY <1>6, <2>1 DEF Shape, InRun
<1>8. told \in Controller /\ Shape(told, q, k, g + 1)
  BY <1>5, <1>7, EmitType, EmitWalk DEF Calls
<1> HIDE DEF told
<1>9. Shape(ArmSettle(told), q, k, g + 1)
  BY <1>8, ArmSettleWalk
<1>10. Advance(c, reason, status) = ArmSettle(told)
  BY DEF Advance, Shape, InRun, told, moved, disarmed, recorded
<1>11. QED
  BY <1>9, <1>10

(* Another server is opened, or the one not given up is opened again.      *)
LEMMA OpenAttemptWalk ==
    ASSUME NEW c \in Controller, NEW q \in Queues, NEW g \in Nat, g < Len(q),
           NEW k \in {g, g + 1}, Shape(c, q, k, g)
    PROVE  Shape(OpenAttempt(c), q, g + 1, g)
<1> DEFINE s == c.queue[c.index + 1]
           opened == [server |-> s, result |-> "open"]
           entered == [c EXCEPT !.current = s, !.phase = "connecting", !.left = Budget[s],
                         !.attempts = Append(@, opened),
                         !.expect = FALSE, !.manual = FALSE]
<1>1. c.queue \in Seq(Servers) /\ c.index + 1 \in 1..Len(c.queue)
  BY DEF Controller, Shape
<1>2. s \in Servers /\ s = q[g + 1]
  BY <1>1, ElementOfSeq DEF Shape
<1>3. Budget[s] \in Nat
  BY <1>2, CascadeAssumption
<1> HIDE DEF s
<1>4. opened \in Attempt /\ opened.server = s
  BY <1>2 DEF Attempt, Results
<1> HIDE DEF opened
<1>5. /\ c.attempts \in Seq(Attempt)
      /\ Append(c.attempts, opened) \in Seq(Attempt)
      /\ Len(Append(c.attempts, opened)) = Len(c.attempts) + 1
      /\ Append(c.attempts, opened)[Len(c.attempts) + 1] = opened
      /\ \A i \in 1..Len(c.attempts) : Append(c.attempts, opened)[i] = c.attempts[i]
  BY <1>4 DEF Controller
<1>6. entered \in Controller
  BY <1>2, <1>5, EnteredType
<1>7. /\ entered.active = c.active /\ entered.phase = "connecting"
      /\ entered.queue = c.queue /\ entered.index = c.index
      /\ entered.autoTest = c.autoTest
      /\ entered.attempts = Append(c.attempts, opened)
  BY DEF Controller
<1> HIDE DEF entered
<1>8. Opened(entered) = Opened(c) \cup {s}
  <2>1. 1..(Len(c.attempts) + 1) = (1..Len(c.attempts)) \cup {Len(c.attempts) + 1}
    BY <1>5
  <2>2. \A x : x \in Opened(entered) <=> x \in Opened(c) \cup {s}
    BY SMTT(30), <1>4, <1>5, <1>7, <2>1 DEF Opened
  <2>3. QED
    BY <2>2
<1>9. Opened(entered) = Prefix(q, g + 1)
  <2>1. Prefix(q, g + 1) = Prefix(q, g) \cup {s}
    BY <1>2, PrefixGrows
  <2>2. Opened(c) = Prefix(q, g) \/ Opened(c) = Prefix(q, g + 1)
    BY DEF Shape
  <2>3. QED
    BY <1>8, <2>1, <2>2
<1>10. Shape(entered, q, g + 1, g)
  BY <1>7, <1>9 DEF Shape, InRun
<1>11. Shape(ArmTimeoutAndTicks(entered), q, g + 1, g)
  BY <1>6, <1>10, ArmTimeoutWalk
<1>12. QED
  BY <1>11 DEF OpenAttempt, entered, opened, s

(* The server at index has been opened and perhaps given up.               *)
AtServer(r, q, g) == Shape(r, q, g + 1, g) \/ Shape(r, q, g + 1, g + 1)

LEMMA StillConnectedWalk ==
    ASSUME NEW c \in Controller, NEW answer, NEW status \in BOOLEAN,
           NEW q, NEW g \in Nat, Shape(c, q, g + 1, g)
    PROVE  AtServer(StillConnected(c, answer, status), q, g)
<1> DEFINE again == [c EXCEPT !.retries = @ + 1]
           expecting == [again EXCEPT !.expect = TRUE, !.manual = TRUE, !.phase = "settling"]
           told == Emit(expecting, "disconnect")
<1>1. again \in Controller
  <2>1. c.retries + 1 \in Nat
    BY DEF Controller
  <2>2. QED
    BY <2>1 DEF Controller
<1>2. Shape(again, q, g + 1, g)
  BY DEF Shape, InRun, Opened, Controller
<1> HIDE DEF again
<1>3. expecting \in Controller
  BY <1>1 DEF Controller, Phases
<1>4. Shape(expecting, q, g + 1, g)
  BY SMTT(30), <1>1, <1>2 DEF Shape, InRun, Opened, Controller
<1> HIDE DEF expecting
<1>5. told \in Controller /\ Shape(told, q, g + 1, g)
  BY <1>3, <1>4, EmitType, EmitWalk DEF Calls
<1> HIDE DEF told
<1>6. Shape(ArmSettle(told), q, g + 1, g)
  BY <1>5, ArmSettleWalk
<1>7. /\ Shape(Advance(again, "disconnect", status), q, g + 1, g + 1)
      /\ Shape(Advance(expecting, "error", status), q, g + 1, g + 1)
  BY <1>1, <1>2, <1>3, <1>4, AdvanceWalk DEF Reasons
<1>8. QED
  BY <1>6, <1>7 DEF StillConnected, AtServer, again, expecting, told

LEMMA TryCurrentServerWalk ==
    ASSUME NEW c \in Controller, NEW answer, NEW status \in BOOLEAN,
           NEW q \in Queues, NEW g \in Nat, g < Len(q), NEW k \in {g, g + 1},
           Shape(c, q, k, g), c.orphans = {}, Walked(c)
    PROVE  LET r == TryCurrentServer(c, answer, status)
           IN  \/ AtServer(r, q, g)
               \/ WalkOf(r) = At("nobackend") /\ Sound(r)
<1> DEFINE opened  == OpenAttempt(c)
           watched == Emit(opened, "start_watch")
           free    == [watched EXCEPT !.retries = 0]
           over    == Finish(opened, "exhausted", TRUE, status)
<1>1. c.active /\ c.index < Len(c.queue) /\ ~(c.index >= Len(c.queue))
  BY DEF Shape, InRun, Controller
<1>2. opened \in Controller /\ Shape(opened, q, g + 1, g) /\ IsOpen(opened)
  BY <1>1, OpenAttemptType, OpenAttemptWalk, OpenAttemptInOrder
<1> HIDE DEF opened
<1>3. watched \in Controller /\ Shape(watched, q, g + 1, g)
  BY <1>2, EmitType, EmitWalk DEF Calls
<1> HIDE DEF watched
<1>4. free \in Controller /\ Shape(free, q, g + 1, g)
  <2>1. free \in Controller
    BY <1>3 DEF Controller
  <2>2. /\ free.active = watched.active /\ free.phase = watched.phase
        /\ free.autoTest = watched.autoTest /\ free.queue = watched.queue
        /\ free.index = watched.index /\ free.attempts = watched.attempts
    BY <1>3 DEF Controller
  <2> HIDE DEF free
  <2>3. QED
    BY <1>3, <2>1, <2>2 DEF Shape, InRun, Opened
<1> HIDE DEF free
<1>5. WalkOf(over) = At("nobackend") /\ Sound(over)
  BY <1>2, FinishEnds, FinishOpenEnds
<1> HIDE DEF over
<1>6. /\ Shape(Advance(watched, "error", status), q, g + 1, g + 1)
      /\ Shape(Advance(free, "missing", status), q, g + 1, g + 1)
      /\ Shape(Advance(free, "error", status), q, g + 1, g + 1)
  BY <1>3, <1>4, AdvanceWalk DEF Reasons
<1>7. AtServer(StillConnected(watched, answer, status), q, g)
  BY <1>3, StillConnectedWalk
<1>8. Shape(Emit(free, "connect"), q, g + 1, g)
  BY <1>4, EmitWalk
<1>9. QED
  BY <1>1, <1>5, <1>6, <1>7, <1>8
     DEF TryCurrentServer, AtServer, over, free, watched, opened

(* A run is begun: nothing is opened yet, or its first server is.          *)
LEMMA BeginWalk ==
    ASSUME NEW c \in Controller, ~c.autoTest, c.orphans = {},
           NEW q \in Queues, q # <<>>, NEW opening, NEW status \in BOOLEAN
    PROVE  LET r == Begin(c, q, opening, status)
           IN  \/ Shape(r, q, 0, 0)
               \/ AtServer(r, q, 0)
               \/ WalkOf(r) = At("nobackend") /\ Sound(r)
<1> DEFINE fresh == [c EXCEPT !.gen = @ + 1, !.active = TRUE, !.queue = q, !.index = 0,
                        !.failures = <<>>, !.attempts = <<>>, !.expect = FALSE,
                        !.retries = 0, !.phase = "connecting", !.current = NoServer,
                        !.manual = FALSE, !.locked = TRUE, !.testBtn = FALSE]
           leaving == [fresh EXCEPT !.expect = TRUE, !.manual = TRUE, !.phase = "settling"]
           watched == Emit(leaving, "start_watch")
           told == Emit(watched, "disconnect")
<1>1. /\ q \in Seq(Servers) /\ <<>> \in Seq(Failure) /\ <<>> \in Seq(Attempt)
      /\ Len(q) \in Nat /\ 0 < Len(q)
  BY CascadeAssumption, EmptySeq
<1>2. c.gen + 1 \in Nat /\ "connecting" \in Phases
  BY DEF Controller, Phases
<1>3. fresh \in Controller
  BY <1>1, <1>2 DEF Controller
<1>4. /\ fresh.active /\ fresh.phase = "connecting" /\ fresh.queue = q
      /\ fresh.index = 0 /\ fresh.attempts = <<>> /\ ~fresh.autoTest
      /\ fresh.failures = <<>> /\ fresh.orphans = {}
  BY DEF Controller
<1> HIDE DEF fresh
<1>5. 1..0 = {} /\ Len(fresh.attempts) = 0 /\ Len(fresh.failures) = 0
  BY <1>4
<1>6. Shape(fresh, q, 0, 0)
  BY <1>4, <1>5 DEF Shape, InRun, Opened, Prefix
<1>7. Walked(fresh)
  BY <1>1, <1>4, <1>5 DEF Walked
<1>8. leaving \in Controller
  BY <1>3 DEF Controller, Phases
<1>9. Shape(leaving, q, 0, 0)
  BY SMTT(30), <1>3, <1>6 DEF Shape, InRun, Opened, Controller
<1> HIDE DEF leaving
<1>10. watched \in Controller /\ Shape(watched, q, 0, 0)
  BY <1>8, <1>9, EmitType, EmitWalk DEF Calls
<1> HIDE DEF watched
<1>11. told \in Controller /\ Shape(told, q, 0, 0)
  BY <1>10, EmitType, EmitWalk DEF Calls
<1> HIDE DEF told
<1>12. Shape(ArmSettle(told), q, 0, 0)
  BY <1>11, ArmSettleWalk
<1> DEFINE r == TryCurrentServer(fresh, opening, status)
<1>13. AtServer(r, q, 0) \/ (WalkOf(r) = At("nobackend") /\ Sound(r))
  BY <1>1, <1>3, <1>4, <1>6, <1>7, TryCurrentServerWalk
<1> HIDE DEF r
<1>14. QED
  BY <1>12, <1>13 DEF Begin, r, told, watched, leaving, fresh

-----------------------------------------------------------------------------
(* From walk to walk.                                                      *)

(* The fields the walk is made of.                                         *)
Still(c, d) ==
    /\ d.active = c.active /\ d.phase = c.phase /\ d.autoTest = c.autoTest
    /\ d.queue = c.queue /\ d.index = c.index /\ d.attempts = c.attempts

LEMMA StillWalk ==
    ASSUME NEW c, NEW d, Still(c, d)
    PROVE  /\ WalkOf(d) = WalkOf(c)
           /\ Sound(c) => Sound(d)
           /\ \A q, k, g : Shape(c, q, k, g) => Shape(d, q, k, g)
<1>1. Opened(d) = Opened(c) /\ (InRun(d) <=> InRun(c)) /\ (LastGone(d) <=> LastGone(c))
  BY DEF Still, Opened, InRun, LastGone
<1>2. QED
  BY <1>1 DEF Still, WalkOf, Sound, Shape

LEMMA ShapeSound ==
    ASSUME NEW c, NEW q \in Queues, q # <<>>, NEW g \in 0..Len(q),
           NEW k \in {g, g + 1}, k <= Len(q), Shape(c, q, k, g)
    PROVE  Sound(c) /\ WalkOf(c) = Walking(q, k, g)
<1>1. k \in 0..Len(q)
  BY CascadeAssumption
<1>2. WalkOf(c) = Walking(q, k, g)
  BY <1>1, ShapeWalk
<1>3. c.phase \in {"connecting", "settling"} /\ c.active /\ ~c.autoTest
  BY DEF Shape, InRun
<1>4. c.queue \in Queues /\ c.queue # <<>> /\ c.index <= Len(c.queue)
  BY DEF Shape
<1>5. k \in {c.index, c.index + 1} /\ k <= Len(c.queue) /\ Opened(c) = Prefix(c.queue, k)
  BY DEF Shape
<1>6. QED
  BY <1>2, <1>3, <1>4, <1>5 DEF Sound

(* A record of a run that is under way, read as a walk.                    *)
LEMMA SoundShape ==
    ASSUME NEW c \in Controller, Sound(c), InRun(c)
    PROVE  /\ c.queue \in Queues /\ c.queue # <<>> /\ c.index \in 0..Len(c.queue)
           /\ Len(c.queue) \in Nat
           /\ \E k \in {c.index, c.index + 1} :
                 /\ k <= Len(c.queue) /\ Shape(c, c.queue, k, c.index)
                 /\ WalkOf(c) = Walking(c.queue, k, c.index)
<1>1. /\ c.queue \in Queues /\ c.queue # <<>> /\ c.index \in 0..Len(c.queue)
      /\ Len(c.queue) \in Nat
  BY DEF Sound, Controller
<1>2. PICK k \in {c.index, c.index + 1} :
         k <= Len(c.queue) /\ Opened(c) = Prefix(c.queue, k)
  BY DEF Sound
<1>3. Shape(c, c.queue, k, c.index)
  BY <1>2 DEF Shape, Sound, InRun
<1>4. WalkOf(c) = Walking(c.queue, k, c.index)
  BY <1>1, <1>2, <1>3, ShapeSound
<1>5. QED
  BY <1>1, <1>2, <1>3, <1>4

(* While an attempt is in progress one server more is opened than given up.*)
LEMMA TryingShape ==
    ASSUME NEW c \in Controller, Sound(c), InRun(c), Trying(c)
    PROVE  Shape(c, c.queue, c.index + 1, c.index)
<1>1. PICK k \in {c.index, c.index + 1} :
         k <= Len(c.queue) /\ Shape(c, c.queue, k, c.index)
  BY SoundShape
<1>2. CASE k = c.index
  <2>1. c.queue[c.index + 1] \in Opened(c)
    BY DEF Trying, TriedIn, Opened
  <2>2. PICK i \in 1..c.index : c.queue[c.index + 1] = c.queue[i]
    BY <1>1, <1>2, <2>1 DEF Shape, Prefix
  <2>3. i = c.index + 1
    <3>1. c.queue \in Queues /\ c.index \in Nat /\ c.index < Len(c.queue)
          /\ Len(c.queue) \in Nat
      BY SoundShape DEF Trying, Controller
    <3>2. i \in 1..Len(c.queue) /\ c.index + 1 \in 1..Len(c.queue)
      BY <3>1
    <3>3. QED
      BY <2>2, <3>1, <3>2, CascadeAssumption
  <2>4. QED
    BY <2>2, <2>3 DEF Controller
<1>3. QED
  BY <1>1, <1>2

Goes(c, r) == Moves(WalkOf(c), WalkOf(r)) /\ Sound(r)

LEMMA StillGoes ==
    ASSUME NEW c, NEW d, Sound(c), Still(c, d)
    PROVE  Goes(c, d)
BY StillWalk DEF Goes, Moves

LEMMA TryMove ==
    ASSUME NEW q, NEW g \in Nat, g < Len(q), NEW fails \in {0, 1}
    PROVE  Moves(Walking(q, g, g), Walking(q, g + 1, g + fails))
<1> DEFINE w == Walking(q, g, g)
           v == Walking(q, g + 1, g + fails)
<1>1. w.state = "walking" /\ w.tried = w.given /\ w.tried < Len(w.list)
  BY DEF Walking
<1>2. v = [w EXCEPT !.tried = @ + 1, !.given = @ + fails]
  <2>1. w.tried = g /\ w.given = g
    BY DEF Walking
  <2> DEFINE u == Walking(q, g + 1, g)
  <2>2. u = [w EXCEPT !.tried = g + 1]
    BY DEF Walking
  <2>3. v = [u EXCEPT !.given = g + fails]
    BY DEF Walking
  <2> HIDE DEF w, v, u
  <2>4. v = [w EXCEPT !.tried = g + 1, !.given = g + fails]
    BY <2>2, <2>3, Zenon
  <2>5. QED
    BY <2>1, <2>4
<1> HIDE DEF w, v
<1>3. Moves(w, v)
  BY <1>1, <1>2 DEF Moves
<1>4. QED
  BY <1>3 DEF w, v

(* A candidate is tried: it is opened and may be given up at once; or it   *)
(* was open already.                                                       *)
LEMMA TryGoes ==
    ASSUME NEW c, NEW r, NEW q \in Queues, NEW g \in Nat, g < Len(q),
           NEW k \in {g, g + 1}, WalkOf(c) = Walking(q, k, g),
           AtServer(r, q, g) \/ (WalkOf(r) = At("nobackend") /\ Sound(r))
    PROVE  Goes(c, r)
<1>1. Len(q) \in Nat /\ q # <<>>
  BY CascadeAssumption, EmptySeq
<1>2. CASE Shape(r, q, g + 1, g)
  <2>1. Sound(r) /\ WalkOf(r) = Walking(q, g + 1, g)
    BY <1>1, <1>2, ShapeSound
  <2>2. CASE k = g
    <3>1. Moves(Walking(q, g, g), Walking(q, g + 1, g + 0))
      BY TryMove
    <3>2. QED
      BY <2>1, <2>2, <3>1 DEF Goes
  <2>3. CASE k = g + 1
    BY <2>1, <2>3 DEF Goes, Moves
  <2>4. QED
    BY <2>2, <2>3
<1>3. CASE Shape(r, q, g + 1, g + 1)
  <2>1. Sound(r) /\ WalkOf(r) = Walking(q, g + 1, g + 1)
    BY SMTT(30), <1>1, <1>3, ShapeSound
  <2>2. CASE k = g
    <3>1. Moves(Walking(q, g, g), Walking(q, g + 1, g + 1))
      BY TryMove
    <3>2. QED
      BY <2>1, <2>2, <3>1 DEF Goes
  <2>3. CASE k = g + 1
    BY <2>1, <2>3 DEF Goes, Moves, Walking
  <2>4. QED
    BY <2>2, <2>3
<1>4. CASE WalkOf(r) = At("nobackend") /\ Sound(r)
  BY <1>4 DEF Goes, Moves
<1>5. QED
  BY <1>2, <1>3, <1>4 DEF AtServer

(* The attempt in progress is given up.                                    *)
LEMMA GiveUpGoes ==
    ASSUME NEW c \in Controller, Sound(c), InRun(c), Trying(c),
           NEW d \in Controller, Still(c, d),
           NEW reason \in Reasons, NEW status \in BOOLEAN
    PROVE  Goes(c, Advance(d, reason, status))
<1> DEFINE q == c.queue
           g == c.index
           r == Advance(d, reason, status)
<1>1. q \in Queues /\ q # <<>> /\ g \in Nat /\ Len(q) \in Nat /\ g < Len(q)
  BY SoundShape DEF Trying
<1>2. Shape(c, q, g + 1, g)
  BY TryingShape
<1> HIDE DEF q, g
<1>3. WalkOf(c) = Walking(q, g + 1, g)
  BY <1>1, <1>2, ShapeSound
<1>4. Shape(d, q, g + 1, g)
  BY <1>2, StillWalk
<1>5. Shape(r, q, g + 1, g + 1)
  BY <1>1, <1>4, AdvanceWalk
<1> HIDE DEF r
<1>6. Goes(c, r)
  BY <1>1, <1>3, <1>5, TryGoes DEF AtServer
<1>7. QED
  BY <1>6 DEF r

LEMMA ActivePending ==
    ASSUME NEW c \in Controller, Sound(c)
    PROVE  /\ c.active => WalkOf(c).state \in {"preparing", "walking"}
           /\ c.active /\ ~InRun(c) => WalkOf(c) = At("preparing")
           /\ ~InRun(c) => WalkOf(c).state # "walking"
           /\ ~c.active => WalkOf(c).state \notin {"preparing", "walking"}
<1>1. c.active /\ InRun(c) => WalkOf(c).state = "walking"
  BY DEF WalkOf, Walking
<1>2. c.active /\ ~InRun(c) => c.phase = "preparing"
  BY DEF Sound, InRun
<1>3. c.active /\ ~InRun(c) => WalkOf(c) = At("preparing")
  BY <1>2 DEF WalkOf
<1>4. ~c.active => WalkOf(c).state \in {c.phase, "nobackend"}
  BY DEF WalkOf, At, InRun
<1>5. QED
  BY <1>1, <1>3, <1>4 DEF Sound, At, InRun

LEMMA FinishGoes ==
    ASSUME NEW c \in Controller, Sound(c), c.active, NEW d \in Controller,
           NEW phase \in {"succeeded", "cancelled"},
           NEW restore \in BOOLEAN, NEW status \in BOOLEAN
    PROVE  Goes(c, Finish(d, phase, restore, status))
<1>1. WalkOf(c).state \in {"preparing", "walking"}
  BY ActivePending
<1>2. /\ WalkOf(Finish(d, phase, restore, status)) = At(phase)
      /\ Sound(Finish(d, phase, restore, status))
  BY FinishEnds DEF Ends
<1>3. QED
  BY <1>1, <1>2 DEF Goes, Moves

LEMMA ExhaustGoes ==
    ASSUME NEW c \in Controller, Sound(c), c.active,
           WalkOf(c).given = Len(WalkOf(c).list),
           NEW d \in Controller, NEW status \in BOOLEAN
    PROVE  Goes(c, Finish(d, "exhausted", TRUE, status))
<1>1. WalkOf(c).state \in {"preparing", "walking"}
  BY ActivePending
<1>2. /\ WalkOf(Finish(d, "exhausted", TRUE, status)) \in {At("exhausted"), At("nobackend")}
      /\ Sound(Finish(d, "exhausted", TRUE, status))
  BY FinishEnds DEF Ends
<1>3. QED
  BY <1>1, <1>2 DEF Goes, Moves

-----------------------------------------------------------------------------
(* The handlers.                                                           *)

LEMMA StartGoes ==
    ASSUME NEW c \in Controller, Sound(c), InOrder(c), ~InRun(c), ~c.autoTest,
           NEW q \in Queues, NEW opening, NEW status \in BOOLEAN
    PROVE  Goes(c, StartFromVisibleList(c, q, opening, status))
<1>1. WalkOf(c).state # "walking" /\ (c.active => WalkOf(c) = At("preparing"))
  BY ActivePending
<1>2. Goes(c, c)
  BY StillGoes DEF Still
<1>3. CASE q = <<>>
  <2>1. ASSUME c.active PROVE Goes(c, Finish(c, "exhausted", TRUE, status))
    <3>1. WalkOf(c).given = 0 /\ Len(WalkOf(c).list) = 0
      BY <1>1, <2>1 DEF At
    <3>2. QED
      BY <2>1, <3>1, ExhaustGoes
  <2>2. QED
    BY <1>2, <1>3, <2>1 DEF StartFromVisibleList
<1>4. CASE q # <<>>
  <2> DEFINE named == [c EXCEPT !.current = Head(q)]
             r == Begin(c, q, opening, status)
  <2>1. q \in Seq(Servers)
    BY CascadeAssumption
  <2>2. Head(q) \in Servers
    BY <1>4, <2>1, HeadTailProperties
  <2>3. named \in Controller
    BY <2>2 DEF Controller
  <2> HIDE DEF named
  <2>4. c.active => Goes(c, Finish(named, "succeeded", TRUE, status))
    BY <2>3, FinishGoes
  <2>5. \/ Shape(r, q, 0, 0)
        \/ Shape(r, q, 1, 0)
        \/ Shape(r, q, 1, 1)
        \/ WalkOf(r) = At("nobackend") /\ Sound(r)
    <3>1. c.orphans = {}
      BY DEF InOrder
    <3>2. QED
      BY <1>4, <3>1, BeginWalk DEF AtServer
  <2> HIDE DEF r
  <2>6. Len(q) \in Nat /\ Len(q) >= 1
    BY <1>4, <2>1, EmptySeq
  <2>7. \A k, g \in {0, 1} : g <= k /\ Shape(r, q, k, g) =>
           Sound(r) /\ WalkOf(r) = Walking(q, k, g)
    BY <1>4, <2>6, ShapeSound
  <2>8. Goes(c, r)
    BY <1>1, <1>4, <2>5, <2>7 DEF Goes, Moves
  <2>9. QED
    BY <1>2, <1>4, <2>4, <2>8 DEF StartFromVisibleList, named, r
<1>5. QED
  BY <1>3, <1>4

LEMMA CancelGoes ==
    ASSUME NEW c \in Controller, Sound(c), NEW status \in BOOLEAN
    PROVE  Goes(c, Cancel(c, status))
<1>1. CASE ~Busy(c)
  BY <1>1, StillGoes DEF Cancel, Still
<1>2. CASE Busy(c)
  <2> DEFINE told == Emit(c, "cancel_current_operation")
             next == [told EXCEPT !.autoTest = FALSE, !.gen = @ + 1]
  <2>1. told \in Controller
    BY EmitType DEF Calls
  <2> HIDE DEF told
  <2>2. next \in Controller
    BY <2>1, CalledOffType
  <2> HIDE DEF next
  <2>3. c.active
    BY <1>2 DEF Busy, Sound
  <2>4. Goes(c, Finish(next, "cancelled", TRUE, status))
    BY <2>2, <2>3, FinishGoes
  <2>5. QED
    BY <1>2, <2>4 DEF Cancel, next, told
<1>3. QED
  BY <1>1, <1>2

LEMMA EventGoes ==
    ASSUME NEW c \in Controller, Sound(c), InOrder(c),
           NEW event \in Events, NEW status \in BOOLEAN
    PROVE  Goes(c, OnConnectionEvent(c, event, status))
<1> DEFINE up == [DisarmTimers(c) EXCEPT !.expect = FALSE]
           told == [c EXCEPT !.expect = FALSE, !.manual = TRUE]
<1>1. up \in Controller
  BY UpType
<1> HIDE DEF up
<1>2. c.active => Goes(c, Finish(up, "succeeded", FALSE, status))
  BY <1>1, FinishGoes
<1>3. Still(c, told)
  BY DEF Still, Controller
<1>4. Goes(c, told) /\ Goes(c, c)
  BY <1>3, StillGoes DEF Still
<1> HIDE DEF told
<1>5. ASSUME c.active, c.phase = "connecting"
      PROVE  Goes(c, Advance(c, FailureReason(event), status))
  <2>1. InRun(c) /\ Trying(c)
    BY <1>5 DEF InOrder, InRun
  <2>2. FailureReason(event) \in Reasons
    BY DEF FailureReason, Reasons
  <2>3. QED
    BY <2>1, <2>2, GiveUpGoes DEF Still
<1>6. QED
  BY <1>2, <1>4, <1>5 DEF OnConnectionEvent, up, told

LEMMA TimeoutGoes ==
    ASSUME NEW c \in Controller, Sound(c), InOrder(c), c.timeout.armed,
           NEW busy, NEW status \in BOOLEAN
    PROVE  Goes(c, OnTimeout([c EXCEPT !.timeout = Off], c.timeout.gen, busy, status))
<1> DEFINE fired == [c EXCEPT !.timeout = Off]
           later == [fired EXCEPT !.left = Extension]
           again == ArmTimeoutAndTicks(later)
<1>1. InRun(c) /\ Trying(c)
  BY DEF InOrder
<1>2. fired \in Controller /\ Still(c, fired)
  <2>1. fired \in Controller
    BY DEF Controller, Off, Timer
  <2>2. Still(c, fired)
    BY DEF Still, Controller
  <2>3. QED
    BY <2>1, <2>2
<1> HIDE DEF fired
<1>3. Goes(c, Advance(fired, "timeout", status))
  BY <1>1, <1>2, GiveUpGoes DEF Reasons
<1>4. later \in Controller
  BY <1>2, CascadeAssumption DEF Controller
<1>5. Still(c, later)
  BY <1>2 DEF Still, Controller
<1> HIDE DEF later
<1>6. Still(c, again)
  BY <1>4, <1>5 DEF Still, ArmTimeoutAndTicks, DisarmTimers, Controller
<1> HIDE DEF again
<1>7. Goes(c, again) /\ Goes(c, fired)
  BY <1>2, <1>6, StillGoes
<1>8. QED
  BY <1>3, <1>7 DEF OnTimeout, again, later, fired

LEMMA TickGoes ==
    ASSUME NEW c \in Controller, Sound(c), InOrder(c), c.tick.armed, ~Due(c.timeout),
           NEW busy, NEW status \in BOOLEAN
    PROVE  Goes(c, OnTick(c, busy, status))
<1> DEFINE again == [c EXCEPT !.tick.fuse = 1]
           waiting == [again EXCEPT !.left = @ + 1]
           off == [c EXCEPT !.tick = Off]
<1>1. /\ c.timeout.armed /\ c.timeout.fuse <= c.left
      /\ c.timeout.fuse \in Nat /\ c.left \in Nat
  BY DEF InOrder, Controller, Timer
<1>2. c.left # 0
  BY <1>1 DEF Due
<1>3. Still(c, again)
  BY DEF Still, Controller
<1>4. Still(c, waiting)
  BY DEF Still, Controller
<1>5. Still(c, off)
  BY DEF Still, Controller
<1> HIDE DEF again, waiting, off
<1>6. Goes(c, again) /\ Goes(c, waiting) /\ Goes(c, off)
  BY <1>3, <1>4, <1>5, StillGoes
<1>7. QED
  BY <1>2, <1>6 DEF OnTick, again, waiting, off

LEMMA SettledGoes ==
    ASSUME NEW c \in Controller, Sound(c), InOrder(c), c.settle.armed,
           NEW answer, NEW status \in BOOLEAN
    PROVE  Goes(c, OnSettled(c, answer, status))
<1> DEFINE fired == [c EXCEPT !.settle = Off]
           r == TryCurrentServer(fired, answer, status)
           q == c.queue
           g == c.index
<1>1. fired \in Controller
  BY DEF Controller, Off, Timer
<1>2. /\ Still(c, fired) /\ fired.orphans = c.orphans /\ fired.failures = c.failures
  BY DEF Still, Controller
<1> HIDE DEF fired
<1>3. InRun(c) /\ Walked(c) /\ c.orphans = {}
  BY DEF InOrder
<1>4. Walked(fired) /\ fired.active /\ fired.index = g /\ fired.queue = q
  BY <1>2, <1>3 DEF Walked, TriedIn, Still, InRun
<1>5. q \in Queues /\ q # <<>> /\ g \in Nat /\ g <= Len(q) /\ Len(q) \in Nat
  BY <1>3, SoundShape
<1>6. PICK k \in {g, g + 1} :
         k <= Len(q) /\ Shape(c, q, k, g) /\ WalkOf(c) = Walking(q, k, g)
  BY <1>3, SoundShape
<1> HIDE DEF q, g
<1>7. ASSUME g >= Len(q) PROVE Goes(c, r)
  <2>1. WalkOf(c).given = Len(WalkOf(c).list)
    BY <1>5, <1>6, <1>7 DEF Walking
  <2>2. Goes(c, Finish(fired, "exhausted", TRUE, status))
    BY <1>1, <1>3, <2>1, ExhaustGoes DEF InRun
  <2>3. QED
    BY <1>4, <1>7, <2>2 DEF TryCurrentServer, r
<1>8. ASSUME g < Len(q) PROVE Goes(c, r)
  <2>1. Shape(fired, q, k, g)
    BY <1>2, <1>6, StillWalk
  <2>2. AtServer(r, q, g) \/ (WalkOf(r) = At("nobackend") /\ Sound(r))
    BY <1>1, <1>2, <1>3, <1>4, <1>5, <1>8, <2>1, TryCurrentServerWalk
  <2> HIDE DEF r
  <2>3. QED
    BY <1>5, <1>6, <1>8, <2>2, TryGoes
<1>9. Goes(c, r)
  BY <1>5, <1>7, <1>8
<1>10. Goes(c, fired)
  BY <1>2, StillGoes
<1>11. QED
  BY <1>9, <1>10 DEF OnSettled, fired, r

LEMMA PrepareGoes ==
    ASSUME NEW c \in Controller, Sound(c), ~c.active,
           NEW d \in Controller, d.active, d.phase = "preparing"
    PROVE  Goes(c, d)
<1>1. WalkOf(c).state \notin {"preparing", "walking"}
  BY ActivePending
<1>2. WalkOf(d) = At("preparing") /\ Sound(d)
  BY DEF WalkOf, Sound, InRun
<1>3. QED
  BY <1>1, <1>2 DEF Goes, Moves

-----------------------------------------------------------------------------
(* The refinement, for punctual dispatch.                                  *)

LEMMA InitSound == Init => Sound(ctl)
BY DEF Init, InitController, Sound, InRun

LEMMA NextGoes ==
    ASSUME LateDispatch = FALSE, IInv, InOrder(ctl), Sound(ctl), [Next]_vars
    PROVE  Goes(ctl, ctl')
<1> DEFINE now == Quiet(ctl)
<1>1. /\ ctl \in Controller /\ now \in Controller /\ Alike(ctl, now) /\ InOrder(now)
      /\ now.autoTest = ctl.autoTest
  BY QuietType, QuietAlike, AlikeInOrder DEF IInv, TypeOK, Quiet, Controller
<1>2. Sound(now) /\ WalkOf(now) = WalkOf(ctl)
  BY <1>1, AlikeWalk
<1>3. \A r : Goes(now, r) => Goes(ctl, r)
  BY <1>2 DEF Goes
<1>4. Goes(now, now)
  BY <1>2, StillGoes DEF Still
<1> HIDE DEF now
<1>5. CASE Start
  <2>1. PICK q \in Queues, opening \in Openings, status \in BOOLEAN :
           ctl' = StartFromVisibleList(now, q, opening, status)
    BY <1>5 DEF Start, now
  <2>2. ~now.active /\ ~now.autoTest
    BY <1>1, <1>5 DEF Start, Busy, Alike
  <2>3. Goes(now, ctl')
    BY <1>1, <1>2, <2>1, <2>2, StartGoes DEF InRun
  <2>4. QED
    BY <1>3, <2>3
<1>6. CASE StartMeasuring
  <2> DEFINE asked == [now EXCEPT !.autoTest = TRUE]
             shown == ShowPreparing(asked)
             locked == [shown EXCEPT !.testBtn = FALSE]
  <2>1. TriggerSpeedTest(shown) /\ ~ctl.active
    BY <1>6 DEF StartMeasuring, Busy, now
  <2>2. asked \in Controller
    BY <1>1 DEF Controller
  <2> HIDE DEF asked
  <2>3. shown \in Controller
    BY <2>2, ShowPreparingType
  <2>4. shown.active /\ shown.phase = "preparing"
    BY <2>2 DEF ShowPreparing, Controller
  <2> HIDE DEF shown
  <2>5. locked \in Controller /\ locked.active /\ locked.phase = "preparing"
    BY <2>3, <2>4 DEF Controller
  <2>6. ctl' = shown \/ ctl' = locked
    BY <2>1 DEF TriggerSpeedTest
  <2> HIDE DEF locked
  <2>7. Goes(ctl, shown) /\ Goes(ctl, locked)
    BY <1>1, <2>1, <2>3, <2>4, <2>5, PrepareGoes
  <2>8. QED
    BY <2>6, <2>7
<1>7. CASE CancelRun
  <2>1. PICK status \in BOOLEAN : ctl' = Cancel(now, status)
    BY <1>7 DEF CancelRun, now
  <2>2. Goes(now, ctl')
    BY <1>1, <1>2, <2>1, CancelGoes
  <2>3. QED
    BY <1>3, <2>2
<1>8. CASE UserSpeedTest
  <2> DEFINE locked == [now EXCEPT !.testBtn = FALSE]
  <2>1. ctl' = now \/ ctl' = locked
    BY <1>8 DEF UserSpeedTest, TriggerSpeedTest, now
  <2>2. Still(now, locked)
    BY <1>1 DEF Controller, Still
  <2> HIDE DEF locked
  <2>3. Goes(now, ctl')
    BY <1>2, <1>4, <2>1, <2>2, StillGoes
  <2>4. QED
    BY <1>3, <2>3
<1>9. CASE SpeedTestComplete
  <2>1. PICK status \in BOOLEAN :
           LET told == IF test = "cancelling" /\ ctl.autoTest THEN Cancel(now, status)
                                                              ELSE now
               idle == [told EXCEPT !.testBtn = TRUE]
               free == [idle EXCEPT !.autoTest = FALSE]
           IN  IF idle.autoTest /\ idle.active /\ idle.phase = "preparing"
               THEN \E q \in Queues, opening \in Openings :
                       ctl' = StartFromVisibleList(free, q, opening, status)
               ELSE ctl' = free
    BY <1>9 DEF SpeedTestComplete, now
  <2> DEFINE told == IF test = "cancelling" /\ ctl.autoTest THEN Cancel(now, status) ELSE now
             idle == [told EXCEPT !.testBtn = TRUE]
             free == [idle EXCEPT !.autoTest = FALSE]
  <2>2. told \in Controller /\ InOrder(told) /\ Goes(now, told)
        /\ (told = now \/ ~told.autoTest)
    <3>1. CASE test = "cancelling" /\ ctl.autoTest
      <4>1. Cancel(now, status) \in Controller /\ InOrder(Cancel(now, status))
        BY <1>1, CancelType, CancelInOrder
      <4>2. Goes(now, Cancel(now, status))
        BY <1>1, <1>2, CancelGoes
      <4>3. ~Cancel(now, status).autoTest
        <5> DEFINE said == Emit(now, "cancel_current_operation")
                   next == [said EXCEPT !.autoTest = FALSE, !.gen = @ + 1]
        <5>1. said \in Controller
          BY <1>1, EmitType DEF Calls
        <5> HIDE DEF said
        <5>2. next \in Controller
          BY <5>1, CalledOffType
        <5> HIDE DEF next
        <5>3. ~Finish(next, "cancelled", TRUE, status).autoTest
          BY <5>2, FinishEnds DEF Ends
        <5>4. Busy(now)
          BY <1>1, <3>1 DEF Busy
        <5>5. QED
          BY <5>3, <5>4 DEF Cancel, next, said
      <4>4. QED
        BY <3>1, <4>1, <4>2, <4>3
    <3>2. CASE ~(test = "cancelling" /\ ctl.autoTest)
      BY <1>1, <1>4, <3>2
    <3>3. QED
      BY <3>1, <3>2
  <2> HIDE DEF told
  <2>3. idle \in Controller /\ Alike(told, idle) /\ idle.autoTest = told.autoTest
    BY <2>2 DEF Controller, Alike
  <2> HIDE DEF idle
  <2>4. free \in Controller /\ Alike(idle, free) /\ ~free.autoTest
    BY <2>3 DEF Controller, Alike
  <2> HIDE DEF free
  <2>5. Sound(told) /\ Alike(told, free)
    BY <2>2, <2>3, <2>4 DEF Goes, Alike
  <2>6. WalkOf(free) = WalkOf(told) /\ InOrder(free)
    BY <2>2, <2>5, AlikeWalk, AlikeInOrder
  <2>7. Sound(free)
    <3>1. Opened(free) = Opened(told) /\ (InRun(free) <=> InRun(told))
      BY <2>5 DEF Alike, Opened, InRun
    <3>2. QED
      BY <2>4, <2>5, <3>1 DEF Sound, Alike
  <2>8. CASE idle.autoTest /\ idle.active /\ idle.phase = "preparing"
    <3>1. PICK q \in Queues, opening \in Openings :
             ctl' = StartFromVisibleList(free, q, opening, status)
      BY <2>1, <2>8 DEF free, idle, told
    <3>2. ~InRun(free)
      BY <2>4, <2>8 DEF Alike, InRun
    <3>3. Goes(free, ctl')
      BY <2>4, <2>6, <2>7, <3>1, <3>2, StartGoes
    <3>4. told = now
      BY <2>2, <2>3, <2>8
    <3>5. WalkOf(free) = WalkOf(now)
      BY <2>6, <3>4
    <3>6. Goes(now, ctl')
      BY <3>3, <3>5 DEF Goes
    <3>7. QED
      BY <1>3, <3>6
  <2>9. CASE ~(idle.autoTest /\ idle.active /\ idle.phase = "preparing")
    <3>1. ctl' = free
      BY <2>1, <2>9 DEF free, idle, told
    <3>2. Goes(now, free)
      BY <2>2, <2>6, <2>7 DEF Goes
    <3>3. QED
      BY <1>3, <3>1, <3>2
  <2>10. QED
    BY <2>8, <2>9
<1>10. CASE ConnectionEvent
  <2>1. PICK event \in Events, status \in BOOLEAN :
           ctl' = OnConnectionEvent(now, event, status)
    BY <1>10 DEF ConnectionEvent, now
  <2>2. Goes(now, ctl')
    BY <1>1, <1>2, <2>1, EventGoes
  <2>3. QED
    BY <1>3, <2>2
<1>11. CASE TimeoutFires
  <2>1. PICK status \in BOOLEAN :
           ctl' = OnTimeout([now EXCEPT !.timeout = Off], now.timeout.gen, dialog, status)
    BY <1>1, <1>11 DEF TimeoutFires, Alike, now
  <2>2. now.timeout.armed
    BY <1>1, <1>11 DEF TimeoutFires, Due, Alike
  <2>3. Goes(now, ctl')
    BY <1>1, <1>2, <2>1, <2>2, TimeoutGoes
  <2>4. QED
    BY <1>3, <2>3
<1>12. CASE OrphanFires
  BY <1>12 DEF OrphanFires, InOrder
<1>13. CASE TickFires
  <2>1. PICK status \in BOOLEAN : ctl' = OnTick(now, dialog, status)
    BY <1>13 DEF TickFires, now
  <2>2. now.tick.armed /\ ~Due(now.timeout)
    BY <1>1, <1>13 DEF TickFires, NoTimeoutDue, Due, Alike
  <2>3. Goes(now, ctl')
    BY <1>1, <1>2, <2>1, <2>2, TickGoes
  <2>4. QED
    BY <1>3, <2>3
<1>14. CASE SettleFires
  <2>1. PICK answer \in Answers, status \in BOOLEAN : ctl' = OnSettled(now, answer, status)
    BY <1>14 DEF SettleFires, now
  <2>2. now.settle.armed
    BY <1>1, <1>14 DEF SettleFires, Due, Alike
  <2>3. Goes(now, ctl')
    BY <1>1, <1>2, <2>1, <2>2, SettledGoes
  <2>4. QED
    BY <1>3, <2>3
<1>15. CASE Elapse
  <2>1. Still(now, ctl')
    BY <1>1, <1>15 DEF Elapse, Still, now, Controller
  <2>2. Goes(now, ctl')
    BY <1>2, <2>1, StillGoes
  <2>3. QED
    BY <1>3, <2>2
<1>16. CASE OpenDialog \/ CloseDialog
  <2>1. ctl' = now
    BY <1>16 DEF OpenDialog, CloseDialog, now
  <2>2. QED
    BY <1>3, <1>4, <2>1
<1>17. CASE UNCHANGED vars
  <2>1. ctl' = ctl
    BY <1>17 DEF vars
  <2>2. Goes(ctl, ctl)
    BY StillGoes DEF Still
  <2>3. QED
    BY <2>1, <2>2
<1>18. QED
  BY <1>5, <1>6, <1>7, <1>8, <1>9, <1>10, <1>11, <1>12, <1>13, <1>14, <1>15, <1>16, <1>17
     DEF Next, MainLoop

(* Whatever the backend answers and whichever events, timeouts, dialogs    *)
(* and cancellations race, what the user sees is an in-order walk of the   *)
(* candidates that ends only as AutoConnect lets it end.                   *)
THEOREM ImplementsAutoConnect ==
    ASSUME LateDispatch = FALSE
    PROVE  Spec => KeepsPromise
<1>1. Init => Promise!Init
  <2>1. SUFFICES ASSUME Init PROVE Promise!Init
    OBVIOUS
  <2>2. WalkOf(ctl) = At("idle")
    BY <2>1 DEF Init, InitController, WalkOf, InRun
  <2>3. QED
    BY <2>2, WalkIsWalkOf DEF Promise!Init, Promise!At, At
<1>2. IInv /\ InOrder(ctl) /\ Sound(ctl) /\ [Next]_vars =>
         IInv' /\ InOrder(ctl)' /\ Sound(ctl)'
  BY NextIInv, NextInOrder, NextGoes DEF Goes
<1>3. IInv /\ InOrder(ctl) /\ Sound(ctl) /\ [Next]_vars => [Promise!Next]_Walk
  <2>1. SUFFICES ASSUME IInv, InOrder(ctl), Sound(ctl), [Next]_vars
                 PROVE  [Promise!Next]_Walk
    OBVIOUS
  <2>2. Moves(WalkOf(ctl), WalkOf(ctl'))
    BY <2>1, NextGoes DEF Goes
  <2>3. Walk = WalkOf(ctl) /\ Walk' = WalkOf(ctl')
    BY WalkIsWalkOf, WalkIsWalkOfNext
  <2>4. Moves(Walk, Walk')
    BY <2>2, <2>3
  <2>5. QED
    BY <2>4, MovesAreSteps
<1>4. QED
  BY InitIInv, InitInOrder, InitSound, <1>1, <1>2, <1>3, PTL
     DEF Spec, KeepsPromise, Promise!Spec

-----------------------------------------------------------------------------
(* What a step asks of the manager and where it leaves the run: all that a *)
(* backend under the controller has to know of it.  With such a backend a  *)
(* step finds a tunnel exactly if status() says so.                        *)

Called(c, call) == \E i \in 1..Len(c.out) : c.out[i] = call
Silent(c) == ~Called(c, "connect") /\ ~Called(c, "disconnect")

(* A run that waits for no speed test, between two steps.                  *)
Regular(c) ==
    /\ ~c.autoTest
    /\ c.active <=> c.phase \in {"connecting", "settling"}
    /\ c.phase = "connecting" => c.current # NoServer /\ ~c.settle.armed
    /\ c.phase # "preparing"

(* Nothing has happened to the run.                                        *)
LeavesIt(c, d) == d.phase = c.phase /\ d.current = c.current /\ Silent(d)

(* It waits for a tunnel to come down, having asked for that if one was up;*)
(* what was tried is given up.                                             *)
Settles(c, d, status) ==
    /\ d.phase = "settling" /\ ~Called(d, "connect")
    /\ status => Called(d, "disconnect")
    /\ c.phase = "connecting" => Len(d.failures) > Len(c.failures)

(* It tries a server, because no tunnel was up.                            *)
Tries(c, d, status) ==
    /\ ~status /\ d.phase = "connecting" /\ Called(d, "connect")
    /\ d.attempts # <<>>
    /\ d.gen # c.gen \/ Len(d.attempts) > Len(c.attempts)

(* It is over.                                                             *)
RunsOut(c, d) == c.phase = "settling" /\ d.phase = "exhausted" /\ Silent(d)
Succeeds(c, d) == c.active /\ d.phase = "succeeded" /\ Silent(d)
CallsOff(d, status) ==
    /\ d.phase = "cancelled" /\ ~Called(d, "connect")
    /\ status => Called(d, "disconnect")

Follows(c, d, status) ==
    /\ d \in Controller /\ Regular(d)
    /\ LeavesIt(c, d) \/ Settles(c, d, status) \/ Tries(c, d, status) \/ RunsOut(c, d)

LEMMA QuietCalls ==
    ASSUME NEW c \in Controller
    PROVE  \A call : ~Called(Quiet(c), call)
<1>1. Quiet(c).out = <<>> /\ Len(<<>>) = 0
  BY DEF Quiet, Controller
<1>2. QED
  BY <1>1 DEF Called

LEMMA EmitCalls ==
    ASSUME NEW c \in Controller, NEW call \in Calls
    PROVE  \A x : Called(Emit(c, call), x) <=> Called(c, x) \/ x = call
<1> DEFINE d == Emit(c, call)
<1>1. c.out \in Seq(Calls) /\ d.out = Append(c.out, call)
  BY DEF Emit, Controller
<1> HIDE DEF d
<1>2. /\ Len(d.out) = Len(c.out) + 1 /\ Len(c.out) \in Nat
      /\ \A i \in 1..Len(c.out) : d.out[i] = c.out[i]
      /\ d.out[Len(c.out) + 1] = call
  BY <1>1
<1>3. ASSUME NEW x, Called(d, x)
      PROVE  Called(c, x) \/ x = call
  <2>1. PICK i \in 1..Len(d.out) : d.out[i] = x
    BY <1>3 DEF Called
  <2>2. i \in 1..Len(c.out) \/ i = Len(c.out) + 1
    BY <1>2, <2>1
  <2>3. QED
    BY <1>2, <2>1, <2>2 DEF Called
<1>4. ASSUME NEW x, Called(c, x) \/ x = call
      PROVE  Called(d, x)
  <2>1. Len(c.out) + 1 \in 1..Len(d.out) /\ \A i \in 1..Len(c.out) : i \in 1..Len(d.out)
    BY <1>2
  <2>2. QED
    BY <1>2, <1>4, <2>1 DEF Called
<1>5. QED
  BY <1>3, <1>4 DEF d

LEMMA SameCalls ==
    ASSUME NEW c, NEW d, d.out = c.out
    PROVE  \A x : Called(d, x) <=> Called(c, x)
BY DEF Called

(* Closing an attempt asks for nothing and opens none.                     *)
LEMMA CompleteAsks ==
    ASSUME NEW c \in Controller, NEW result \in Results
    PROVE  LET d == CompleteActiveAttempt(c, result)
           IN  /\ d.out = c.out /\ d.autoTest = c.autoTest
               /\ Len(d.attempts) = Len(c.attempts)
<1>1. CASE IsOpen(c)
  <2> DEFINE n == Len(c.attempts)
             closed == [c.attempts[n] EXCEPT !.result = result]
             as == [c.attempts EXCEPT ![n] = closed]
  <2>1. c.attempts \in Seq(Attempt) /\ n \in 1..n
    BY <1>1, EmptySeq DEF IsOpen, Controller
  <2>2. c.attempts[n] \in Attempt
    BY <2>1, ElementOfSeq
  <2>3. closed \in Attempt
    BY <2>2 DEF Attempt
  <2>4. Len(as) = n
    BY <2>1, <2>3, ExceptSeq
  <2>5. CompleteActiveAttempt(c, result) = [c EXCEPT !.attempts = as]
    BY <1>1, <2>1 DEF CompleteActiveAttempt, Controller
  <2> HIDE DEF as
  <2>6. QED
    BY <2>4, <2>5 DEF Controller
<1>2. CASE ~IsOpen(c)
  BY <1>2 DEF CompleteActiveAttempt
<1>3. QED
  BY <1>1, <1>2

LEMMA FinishAsks ==
    ASSUME NEW c \in Controller, NEW phase \in {"succeeded", "exhausted", "cancelled"},
           NEW restore \in BOOLEAN, NEW status \in BOOLEAN
    PROVE  LET d == Finish(c, phase, restore, status)
           IN  /\ d \in Controller /\ ~d.active /\ ~d.autoTest /\ d.phase = phase
               /\ Called(d, "connect") => Called(c, "connect")
               /\ phase # "cancelled" /\ Called(d, "disconnect") => Called(c, "disconnect")
               /\ phase = "cancelled" /\ restore /\ c.phase # "preparing" /\ status
                     => Called(d, "disconnect")
<1> DEFINE ended == [DisarmTimers(c) EXCEPT !.active = FALSE, !.phase = phase,
                        !.expect = FALSE, !.autoTest = FALSE,
                        !.locked = FALSE, !.testBtn = TRUE]
           Over(d) == ~d.active /\ ~d.autoTest /\ d.phase = phase /\ d.out = c.out
           closed == CompleteActiveAttempt(ended, "cancelled")
           told == [closed EXCEPT !.manual = TRUE]
           asked == Emit(told, "disconnect")
           d == Finish(c, phase, restore, status)
<1>1. ended \in Controller
  BY EndedType DEF Phases
<1>2. Over(ended)
  BY DEF DisarmTimers, Controller
<1> HIDE DEF ended
<1>3. \A result \in Results : Over(CompleteActiveAttempt(ended, result))
  BY <1>1, <1>2, CompleteAsks, CompleteKeeps
<1>4. closed \in Controller /\ Over(closed)
  BY <1>1, <1>3, CompleteType DEF Results
<1> HIDE DEF closed
<1>5. told \in Controller /\ Over(told)
  BY <1>4 DEF Controller
<1> HIDE DEF told
<1>6. /\ ~asked.active /\ ~asked.autoTest /\ asked.phase = phase
  BY <1>5 DEF Emit, Controller
<1>7. \A x : Called(asked, x) <=> Called(c, x) \/ x = "disconnect"
  BY <1>5, EmitCalls, SameCalls DEF Calls
<1> HIDE DEF asked
<1>8. \/ phase # "cancelled" /\ Over(d)
      \/ /\ phase = "cancelled" /\ d = closed
         /\ ~(restore /\ c.phase # "preparing" /\ status)
      \/ phase = "cancelled" /\ d = asked
  BY <1>3 DEF Finish, asked, told, closed, ended, Results
<1>9. d \in Controller
  BY FinishType DEF Phases
<1> HIDE DEF d
<1>10. /\ ~d.active /\ ~d.autoTest /\ d.phase = phase
       /\ Called(d, "connect") => Called(c, "connect")
       /\ phase # "cancelled" /\ Called(d, "disconnect") => Called(c, "disconnect")
       /\ phase = "cancelled" /\ restore /\ c.phase # "preparing" /\ status
             => Called(d, "disconnect")
  BY <1>4, <1>6, <1>7, <1>8, SameCalls
<1>11. QED
  BY <1>9, <1>10 DEF d

LEMMA AdvanceAsks ==
    ASSUME NEW c \in Controller, c.active, NEW reason \in Reasons, NEW status \in BOOLEAN
    PROVE  LET d == Advance(c, reason, status)
           IN  /\ d \in Controller /\ d.active /\ d.autoTest = c.autoTest
               /\ d.phase = "settling"
               /\ \A x : Called(d, x) <=> Called(c, x) \/ (status /\ x = "disconnect")
               /\ c.current # NoServer => Len(d.failures) > Len(c.failures)
<1> DEFINE verdict == [server |-> c.current, reason |-> reason]
           blamed == [c EXCEPT !.failures = Append(@, verdict)]
           recorded == RecordFailure(c, reason)
           disarmed == DisarmTimers(recorded)
           moved == [disarmed EXCEPT !.index = @ + 1, !.phase = "settling",
                                     !.expect = TRUE, !.manual = TRUE]
           told == IF status THEN Emit(moved, "disconnect") ELSE moved
           d == Advance(c, reason, status)
<1>1. recorded \in Controller
  BY RecordFailureType
<1>2. /\ recorded.active /\ recorded.autoTest = c.autoTest /\ recorded.out = c.out
      /\ c.current # NoServer => Len(recorded.failures) > Len(c.failures)
  <2>1. CASE c.current = NoServer
    BY <2>1 DEF RecordFailure
  <2>2. CASE c.current # NoServer
    <3>1. c.failures \in Seq(Failure) /\ verdict \in Failure
      BY <2>2 DEF Controller, Failure
    <3> HIDE DEF verdict
    <3>2. /\ Append(c.failures, verdict) \in Seq(Failure)
          /\ Len(Append(c.failures, verdict)) > Len(c.failures)
      BY <3>1
    <3>3. blamed \in Controller
      BY <3>2 DEF Controller
    <3>4. /\ blamed.active /\ blamed.autoTest = c.autoTest /\ blamed.out = c.out
          /\ Len(blamed.failures) > Len(c.failures)
      BY <3>2 DEF Controller
    <3> HIDE DEF blamed
    <3>5. recorded = CompleteActiveAttempt(blamed, reason)
      BY <2>2 DEF RecordFailure, blamed, verdict
    <3> HIDE DEF recorded
    <3>6. reason \in Results
      BY DEF Results
    <3>7. QED
      BY <3>3, <3>4, <3>5, <3>6, CompleteAsks, CompleteKeeps
  <2>3. QED
    BY <2>1, <2>2
<1> HIDE DEF recorded
<1>3. disarmed \in Controller
  BY <1>1, DisarmType
<1>4. /\ disarmed.active /\ disarmed.autoTest = c.autoTest /\ disarmed.out = c.out
      /\ disarmed.failures = recorded.failures
  BY <1>1, <1>2 DEF DisarmTimers, Controller
<1> HIDE DEF disarmed
<1>5. moved \in Controller
  BY <1>3, MovedType
<1>6. /\ moved.active /\ moved.autoTest = c.autoTest /\ moved.out = c.out
      /\ moved.failures = recorded.failures /\ moved.phase = "settling"
  BY <1>3, <1>4 DEF Controller
<1> HIDE DEF moved
<1>7. /\ told \in Controller
      /\ told.active /\ told.autoTest = c.autoTest
      /\ told.failures = recorded.failures /\ told.phase = "settling"
  BY <1>5, <1>6, EmitType DEF Calls, Emit, Controller
<1>8. \A x : Called(told, x) <=> Called(c, x) \/ (status /\ x = "disconnect")
  BY <1>5, <1>6, EmitCalls, SameCalls DEF Calls
<1> HIDE DEF told
<1>9. /\ ArmSettle(told).active /\ ArmSettle(told).autoTest = c.autoTest
      /\ ArmSettle(told).failures = recorded.failures /\ ArmSettle(told).phase = "settling"
      /\ ArmSettle(told).out = told.out
  BY <1>7 DEF ArmSettle, Controller
<1>10. d = ArmSettle(told)
  BY DEF Advance, told, moved, disarmed, recorded
<1>11. d \in Controller
  BY AdvanceType
<1> HIDE DEF d
<1>12. /\ d.active /\ d.autoTest = c.autoTest /\ d.phase = "settling"
       /\ \A x : Called(d, x) <=> Called(c, x) \/ (status /\ x = "disconnect")
       /\ c.current # NoServer => Len(d.failures) > Len(c.failures)
  BY <1>2, <1>8, <1>9, <1>10, SameCalls
<1>13. QED
  BY <1>11, <1>12 DEF d

(* The fields that decide what a step amounts to.                          *)
LEMMA OpenAttemptAsks ==
    ASSUME NEW c \in Controller, c.index < Len(c.queue)
    PROVE  LET d == OpenAttempt(c)
           IN  /\ d \in Controller /\ d.phase = "connecting"
               /\ d.active = c.active /\ d.autoTest = c.autoTest /\ d.gen = c.gen
               /\ d.out = c.out
               /\ d.current # NoServer /\ ~d.settle.armed
               /\ Len(d.attempts) = Len(c.attempts) + 1
<1> DEFINE s == c.queue[c.index + 1]
           entered == [c EXCEPT !.current = s, !.phase = "connecting", !.left = Budget[s],
                         !.attempts = Append(@, [server |-> s, result |-> "open"]),
                         !.expect = FALSE, !.manual = FALSE]
           as == Append(c.attempts, [server |-> s, result |-> "open"])
           d == OpenAttempt(c)
<1>1. c.queue \in Seq(Servers) /\ c.index + 1 \in 1..Len(c.queue)
  BY DEF Controller
<1>2. s \in Servers /\ s # NoServer
  BY <1>1, ElementOfSeq, CascadeAssumption
<1> HIDE DEF s
<1>3. [server |-> s, result |-> "open"] \in Attempt
  BY <1>2 DEF Attempt, Results
<1>4. c.attempts \in Seq(Attempt)
  BY DEF Controller
<1>5. as \in Seq(Attempt) /\ Len(as) = Len(c.attempts) + 1
  BY <1>3, <1>4
<1>6. /\ entered.phase = "connecting" /\ entered.active = c.active
      /\ entered.autoTest = c.autoTest /\ entered.gen = c.gen
      /\ entered.out = c.out /\ entered.current = s /\ entered.attempts = as
  BY DEF Controller
<1> HIDE DEF as
<1>7. entered \in Controller
  BY <1>2, <1>5, EnteredType DEF as
<1> HIDE DEF entered
<1> DEFINE armed == ArmTimeoutAndTicks(entered)
<1>8. /\ armed.phase = "connecting" /\ armed.active = c.active
      /\ armed.autoTest = c.autoTest /\ armed.gen = c.gen
      /\ armed.out = c.out /\ armed.current = s /\ armed.attempts = as
      /\ ~armed.settle.armed
  BY <1>6, <1>7 DEF ArmTimeoutAndTicks, DisarmTimers, Off, Controller
<1> HIDE DEF armed
<1>9. d = armed
  BY DEF OpenAttempt, armed, entered, s
<1>10. d \in Controller
  BY OpenAttemptType
<1> HIDE DEF d
<1>11. QED
  BY <1>2, <1>5, <1>8, <1>9, <1>10 DEF d

(* A session that is still there is asked to end.                          *)
LEMMA StillConnectedAsks ==
    ASSUME NEW c \in Controller, c.active, ~c.autoTest
    PROVE  LET d == StillConnected(c, "up", TRUE)
           IN  /\ d \in Controller /\ d.active /\ ~d.autoTest /\ d.phase = "settling"
               /\ \A x : Called(d, x) <=> Called(c, x) \/ x = "disconnect"
<1> DEFINE again == [c EXCEPT !.retries = @ + 1]
           expecting == [again EXCEPT !.expect = TRUE, !.manual = TRUE, !.phase = "settling"]
           told == Emit(expecting, "disconnect")
           d == StillConnected(c, "up", TRUE)
<1>1. again \in Controller /\ again.active /\ ~again.autoTest /\ again.out = c.out
  <2>1. c.retries + 1 \in Nat
    BY DEF Controller
  <2>2. again \in Controller
    BY <2>1 DEF Controller
  <2>3. again.active /\ ~again.autoTest /\ again.out = c.out
    BY DEF Controller
  <2>4. QED
    BY <2>2, <2>3
<1> HIDE DEF again
<1>2. expecting \in Controller
  BY <1>1 DEF Controller, Phases
<1>3. /\ expecting.active /\ ~expecting.autoTest /\ expecting.out = c.out
      /\ expecting.phase = "settling"
  BY <1>1 DEF Controller
<1> HIDE DEF expecting
<1>4. told \in Controller
  BY <1>2, EmitType DEF Calls
<1>5. told.active /\ ~told.autoTest /\ told.phase = "settling"
  BY <1>2, <1>3 DEF Emit, Controller
<1>6. \A x : Called(told, x) <=> Called(c, x) \/ x = "disconnect"
  BY <1>2, <1>3, EmitCalls, SameCalls DEF Calls
<1> HIDE DEF told
<1>7. /\ ArmSettle(told).active /\ ~ArmSettle(told).autoTest
      /\ ArmSettle(told).phase = "settling" /\ ArmSettle(told).out = told.out
  BY <1>4, <1>5 DEF ArmSettle, Controller
<1> DEFINE given == Advance(again, "disconnect", TRUE)
<1>8. /\ given.active /\ ~given.autoTest /\ given.phase = "settling"
      /\ \A x : Called(given, x) <=> Called(c, x) \/ x = "disconnect"
  <2>1. "disconnect" \in Reasons /\ TRUE \in BOOLEAN
    BY DEF Reasons
  <2>2. /\ given.active /\ given.autoTest = again.autoTest /\ given.phase = "settling"
        /\ \A x : Called(given, x) <=> Called(again, x) \/ (TRUE /\ x = "disconnect")
    BY <1>1, <2>1, AdvanceAsks
  <2> HIDE DEF given
  <2>3. QED
    BY <1>1, <2>2, SameCalls
<1> HIDE DEF given
<1>9. d = ArmSettle(told) \/ d = given
  BY DEF StillConnected, given, told, expecting, again
<1>10. d \in Controller
  BY StillConnectedType
<1> HIDE DEF d
<1>11. QED
  BY <1>6, <1>7, <1>8, <1>9, <1>10, SameCalls DEF d

LEMMA ExhaustAsks ==
    ASSUME NEW c \in Controller, NEW status \in BOOLEAN
    PROVE  LET d == Finish(c, "exhausted", TRUE, status)
           IN  /\ ~d.active /\ ~d.autoTest /\ d.phase = "exhausted"
               /\ \A x \in {"connect", "disconnect"} : Called(d, x) => Called(c, x)
<1> DEFINE d == Finish(c, "exhausted", TRUE, status)
<1>1. ~d.active /\ ~d.autoTest /\ d.phase = "exhausted"
  BY FinishEnds DEF Ends
<1>4. Called(d, "connect") => Called(c, "connect")
  BY FinishAsks
<1>5. Called(d, "disconnect") => Called(c, "disconnect")
  BY FinishAsks
<1> HIDE DEF d
<1>6. QED
  BY <1>1, <1>4, <1>5 DEF d

(* The next server's turn.                                                 *)
LEMMA TryCurrentServerAsks ==
    ASSUME NEW c \in Controller, c.active, ~c.autoTest, \A x : ~Called(c, x),
           NEW status \in BOOLEAN
    PROVE  LET d == TryCurrentServer(c, IF status THEN "up" ELSE "accepts", status)
           IN  /\ d \in Controller /\ Regular(d) /\ d.gen = c.gen
               /\ \/ /\ c.index >= Len(c.queue) /\ d.phase = "exhausted" /\ Silent(d)
                  \/ /\ status /\ d.phase = "settling"
                     /\ ~Called(d, "connect") /\ Called(d, "disconnect")
                  \/ /\ ~status /\ d.phase = "connecting" /\ Called(d, "connect")
                     /\ d.attempts # <<>> /\ Len(d.attempts) > Len(c.attempts)
<1> DEFINE answer == IF status THEN "up" ELSE "accepts"
           d == TryCurrentServer(c, answer, status)
<1>1. d \in Controller /\ d.gen = c.gen
  BY TryCurrentServerType, TryCurrentServerGen
<1>2. CASE c.index >= Len(c.queue)
  <2> DEFINE r == Finish(c, "exhausted", TRUE, status)
  <2>1. ~r.active /\ ~r.autoTest /\ r.phase = "exhausted" /\ Silent(r)
    BY ExhaustAsks DEF Silent
  <2>2. d = r
    BY <1>2 DEF TryCurrentServer
  <2> HIDE DEF d, r
  <2>3. QED
    BY <1>1, <1>2, <2>1, <2>2 DEF Regular, d, answer
<1>3. CASE ~(c.index >= Len(c.queue))
  <2> DEFINE opened  == OpenAttempt(c)
             watched == Emit(opened, "start_watch")
             free    == [watched EXCEPT !.retries = 0]
             asked   == Emit(free, "connect")
             still   == StillConnected(watched, "up", TRUE)
  <2>1. c.index < Len(c.queue)
    BY <1>3 DEF Controller
  <2>2. /\ opened \in Controller /\ opened.phase = "connecting"
        /\ opened.active /\ ~opened.autoTest
        /\ opened.out = c.out
        /\ opened.current # NoServer /\ ~opened.settle.armed
        /\ Len(opened.attempts) = Len(c.attempts) + 1
    BY <2>1, OpenAttemptAsks
  <2> HIDE DEF opened
  <2>3. watched \in Controller
    BY <2>2, EmitType DEF Calls
  <2>4. /\ watched.phase = "connecting" /\ watched.active /\ ~watched.autoTest
        /\ watched.current # NoServer /\ ~watched.settle.armed
        /\ watched.attempts = opened.attempts
    BY <2>2 DEF Emit, Controller
  <2>5. \A x : Called(watched, x) <=> x = "start_watch"
    BY <2>2, EmitCalls, SameCalls DEF Calls
  <2> HIDE DEF watched
  <2>6. CASE status
    <3>1. /\ still \in Controller /\ still.active /\ ~still.autoTest /\ still.phase = "settling"
          /\ \A x : Called(still, x) <=> Called(watched, x) \/ x = "disconnect"
      BY <2>3, <2>4, StillConnectedAsks
    <3>2. d = still
      BY <1>3, <2>6 DEF TryCurrentServer, still, watched, opened
    <3> HIDE DEF d, still
    <3>3. QED
      BY <1>1, <2>5, <2>6, <3>1, <3>2 DEF Regular, d, answer
  <2>7. CASE ~status
    <3>1. free \in Controller
      BY <2>3 DEF Controller
    <3>2. /\ free.phase = "connecting" /\ free.active /\ ~free.autoTest
          /\ free.current # NoServer /\ ~free.settle.armed
          /\ free.attempts = opened.attempts /\ free.out = watched.out
      BY <2>3, <2>4 DEF Controller
    <3> HIDE DEF free
    <3>3. /\ asked.phase = "connecting" /\ asked.active /\ ~asked.autoTest
          /\ asked.current # NoServer /\ ~asked.settle.armed
          /\ asked.attempts = opened.attempts
      BY <3>1, <3>2 DEF Emit, Controller
    <3>4. Called(asked, "connect")
      BY <3>1, EmitCalls DEF Calls
    <3> HIDE DEF asked
    <3>5. d = asked
      BY <1>3, <2>7 DEF TryCurrentServer, asked, free, watched, opened
    <3>6. Len(opened.attempts) > Len(c.attempts) /\ opened.attempts # <<>>
      <4>1. c.attempts \in Seq(Attempt) /\ opened.attempts \in Seq(Attempt)
        BY <2>2 DEF Controller
      <4>2. Len(opened.attempts) > Len(c.attempts) /\ Len(opened.attempts) > 0
        BY <2>2, <4>1
      <4>3. QED
        BY <4>2
    <3> HIDE DEF d
    <3>7. QED
      BY <1>1, <2>7, <3>3, <3>4, <3>5, <3>6 DEF Regular, d, answer
  <2>8. QED
    BY <2>6, <2>7
<1>4. QED
  BY <1>2, <1>3

(* A quiet record of the same run.                                         *)
Same(r, c) ==
    /\ c \in Controller
    /\ c.phase = r.phase /\ c.current = r.current /\ c.gen = r.gen
    /\ c.attempts = r.attempts /\ c.failures = r.failures
    /\ c.active = r.active /\ c.autoTest = r.autoTest
    /\ \A x : ~Called(c, x)

LEMMA QuietSame ==
    ASSUME NEW r \in Controller
    PROVE  /\ Same(r, Quiet(r))
           /\ Quiet(r).settle = r.settle /\ Quiet(r).tick = r.tick
           /\ Quiet(r).orphans = r.orphans
<1> DEFINE c == Quiet(r)
<1>1. Alike(r, c) /\ c \in Controller /\ \A x : ~Called(c, x)
  BY QuietAlike, QuietType, QuietCalls
<1>2. c.autoTest = r.autoTest
  BY DEF Quiet, Controller
<1> HIDE DEF c
<1>3. QED
  BY <1>1, <1>2 DEF Alike, Same, c

(* The server being tried is given up, or one that should be gone.         *)
LEMMA AdvanceFollows ==
    ASSUME NEW r, Regular(r), NEW c, Same(r, c), c.active,
           NEW reason \in Reasons, NEW status \in BOOLEAN
    PROVE  Follows(r, Advance(c, reason, status), status)
<1> DEFINE d == Advance(c, reason, status)
<1>1. c \in Controller /\ ~c.autoTest /\ c.failures = r.failures
      /\ (r.phase = "connecting" => c.current # NoServer) /\ \A x : ~Called(c, x)
  BY DEF Same, Regular
<1>2. /\ d \in Controller /\ d.active /\ d.autoTest = c.autoTest
      /\ d.phase = "settling"
      /\ \A x : Called(d, x) <=> Called(c, x) \/ (status /\ x = "disconnect")
      /\ c.current # NoServer => Len(d.failures) > Len(c.failures)
  BY <1>1, AdvanceAsks
<1> HIDE DEF d
<1>3. Regular(d)
  BY <1>1, <1>2 DEF Regular
<1>4. Settles(r, d, status)
  BY <1>1, <1>2 DEF Settles
<1>5. QED
  BY <1>2, <1>3, <1>4 DEF Follows, d

(* Fields of no concern here may have changed.                             *)
LEMMA LeavesFollows ==
    ASSUME NEW r, Regular(r), NEW d \in Controller, NEW status,
           d.phase = r.phase, d.current = r.current, d.active = r.active,
           d.autoTest = r.autoTest, \A x : ~Called(d, x),
           d.phase = "connecting" => ~d.settle.armed
    PROVE  Follows(r, d, status)
BY DEF Follows, LeavesIt, Regular, Silent

LEMMA TimeoutFollows ==
    ASSUME NEW r, Regular(r), NEW c, Same(r, c), NEW gen, NEW status \in BOOLEAN,
           c.settle = r.settle
    PROVE  Follows(r, OnTimeout(c, gen, FALSE, status), status)
<1>1. CASE ~c.active \/ gen # c.gen
  <2>1. OnTimeout(c, gen, FALSE, status) = c
    BY <1>1 DEF OnTimeout
  <2>2. Follows(r, c, status)
    BY LeavesFollows DEF Same, Regular
  <2>3. QED
    BY <2>1, <2>2
<1>2. CASE ~(~c.active \/ gen # c.gen)
  <2>1. OnTimeout(c, gen, FALSE, status) = Advance(c, "timeout", status)
    BY <1>2 DEF OnTimeout
  <2>2. Follows(r, Advance(c, "timeout", status), status)
    BY <1>2, AdvanceFollows DEF Reasons
  <2>3. QED
    BY <2>1, <2>2
<1>3. QED
  BY <1>1, <1>2

LEMMA FiredFollows ==
    ASSUME NEW r \in Controller, Regular(r), NEW gen, NEW status \in BOOLEAN
    PROVE  Follows(r, OnTimeout([Quiet(r) EXCEPT !.timeout = Off], gen, FALSE, status), status)
<1> DEFINE q == Quiet(r)
           c == [q EXCEPT !.timeout = Off]
<1>1. Same(r, q) /\ q.settle = r.settle
  BY QuietSame
<1> HIDE DEF q
<1>2. q \in Controller
  BY <1>1 DEF Same
<1>3. /\ c \in Controller
      /\ c.phase = q.phase /\ c.current = q.current /\ c.gen = q.gen
      /\ c.attempts = q.attempts /\ c.failures = q.failures
      /\ c.active = q.active /\ c.autoTest = q.autoTest
      /\ c.out = q.out /\ c.settle = q.settle
  <2>1. Off \in Timer
    BY DEF Off, Timer
  <2>2. c \in Controller
    BY <1>2, <2>1 DEF Controller
  <2>3. /\ c.phase = q.phase /\ c.current = q.current /\ c.gen = q.gen
        /\ c.attempts = q.attempts /\ c.failures = q.failures
        /\ c.active = q.active /\ c.autoTest = q.autoTest
        /\ c.out = q.out /\ c.settle = q.settle
    BY <1>2 DEF Controller
  <2>4. QED
    BY <2>2, <2>3
<1> HIDE DEF c
<1>4. \A x : Called(c, x) <=> Called(q, x)
  BY <1>3, SameCalls
<1>5. Same(r, c)
  BY <1>1, <1>3, <1>4 DEF Same
<1>6. QED
  BY <1>1, <1>3, <1>5, TimeoutFollows DEF c, q

LEMMA TickFollows ==
    ASSUME NEW r \in Controller, Regular(r), HasRoom(r), NEW status \in BOOLEAN
    PROVE  Follows(r, OnTick(Quiet(r), FALSE, status), status)
<1> DEFINE c == Quiet(r)
           d == OnTick(c, FALSE, status)
           again == [c EXCEPT !.tick.fuse = 1]
           off == [c EXCEPT !.tick = Off]
           left == ForgetTimeout(c)
<1>1. Same(r, c) /\ c.settle = r.settle /\ c.orphans = r.orphans
  BY QuietSame
<1>2. c \in Controller /\ HasRoom(c)
  BY <1>1 DEF Same, HasRoom
<1>3. d \in Controller
  BY <1>2, OnTickType
<1> HIDE DEF c
<1>4. \A e \in {again, off} :
         /\ e.phase = c.phase /\ e.current = c.current /\ e.active = c.active
         /\ e.autoTest = c.autoTest /\ e.out = c.out /\ e.settle = c.settle
  BY <1>2 DEF Controller
<1>5. left \in Controller
  BY <1>2, ForgetType
<1>6. /\ left.phase = c.phase /\ left.current = c.current /\ left.gen = c.gen
      /\ left.attempts = c.attempts /\ left.failures = c.failures
      /\ left.active = c.active /\ left.autoTest = c.autoTest
      /\ left.out = c.out /\ left.settle = c.settle
  BY <1>2 DEF ForgetTimeout, Controller
<1>7. d \in {again, off} \/ d = OnTimeout(left, c.tick.gen, FALSE, status)
  BY DEF OnTick
<1>8. CASE d \in {again, off}
  <2> HIDE DEF again, off, d
  <2>1. \A x : Called(d, x) <=> Called(c, x)
    BY <1>4, <1>8, SameCalls
  <2>2. /\ d.phase = r.phase /\ d.current = r.current /\ d.active = r.active
        /\ d.autoTest = r.autoTest /\ d.settle = r.settle /\ \A x : ~Called(d, x)
    BY <1>1, <1>4, <1>8, <2>1 DEF Same
  <2>3. d.phase = "connecting" => ~d.settle.armed
    BY <2>2 DEF Regular
  <2>4. Follows(r, d, status)
    BY <1>3, <2>2, <2>3, LeavesFollows
  <2>5. QED
    BY <2>4 DEF d, c
<1>9. CASE d = OnTimeout(left, c.tick.gen, FALSE, status)
  <2> HIDE DEF left, d
  <2>1. \A x : Called(left, x) <=> Called(c, x)
    BY <1>6, SameCalls
  <2>2. Same(r, left) /\ left.settle = r.settle
    BY <1>1, <1>5, <1>6, <2>1 DEF Same
  <2>3. Follows(r, d, status)
    BY <1>9, <2>2, TimeoutFollows
  <2>4. QED
    BY <2>3 DEF d, c
<1>10. QED
  BY <1>7, <1>8, <1>9

LEMMA SettledFollows ==
    ASSUME NEW r \in Controller, Regular(r), r.settle.armed, NEW status \in BOOLEAN
    PROVE  Follows(r, OnSettled(Quiet(r), IF status THEN "up" ELSE "accepts", status), status)
<1> DEFINE c == Quiet(r)
           answer == IF status THEN "up" ELSE "accepts"
           fired == [c EXCEPT !.settle = Off]
           d == TryCurrentServer(fired, answer, status)
           e == OnSettled(c, answer, status)
<1>1. Same(r, c)
  BY QuietSame
<1>2. c \in Controller
  BY <1>1 DEF Same
<1>3. e = IF c.active /\ c.settle.gen = c.gen THEN d ELSE fired
  BY DEF OnSettled
<1> HIDE DEF c, e
<1>4. fired \in Controller
  BY <1>2 DEF Controller, Off, Timer
<1>5. /\ fired.phase = c.phase /\ fired.current = c.current /\ fired.gen = c.gen
      /\ fired.attempts = c.attempts /\ fired.active = c.active
      /\ fired.autoTest = c.autoTest /\ fired.out = c.out /\ ~fired.settle.armed
  BY <1>2 DEF Controller, Off
<1> HIDE DEF fired
<1>6. \A x : ~Called(fired, x)
  BY <1>1, <1>5, SameCalls DEF Same
<1>7. CASE e = fired
  <2>1. Follows(r, fired, status)
    BY <1>1, <1>4, <1>5, <1>6, LeavesFollows DEF Same
  <2>2. QED
    BY <1>7, <2>1 DEF e, c, answer
<1>8. CASE c.active /\ e = d
  <2>1. r.phase = "settling" /\ fired.active /\ ~fired.autoTest
    BY <1>1, <1>5, <1>8 DEF Same, Regular
  <2>2. /\ d \in Controller /\ Regular(d) /\ d.gen = fired.gen
        /\ \/ /\ d.phase = "exhausted" /\ Silent(d)
           \/ /\ status /\ d.phase = "settling"
              /\ ~Called(d, "connect") /\ Called(d, "disconnect")
           \/ /\ ~status /\ d.phase = "connecting" /\ Called(d, "connect")
              /\ d.attempts # <<>> /\ Len(d.attempts) > Len(fired.attempts)
    BY <1>4, <1>6, <2>1, TryCurrentServerAsks
  <2>3. fired.attempts = r.attempts
    BY <1>1, <1>5 DEF Same
  <2> HIDE DEF d
  <2>4. RunsOut(r, d) \/ Settles(r, d, status) \/ Tries(r, d, status)
    BY <2>1, <2>2, <2>3 DEF RunsOut, Settles, Tries
  <2>5. Follows(r, d, status)
    BY <2>2, <2>4 DEF Follows
  <2>6. QED
    BY <1>8, <2>5 DEF e, c, answer
<1>9. QED
  BY <1>3, <1>7, <1>8

LEMMA SuccessAsks ==
    ASSUME NEW c \in Controller, NEW status \in BOOLEAN
    PROVE  LET d == Finish(c, "succeeded", FALSE, status)
           IN  /\ ~d.active /\ ~d.autoTest /\ d.phase = "succeeded"
               /\ \A x \in {"connect", "disconnect"} : Called(d, x) => Called(c, x)
<1> DEFINE d == Finish(c, "succeeded", FALSE, status)
<1>1. ~d.active /\ ~d.autoTest /\ d.phase = "succeeded"
  BY FinishEnds DEF Ends
<1>4. Called(d, "connect") => Called(c, "connect")
  BY FinishAsks
<1>5. Called(d, "disconnect") => Called(c, "disconnect")
  BY FinishAsks
<1> HIDE DEF d
<1>6. QED
  BY <1>1, <1>4, <1>5 DEF d

LEMMA EventFollows ==
    ASSUME NEW r \in Controller, Regular(r), NEW event \in Events, NEW status \in BOOLEAN
    PROVE  LET d == OnConnectionEvent(Quiet(r), event, status)
           IN  \/ Follows(r, d, status)
               \/ event = "connected" /\ d \in Controller /\ Regular(d) /\ Succeeds(r, d)
<1> DEFINE c == Quiet(r)
           up == [DisarmTimers(c) EXCEPT !.expect = FALSE]
           won == Finish(up, "succeeded", FALSE, status)
           told == [c EXCEPT !.expect = FALSE, !.manual = TRUE]
           given == Advance(c, FailureReason(event), status)
           d == OnConnectionEvent(c, event, status)
<1>1. Same(r, c) /\ c.settle = r.settle
  BY QuietSame
<1>2. c \in Controller
  BY <1>1 DEF Same
<1>3. \/ d \in {c, told}
      \/ c.active /\ d = given
      \/ c.active /\ event = "connected" /\ d = won
  BY DEF OnConnectionEvent
<1> HIDE DEF c, d
<1>4. CASE d \in {c, told}
  <2>1. /\ told \in Controller
        /\ told.phase = c.phase /\ told.current = c.current /\ told.active = c.active
        /\ told.autoTest = c.autoTest /\ told.out = c.out /\ told.settle = c.settle
    BY <1>2 DEF Controller
  <2> HIDE DEF told
  <2>2. \A x : Called(d, x) <=> Called(c, x)
    BY <1>4, <2>1, SameCalls
  <2>3. /\ d \in Controller /\ d.phase = r.phase /\ d.current = r.current
        /\ d.active = r.active /\ d.autoTest = r.autoTest /\ d.settle = r.settle
        /\ \A x : ~Called(d, x)
    BY <1>1, <1>2, <1>4, <2>1, <2>2 DEF Same
  <2>4. d.phase = "connecting" => ~d.settle.armed
    BY <2>3 DEF Regular
  <2>5. Follows(r, d, status)
    BY <2>3, <2>4, LeavesFollows
  <2>6. QED
    BY <2>5 DEF d, c
<1>5. CASE c.active /\ d = given
  <2>1. FailureReason(event) \in Reasons
    BY DEF FailureReason, Reasons
  <2>2. Follows(r, given, status)
    BY <1>1, <1>5, <2>1, AdvanceFollows
  <2>3. QED
    BY <1>5, <2>2 DEF d, c
<1>6. CASE c.active /\ event = "connected" /\ d = won
  <2>1. up \in Controller
    BY <1>2, UpType
  <2>2. up.out = c.out
    BY <1>2 DEF DisarmTimers, Controller
  <2> HIDE DEF up
  <2>3. \A x : ~Called(up, x)
    BY <1>1, <2>2, SameCalls DEF Same
  <2>4. won \in Controller
    BY <2>1, FinishType DEF Phases
  <2>5. /\ ~won.active /\ ~won.autoTest /\ won.phase = "succeeded"
        /\ \A x \in {"connect", "disconnect"} : Called(won, x) => Called(up, x)
    BY <2>1, SuccessAsks
  <2> HIDE DEF won
  <2>6. Silent(won) /\ Regular(won)
    BY <2>3, <2>5 DEF Silent, Regular
  <2>7. Succeeds(r, won)
    BY <1>1, <1>6, <2>5, <2>6 DEF Succeeds, Same
  <2>8. QED
    BY <1>6, <2>4, <2>6, <2>7 DEF d, c
<1>7. QED
  BY <1>3, <1>4, <1>5, <1>6

LEMMA CancelFollows ==
    ASSUME NEW r \in Controller, Regular(r), Busy(r), NEW status \in BOOLEAN
    PROVE  LET d == Cancel(Quiet(r), status)
           IN  d \in Controller /\ Regular(d) /\ CallsOff(d, status)
<1> DEFINE c == Quiet(r)
           told == Emit(c, "cancel_current_operation")
           off == [told EXCEPT !.autoTest = FALSE, !.gen = @ + 1]
           d == Cancel(c, status)
           e == Finish(off, "cancelled", TRUE, status)
<1>1. Same(r, c)
  BY QuietSame
<1>2. c \in Controller /\ Busy(c) /\ c.phase # "preparing"
  BY <1>1 DEF Same, Busy, Regular
<1>3. d = e
  BY <1>2 DEF Cancel
<1>4. d \in Controller
  BY <1>2, CancelType
<1> HIDE DEF c, d
<1>5. told \in Controller
  BY <1>2, EmitType DEF Calls
<1>6. \A x : Called(told, x) <=> Called(c, x) \/ x = "cancel_current_operation"
  BY <1>2, EmitCalls DEF Calls
<1>7. told.phase = c.phase
  BY <1>2, EmitAlike DEF Alike
<1> HIDE DEF told
<1>8. off \in Controller
  BY <1>5, CalledOffType
<1>9. off.phase = told.phase /\ off.out = told.out
  BY <1>5 DEF Controller
<1> HIDE DEF off
<1>10. ~Called(off, "connect")
  BY <1>1, <1>6, <1>9, SameCalls DEF Same
<1>11. e.phase = "cancelled"
  BY <1>8, FinishEnds DEF Ends
<1>12. ~e.active
  BY <1>8, FinishEnds DEF Ends
<1>13. ~e.autoTest
  BY <1>8, FinishEnds DEF Ends
<1>14. Called(e, "connect") => Called(off, "connect")
  BY <1>8, FinishAsks
<1>15. status /\ off.phase # "preparing" => Called(e, "disconnect")
  BY <1>8, FinishAsks
<1> HIDE DEF e
<1>16. Regular(e) /\ CallsOff(e, status)
  BY <1>2, <1>7, <1>9, <1>10, <1>11, <1>12, <1>13, <1>14, <1>15 DEF Regular, CallsOff
<1>17. QED
  BY <1>3, <1>4, <1>16 DEF d, c

LEMMA BeginFollows ==
    ASSUME NEW r \in Controller, Regular(r), ~r.active,
           NEW q \in Queues, q # <<>>, NEW status \in BOOLEAN
    PROVE  Follows(r, Begin(Quiet(r), q, IF status THEN "connected" ELSE "accepts", status),
                   status)
<1> DEFINE c == Quiet(r)
           fresh == [c EXCEPT !.gen = @ + 1, !.active = TRUE, !.queue = q, !.index = 0,
                        !.failures = <<>>, !.attempts = <<>>, !.expect = FALSE,
                        !.retries = 0, !.phase = "connecting", !.current = NoServer,
                        !.manual = FALSE, !.locked = TRUE, !.testBtn = FALSE]
           leaving == [fresh EXCEPT !.expect = TRUE, !.manual = TRUE, !.phase = "settling"]
           watched == Emit(leaving, "start_watch")
           told == Emit(watched, "disconnect")
           opening == IF status THEN "connected" ELSE "accepts"
           d == Begin(c, q, opening, status)
<1>1. Same(r, c)
  BY QuietSame
<1>2. c \in Controller
  BY <1>1 DEF Same
<1>3. q \in Seq(Servers) /\ <<>> \in Seq(Failure) /\ <<>> \in Seq(Attempt)
  BY CascadeAssumption, EmptySeq
<1>4. c.gen \in Nat /\ c.gen + 1 \in Nat /\ "connecting" \in Phases
  <2>1. c.gen \in Nat
    BY <1>2 DEF Controller
  <2>2. "connecting" \in Phases
    BY DEF Phases
  <2>3. QED
    BY <2>1, <2>2
<1>5. d \in Controller
  BY <1>2, BeginType
<1>6. d = IF status THEN ArmSettle(told) ELSE TryCurrentServer(fresh, "accepts", FALSE)
  BY DEF Begin
<1> HIDE DEF c, d
<1>7. fresh \in Controller
  BY <1>2, <1>3, <1>4 DEF Controller
<1>8. /\ fresh.active /\ fresh.autoTest = c.autoTest /\ fresh.out = c.out
      /\ fresh.gen = c.gen + 1 /\ fresh.index = 0 /\ fresh.queue = q
  BY <1>2 DEF Controller
<1> HIDE DEF fresh
<1>9. ~fresh.autoTest /\ \A x : ~Called(fresh, x)
  BY <1>1, <1>8, SameCalls DEF Same, Regular
<1>10. r.phase # "connecting"
  BY DEF Regular
<1>11. CASE status
  <2>1. leaving \in Controller
    BY <1>7 DEF Controller, Phases
  <2>2. leaving.active /\ ~leaving.autoTest /\ leaving.phase = "settling"
        /\ leaving.out = fresh.out
    BY <1>7, <1>8, <1>9 DEF Controller
  <2> HIDE DEF leaving
  <2>3. \A x : ~Called(leaving, x)
    BY <1>9, <2>2, SameCalls
  <2>4. watched \in Controller /\ \A x : Called(watched, x) <=> x = "start_watch"
    BY <2>1, <2>3, EmitType, EmitCalls DEF Calls
  <2>5. watched.active /\ ~watched.autoTest /\ watched.phase = "settling"
    BY <2>1, <2>2 DEF Emit, Controller
  <2> HIDE DEF watched
  <2>6. told \in Controller
        /\ \A x : Called(told, x) <=> x \in {"start_watch", "disconnect"}
    BY <2>4, EmitType, EmitCalls DEF Calls
  <2>7. told.active /\ ~told.autoTest /\ told.phase = "settling"
    BY <2>4, <2>5 DEF Emit, Controller
  <2> HIDE DEF told
  <2>8. /\ ArmSettle(told).active /\ ~ArmSettle(told).autoTest
        /\ ArmSettle(told).phase = "settling" /\ ArmSettle(told).out = told.out
    BY <2>6, <2>7 DEF ArmSettle, Controller
  <2>9. d.active /\ ~d.autoTest /\ d.phase = "settling"
        /\ ~Called(d, "connect") /\ Called(d, "disconnect")
    BY <1>6, <1>11, <2>6, <2>8, SameCalls
  <2>10. Regular(d) /\ Settles(r, d, status)
    BY <1>10, <2>9 DEF Regular, Settles
  <2>11. Follows(r, d, status)
    BY <1>5, <2>10 DEF Follows
  <2>12. QED
    BY <2>11 DEF d, c, opening
<1>12. CASE ~status
  <2>1. d = TryCurrentServer(fresh, IF status THEN "up" ELSE "accepts", status)
    BY <1>6, <1>12
  <2>2. /\ Regular(d) /\ d.gen = fresh.gen
        /\ \/ fresh.index >= Len(fresh.queue)
           \/ status
           \/ /\ ~status /\ d.phase = "connecting" /\ Called(d, "connect")
              /\ d.attempts # <<>>
    BY <1>7, <1>8, <1>9, <2>1, TryCurrentServerAsks
  <2>3. Len(q) > 0
    BY <1>3
  <2>4. d.gen # r.gen
    BY <1>1, <1>4, <1>8, <2>2 DEF Same
  <2>5. Tries(r, d, status)
    BY <1>8, <1>12, <2>2, <2>3, <2>4 DEF Tries
  <2>6. Follows(r, d, status)
    BY <1>5, <2>2, <2>5 DEF Follows
  <2>7. QED
    BY <2>6 DEF d, c, opening
<1>13. QED
  BY <1>11, <1>12

LEMMA StartFollows ==
    ASSUME NEW r \in Controller, Regular(r), ~Busy(r), NEW q \in Queues, NEW status \in BOOLEAN
    PROVE  Follows(r, StartFromVisibleList(Quiet(r), q,
                         IF status THEN "connected" ELSE "accepts", status), status)
<1> DEFINE opening == IF status THEN "connected" ELSE "accepts"
           d == StartFromVisibleList(Quiet(r), q, opening, status)
<1>1. Same(r, Quiet(r)) /\ ~r.active /\ ~Quiet(r).active
  BY QuietSame DEF Busy, Same
<1>2. CASE q = <<>>
  <2>1. d = Quiet(r)
    BY <1>1, <1>2 DEF StartFromVisibleList
  <2>2. Quiet(r).phase # "connecting"
    BY <1>1 DEF Regular, Same
  <2>3. Follows(r, Quiet(r), status)
    BY <1>1, <2>2, LeavesFollows DEF Same
  <2>4. QED
    BY <2>1, <2>3
<1>3. CASE q # <<>>
  <2>1. d = Begin(Quiet(r), q, opening, status)
    BY <1>3 DEF StartFromVisibleList
  <2>2. QED
    BY <1>1, <1>3, <2>1, BeginFollows
<1>4. QED
  BY <1>2, <1>3

(* Time leaves the run as it is, when nothing is due.                      *)
LEMMA ElapsedFollows ==
    ASSUME NEW r \in Controller, Regular(r),
           ~Due(r.timeout), ~Due(r.tick), ~Due(r.settle), \A o \in r.orphans : o.fuse > 0
    PROVE  LET d == [Quiet(r) EXCEPT !.left = IF @ > 0 THEN @ - 1 ELSE 0,
                        !.timeout = Elapsed(@), !.tick = Elapsed(@), !.settle = Elapsed(@),
                        !.orphans = {[o EXCEPT !.fuse = @ - 1] : o \in @}]
           IN  /\ d \in Controller /\ Regular(d)
               /\ d.phase = r.phase /\ d.current = r.current
<1> DEFINE c == Quiet(r)
           older == {[o EXCEPT !.fuse = @ - 1] : o \in c.orphans}
           left == IF c.left > 0 THEN c.left - 1 ELSE 0
           d == [c EXCEPT !.left = left,
                    !.timeout = Elapsed(@), !.tick = Elapsed(@), !.settle = Elapsed(@),
                    !.orphans = older]
<1>1. c \in Controller /\ Alike(r, c) /\ c.autoTest = r.autoTest
  BY QuietType, QuietAlike, QuietSame DEF Same
<1>2. /\ ~Due(c.timeout) /\ ~Due(c.tick) /\ ~Due(c.settle)
      /\ \A o \in c.orphans : o.fuse > 0
      /\ c.phase = r.phase /\ c.current = r.current /\ c.active = r.active
      /\ c.settle = r.settle
  BY <1>1 DEF Alike
<1> HIDE DEF c
<1>3. /\ c.timeout \in Timer /\ c.tick \in Timer /\ c.settle \in Timer
      /\ c.left \in Nat /\ c.orphans \subseteq Orphan
  BY <1>1 DEF Controller
<1>4. \A x \in Timer : ~Due(x) => /\ Elapsed(x) \in Timer
                                  /\ Elapsed(x).armed = x.armed
  BY DEF Timer, Due, Elapsed
<1>5. \A o \in Orphan : o.fuse > 0 => [o EXCEPT !.fuse = @ - 1] \in Orphan
  BY DEF Orphan
<1>6. older \subseteq Orphan
  BY <1>2, <1>3, <1>5
<1>7. left \in Nat
  BY <1>3
<1> HIDE DEF older, left
<1>8. d \in Controller
  BY <1>1, <1>2, <1>3, <1>4, <1>6, <1>7 DEF Controller
<1>9. /\ d.settle = Elapsed(c.settle) /\ d.active = c.active /\ d.phase = c.phase
      /\ d.autoTest = c.autoTest /\ d.current = c.current
  BY <1>1 DEF Controller
<1> HIDE DEF d
<1>10. Regular(d)
  BY <1>1, <1>2, <1>3, <1>4, <1>9 DEF Regular
<1>11. QED
  BY <1>2, <1>8, <1>9, <1>10 DEF d, left, older, c

LEMMA InitRegular == InitController \in Controller /\ Regular(InitController)
<1>1. <<>> \in Seq(Servers) /\ <<>> \in Seq(Failure) /\ <<>> \in Seq(Attempt)
      /\ <<>> \in Seq(Calls)
  BY EmptySeq
<1>2. Off \in Timer /\ "idle" \in Phases
  BY DEF Off, Timer, Phases
<1>3. InitController \in Controller
  BY <1>1, <1>2 DEF InitController, Controller
<1>4. Regular(InitController)
  BY DEF InitController, Regular
<1>5. QED
  BY <1>3, <1>4

=============================================================================
