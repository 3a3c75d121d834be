------------------------------ MODULE Cascade ------------------------------
(***************************************************************************)
(* The cascading auto-connect controller (eovpn/cascade_controller.py) and *)
(* the part of the main window that drives it: the speed test it waits for *)
(* in PREPARING, the modal dialogs that pause it, the GLib timeout sources *)
(* it arms, and the connection events it is given.                         *)
(*                                                                         *)
(* The connection manager is open here: every call of status() may answer  *)
(* either way, connect() may fail, and any event may arrive at any time.   *)
(* What holds in this module therefore holds over every backend.  The      *)
(* calls a step makes to the manager are left in ctl.out, for the modules  *)
(* that compose the controller with a particular backend.                  *)
(*                                                                         *)
(* A handler of the code is a chain of methods that call one another, so   *)
(* each method is an operator from the controller's record to the record   *)
(* it leaves, and an action is one callback of the GLib main loop.  Time   *)
(* is counted in ticks (PROGRESS_TICK_MS); counters are relative to "now". *)
(***************************************************************************)
EXTENDS Integers, Sequences, FiniteSets

CONSTANTS
    Servers,      \* configuration files
    NoServer,     \* "no current server"
    Queues,       \* the queues build_cascade_queue may return (<<>> included)
    Budget,       \* Budget[s]: compute_attempt_timeout for s, in ticks
    Extension,    \* the 4 s a due timeout is put off by while a dialog is open
    Settle,       \* DISCONNECT_SETTLE_SECONDS, in ticks
    OrphanIds,    \* bound: sources the scheduler may hold that no field names
    LateDispatch, \* TRUE: the main loop may run a due tick before a due timeout
    Dialogs,      \* TRUE: modal dialogs (OTP) may open
    MaxGen        \* bound: no run is started once gen has reached it

ASSUME CascadeAssumption ==
    /\ NoServer \notin Servers
    /\ Queues \subseteq Seq(Servers)
    /\ \A q \in Queues : \A i, j \in 1..Len(q) : q[i] = q[j] => i = j
    /\ Budget \in [Servers -> Nat \ {0}]
    /\ Extension \in Nat \ {0}
    /\ Settle \in Nat \ {0}
    /\ \A s \in Servers : Settle < Budget[s]
    /\ LateDispatch \in BOOLEAN
    /\ Dialogs \in BOOLEAN
    /\ MaxGen \in Nat

VARIABLES
    ctl,       \* the controller's fields, its timers, manual_disconnect
    dialog,    \* _user_is_busy(): a modal window is mapped
    test,      \* the speed test: "idle", "running" or "cancelling"
    measured   \* win.latencies is not empty

vars == <<ctl, dialog, test, measured>>

-----------------------------------------------------------------------------
(* Timers.  A source remembers the generation captured by its closure and  *)
(* how many ticks are left; Off stands for a field that is None.           *)

Off == [armed |-> FALSE, gen |-> 0, fuse |-> 0]
On(gen, fuse) == [armed |-> TRUE, gen |-> gen, fuse |-> fuse]
Due(timer) == timer.armed /\ timer.fuse = 0
Elapsed(timer) == IF timer.armed THEN [timer EXCEPT !.fuse = @ - 1] ELSE timer

Timer == [armed : BOOLEAN, gen : Nat, fuse : Nat]
Orphan == [id : OrphanIds, gen : Nat, fuse : Nat]

Reasons == {"auth", "error", "disconnect", "timeout", "missing"}
Results == Reasons \cup {"open", "success", "cancelled", "backend_error"}
Attempt == [server : Servers, result : Results]
Failure == [server : Servers, reason : Reasons]
Phases == {"idle", "preparing", "connecting", "settling", "succeeded", "exhausted", "cancelled"}
Calls == {"start_watch", "connect", "disconnect", "cancel_current_operation"}

Controller ==
    [active   : BOOLEAN,                   \* self.active
     autoTest : BOOLEAN,                   \* self.auto_cascade_after_test
     phase    : Phases,
     gen      : Nat,
     queue    : Seq(Servers),
     index    : Nat,                       \* 0-based, as in the code
     current  : Servers \cup {NoServer},
     failures : Seq(Failure),
     attempts : Seq(Attempt),              \* _active_attempt is the last of them
     expect   : BOOLEAN,                   \* self.expect_disconnect
     retries  : Nat,                       \* self.disconnect_retries
     left     : Nat,                       \* self.deadline - now
     timeout  : Timer,                     \* the source _timeout_id names
     tick     : Timer,                     \* the source _tick_id names
     settle   : Timer,                     \* the source _settle_id names
     orphans  : SUBSET Orphan,             \* live timeout sources no field names
     manual   : BOOLEAN,                   \* win.manual_disconnect
     locked   : BOOLEAN,                   \* controls insensitive
     testBtn  : BOOLEAN,                   \* speed_test_btn sensitive
     out      : Seq(Calls)]                \* manager calls of the last step

InitController ==
    [active |-> FALSE, autoTest |-> FALSE, phase |-> "idle", gen |-> 0,
     queue |-> <<>>, index |-> 0, current |-> NoServer,
     failures |-> <<>>, attempts |-> <<>>, expect |-> FALSE, retries |-> 0,
     left |-> 0, timeout |-> Off, tick |-> Off, settle |-> Off, orphans |-> {},
     manual |-> FALSE, locked |-> FALSE, testBtn |-> TRUE, out |-> <<>>]

Busy(c) == c.active \/ c.autoTest

Emit(c, call) == [c EXCEPT !.out = Append(@, call)]
Quiet(c) == [c EXCEPT !.out = <<>>]

DisarmTimers(c) == [c EXCEPT !.timeout = Off, !.tick = Off, !.settle = Off]

ArmTimeoutAndTicks(c) ==
    [DisarmTimers(c) EXCEPT !.timeout = On(c.gen, c.left), !.tick = On(c.gen, 1)]

ArmSettle(c) == [c EXCEPT !.settle = On(c.gen, Settle)]

(* _timeout_id = None while the source it named is still attached.         *)
FreshId(c) == CHOOSE i \in OrphanIds : \A o \in c.orphans : o.id # i
HasRoom(c) == \E i \in OrphanIds : \A o \in c.orphans : o.id # i

ForgetTimeout(c) ==
    IF c.timeout.armed
    THEN [c EXCEPT !.timeout = Off,
                   !.orphans = @ \cup {[id |-> FreshId(c), gen |-> c.timeout.gen,
                                        fuse |-> c.timeout.fuse]}]
    ELSE c

-----------------------------------------------------------------------------
(* Attempts and the end of a run.                                          *)

IsOpen(c) == c.attempts # <<>> /\ c.attempts[Len(c.attempts)].result = "open"

CompleteActiveAttempt(c, result) ==
    IF IsOpen(c)
    THEN [c EXCEPT !.attempts[Len(c.attempts)].result = result]
    ELSE c

(* Mutants of Finish: the phase is written as the attempt's result; the    *)
(* speed-test button is left locked.                                       *)
FinishPhaseAsResult(c, phase, restore, status) ==
    CompleteActiveAttempt([DisarmTimers(c) EXCEPT !.active = FALSE, !.phase = phase,
        !.expect = FALSE, !.autoTest = FALSE, !.locked = FALSE, !.testBtn = TRUE], phase)

FinishButtonLocked(c, phase, restore, status) ==
    CompleteActiveAttempt([DisarmTimers(c) EXCEPT !.active = FALSE, !.phase = phase,
        !.expect = FALSE, !.autoTest = FALSE, !.locked = FALSE], "success")

(* status: what cm.status() answers where this method asks.                *)
Finish(c, phase, restore, status) ==
    LET wasPreparing == c.phase = "preparing"
        ended == [DisarmTimers(c) EXCEPT !.active = FALSE, !.phase = phase,
                     !.expect = FALSE, !.autoTest = FALSE,
                     !.locked = FALSE, !.testBtn = TRUE]
    IN  CASE phase = "succeeded" -> CompleteActiveAttempt(ended, "success")
          [] phase = "cancelled" ->
               LET closed == CompleteActiveAttempt(ended, "cancelled")
               IN  IF restore /\ ~wasPreparing /\ status
                   THEN Emit([closed EXCEPT !.manual = TRUE], "disconnect")
                   ELSE closed
          [] OTHER -> CompleteActiveAttempt(ended, "backend_error")

(* The current attempt failed: record it, drop the timers, move on.        *)
RecordFailure(c, reason) ==
    IF c.current = NoServer THEN c
    ELSE CompleteActiveAttempt(
           [c EXCEPT !.failures = Append(@, [server |-> c.current, reason |-> reason])],
           reason)

(* Mutants of Advance: the failed attempt's timers stay armed; the settle  *)
(* timer is armed only when there was a tunnel to take down.               *)
AdvanceKeepsTimers(c, reason, status) ==
    IF ~c.active THEN c
    ELSE LET moved == [RecordFailure(c, reason) EXCEPT
                          !.index = @ + 1, !.phase = "settling",
                          !.expect = TRUE, !.manual = TRUE]
         IN  ArmSettle(IF status THEN Emit(moved, "disconnect") ELSE moved)

AdvanceSettlesOnlyIfUp(c, reason, status) ==
    IF ~c.active THEN c
    ELSE LET moved == [DisarmTimers(RecordFailure(c, reason)) EXCEPT
                          !.index = @ + 1, !.phase = "settling",
                          !.expect = TRUE, !.manual = TRUE]
         IN  IF status THEN ArmSettle(Emit(moved, "disconnect")) ELSE moved

Advance(c, reason, status) ==
    IF ~c.active THEN c
    ELSE LET moved == [DisarmTimers(RecordFailure(c, reason)) EXCEPT
                          !.index = @ + 1, !.phase = "settling",
                          !.expect = TRUE, !.manual = TRUE]
         IN  ArmSettle(IF status THEN Emit(moved, "disconnect") ELSE moved)

-----------------------------------------------------------------------------
(* One attempt.  answer is what the manager does in this call:             *)
(*   none      CM() is None                 raises    status() raises      *)
(*   up        still connected              upRaises  ... disconnect fails *)
(*   missing   not connected, no such file                                 *)
(*   refuses   connect() raises             accepts   connect() is queued  *)

Answers == {"none", "raises", "up", "upRaises", "missing", "refuses", "accepts"}

OpenAttempt(c) ==
    LET s == c.queue[c.index + 1]
    IN  ArmTimeoutAndTicks(
          [c EXCEPT !.current = s, !.phase = "connecting", !.left = Budget[s],
                    !.attempts = Append(@, [server |-> s, result |-> "open"]),
                    !.expect = FALSE, !.manual = FALSE])

(* Mutant of StillConnected: no limit on the retries.                      *)
StillConnectedForever(c, answer, status) ==
    LET expecting == [c EXCEPT !.retries = (@ + 1) % 4, !.expect = TRUE,
                               !.manual = TRUE, !.phase = "settling"]
    IN  IF answer = "upRaises" THEN Advance(expecting, "error", status)
        ELSE ArmSettle(Emit(expecting, "disconnect"))

StillConnected(c, answer, status) ==
    LET again == [c EXCEPT !.retries = @ + 1]
        expecting == [again EXCEPT !.expect = TRUE, !.manual = TRUE, !.phase = "settling"]
    IN  IF again.retries > 3 THEN Advance(again, "disconnect", status)
        ELSE IF answer = "upRaises" THEN Advance(expecting, "error", status)
        ELSE ArmSettle(Emit(expecting, "disconnect"))

TryCurrentServer(c, answer, status) ==
    IF ~c.active THEN c
    ELSE IF c.index >= Len(c.queue) THEN Finish(c, "exhausted", TRUE, status)
    ELSE LET opened  == OpenAttempt(c)
             watched == Emit(opened, "start_watch")
             free    == [watched EXCEPT !.retries = 0]
         IN  CASE answer = "none"    -> Finish(opened, "exhausted", TRUE, status)
               [] answer = "raises"  -> Advance(watched, "error", status)
               [] answer \in {"up", "upRaises"} -> StillConnected(watched, answer, status)
               [] answer = "missing" -> Advance(free, "missing", status)
               [] answer = "refuses" -> Advance(free, "error", status)
               [] OTHER              -> Emit(free, "connect")

-----------------------------------------------------------------------------
(* Starting and cancelling a run.                                          *)

(* What the manager answers when a run starts: the tunnel already is the   *)
(* head of the queue, some tunnel is up, or none is and the first attempt  *)
(* is opened at once.                                                      *)
Openings == Answers \cup {"already", "connected"}

Begin(c, q, opening, status) ==
    LET fresh == [c EXCEPT !.gen = @ + 1, !.active = TRUE, !.queue = q, !.index = 0,
                     !.failures = <<>>, !.attempts = <<>>, !.expect = FALSE,
                     !.retries = 0, !.phase = "connecting", !.current = NoServer,
                     !.manual = FALSE, !.locked = TRUE, !.testBtn = FALSE]
    IN  IF opening = "connected"
        THEN ArmSettle(Emit(Emit([fresh EXCEPT !.expect = TRUE, !.manual = TRUE,
                                               !.phase = "settling"],
                                 "start_watch"), "disconnect"))
        ELSE TryCurrentServer(fresh, opening, status)

StartFromVisibleList(c, q, opening, status) ==
    IF q = <<>>
    THEN IF c.active THEN Finish(c, "exhausted", TRUE, status) ELSE c
    ELSE IF opening = "already"
    THEN IF c.active
         THEN Finish([c EXCEPT !.current = Head(q)], "succeeded", TRUE, status)
         ELSE c
    ELSE Begin(c, q, opening, status)

(* Mutant of ShowPreparing: the run keeps the previous run's generation.   *)
ShowPreparingSameGen(c) ==
    [c EXCEPT !.active = TRUE, !.phase = "preparing",
              !.queue = <<>>, !.index = 0, !.current = NoServer]

ShowPreparing(c) ==
    [c EXCEPT !.active = TRUE, !.gen = @ + 1, !.phase = "preparing",
              !.queue = <<>>, !.index = 0, !.current = NoServer]

Cancel(c, status) ==
    IF ~Busy(c) THEN c
    ELSE Finish([Emit(c, "cancel_current_operation") EXCEPT
                    !.autoTest = FALSE, !.gen = @ + 1],
                "cancelled", TRUE, status)

-----------------------------------------------------------------------------
(* Events and timers.                                                      *)

(* What the controller tells apart in a ConnectionEvent: its kind and, for *)
(* a FAILED, what the error text says.                                     *)
Events == {"connected", "progress", "paused", "disconnected",
           "auth", "definitive", "generic"}

FailureReason(event) ==
    CASE event = "auth" -> "auth"
      [] event \in {"definitive", "generic"} -> "error"
      [] OTHER -> "disconnect"

(* Mutant of OnConnectionEvent: a second disconnection while settling is   *)
(* taken for the next attempt's.                                           *)
OnConnectionEventAnyPhase(c, event, status) ==
    IF ~c.active \/ event \in {"progress", "paused"} THEN c
    ELSE IF event = "connected"
    THEN Finish([DisarmTimers(c) EXCEPT !.expect = FALSE], "succeeded", FALSE, status)
    ELSE IF c.phase = "settling" /\ c.expect
    THEN [c EXCEPT !.expect = FALSE, !.manual = TRUE]
    ELSE IF event # "generic"
    THEN Advance(c, FailureReason(event), status)
    ELSE c

OnConnectionEvent(c, event, status) ==
    IF ~c.active \/ event \in {"progress", "paused"} THEN c
    ELSE IF event = "connected"
    THEN Finish([DisarmTimers(c) EXCEPT !.expect = FALSE], "succeeded", FALSE, status)
    ELSE IF c.phase = "settling" /\ c.expect
    THEN [c EXCEPT !.expect = FALSE, !.manual = TRUE]
    ELSE IF c.phase = "connecting" /\ event # "generic"
    THEN Advance(c, FailureReason(event), status)
    ELSE c

(* Mutant of OnTimeout: a tunnel that looks up is given time again, and    *)
(* again.                                                                  *)
OnTimeoutPatient(c, gen, busy, status) ==
    IF ~c.active \/ gen # c.gen THEN c
    ELSE IF busy \/ status THEN ArmTimeoutAndTicks([c EXCEPT !.left = Extension])
    ELSE Advance(c, "timeout", status)

(* c: the record after _timeout_id has been set to None.                   *)
OnTimeout(c, gen, busy, status) ==
    IF ~c.active \/ gen # c.gen THEN c
    ELSE IF busy THEN ArmTimeoutAndTicks([c EXCEPT !.left = Extension])
    ELSE Advance(c, "timeout", status)

OnTick(c, busy, status) ==
    LET again == [c EXCEPT !.tick.fuse = 1]
    IN  IF ~c.active \/ c.tick.gen # c.gen THEN [c EXCEPT !.tick = Off]
        ELSE IF busy THEN [again EXCEPT !.left = @ + 1]
        ELSE IF c.left = 0 THEN OnTimeout(ForgetTimeout(c), c.tick.gen, FALSE, status)
        ELSE again

OnSettled(c, answer, status) ==
    LET fired == [c EXCEPT !.settle = Off]
    IN  IF c.active /\ c.settle.gen = c.gen
        THEN TryCurrentServer(fired, answer, status)
        ELSE fired

-----------------------------------------------------------------------------
(* The main window's speed test.                                           *)

(* trigger_speed_test: a second call while one runs cancels it.            *)
TriggerSpeedTest(c) ==
    IF test # "idle"
    THEN /\ test' = "cancelling"
         /\ ctl' = [c EXCEPT !.testBtn = FALSE]
    ELSE IF c.testBtn
    THEN /\ test' = "running"
         /\ ctl' = c
    ELSE /\ ctl' = c
         /\ UNCHANGED test

-----------------------------------------------------------------------------
Init ==
    /\ ctl = InitController
    /\ dialog = FALSE
    /\ test = "idle"
    /\ measured = FALSE

(* "Connect Fastest" while idle, latencies known.                          *)
Start ==
    /\ ~Busy(ctl) /\ measured /\ ctl.gen < MaxGen
    /\ \E q \in Queues, opening \in Openings, status \in BOOLEAN :
          ctl' = StartFromVisibleList(Quiet(ctl), q, opening, status)
    /\ UNCHANGED <<dialog, test, measured>>

(* "Connect Fastest" while idle, no latencies yet: measure first.          *)
StartMeasuring ==
    /\ ~Busy(ctl) /\ ~measured /\ ctl.gen < MaxGen
    /\ TriggerSpeedTest(ShowPreparing([Quiet(ctl) EXCEPT !.autoTest = TRUE]))
    /\ UNCHANGED <<dialog, measured>>

(* "Connect Fastest", the banner's Cancel or Connect, while busy.          *)
CancelRun ==
    /\ Busy(ctl)
    /\ \E status \in BOOLEAN : ctl' = Cancel(Quiet(ctl), status)
    /\ UNCHANGED <<dialog, test, measured>>

(* The Speed Test button, or Sort by speed before anything is measured.    *)
UserSpeedTest ==
    /\ ctl.testBtn
    /\ TriggerSpeedTest(Quiet(ctl))
    /\ UNCHANGED <<dialog, measured>>

(* on_speed_test_complete.  The completed test resumes a PREPARING run.    *)
SpeedTestComplete ==
    /\ test # "idle"
    /\ test' = "idle"
    /\ measured' = (measured \/ test = "running")
    /\ \E status \in BOOLEAN :
         LET told == IF test = "cancelling" /\ ctl.autoTest THEN Cancel(Quiet(ctl), status)
                                                            ELSE Quiet(ctl)
             idle == [told EXCEPT !.testBtn = TRUE]
             free == [idle EXCEPT !.autoTest = FALSE]
         IN  IF idle.autoTest /\ idle.active /\ idle.phase = "preparing"
             THEN \E q \in Queues, opening \in Openings :
                     ctl' = StartFromVisibleList(free, q, opening, status)
             ELSE ctl' = free
    /\ UNCHANGED dialog

ConnectionEvent ==
    /\ \E event \in Events, status \in BOOLEAN :
          ctl' = OnConnectionEvent(Quiet(ctl), event, status)
    /\ UNCHANGED <<dialog, test, measured>>

TimeoutFires ==
    /\ Due(ctl.timeout)
    /\ \E status \in BOOLEAN :
          ctl' = OnTimeout([Quiet(ctl) EXCEPT !.timeout = Off],
                           ctl.timeout.gen, dialog, status)
    /\ UNCHANGED <<dialog, test, measured>>

(* A source nobody removed still runs, and clears whatever id is recorded. *)
OrphanFires ==
    /\ \E o \in ctl.orphans, status \in BOOLEAN :
          /\ o.fuse = 0
          /\ LET c == [Quiet(ctl) EXCEPT !.orphans = @ \ {o}]
             IN  /\ HasRoom(c)
                 /\ ctl' = OnTimeout(ForgetTimeout(c), o.gen, dialog, status)
    /\ UNCHANGED <<dialog, test, measured>>

NoTimeoutDue == ~Due(ctl.timeout) /\ \A o \in ctl.orphans : o.fuse > 0

(* GLib runs two sources that became ready together in the order they were *)
(* attached, the timeout first; a tick that became ready in an earlier     *)
(* iteration, and is dispatched late, sees the deadline passed before the  *)
(* timeout source has had its turn.                                        *)
TickFires ==
    /\ Due(ctl.tick)
    /\ LateDispatch \/ NoTimeoutDue
    /\ HasRoom(ctl)
    /\ \E status \in BOOLEAN : ctl' = OnTick(Quiet(ctl), dialog, status)
    /\ UNCHANGED <<dialog, test, measured>>

SettleFires ==
    /\ Due(ctl.settle)
    /\ \E answer \in Answers, status \in BOOLEAN :
          ctl' = OnSettled(Quiet(ctl), answer, status)
    /\ UNCHANGED <<dialog, test, measured>>

(* One tick of time passes once every due source has been dispatched.      *)
Elapse ==
    /\ NoTimeoutDue /\ ~Due(ctl.tick) /\ ~Due(ctl.settle)
    /\ ctl' = [Quiet(ctl) EXCEPT
                  !.left = IF @ > 0 THEN @ - 1 ELSE 0,
                  !.timeout = Elapsed(@), !.tick = Elapsed(@), !.settle = Elapsed(@),
                  !.orphans = {[o EXCEPT !.fuse = @ - 1] : o \in @}]
    /\ UNCHANGED <<dialog, test, measured>>

OpenDialog ==
    /\ Dialogs /\ ~dialog
    /\ dialog' = TRUE
    /\ ctl' = Quiet(ctl)
    /\ UNCHANGED <<test, measured>>

CloseDialog ==
    /\ dialog
    /\ dialog' = FALSE
    /\ ctl' = Quiet(ctl)
    /\ UNCHANGED <<test, measured>>

MainLoop == TimeoutFires \/ OrphanFires \/ TickFires \/ SettleFires \/ Elapse

Next ==
    \/ Start \/ StartMeasuring \/ CancelRun \/ UserSpeedTest \/ SpeedTestComplete
    \/ ConnectionEvent \/ OpenDialog \/ CloseDialog
    \/ MainLoop

Spec == Init /\ [][Next]_vars

(* GLib dispatches what is due and time passes; the speed test's worker    *)
(* threads have their own socket timeouts and always complete.             *)
Fairness == WF_vars(MainLoop) /\ WF_vars(SpeedTestComplete)

FairSpec == Spec /\ Fairness
-----------------------------------------------------------------------------
(* Properties.                                                             *)

TypeOK ==
    /\ ctl \in Controller
    /\ dialog \in BOOLEAN
    /\ test \in {"idle", "running", "cancelling"}
    /\ measured \in BOOLEAN

Running == ctl.active /\ ctl.phase \in {"connecting", "settling"}

(* A source of the run's own generation is attached: it will be dispatched *)
(* and it will be obeyed.                                                  *)
HasSource(c) ==
    \/ c.timeout.armed /\ c.timeout.gen = c.gen
    \/ c.settle.armed /\ c.settle.gen = c.gen
    \/ \E o \in c.orphans : o.gen = c.gen

Moving(c) == c.active => c.phase \in {"connecting", "settling"} /\ HasSource(c)
Waiting(c) == c.active /\ c.phase = "preparing" /\ c.autoTest

(* A run that is active always has something left that will move it on: a  *)
(* speed test it waits for, or a source of its own generation.  Every path *)
(* that disarms timers (advance, the busy branch of _on_timeout, a source  *)
(* that clears an id it does not own) must leave one behind.               *)
NeverStuck == (Waiting(ctl) /\ test # "idle") \/ Moving(ctl)

(* trigger_speed_test returns early while its button is insensitive: the   *)
(* button is never left so once the run that locked it is over, or else    *)
(* the next run would wait in PREPARING for a test that never started.     *)
TestButtonAlive == ctl.testBtn \/ ctl.active \/ test # "idle"

(* advance() gives every server exactly one verdict, in queue order: the   *)
(* failures recorded are those of the servers before index, none skipped   *)
(* and none blamed twice, whatever events and timeouts race.               *)
VerdictsFollowQueue ==
    Running =>
        /\ Len(ctl.failures) = ctl.index
        /\ ctl.index <= Len(ctl.queue)
        /\ \A i \in 1..ctl.index : ctl.failures[i].server = ctl.queue[i]

Tried(s) == \E i \in 1..Len(ctl.attempts) : ctl.attempts[i].server = s

BackendGone ==
    /\ ctl.attempts # <<>>
    /\ ctl.attempts[Len(ctl.attempts)].result = "backend_error"

(* A run that ends EXHAUSTED opened an attempt for every server of its     *)
(* queue (the button promises to "try all eligible servers"), unless the   *)
(* backend disappeared under it.                                           *)
ExhaustedTriedAll ==
    ctl.phase = "exhausted" /\ ~BackendGone =>
        \A i \in 1..Len(ctl.queue) : Tried(ctl.queue[i])

(* disconnect_retries bounds how often one server is re-opened because the *)
(* previous session would not go down: no server has more than 4 attempts. *)
AttemptsBounded ==
    \A s \in Servers :
        Cardinality({i \in 1..Len(ctl.attempts) : ctl.attempts[i].server = s}) <= 4

(* A cancelled or finished run comes back only as a new generation, so no  *)
(* source armed before can act on it.                                      *)
RevivedOnlyAsNewRun == [][~ctl.active /\ ctl'.active => ctl'.gen > ctl.gen]_vars

(* Once dialogs are closed for good, every run ends: succeeded, exhausted  *)
(* or cancelled, whatever the backend does.                                *)
EveryRunEnds == <>[]~dialog => (ctl.active ~> ~ctl.active)
=============================================================================
