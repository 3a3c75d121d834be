--------------------------- MODULE CascadeOverNM ---------------------------
(***************************************************************************)
(* A cascade run over the NetworkManager backend: the controller of        *)
(* Cascade, the queue, worker thread and delayed signals of NMBackend, and *)
(* one clock for the controller's timers and for the second by which a     *)
(* disconnection is delivered late (backend/networkmanager/dbus.py).       *)
(*                                                                         *)
(* The GTK thread makes the controller's steps.  What a step asks of the   *)
(* manager happens in the same step; a callback and a cancellation take    *)
(* two, because the worker runs between them.  The profiles exist and pass *)
(* the audit, latencies are measured, and no dialog is open.  Time is      *)
(* counted in units of the settle pause's order; the main loop dispatches  *)
(* what is ready before time passes, while NetworkManager, and the worker  *)
(* in short queues, take any time.                                         *)
(***************************************************************************)
EXTENDS NMBackend

CONSTANTS
    Servers, NoServer, Queues, Budget, Settle, MaxGen,   \* as in Cascade
    DownDelay,    \* timeout_add_seconds(1, ...): longer than Settle
    SlowUpTo      \* bound: servers in a queue while native calls take any time

ASSUME CompositionAssumption ==
    /\ NoServer \notin Servers
    /\ Queues \subseteq Seq(Servers)
    /\ \A q \in Queues : \A i, j \in 1..Len(q) : q[i] = q[j] => i = j
    /\ Budget \in [Servers -> Nat \ {0}]
    /\ MaxGen \in Nat
    /\ Settle \in Nat \ {0}
    /\ SlowUpTo \in Nat
    /\ DownDelay \in Nat /\ DownDelay > Settle
    /\ \A s \in Servers : DownDelay < Budget[s]

VARIABLES
    ctl, dialog, test, measured,   \* the controller; the other three stand still
    hand,       \* what the GTK thread is in the middle of: "free", an event
                \*   to handle, or "finishing" a cancellation
    fuses,      \* time left to each disconnection in late, oldest first
    (* observers *)
    jobs,       \* servers of the connects in the queue
    working,    \* server of the worker's connect
    owner,      \* for which server a profile was made
    fell, rose, \* the tunnel of the current attempt's server went down, came up
    prompt,     \* no attempt was given up while its connect was still at work,
                \*   or opened while an earlier one's was, or before a signal
                \*   that was already there
    lost        \* a worker has cleared a flag of a cancellation under way

C == INSTANCE Cascade WITH
        LateDispatch <- FALSE, Dialogs <- FALSE, Extension <- 1, OrphanIds <- {1}

controller == <<ctl, dialog, test, measured>>
made == <<jobs, working, owner>>
tunnels == <<fell, rose>>
composed == <<vars, controller, hand, fuses, made, tunnels, prompt, lost>>

-----------------------------------------------------------------------------
(* The manager carries out what the controller has called.                 *)

Called(c, call) == \E i \in 1..Len(c.out) : c.out[i] = call

CarryOut(c) ==
    /\ IF Called(c, "start_watch") THEN watch' = TRUE /\ suppress' = FALSE
       ELSE UNCHANGED <<watch, suppress>>
    /\ IF Called(c, "connect")
       THEN Dispatch("connect") /\ jobs' = Append(jobs, c.current)
       ELSE /\ UNCHANGED jobs
            /\ IF Called(c, "disconnect") THEN Dispatch("disconnect")
               ELSE UNCHANGED <<queue, field, thread>>

(* A step of the controller.  Opening an attempt starts a new account of   *)
(* its server's tunnel.                                                    *)
Opened(c) ==
    /\ c.active /\ c.attempts # <<>>
    /\ c.gen # ctl.gen \/ Len(c.attempts) > Len(ctl.attempts)
GivenUp(c) == Len(c.failures) > Len(ctl.failures)

ControllerStep(c) ==
    /\ ctl' = c
    /\ UNCHANGED <<dialog, test, measured>>
    /\ CarryOut(c)
    /\ fell' = (fell /\ ~Opened(c))
    /\ rose' = (rose /\ ~Opened(c))
    /\ prompt' = (/\ prompt
                  /\ GivenUp(c) \/ Opened(c) => ~ConnectPending
                  /\ Opened(c) => bus = <<>>)
    /\ heard' = "none"
    /\ UNCHANGED <<cancel, uuid, ui, daemon, bus, inbox, calls, fuses, working, owner, lost>>

(* Mutant of Answer: nobody asks whether a tunnel is still up.             *)
AnswerUnasked(up) == "accepts"

(* What an attempt finds: a tunnel that is still up, or none.              *)
Answer(up) == IF up THEN "up" ELSE "accepts"
Opening(up) == IF up THEN "connected" ELSE "accepts"

Free == ui = "free" /\ hand = "free"

-----------------------------------------------------------------------------
(* The GTK thread.                                                         *)

StartRun ==
    /\ Free /\ ~C!Busy(ctl) /\ measured /\ ctl.gen < MaxGen
    /\ \E q \in Queues, up \in StatusAnswers :
          ControllerStep(C!StartFromVisibleList(C!Quiet(ctl), q, Opening(up), up))
    /\ UNCHANGED hand

(* cancel: the flags, the queue, and then the end of the run.              *)
ClickCancel ==
    /\ Free /\ C!Busy(ctl)
    /\ SetCancel
    /\ UNCHANGED <<controller, hand, fuses, made, tunnels, prompt, lost>>

CancelSuppresses ==
    /\ SetSuppress
    /\ UNCHANGED <<controller, hand, fuses, made, tunnels, prompt, lost>>

CancelEmpties ==
    /\ CancelClear
    /\ hand' = "finishing"
    /\ jobs' = <<>>
    /\ UNCHANGED <<controller, fuses, working, owner, tunnels, prompt, lost>>

CancelEnds ==
    /\ hand = "finishing"
    /\ hand' = "free"
    /\ \E up \in StatusAnswers : ControllerStep(C!Cancel(C!Quiet(ctl), up))

(* Mutant of TimeoutFires: a timeout that was armed fires at once.         *)
TimeoutFiresEarly ==
    /\ Free /\ ctl.timeout.armed
    /\ \E up \in StatusAnswers :
          ControllerStep(C!OnTimeout([C!Quiet(ctl) EXCEPT !.timeout = C!Off],
                                     ctl.timeout.gen, dialog, up))
    /\ UNCHANGED hand

TimeoutFires ==
    /\ Free /\ C!Due(ctl.timeout)
    /\ \E up \in StatusAnswers :
          ControllerStep(C!OnTimeout([C!Quiet(ctl) EXCEPT !.timeout = C!Off],
                                     ctl.timeout.gen, dialog, up))
    /\ UNCHANGED hand

TickFires ==
    /\ Free /\ C!Due(ctl.tick) /\ C!NoTimeoutDue /\ C!HasRoom(ctl)
    /\ \E up \in StatusAnswers : ControllerStep(C!OnTick(C!Quiet(ctl), dialog, up))
    /\ UNCHANGED hand

SettleFires ==
    /\ Free /\ C!Due(ctl.settle)
    /\ \E up \in StatusAnswers : ControllerStep(C!OnSettled(C!Quiet(ctl), Answer(up), up))
    /\ UNCHANGED hand

(* The main loop runs a callback of the backend.                           *)
Callback ==
    /\ Free
    /\ \/ SignalArrives /\ fuses' = IF late' > late THEN Append(fuses, DownDelay) ELSE fuses
       \/ fuses # <<>> /\ Head(fuses) = 0 /\ LateDisconnection /\ fuses' = Tail(fuses)
       \/ FailureNotified /\ UNCHANGED fuses
    /\ hand' = IF heard' = "none" THEN "free" ELSE heard'
    /\ UNCHANGED <<controller, made, tunnels, prompt, lost>>

(* What the controller is told: error_reasons puts some disconnections into*)
(* words, one of which mentions authentication.                            *)
EventsOf(kind) ==
    CASE kind = "up"   -> {"connected"}
      [] kind = "down" -> {"disconnected", "generic", "auth"}
      [] OTHER         -> {"generic", "definitive", "auth"}

HandleEvent ==
    /\ hand \in {"up", "down", "fail"}
    /\ hand' = "free"
    /\ \E event \in EventsOf(hand), up \in StatusAnswers :
          ControllerStep(C!OnConnectionEvent(C!Quiet(ctl), event, up))

(* One unit of time, once everything that is due has been dispatched; and, *)
(* in the longer queues, the native calls have returned.                   *)
WorkerIdle == queue = <<>> /\ \A t \in Threads : thread[t].pc \notin Working

Elapse ==
    /\ WorkerIdle \/ Len(ctl.queue) <= SlowUpTo
    /\ Free /\ bus = <<>> /\ failures = 0 /\ \A i \in 1..Len(fuses) : fuses[i] > 0
    /\ C!Elapse
    /\ fuses' = [i \in 1..Len(fuses) |-> fuses[i] - 1]
    /\ UNCHANGED <<vars, hand, made, tunnels, prompt, lost>>

-----------------------------------------------------------------------------
(* The worker and NetworkManager.                                          *)

Own(u) == owner[u] = ctl.current
GoneDown == \E u \in Uuids : Own(u) /\ act[u] # "down" /\ act'[u] = "down"

WorkerStep(t) ==
    /\ Worker(t)
    /\ LET popped == thread[t].pc = "pop" /\ thread'[t].pc = "check" IN
       /\ jobs' = IF popped THEN Tail(jobs) ELSE jobs
       /\ working' = IF popped THEN Head(jobs)
                     ELSE IF thread'[t].pc = "pop" THEN NoServer ELSE working
    /\ owner' = [u \in Uuids |-> IF u \notin profiles' THEN NoServer
                                 ELSE IF u \notin profiles THEN working ELSE owner[u]]
    /\ fell' = (fell \/ GoneDown)
    /\ lost' = (lost \/ (cancel /\ ~cancel' /\ ui # "free"))
    /\ UNCHANGED <<controller, hand, fuses, rose, prompt>>

DaemonStep(u) ==
    /\ HandshakeDone(u) \/ GoesDown(u)
    /\ fell' = (fell \/ GoneDown)
    /\ rose' = (rose \/ (Own(u) /\ act'[u] = "up"))
    /\ UNCHANGED <<controller, hand, fuses, made, prompt, lost>>

(* A run may find a tunnel of an earlier connection, its UUID forgotten or *)
(* not.                                                                    *)
ComposedInit ==
    /\ queue = <<>> /\ field = NoThread /\ cancel = FALSE /\ suppress = FALSE
    /\ watch = TRUE /\ ui = "free"
    /\ thread = [t \in Threads |-> Dead]
    /\ \/ profiles = {} /\ act = [u \in Uuids |-> "down"] /\ uuid = NoUuid
       \/ \E u \in Uuids, st \in {"activating", "up"} :
             /\ profiles = {u}
             /\ act = [v \in Uuids |-> IF v = u THEN st ELSE "down"]
             /\ uuid \in {u, NoUuid}
    /\ bus = <<>> /\ late = 0 /\ failures = 0 /\ refusals = 0
    /\ heard = "none" /\ calls = 0
    /\ ctl = C!InitController /\ dialog = FALSE /\ test = "idle" /\ measured = TRUE
    /\ hand = "free" /\ fuses = <<>>
    /\ jobs = <<>> /\ working = NoServer /\ owner = [u \in Uuids |-> NoServer]
    /\ fell = FALSE /\ rose = FALSE /\ prompt = TRUE /\ lost = FALSE

(* A tick that is due goes first: it only arms the next one, so it commutes*)
(* with whatever else is ready.                                            *)
ComposedNext ==
    \/ TickFires
    \/ /\ ~C!Due(ctl.tick) \/ C!Due(ctl.timeout)
       /\ \/ StartRun \/ ClickCancel \/ CancelSuppresses \/ CancelEmpties \/ CancelEnds
          \/ TimeoutFires \/ SettleFires
          \/ Callback \/ HandleEvent \/ Elapse
          \/ \E t \in Threads : WorkerStep(t)
          \/ \E u \in Uuids : DaemonStep(u)

ComposedSpec == ComposedInit /\ [][ComposedNext]_composed

-----------------------------------------------------------------------------
(* Properties.                                                             *)

(* Over this backend the controller, once a speed test has been made, does *)
(* what Cascade allows it over any: the safety that module's runs and      *)
(* proofs show of it, it keeps here.                                       *)
ControllerIsCascade ==
    ctl = C!InitController /\ [][controller' # controller => C!Next]_controller

(* Nothing is on its way: no operation, no handshake, no event.            *)
Still ==
    /\ Free /\ WorkerIdle /\ bus = <<>> /\ late = 0 /\ failures = 0
    /\ \A u \in profiles : act[u] # "activating"

(* A run that was cancelled, or that has tried everything in vain, leaves  *)
(* no tunnel: neither the one it found nor one of its own, whatever the    *)
(* worker was doing.                                                       *)
FailedRunLeavesNothing ==
    (ctl.phase \in {"cancelled", "exhausted"} /\ Still /\ prompt /\ ~lost) => ~Status

(* The server a run reports as connected is one whose handshake succeeded  *)
(* in this very attempt, not the one before it or the tunnel the run found.*)
SuccessIsOwn ==
    [][(prompt /\ ctl.phase = "connecting" /\ ctl'.phase = "succeeded") => rose]_composed

(* A server whose turn came after another's, given up for a disconnection, *)
(* has had a tunnel that went down in this very attempt.                   *)
VerdictIsOwn ==
    [][(/\ prompt /\ hand = "down" /\ ctl.index > 0
        /\ Len(ctl'.failures) > Len(ctl.failures)
        /\ ctl'.failures[Len(ctl'.failures)].reason = "disconnect")
          => fell]_composed
=============================================================================
