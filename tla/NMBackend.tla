----------------------------- MODULE NMBackend -----------------------------
(***************************************************************************)
(* The NetworkManager backend (class NetworkManager of                     *)
(* eovpn/connection_manager.py): the queue of native operations, the       *)
(* worker thread that drains it, cooperative cancellation, the D-Bus       *)
(* watcher with its delayed signals, and, as far as the backend sees it,   *)
(* the NetworkManager daemon that the calls of eovpn_nm.c talk to.         *)
(*                                                                         *)
(* Two threads share the backend's fields: the GTK thread, which makes the *)
(* requests and runs the callbacks, and the worker.  A lock section of     *)
(* _operation_state_lock is one action; everything else interleaves.       *)
(* Operations carry no configuration: what the properties tell apart is    *)
(* which NetworkManager profile an operation created or took down.         *)
(***************************************************************************)
EXTENDS Naturals, Sequences, FiniteSets

CONSTANTS
    Threads,     \* identities of worker threads
    NoThread,    \* _worker_thread is None
    Uuids,       \* UUIDs NetworkManager may give to profiles
    NoUuid,      \* self.uuid is None
    Faults,      \* TRUE: native calls may fail or time out
    Polite,      \* TRUE: connect() is called only when none is pending
    MaxCalls     \* bound: requests of the GTK thread, crashes included

ASSUME BackendAssumption ==
    /\ NoThread \notin Threads
    /\ NoUuid \notin Uuids
    /\ Faults \in BOOLEAN
    /\ Polite \in BOOLEAN
    /\ MaxCalls \in Nat

VARIABLES
    (* fields of the backend *)
    queue,       \* _operation_queue
    field,       \* _worker_thread
    cancel,      \* _operation_cancel
    suppress,    \* _suppress_callbacks
    uuid,        \* self.uuid
    watch,       \* self.watch
    (* threads *)
    thread,      \* where each worker thread is
    ui,          \* the GTK thread: "free", or how far cancel_current_operation is
    (* the daemon *)
    profiles,    \* managed profiles NetworkManager knows
    act,         \* their activation
    (* on the way to the callback *)
    bus,         \* VpnStateChanged signals not yet dispatched
    late,        \* disconnections waiting in timeout_add_seconds(1, ...)
    failures,    \* idle sources of notify_failure
    refusals,    \* idle sources of a refused connect()
    (* observers *)
    heard,       \* what the last step told the callback
    calls        \* requests so far

backend == <<queue, field, cancel, suppress, uuid, watch>>
daemon == <<profiles, act>>
inbox == <<late, failures, refusals>>
vars == <<backend, thread, ui, daemon, bus, inbox, heard, calls>>

Operations == {"connect", "disconnect"}
Connecting == {"check", "add", "addedCheck", "activate", "lastCheck", "undoDown", "undoDelete"}
Disconnecting == {"look", "takeDown", "delete", "sweep"}
Working == {"pop"} \cup Connecting \cup Disconnecting
Gone == {"dead", "exiting"}
Outcomes == {"none", "connected", "cancelled", "failed", "disconnected"}

Dead == [pc |-> "dead", mine |-> NoUuid, swept |-> 0, outcome |-> "none"]
Popping(outcome, u) == [pc |-> "pop", mine |-> u, swept |-> 0, outcome |-> outcome]

-----------------------------------------------------------------------------
(* The daemon.                                                             *)

Active(u) == u \in profiles /\ act[u] # "down"
ActiveProfiles == {u \in profiles : act[u] # "down"}

(* An activating profile counts.                                           *)
Status == ActiveProfiles # {}

(* is_vpn_running: when NetworkManager cannot be asked, the answer is no.  *)
StatusAnswers == {up \in BOOLEAN : up = Status \/ (Faults /\ ~up)}

Signal(kind) == IF watch THEN Append(bus, kind) ELSE bus

(* u goes down, if it was not down already.                                *)
TakenDown(u) ==
    /\ act' = [act EXCEPT ![u] = "down"]
    /\ bus' = IF Active(u) THEN Signal("down") ELSE bus

-----------------------------------------------------------------------------
(* The queue.  A mutant of Dispatch starts a thread whenever it is called; *)
(* a mutant of Pop leaves _worker_thread set when it returns.              *)

Alive(t) == t # NoThread /\ thread[t].pc # "dead"

DispatchAlwaysStarts(op) ==
    /\ queue' = Append(queue, op)
    /\ \E t \in Threads :
          /\ thread[t].pc = "dead"
          /\ thread' = [thread EXCEPT ![t] = Popping("none", NoUuid)]
          /\ field' = t

Dispatch(op) ==
    /\ queue' = Append(queue, op)
    /\ IF Alive(field)
       THEN UNCHANGED <<thread, field>>
       ELSE \E t \in Threads :
               /\ thread[t].pc = "dead"
               /\ thread' = [thread EXCEPT ![t] = Popping("none", NoUuid)]
               /\ field' = t

PopKeepsField(t) ==
    /\ thread[t].pc = "pop"
    /\ IF queue = <<>>
       THEN /\ thread' = [thread EXCEPT ![t].pc = "exiting"]
            /\ UNCHANGED <<queue, field, cancel, suppress>>
       ELSE /\ queue' = Tail(queue)
            /\ cancel' = FALSE
            /\ suppress' = FALSE
            /\ thread' = [thread EXCEPT ![t] =
                  [Popping("none", NoUuid) EXCEPT
                      !.pc = IF Head(queue) = "connect" THEN "check" ELSE "look"]]
            /\ UNCHANGED field

Pop(t) ==
    /\ thread[t].pc = "pop"
    /\ IF queue = <<>>
       THEN /\ field' = NoThread
            /\ thread' = [thread EXCEPT ![t].pc = "exiting"]
            /\ UNCHANGED <<queue, cancel, suppress>>
       ELSE /\ queue' = Tail(queue)
            /\ cancel' = FALSE
            /\ suppress' = FALSE
            /\ thread' = [thread EXCEPT ![t] =
                  [Popping("none", NoUuid) EXCEPT
                      !.pc = IF Head(queue) = "connect" THEN "check" ELSE "look"]]
            /\ UNCHANGED field

PopNext(t) ==
    /\ Pop(t)
    /\ heard' = "none"
    /\ UNCHANGED <<uuid, watch, ui, daemon, bus, inbox, calls>>

Exit(t) ==
    /\ thread[t].pc = "exiting"
    /\ thread' = [thread EXCEPT ![t] = Dead]
    /\ heard' = "none"
    /\ UNCHANGED <<backend, ui, daemon, bus, inbox, calls>>

-----------------------------------------------------------------------------
(* The worker inside _connect_blocking and _disconnect_blocking.           *)

Goto(t, pc) == thread' = [thread EXCEPT ![t].pc = pc]
EndOperation(t, outcome, u) == thread' = [thread EXCEPT ![t] = Popping(outcome, u)]

(* An exception other than OperationCancelled: reported unless cancelled.  *)
Raise(t, u) ==
    /\ EndOperation(t, "failed", u)
    /\ failures' = IF cancel THEN failures ELSE failures + 1

(* _raise_if_cancelled, before and after the temporary file is written,    *)
(* which may fail.                                                         *)
CheckBeforeAdd(t) ==
    /\ thread[t].pc = "check"
    /\ \/ /\ IF cancel THEN EndOperation(t, "cancelled", NoUuid) ELSE Goto(t, "add")
          /\ UNCHANGED failures
       \/ Faults /\ Raise(t, NoUuid)
    /\ heard' = "none"
    /\ UNCHANGED <<backend, ui, daemon, bus, late, refusals, calls>>

(* add_connection.  The watchdog may give up on a call NetworkManager      *)
(* still carries out: NULL comes back, the profile is there.               *)
AddProfile(t) ==
    /\ thread[t].pc = "add"
    /\ \/ \E u \in Uuids \ (profiles \cup {uuid}) :
             /\ profiles' = profiles \cup {u}
             /\ \/ /\ uuid' = u
                   /\ thread' = [thread EXCEPT ![t].pc = "addedCheck", ![t].mine = u]
                   /\ UNCHANGED failures
                \/ /\ Faults
                   /\ uuid' = NoUuid
                   /\ Raise(t, NoUuid)
       \/ /\ Faults
          /\ uuid' = NoUuid
          /\ Raise(t, NoUuid)
          /\ UNCHANGED profiles
    /\ heard' = "none"
    /\ UNCHANGED <<queue, field, cancel, suppress, watch, ui, act, bus, late, refusals, calls>>

CheckAfterAdd(t) ==
    /\ thread[t].pc = "addedCheck"
    /\ IF cancel THEN EndOperation(t, "cancelled", thread[t].mine) ELSE Goto(t, "activate")
    /\ heard' = "none"
    /\ UNCHANGED <<backend, ui, daemon, bus, inbox, calls>>

(* activate_connection: accepted, refused, or accepted after the watchdog  *)
(* gave up.  A profile that was deleted meanwhile is not found.            *)
Activate(t) ==
    /\ thread[t].pc = "activate"
    /\ \/ /\ uuid \in profiles
          /\ act' = [act EXCEPT ![uuid] = "activating"]
          /\ \/ /\ Goto(t, "lastCheck")
                /\ UNCHANGED failures
             \/ Faults /\ Raise(t, uuid)
       \/ /\ uuid \notin profiles \/ Faults
          /\ Raise(t, uuid)
          /\ UNCHANGED act
    /\ heard' = "none"
    /\ UNCHANGED <<backend, ui, profiles, bus, late, refusals, calls>>

(* Mutant of CheckAfterActivate: the activation is not undone.             *)
CheckAfterActivateNoUndo(t) ==
    /\ thread[t].pc = "lastCheck"
    /\ EndOperation(t, IF cancel THEN "cancelled" ELSE "connected", uuid)
    /\ heard' = "none"
    /\ UNCHANGED <<backend, ui, daemon, bus, inbox, calls>>

(* Cancelled while NetworkManager was activating: undo it.                 *)
CheckAfterActivate(t) ==
    /\ thread[t].pc = "lastCheck"
    /\ IF cancel THEN Goto(t, "undoDown") ELSE EndOperation(t, "connected", uuid)
    /\ heard' = "none"
    /\ UNCHANGED <<backend, ui, daemon, bus, inbox, calls>>

(* nm.disconnect(uuid) and nm.delete_connection(uuid); nobody looks at     *)
(* what they return.                                                       *)
NMDisconnect(u) ==
    \/ TakenDown(u)
    \/ Faults /\ UNCHANGED <<act, bus>>

NMDelete(u) ==
    \/ TakenDown(u) /\ profiles' = profiles \ {u}
    \/ Faults /\ UNCHANGED <<act, bus, profiles>>

Undo(t) ==
    /\ \/ /\ thread[t].pc = "undoDown"
          /\ NMDisconnect(uuid)
          /\ Goto(t, "undoDelete")
          /\ UNCHANGED <<profiles, uuid>>
       \/ /\ thread[t].pc = "undoDelete"
          /\ NMDelete(uuid)
          /\ uuid' = NoUuid
          /\ EndOperation(t, "cancelled", uuid)
    /\ heard' = "none"
    /\ UNCHANGED <<queue, field, cancel, suppress, watch, ui, inbox, calls>>

(* Mutant of Look: without a UUID there is nothing to do.                  *)
LookOwnOnly(t) ==
    /\ thread[t].pc = "look"
    /\ IF uuid # NoUuid /\ Active(uuid) THEN Goto(t, "takeDown")
       ELSE EndOperation(t, "disconnected", NoUuid)
    /\ heard' = "none"
    /\ UNCHANGED <<backend, ui, daemon, bus, inbox, calls>>

(* _disconnect_blocking looks up the activation of its own profile, which  *)
(* is not found either when NetworkManager cannot be asked.                *)
Look(t) ==
    /\ thread[t].pc = "look"
    /\ IF uuid = NoUuid THEN Goto(t, "sweep")
       ELSE \/ Active(uuid) /\ Goto(t, "takeDown")
            \/ (~Active(uuid) \/ Faults) /\ EndOperation(t, "disconnected", NoUuid)
    /\ heard' = "none"
    /\ UNCHANGED <<backend, ui, daemon, bus, inbox, calls>>

TakeDown(t) ==
    /\ \/ /\ thread[t].pc = "takeDown"
          /\ NMDisconnect(uuid)
          /\ Goto(t, "delete")
          /\ UNCHANGED <<profiles, uuid>>
       \/ /\ thread[t].pc = "delete"
          /\ NMDelete(uuid)
          /\ uuid' = NoUuid
          /\ EndOperation(t, "disconnected", NoUuid)
    /\ heard' = "none"
    /\ UNCHANGED <<queue, field, cancel, suppress, watch, ui, inbox, calls>>

(* Without a UUID of its own: up to three managed profiles, as found.      *)
Sweep(t) ==
    /\ thread[t].pc = "sweep"
    /\ \/ /\ thread[t].swept = 3 \/ FALSE \in StatusAnswers
          /\ EndOperation(t, "disconnected", NoUuid) /\ UNCHANGED <<act, bus>>
       \/ /\ thread[t].swept # 3
          /\ \E u \in ActiveProfiles :
                NMDisconnect(u) /\ thread' = [thread EXCEPT ![t].swept = @ + 1]
    /\ heard' = "none"
    /\ UNCHANGED <<backend, ui, profiles, inbox, calls>>

Worker(t) ==
    \/ PopNext(t) \/ Exit(t)
    \/ CheckBeforeAdd(t) \/ AddProfile(t) \/ CheckAfterAdd(t)
    \/ Activate(t) \/ CheckAfterActivate(t) \/ Undo(t)
    \/ Look(t) \/ TakeDown(t) \/ Sweep(t)

-----------------------------------------------------------------------------
(* Requests of the GTK thread.                                             *)

Request == ui = "free" /\ calls < MaxCalls /\ calls' = calls + 1

ConnectPending ==
    \/ \E i \in 1..Len(queue) : queue[i] = "connect"
    \/ \E t \in Threads : thread[t].pc \in Connecting

(* Mutant of RequestConnect: status() is not asked.                        *)
RequestConnectUnasked ==
    /\ Request
    /\ Polite => ~ConnectPending
    /\ watch' = TRUE
    /\ suppress' = FALSE
    /\ heard' = "none"
    /\ Dispatch("connect")
    /\ UNCHANGED <<cancel, uuid, ui, daemon, bus, inbox>>

(* start_watch(), status() answers False, connect(): the operation is      *)
(* queued, or refused because the profile failed the audit.                *)
RequestConnect ==
    /\ Request
    /\ FALSE \in StatusAnswers
    /\ Polite => ~ConnectPending
    /\ watch' = TRUE
    /\ suppress' = FALSE
    /\ heard' = "none"
    /\ \/ Dispatch("connect") /\ UNCHANGED refusals
       \/ refusals' = refusals + 1 /\ UNCHANGED <<queue, field, thread>>
    /\ UNCHANGED <<cancel, uuid, ui, daemon, bus, late, failures>>

(* status() answers True: disconnect(), after start_watch() or without.    *)
RequestDisconnect ==
    /\ Request
    /\ TRUE \in StatusAnswers
    /\ \/ watch' = TRUE /\ suppress' = FALSE
       \/ UNCHANGED <<watch, suppress>>
    /\ Dispatch("disconnect")
    /\ heard' = "none"
    /\ UNCHANGED <<cancel, uuid, ui, daemon, bus, inbox>>

(* cancel_current_operation sets one flag, then the other, then takes the  *)
(* lock; the worker may take its next operation in between.                *)
SetCancel ==
    /\ Request
    /\ ui' = "cancelling"
    /\ cancel' = TRUE
    /\ heard' = "none"
    /\ UNCHANGED <<queue, field, suppress, uuid, watch, thread, daemon, bus, inbox>>

SetSuppress ==
    /\ ui = "cancelling"
    /\ ui' = "suppressing"
    /\ suppress' = TRUE
    /\ heard' = "none"
    /\ UNCHANGED <<queue, field, cancel, uuid, watch, thread, daemon, bus, inbox, calls>>

CancelClear ==
    /\ ui = "suppressing"
    /\ ui' = "free"
    /\ queue' = <<>>
    /\ heard' = "none"
    /\ UNCHANGED <<field, cancel, suppress, uuid, watch, thread, daemon, bus, inbox, calls>>

(* Settings: delete every managed profile, from the GTK thread; nobody     *)
(* looks at which deletions failed.                                        *)
DeleteAll ==
    /\ Request
    /\ \E kept \in SUBSET profiles :
          /\ Faults \/ kept = {}
          /\ profiles' = kept
          /\ act' = [u \in Uuids |-> IF u \in kept THEN act[u] ELSE "down"]
          /\ bus' = IF ActiveProfiles \subseteq kept THEN bus ELSE Signal("down")
    /\ heard' = "none"
    /\ UNCHANGED <<backend, thread, ui, inbox>>

-----------------------------------------------------------------------------
(* Callbacks, on the GTK thread.  _guarded_callback drops what comes while *)
(* callbacks are suppressed; notify_failure does not ask it.               *)

Guarded(kind) == heard' = IF suppress THEN "none" ELSE kind

SignalArrives ==
    /\ ui = "free" /\ bus # <<>>
    /\ bus' = Tail(bus)
    /\ IF Head(bus) = "up"
       THEN Guarded("up") /\ UNCHANGED late
       ELSE late' = late + 1 /\ heard' = "none"
    /\ UNCHANGED <<backend, thread, ui, daemon, failures, refusals, calls>>

LateDisconnection ==
    /\ ui = "free" /\ late > 0
    /\ late' = late - 1
    /\ Guarded("down")
    /\ UNCHANGED <<backend, thread, ui, daemon, bus, failures, refusals, calls>>

FailureNotified ==
    /\ ui = "free" /\ failures > 0
    /\ failures' = failures - 1
    /\ heard' = "fail"
    /\ UNCHANGED <<backend, thread, ui, daemon, bus, late, refusals, calls>>

RefusalNotified ==
    /\ ui = "free" /\ refusals > 0
    /\ refusals' = refusals - 1
    /\ Guarded("fail")
    /\ UNCHANGED <<backend, thread, ui, daemon, bus, late, failures, calls>>

Callbacks == SignalArrives \/ LateDisconnection \/ FailureNotified \/ RefusalNotified

-----------------------------------------------------------------------------
(* The daemon on its own: handshakes succeed, fail, and tunnels drop.      *)

HandshakeDone(u) ==
    /\ u \in profiles /\ act[u] = "activating"
    /\ act' = [act EXCEPT ![u] = "up"]
    /\ bus' = Signal("up")
    /\ heard' = "none"
    /\ UNCHANGED <<backend, thread, ui, profiles, inbox, calls>>

GoesDown(u) ==
    /\ Active(u)
    /\ TakenDown(u)
    /\ heard' = "none"
    /\ UNCHANGED <<backend, thread, ui, profiles, inbox, calls>>

(* The application dies and is started again; NetworkManager goes on.      *)
Restart ==
    /\ calls < MaxCalls /\ calls' = calls + 1
    /\ queue' = <<>> /\ field' = NoThread /\ cancel' = FALSE /\ suppress' = FALSE
    /\ uuid' = NoUuid /\ watch' = FALSE
    /\ thread' = [t \in Threads |-> Dead]
    /\ ui' = "free"
    /\ bus' = <<>> /\ late' = 0 /\ failures' = 0 /\ refusals' = 0
    /\ heard' = "none"
    /\ UNCHANGED daemon

Init ==
    /\ queue = <<>> /\ field = NoThread /\ cancel = FALSE /\ suppress = FALSE
    /\ uuid = NoUuid /\ watch = FALSE
    /\ thread = [t \in Threads |-> Dead]
    /\ ui = "free"
    /\ profiles = {} /\ act = [u \in Uuids |-> "down"]
    /\ bus = <<>> /\ late = 0 /\ failures = 0 /\ refusals = 0
    /\ heard = "none" /\ calls = 0

Next ==
    \/ \E t \in Threads : Worker(t)
    \/ RequestConnect \/ RequestDisconnect \/ SetCancel \/ SetSuppress \/ CancelClear \/ DeleteAll
    \/ Callbacks
    \/ \E u \in Uuids : HandshakeDone(u) \/ GoesDown(u)
    \/ Restart

Spec == Init /\ [][Next]_vars
-----------------------------------------------------------------------------
(* Properties.                                                             *)

TypeOK ==
    /\ queue \in Seq(Operations)
    /\ field \in Threads \cup {NoThread}
    /\ cancel \in BOOLEAN /\ suppress \in BOOLEAN /\ watch \in BOOLEAN
    /\ uuid \in Uuids \cup {NoUuid}
    /\ thread \in [Threads -> [pc : Working \cup Gone, mine : Uuids \cup {NoUuid},
                               swept : 0..3, outcome : Outcomes]]
    /\ ui \in {"free", "cancelling", "suppressing"}
    /\ profiles \subseteq Uuids
    /\ act \in [Uuids -> {"down", "activating", "up"}]
    /\ bus \in Seq({"up", "down"})
    /\ late \in Nat /\ failures \in Nat /\ refusals \in Nat
    /\ heard \in {"none", "up", "down", "fail"}
    /\ calls \in Nat

(* Native operations are serialized: at most one thread is ever inside the *)
(* runner's loop, although a finished one may still be on its way out when *)
(* the next is started.                                                    *)
OneWorker ==
    \A t, v \in Threads : thread[t].pc \in Working /\ thread[v].pc \in Working => t = v

(* No operation is stranded: while something is queued, a thread that will *)
(* still look at the queue exists, however Dispatch and the runner's exit  *)
(* interleave.                                                             *)
NoOpStranded == queue # <<>> => \E t \in Threads : thread[t].pc \in Working

(* A connect operation that ended as cancelled has left no tunnel behind,  *)
(* wherever the cancellation caught it.                                    *)
CancelledIsDown ==
    \A t \in Threads :
        thread[t].pc = "pop" /\ thread[t].outcome = "cancelled" => ~Active(thread[t].mine)

(* Once a disconnect operation is over, no tunnel of this backend is left, *)
(* also after a restart that forgot the profile's UUID.                    *)
DisconnectTakesDown ==
    \A t \in Threads :
        thread[t].pc = "pop" /\ thread[t].outcome = "disconnected" => ~Status

(* At most one tunnel at a time.                                           *)
OneTunnel == Cardinality(ActiveProfiles) <= 1
=============================================================================
