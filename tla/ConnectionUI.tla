---------------------------- MODULE ConnectionUI ----------------------------
(***************************************************************************)
(* Connecting by hand: the Connect button, the automatic reconnection and  *)
(* the regular transitions of MainWindow.on_connection_event               *)
(* (eovpn/main_window.py), composed with the NetworkManager backend.       *)
(*                                                                         *)
(* The window's fields change only on the GTK thread, in the same steps in *)
(* which that thread makes a request of the backend or runs one of its     *)
(* callbacks: an action below is a step of NMBackend together with what    *)
(* the window does in it, and `heard' is what the callback was told.  No   *)
(* cascade is active; while one is, its controller takes the events.       *)
(***************************************************************************)
EXTENDS NMBackend

CONSTANT AutoReconnect    \* SETTING.AUTO_RECONNECT

ASSUME AutoReconnectAssumption == AutoReconnect \in BOOLEAN

VARIABLES
    attempting,    \* connection_attempt_active
    wasConnected,  \* was_connected
    manual,        \* manual_disconnect
    label,         \* what connect_btn says
    monitor,       \* the poll of network_monitor is scheduled
    reconnects,    \* timeouts of 3 s armed for trigger_reconnect
    (* observers *)
    saidNo,        \* the last request was to disconnect
    calm           \* no restart, no request while one was under way, no call timed
                   \*   out, no connect asked for over a tunnel that was not seen

flags == <<attempting, wasConnected, manual, label, monitor>>
window == <<flags, reconnects>>
observers == <<saidNo, calm>>
uiVars == <<vars, window, observers>>

Labels == {"Connect", "Connecting", "Disconnect"}

-----------------------------------------------------------------------------
(* What the window does with an event.                                     *)

(* The monitor's source re-arms itself, whatever a tick meets, until it is *)
(* removed; starting it again replaces it.                                 *)
StartMonitor == monitor' = TRUE
StopMonitor == monitor' = FALSE

HandleConnected ==
    /\ attempting' = FALSE
    /\ wasConnected' = TRUE
    /\ label' = "Disconnect"
    /\ StartMonitor
    /\ UNCHANGED <<manual, reconnects>>

(* Mutants of HandleDisconnected: who asked for it does not matter; the    *)
(* button goes on saying what it said.                                     *)
HandleDisconnectedAnyReason ==
    /\ reconnects' = IF wasConnected /\ AutoReconnect THEN reconnects + 1 ELSE reconnects
    /\ attempting' = FALSE /\ wasConnected' = FALSE /\ manual' = FALSE
    /\ label' = "Connect"
    /\ StopMonitor

HandleDisconnectedKeepsLabel ==
    /\ reconnects' = IF wasConnected /\ AutoReconnect /\ ~manual
                     THEN reconnects + 1 ELSE reconnects
    /\ attempting' = FALSE /\ wasConnected' = FALSE /\ manual' = FALSE
    /\ StopMonitor
    /\ UNCHANGED label

HandleDisconnected ==
    /\ reconnects' = IF wasConnected /\ AutoReconnect /\ ~manual
                     THEN reconnects + 1 ELSE reconnects
    /\ attempting' = FALSE /\ wasConnected' = FALSE /\ manual' = FALSE
    /\ label' = "Connect"
    /\ StopMonitor

(* Mutant of Hear: a lost connection counts only if there was one.         *)
HearLossOnlyIfConnected ==
    \/ heard' = "up" /\ HandleConnected
    \/ heard' \in {"down", "fail"} /\ wasConnected /\ HandleDisconnected
    \/ /\ heard' = "none" \/ (heard' # "up" /\ ~wasConnected)
       /\ UNCHANGED window

(* on_connection_event: a failure is handled like a disconnection.         *)
Hear ==
    \/ heard' = "up" /\ HandleConnected
    \/ heard' \in {"down", "fail"} /\ HandleDisconnected
    \/ heard' = "none" /\ UNCHANGED window

-----------------------------------------------------------------------------
(* signals.connect, from the button, the shortcut or the reconnect timer.  *)

(* Nothing is on its way: no operation, no handshake, no event.            *)
AtRest ==
    /\ queue = <<>>
    /\ \A t \in Threads : thread[t].pc \notin Working
    /\ \A u \in profiles : act[u] # "activating"
    /\ bus = <<>> /\ late = 0 /\ failures = 0 /\ refusals = 0

(* No row is selected: only start_watch() was called.                      *)
StartWatchOnly ==
    /\ Request
    /\ FALSE \in StatusAnswers
    /\ watch' = TRUE
    /\ suppress' = FALSE
    /\ heard' = "none"
    /\ UNCHANGED <<queue, field, cancel, uuid, thread, ui, daemon, bus, inbox>>

(* Mutant of ToggleConnect: the attempt is announced before the            *)
(* configuration is looked at.                                             *)
ToggleConnectAnnounced ==
    /\ ~attempting
    /\ manual' = FALSE
    /\ RequestConnect \/ StartWatchOnly
    /\ attempting' = TRUE /\ label' = "Connecting"
    /\ saidNo' = FALSE
    /\ UNCHANGED <<wasConnected, monitor>>

ToggleConnect ==
    /\ ~attempting
    /\ manual' = FALSE
    /\ \/ /\ RequestConnect
          /\ attempting' = TRUE
          /\ label' = "Connecting"
       \/ /\ StartWatchOnly
          /\ UNCHANGED <<attempting, label>>
    /\ saidNo' = FALSE
    /\ UNCHANGED <<wasConnected, monitor>>

ToggleDisconnect ==
    /\ ~attempting
    /\ RequestDisconnect
    /\ watch' /\ ~suppress'
    /\ manual' = TRUE
    /\ saidNo' = TRUE
    /\ UNCHANGED <<attempting, wasConnected, label, monitor>>

(* cancel_current_operation() does not return before CancelClear.          *)
ToggleCancel ==
    /\ attempting
    /\ SetCancel
    /\ manual' = TRUE
    /\ saidNo' = FALSE
    /\ UNCHANGED <<attempting, wasConnected, label, monitor>>

Toggle ==
    \/ ToggleConnect /\ calm' = (calm /\ AtRest /\ ~Status)
    \/ (ToggleDisconnect \/ ToggleCancel) /\ calm' = (calm /\ AtRest)

CancelGoesOn == SetSuppress /\ UNCHANGED <<window, observers>>

CancelReturns ==
    /\ CancelClear
    /\ HandleDisconnected
    /\ UNCHANGED observers

Press == Toggle /\ UNCHANGED reconnects

(* trigger_reconnect: nothing happens if no row is selected by then.       *)
ReconnectFires ==
    /\ reconnects > 0 /\ ui = "free"
    /\ reconnects' = reconnects - 1
    /\ \/ Toggle
       \/ heard' = "none" /\ UNCHANGED <<backend, thread, ui, daemon, bus, inbox,
                                        calls, flags, observers>>

Event == Callbacks /\ Hear /\ UNCHANGED observers

(* The watchdog gave up on an activation that NetworkManager goes on with. *)
TimedOut ==
    \E t \in Threads : thread[t].outcome = "failed" /\ thread[t].mine \in ActiveProfiles

(* What goes on without the GTK thread, and Delete Profiles.               *)
Elsewhere ==
    /\ \/ \E t \in Threads : Worker(t)
       \/ DeleteAll
       \/ \E u \in Uuids : HandshakeDone(u) \/ GoesDown(u)
    /\ calm' = (calm /\ ~TimedOut')
    /\ UNCHANGED <<window, saidNo>>

(* A new window asks status() once, to label its button.                   *)
InitialLabel(up) == IF up THEN "Disconnect" ELSE "Connect"

WindowRestart ==
    /\ Restart
    /\ attempting' = FALSE /\ wasConnected' = FALSE /\ manual' = FALSE
    /\ \E up \in StatusAnswers : label' = InitialLabel(up)
    /\ StopMonitor
    /\ reconnects' = 0
    /\ saidNo' = FALSE /\ calm' = FALSE

UIInit ==
    /\ Init
    /\ attempting = FALSE /\ wasConnected = FALSE /\ manual = FALSE
    /\ label = "Connect" /\ monitor = FALSE /\ reconnects = 0
    /\ saidNo = FALSE /\ calm = TRUE

UINext ==
    \/ Press \/ CancelGoesOn \/ CancelReturns \/ ReconnectFires \/ Event
    \/ Elsewhere \/ WindowRestart

UISpec == UIInit /\ [][UINext]_uiVars

(* Native calls end within their watchdog, the main loop dispatches what   *)
(* is ready, and NetworkManager ends a handshake with its own timeout.     *)
UIFairness ==
    /\ WF_uiVars(Elsewhere /\ \E t \in Threads : thread'[t] # thread[t])
    /\ WF_uiVars(CancelGoesOn \/ CancelReturns)
    /\ WF_uiVars(Event)
    /\ \A u \in Uuids :
          WF_uiVars(act[u] = "activating" /\ Elsewhere /\ act'[u] # "activating")

UIFairSpec == UISpec /\ UIFairness
-----------------------------------------------------------------------------
(* Properties.                                                             *)

UITypeOK ==
    /\ TypeOK
    /\ attempting \in BOOLEAN /\ wasConnected \in BOOLEAN /\ manual \in BOOLEAN
    /\ label \in Labels
    /\ monitor \in BOOLEAN
    /\ reconnects \in Nat
    /\ saidNo \in BOOLEAN /\ calm \in BOOLEAN

(* "Connecting..." always has something behind it that will end it: an       *)
(* operation not yet over, a profile that is active, an event on its way   *)
(* or a cancellation, whatever was deleted, refused or lost before.        *)
AttemptBacked ==
    attempting =>
        \/ ui # "free" \/ ConnectPending \/ Status
        \/ bus # <<>> \/ late > 0 \/ failures > 0 \/ refusals > 0

(* The button comes back from "Connecting...", in success or in failure.     *)
AttemptEnds == attempting ~> ~attempting

(* For a user who waits until nothing is under way, and as long as the     *)
(* program runs, the button and the bandwidth monitor tell at rest whether *)
(* a tunnel is up.                                                         *)
WindowFollowsTunnel ==
    calm /\ AtRest => (label = "Disconnect" <=> Status) /\ (monitor <=> Status)

(* For such a user, a connection he has asked to end is not taken for a    *)
(* lost one, even if it ends for another reason or much later.             *)
NoReconnectAfterNo == [][reconnects' > reconnects => ~(calm /\ saidNo)]_uiVars

(* The reconnect timer makes an attempt to connect: it neither disconnects *)
(* nor cancels anything.                                                   *)
ReconnectConnects ==
    [][reconnects' < reconnects =>
          /\ ui' = "free"
          /\ Len(queue') > Len(queue) => queue'[Len(queue')] = "connect"]_uiVars
=============================================================================
