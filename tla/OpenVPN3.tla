----------------------------- MODULE OpenVPN3 ------------------------------
(***************************************************************************)
(* The OpenVPN 3 backend: class OpenVPN3 of connection_manager.py, the     *)
(* signal handlers of backend/openvpn3/dbus.py, the one-time code dialog   *)
(* (dialogs/otp.py), and the part of the main window that drives them by   *)
(* hand: connect, cancel, disconnect, pause, resume, and the selection of  *)
(* another backend.  Everything here runs on the GTK thread; the session   *)
(* manager (openvpn3-linux) is external and answers by D-Bus signals.  The *)
(* code dialog is modal: while one is on the screen no other window of the *)
(* program takes a click.  The reconnect timer is off (ConnectionUI has it)*)
(* and no cascade runs.                                                    *)
(*                                                                         *)
(* A signal reaches a handler that is subscribed when it is emitted, unless*)
(* the subscription is removed before the signal is dispatched.  The       *)
(* attention subscription is for any session, a status subscription for    *)
(* one; subscribing twice calls the same handler twice in a row, which     *)
(* changes nothing, so a set of sessions stands for the subscriptions.     *)
(*                                                                         *)
(* Calls of the session manager may fail.  The native library only logs a  *)
(* failure (openvpn3.c), so the caller goes on as if the call had worked;  *)
(* reading what a session asks for raises instead (dbus.py).  Faults names *)
(* the calls that may fail, failed records which did, for which session.   *)
(* Pausing or resuming that fails changes nothing and is no step.          *)
(***************************************************************************)
EXTENDS Naturals, Sequences, FiniteSets

CONSTANTS
    MaxSessions,  \* bound: sessions this program starts
    MaxAsks,      \* bound: how often a session asks for input
    Needs,        \* the inputs a new session may need
    Faults,       \* the calls of the session manager that may fail
    MaxFailures,  \* bound: calls that fail in one behaviour
    MaxUntidy,    \* bound: kinds of disorder in one behaviour
    MaxSignals    \* bound: signals in flight when the user pauses or resumes

ASSUME OpenVPN3Assumption ==
    /\ MaxSessions \in Nat /\ MaxAsks \in Nat /\ MaxSignals \in Nat
    /\ MaxUntidy \in Nat /\ MaxFailures \in Nat
    /\ Needs \subseteq SUBSET {"login", "otp", "other"}
    /\ Faults \subseteq {"disconnect", "input", "connect", "listen", "status"}

VARIABLES
    sessions,   \* this program's sessions at the session manager
    foreign,    \* a session of another process is connected
    session,    \* self.session_path, 0 if None
    watch,      \* self.watch
    attention,  \* dbus.attention_subscription is not None
    subs,       \* dbus.subscriptions: sessions whose StatusChange is heard
    dialogs,    \* code dialogs on the screen
    signals,    \* signals on their way, oldest first
    window,     \* connection_attempt_active, the button's label, the pause button
    untidy,     \* observer: what left a session without its window
    failed      \* observer: the calls that failed, each with its session

manager == <<session, watch, attention, subs>>
vars == <<sessions, foreign, manager, dialogs, signals, window, untidy, failed>>

Ids == 1..MaxSessions
Inputs == {"login", "otp", "other"}
States == {"none", "waiting", "connecting", "connected", "paused", "failed", "gone"}
Up == {"connected", "paused"}
Live == {"waiting", "connecting", "connected", "paused", "failed"}
StatusKinds == {"connected", "auth failed", "disconnected", "paused", "resuming"}

Started == {s \in Ids : sessions[s].st # "none"}
Off == [attempt |-> FALSE, connected |-> FALSE, paused |-> FALSE]

TypeOK ==
    /\ sessions \in [Ids -> [st : States, need : SUBSET Inputs, asks : 0..MaxAsks]]
    /\ session \in {0} \cup Started
    /\ {foreign, watch, attention} \subseteq BOOLEAN
    /\ subs \subseteq Started
    /\ dialogs \in Nat
    /\ signals \in Seq([kind : StatusKinds \cup {"attention"}, s : Ids])
    /\ window \in [attempt : BOOLEAN, connected : BOOLEAN, paused : BOOLEAN]
    /\ ~(window.attempt /\ window.connected)
    /\ untidy \subseteq {"cancelled", "code refused", "overtaken", "switched", "misread"}
    /\ failed \subseteq Faults \X Started

Init ==
    /\ sessions = [s \in Ids |-> [st |-> "none", need |-> {}, asks |-> 0]]
    /\ foreign \in BOOLEAN
    /\ session = 0 /\ watch = FALSE /\ attention = FALSE /\ subs = {}
    /\ dialogs = 0 /\ signals = <<>> /\ window = Off
    /\ untidy = {} /\ failed = {}

-----------------------------------------------------------------------------
(* Helpers.                                                                *)

(* Session s goes to a state and says so.                                  *)
Becomes(s, st, kind) ==
    /\ sessions' = [sessions EXCEPT ![s].st = st]
    /\ signals' = IF s \in subs THEN Append(signals, [kind |-> kind, s |-> s]) ELSE signals

(* A session is connected or paused.  self.status() is TRUE only then; it  *)
(* is FALSE too when the manager cannot be reached in six tries or the     *)
(* state of each such session cannot be read.                              *)
Status == foreign \/ \E s \in Ids : sessions[s].st \in Up

(* A call for session s fails.                                             *)
Fails(call, s) ==
    /\ call \in Faults
    /\ Cardinality(failed \cup {<<call, s>>}) <= MaxFailures
    /\ failed' = failed \cup {<<call, s>>}

(* disconnect_vpn(session_path): nobody learns that it failed.             *)
NativeDisconnect(s) ==
    \/ /\ sessions[s].st \in Live
       /\ sessions' = [sessions EXCEPT ![s].st = "gone"]
       /\ UNCHANGED failed
    \/ /\ sessions[s].st \in Live
       /\ Fails("disconnect", s)
       /\ UNCHANGED sessions
    \/ /\ sessions[s].st \notin Live
       /\ UNCHANGED <<sessions, failed>>

(* The window's reaction to callback(False) and callback(False, reason).   *)
HandleDisconnected == window' = Off

Untidy(kind) ==
    /\ Cardinality(untidy \cup {kind}) <= MaxUntidy
    /\ untidy' = untidy \cup {kind}

(* What is on its way to a removed subscription is not dispatched.         *)
UnsubscribeAll == attention' = FALSE /\ subs' = {} /\ signals' = <<>>

(* try_to_connect, once the inputs left are need: the status of a session  *)
(* that is ready is subscribed to before it connects; one that is gone is  *)
(* an error, not ready.  When its log is not forwarded the session         *)
(* connects unheard.  When the call to connect fails it stays as it is,    *)
(* and when asking whether it is ready does, nothing is subscribed either. *)
TryToConnect(need) ==
    LET ready == need = {} /\ sessions[session].st \in Live
        st == IF ready /\ sessions[session].st = "waiting" THEN "connecting"
              ELSE sessions[session].st
    IN
    \/ /\ sessions' = [sessions EXCEPT ![session].need = need, ![session].st = st]
       /\ \/ /\ subs' = IF ready THEN subs \cup {session} ELSE subs
             /\ UNCHANGED failed
          \/ /\ ready /\ Fails("listen", session)
             /\ UNCHANGED subs
    \/ /\ ready /\ Fails("connect", session)
       /\ sessions' = [sessions EXCEPT ![session].need = need]
       /\ subs' \in {subs, subs \cup {session}}

-----------------------------------------------------------------------------
(* The main window and the manager.                                        *)

StartWatch ==
    /\ watch' = TRUE
    /\ attention' = (attention \/ ~watch)

(* The click comes before a signal on its way is dispatched, or connects   *)
(* although there is a connection.                                         *)
Overtake ==
    LET kinds == (IF signals = <<>> THEN {} ELSE {"overtaken"})
                     \cup (IF Status THEN {"misread"} ELSE {})
    IN /\ Cardinality(untidy \cup kinds) <= MaxUntidy
       /\ untidy' = untidy \cup kinds

(* A click while an attempt is under way: this backend has nothing to      *)
(* cancel, so only the window goes back.                                   *)
CancelAttempt ==
    /\ dialogs = 0 /\ window.attempt
    /\ HandleDisconnected
    /\ Untidy("cancelled")
    /\ UNCHANGED <<sessions, foreign, manager, dialogs, signals, failed>>

(* A click while something is connected: only the manager's own session is *)
(* taken down, and its handle forgotten whether or not that worked;        *)
(* without one the window is told so.                                      *)
ClickDisconnect ==
    /\ dialogs = 0 /\ ~window.attempt /\ Status
    /\ StartWatch
    /\ IF session # 0
       THEN /\ NativeDisconnect(session)
            /\ signals' = IF sessions' # sessions /\ session \in subs
                          THEN Append(signals, [kind |-> "disconnected", s |-> session])
                          ELSE signals
            /\ UNCHANGED window
       ELSE HandleDisconnected /\ UNCHANGED <<sessions, signals, failed>>
    /\ session' = 0
    /\ UNCHANGED <<foreign, subs, dialogs, untidy>>

(* A click otherwise: no profile is selected, or the audit refuses it, or  *)
(* importing it fails, or preparing a session does, or there is a new      *)
(* session that needs some inputs.  Only the audit says that it failed.    *)
ClickConnect ==
    /\ dialogs = 0 /\ ~window.attempt /\ (Status => "status" \in Faults)
    /\ StartWatch
    /\ \/ /\ window' \in {window, Off}
          /\ UNCHANGED <<sessions, session>>
       \/ /\ window' = [Off EXCEPT !.attempt = TRUE]
          /\ session' \in {session, 0}
          /\ UNCHANGED sessions
       \/ /\ window' = [Off EXCEPT !.attempt = TRUE]
          /\ \E s \in Ids, need \in Needs :
                /\ sessions[s].st = "none" /\ \A r \in 1..(s - 1) : r \in Started
                /\ sessions' = [sessions EXCEPT ![s].st = "waiting", ![s].need = need]
                /\ session' = s
    /\ Overtake
    /\ UNCHANGED <<foreign, subs, dialogs, signals, failed>>

(* The pause button, visible while the window shows a connection.          *)
ClickPause ==
    /\ dialogs = 0 /\ window.connected /\ ~window.paused /\ Len(signals) < MaxSignals
    /\ session # 0 /\ sessions[session].st = "connected"
    /\ Becomes(session, "paused", "paused")
    /\ UNCHANGED <<foreign, manager, dialogs, window, untidy, failed>>

ClickResume ==
    /\ dialogs = 0 /\ window.connected /\ window.paused /\ Len(signals) < MaxSignals
    /\ session # 0 /\ sessions[session].st = "paused"
    /\ Becomes(session, "connected", "resuming")
    /\ UNCHANGED <<foreign, manager, dialogs, window, untidy, failed>>

(* on_backend_selected: the old instance stops listening and is replaced.  *)
(* If the new one cannot be made, putting the old name back in the combo   *)
(* box selects the old backend anew.  Either way its session is forgotten. *)
SelectBackend ==
    /\ dialogs = 0
    /\ session' = 0 /\ watch' = FALSE
    /\ UnsubscribeAll
    /\ Untidy("switched")
    /\ UNCHANGED <<sessions, foreign, dialogs, window, failed>>

-----------------------------------------------------------------------------
(* The code dialog.                                                        *)

(* send_otp: the code goes to the session of the moment; if it does not    *)
(* get there the session still needs it.                                   *)
SubmitCode ==
    /\ dialogs > 0
    /\ dialogs' = dialogs - 1
    /\ \/ session # 0 /\ TryToConnect(sessions[session].need \ {"otp"})
       \/ /\ session # 0 /\ "otp" \in sessions[session].need
          /\ Fails("input", session)
          /\ UNCHANGED <<sessions, subs>>
       \/ session = 0 /\ UNCHANGED <<sessions, subs, failed>>
    /\ UNCHANGED <<foreign, session, watch, attention, signals, window, untidy>>

(* Closing the dialog tells the window that the connection is down; the    *)
(* session goes on waiting.                                                *)
CloseDialog ==
    /\ dialogs > 0
    /\ dialogs' = dialogs - 1
    /\ HandleDisconnected
    /\ Untidy("code refused")
    /\ UNCHANGED <<sessions, foreign, manager, signals, failed>>

-----------------------------------------------------------------------------
(* Signals.                                                                *)

(* Mutant of OnAttention: the inputs are answered and nothing follows.     *)
OnAttentionOnlyAnswers ==
    /\ signals' = Tail(signals)
    /\ IF session = 0 THEN UNCHANGED <<sessions, dialogs>>
       ELSE LET need == sessions[session].need IN
            /\ dialogs' = IF "otp" \in need THEN dialogs + 1 ELSE dialogs
            /\ sessions' = [sessions EXCEPT ![session].need = @ \ {"login"}]
    /\ UNCHANGED <<session, watch, attention, subs, window, failed>>

(* sub_attention_signal: whichever session asked, the inputs of the        *)
(* manager's session are looked at and answered; without one the handler   *)
(* raises, as it does when they cannot be read.  A login that does not get *)
(* there is still needed.                                                  *)
OnAttention ==
    LET need == sessions[session].need
        shown == IF "otp" \in need THEN dialogs + 1 ELSE dialogs
    IN
    /\ signals' = Tail(signals)
    /\ \/ /\ session # 0
          /\ dialogs' = shown
          /\ TryToConnect(need \ {"login"})
       \/ /\ session # 0 /\ "login" \in need
          /\ dialogs' = shown
          /\ Fails("input", session)
          /\ UNCHANGED <<sessions, subs>>
       \/ /\ session # 0
          /\ Fails("input", session)
          /\ UNCHANGED <<sessions, subs, dialogs>>
       \/ /\ session = 0
          /\ UNCHANGED <<sessions, subs, dialogs, failed>>
    /\ UNCHANGED <<session, watch, attention, window>>

(* Mutant of OnConnected: a connected session is no longer listened to.    *)
OnConnectedUnsubscribes ==
    /\ window' = [attempt |-> FALSE, connected |-> TRUE, paused |-> FALSE]
    /\ UnsubscribeAll
    /\ UNCHANGED <<sessions, session, watch, dialogs, failed>>

OnConnected ==
    /\ window' = [attempt |-> FALSE, connected |-> TRUE, paused |-> FALSE]
    /\ signals' = Tail(signals)
    /\ UNCHANGED <<sessions, manager, dialogs, failed>>

(* Mutant of OnDisconnected: the window is not told.                       *)
OnDisconnectedSilent ==
    /\ UnsubscribeAll
    /\ UNCHANGED <<sessions, session, watch, dialogs, window, failed>>

OnDisconnected ==
    /\ UnsubscribeAll
    /\ HandleDisconnected
    /\ UNCHANGED <<sessions, session, watch, dialogs, failed>>

(* Mutant of OnAuthFailed: the session is left to itself.                  *)
OnAuthFailedKeepsSession ==
    /\ HandleDisconnected
    /\ UnsubscribeAll
    /\ UNCHANGED <<sessions, session, watch, dialogs, failed>>

(* The handler ends the manager's session, after it stopped listening, and *)
(* forgets it.                                                             *)
OnAuthFailed ==
    /\ HandleDisconnected
    /\ UnsubscribeAll
    /\ IF session # 0 THEN NativeDisconnect(session) ELSE UNCHANGED <<sessions, failed>>
    /\ session' = 0
    /\ UNCHANGED <<watch, dialogs>>

OnPaused(paused) ==
    /\ window' = [window EXCEPT !.paused = paused]
    /\ signals' = Tail(signals)
    /\ UNCHANGED <<sessions, manager, dialogs, failed>>

(* The main loop dispatches the oldest signal.                             *)
Deliver ==
    /\ signals # <<>>
    /\ LET g == Head(signals) IN
       \/ g.kind = "attention" /\ OnAttention
       \/ g.kind = "connected" /\ OnConnected
       \/ g.kind = "disconnected" /\ OnDisconnected
       \/ g.kind = "auth failed" /\ OnAuthFailed
       \/ g.kind = "paused" /\ OnPaused(TRUE)
       \/ g.kind = "resuming" /\ OnPaused(FALSE)
    /\ UNCHANGED <<foreign, untidy>>

-----------------------------------------------------------------------------
(* The session manager, external.                                          *)

(* A session that waits for input asks for it, perhaps more than once.     *)
Ask(s) ==
    /\ sessions[s].st = "waiting" /\ sessions[s].need # {}
    /\ sessions[s].asks < MaxAsks
    /\ sessions' = [sessions EXCEPT ![s].asks = @ + 1]
    /\ signals' = IF attention THEN Append(signals, [kind |-> "attention", s |-> s]) ELSE signals
    /\ UNCHANGED <<foreign, manager, dialogs, window, untidy, failed>>

(* Connecting ends in a connection, a refusal, or a disconnection.         *)
Outcome(s) ==
    /\ sessions[s].st = "connecting"
    /\ \/ Becomes(s, "connected", "connected")
       \/ Becomes(s, "failed", "auth failed")
       \/ Becomes(s, "gone", "disconnected")
    /\ UNCHANGED <<foreign, manager, dialogs, window, untidy, failed>>

Drop(s) ==
    /\ sessions[s].st \in Up
    /\ Becomes(s, "gone", "disconnected")
    /\ UNCHANGED <<foreign, manager, dialogs, window, untidy, failed>>

OtherProcess ==
    /\ foreign' = ~foreign
    /\ UNCHANGED <<sessions, manager, dialogs, signals, window, untidy, failed>>

Next ==
    \/ CancelAttempt \/ ClickDisconnect \/ ClickConnect \/ ClickPause \/ ClickResume
    \/ SelectBackend \/ SubmitCode \/ CloseDialog \/ Deliver \/ OtherProcess
    \/ \E s \in Ids : Ask(s) \/ Outcome(s) \/ Drop(s)

Spec == Init /\ [][Next]_vars

(* The main loop runs; the session manager asks for what it needs and does *)
(* not leave a connection attempt undecided.                               *)
FairSpec ==
    /\ Spec /\ WF_vars(Deliver)
    /\ \A s \in Ids : WF_vars(Ask(s)) /\ WF_vars(Outcome(s))

-----------------------------------------------------------------------------
(* Properties.                                                             *)

(* The calls that failed for session s.                                    *)
Failed(s) == {call \in Faults : <<call, s>> \in failed}

(* When no signal is on its way, the window shows a connection exactly when*)
(* this program has one, and its pause button does what the connection     *)
(* allows.  Not so after an attempt was abandoned, a signal overtaken, the *)
(* status misread or the backend changed, nor while a connection is up     *)
(* whose end the manager refused or whose log it does not forward.         *)
WindowFollowsSession ==
    (/\ signals = <<>> /\ untidy = {}
     /\ \A s \in Ids : sessions[s].st \in Up => Failed(s) \cap {"disconnect", "listen"} = {}) =>
        /\ window.connected <=> \E s \in Ids : sessions[s].st \in Up
        /\ window.paused <=> \E s \in Ids : sessions[s].st = "paused"

(* Also after attempts were abandoned and whatever calls failed, a         *)
(* connection the window shows is there and its end will be heard of; only *)
(* a change of the backend breaks this.                                    *)
ShownIsHeard ==
    (signals = <<>> /\ "switched" \notin untidy /\ window.connected) =>
        \E s \in subs : sessions[s].st \in Up

(* A session that lives and whose handle the program does not hold is one  *)
(* that the session manager refused to disconnect: none is left behind     *)
(* otherwise, also when the password was refused, a connection was lost,   *)
(* other calls failed, or a connection of another process was in the way.  *)
(* Not so after an attempt was abandoned, a signal overtaken, the status   *)
(* misread or the backend changed: then the handle is replaced or dropped. *)
NoOrphans ==
    (signals = <<>> /\ untidy = {}) =>
        \A s \in Ids : sessions[s].st \in Live => session = s \/ "disconnect" \in Failed(s)

(* An attempt whose session waits for a login or a code ends, a code is    *)
(* asked for, or a call for this session failed.  What keeps the window in *)
(* "Connecting..." is left out by the premise: a session that was never    *)
(* made, one that asks for nothing, since only an answered request         *)
(* connects, one whose requests are no longer listened to, and one that    *)
(* needs an input the program does not know.                               *)
AttemptEnds ==
    (/\ window.attempt /\ session # 0 /\ attention
     /\ sessions[session].st = "waiting"
     /\ sessions[session].need # {} /\ "other" \notin sessions[session].need)
        ~> (\/ ~window.attempt \/ dialogs > 0 \/ untidy # {}
            \/ session # 0 /\ Failed(session) # {})
=============================================================================
