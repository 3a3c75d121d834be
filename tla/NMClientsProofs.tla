-------------------------- MODULE NMClientsProofs --------------------------
(***************************************************************************)
(* Proofs about the two clients of the NetworkManager backend, whatever    *)
(* NetworkManager does: the window that connects by hand (ConnectionUI)    *)
(* and the cascade's controller (CascadeOverNM).                           *)
(*                                                                         *)
(* The window knows of a tunnel only what the callback has told it.  Its   *)
(* proofs therefore say what is still on its way to the callback: for an   *)
(* attempt, that something is; for a user who waits, exactly what, so that *)
(* when nothing is left the window shows what NetworkManager has.          *)
(*                                                                         *)
(* The controller's methods are known here only by what CascadeProofs says *)
(* a step asks of the manager and where it leaves the run.  The rest says  *)
(* whose every connect is that is queued, under way or up, and that what   *)
(* belongs to no attempt any more is coming down.                          *)
(***************************************************************************)
EXTENDS ConnectionUI, CascadeOverNM, NMBackendProofs, SequenceTheorems

-----------------------------------------------------------------------------
(* The window's own types.                                                 *)

WindowType ==
    /\ attempting \in BOOLEAN /\ wasConnected \in BOOLEAN /\ manual \in BOOLEAN
    /\ label \in Labels
    /\ monitor \in BOOLEAN
    /\ reconnects \in Nat
    /\ saidNo \in BOOLEAN /\ calm \in BOOLEAN

UITypeInv == TypeInv /\ WindowType

(* The steps of the window that are none of the backend's keep all it has  *)
(* but the watch.                                                          *)
Idles == UNCHANGED <<queue, field, cancel, uuid, thread, ui, daemon, bus, inbox>>

LEMMA ToggleSteps ==
    ASSUME Toggle
    PROVE  \/ RequestConnect \/ RequestDisconnect \/ SetCancel
           \/ StartWatchOnly
BY DEF Toggle, ToggleConnect, ToggleDisconnect, ToggleCancel

LEMMA IdlesTypeInv ==
    ASSUME TypeInv, Idles, watch' \in BOOLEAN, suppress' \in BOOLEAN,
           heard' = "none", calls' \in Nat
    PROVE  TypeInv'
<1>1. IInv'
  BY DEF TypeInv, IInv, QueueType, WorkerIsField, FieldWorks, QueueHasWorker, Idles
<1>2. DaemonType'
  BY NothingChanges DEF TypeInv, Idles, daemon
<1>3. Signals'
  BY DEF TypeInv, Signals, Idles, inbox
<1>4. QED
  BY <1>1, <1>2, <1>3 DEF TypeInv

LEMMA ToggleTypeInv ==
    ASSUME TypeInv, Toggle
    PROVE  TypeInv'
<1>1. CASE RequestConnect \/ RequestDisconnect \/ SetCancel
  BY <1>1, NextTypeInv DEF Next
<1>2. CASE StartWatchOnly
  <2>1. Idles /\ watch' = TRUE /\ suppress' = FALSE /\ heard' = "none" /\ calls' = calls + 1
    BY <1>2 DEF StartWatchOnly, Request, Idles
  <2>2. calls' \in Nat
    BY <2>1 DEF TypeInv, Signals
  <2>3. QED
    BY <2>1, <2>2, IdlesTypeInv
<1>3. QED
  BY <1>1, <1>2, ToggleSteps

LEMMA InitUIType == UIInit => UITypeInv
<1>1. UIInit => TypeInv
  BY InitTypeInv DEF UIInit
<1>2. UIInit => WindowType
  <2> SUFFICES ASSUME UIInit PROVE WindowType
    OBVIOUS
  <2>1. /\ attempting = FALSE /\ wasConnected = FALSE /\ manual = FALSE
        /\ label = "Connect" /\ monitor = FALSE /\ reconnects = 0
        /\ saidNo = FALSE /\ calm = TRUE
    BY DEF UIInit
  <2>2. label \in Labels /\ reconnects \in Nat
    BY <2>1 DEF Labels
  <2>3. QED
    BY <2>1, <2>2 DEF WindowType
<1>3. QED
  BY <1>1, <1>2 DEF UITypeInv

LEMMA ToggleWindowType ==
    ASSUME WindowType, Toggle
    PROVE  /\ attempting' \in BOOLEAN /\ wasConnected' \in BOOLEAN /\ manual' \in BOOLEAN
           /\ label' \in Labels /\ monitor' \in BOOLEAN
           /\ saidNo' \in BOOLEAN /\ calm' \in BOOLEAN
<1>1. calm' \in BOOLEAN
  BY DEF Toggle, AtRest
<1>2. QED
  BY <1>1 DEF WindowType, Toggle, ToggleConnect, ToggleDisconnect, ToggleCancel, Labels

LEMMA HearWindowType ==
    ASSUME WindowType, Hear \/ HandleDisconnected
    PROVE  /\ attempting' \in BOOLEAN /\ wasConnected' \in BOOLEAN /\ manual' \in BOOLEAN
           /\ label' \in Labels /\ monitor' \in BOOLEAN /\ reconnects' \in Nat
<1>1. CASE HandleDisconnected
  <2>1. /\ attempting' = FALSE /\ wasConnected' = FALSE /\ manual' = FALSE
        /\ monitor' = FALSE /\ label' \in Labels
        /\ reconnects' \in {reconnects, reconnects + 1}
    BY <1>1 DEF HandleDisconnected, StopMonitor, Labels
  <2>2. reconnects' \in Nat
    BY <2>1 DEF WindowType
  <2>3. QED
    BY <2>1, <2>2
<1>2. CASE HandleConnected
  <2>1. /\ attempting' = FALSE /\ wasConnected' = TRUE /\ monitor' = TRUE
        /\ label' \in Labels /\ UNCHANGED <<manual, reconnects>>
    BY <1>2 DEF HandleConnected, StartMonitor, Labels
  <2>2. QED
    BY <2>1 DEF WindowType
<1>3. CASE UNCHANGED window
  BY <1>3 DEF WindowType, window, flags
<1>4. QED
  BY <1>1, <1>2, <1>3 DEF Hear

LEMMA NextUIType ==
    ASSUME UITypeInv, [UINext]_uiVars
    PROVE  UITypeInv'
<1>1. TypeInv /\ WindowType
  BY DEF UITypeInv
<1>2. CASE Press
  BY <1>1, <1>2, ToggleTypeInv, ToggleWindowType DEF Press, UITypeInv, WindowType
<1>3. CASE CancelReturns
  <2>1. TypeInv'
    BY <1>1, <1>3, NextTypeInv DEF CancelReturns, Next
  <2>2. QED
    BY <1>1, <1>3, <2>1, HearWindowType DEF CancelReturns, observers, UITypeInv, WindowType
<1>10. CASE CancelGoesOn
  <2>1. TypeInv'
    BY <1>1, <1>10, NextTypeInv DEF CancelGoesOn, Next
  <2>2. QED
    BY <1>1, <1>10, <2>1 DEF CancelGoesOn, window, flags, observers, UITypeInv, WindowType
<1>4. CASE ReconnectFires
  <2>1. reconnects' \in Nat
    BY <1>1, <1>4 DEF ReconnectFires, WindowType
  <2>2. CASE Toggle
    BY <1>1, <2>1, <2>2, ToggleTypeInv, ToggleWindowType DEF UITypeInv, WindowType
  <2>3. CASE heard' = "none" /\ UNCHANGED <<backend, thread, ui, daemon, bus, inbox,
                                            calls, flags, observers>>
    <3>1. Idles /\ UNCHANGED <<watch, suppress, calls>>
      BY <2>3 DEF Idles, backend
    <3>2. TypeInv'
      BY <1>1, <2>3, <3>1, IdlesTypeInv DEF TypeInv, Signals
    <3>3. QED
      BY <1>1, <2>1, <2>3, <3>2 DEF UITypeInv, WindowType, flags, observers
  <2>4. QED
    BY <1>4, <2>2, <2>3 DEF ReconnectFires
<1>5. CASE Event
  <2>1. TypeInv'
    BY <1>1, <1>5, NextTypeInv DEF Event, Next
  <2>2. QED
    BY <1>1, <1>5, <2>1, HearWindowType DEF Event, observers, UITypeInv, WindowType
<1>6. CASE Elsewhere
  <2>1. TypeInv'
    BY <1>1, <1>6, NextTypeInv DEF Elsewhere, Next
  <2>2. calm' \in BOOLEAN /\ UNCHANGED <<attempting, wasConnected, manual, label, monitor,
                                         reconnects, saidNo>>
    BY <1>6 DEF Elsewhere, window, flags
  <2>3. QED
    BY <1>1, <2>1, <2>2 DEF UITypeInv, WindowType
<1>7. CASE WindowRestart
  <2>1. TypeInv'
    BY <1>1, <1>7, NextTypeInv DEF WindowRestart, Next
  <2>2. QED
    BY <1>7, <2>1 DEF WindowRestart, InitialLabel, StopMonitor, UITypeInv, WindowType, Labels
<1>8. CASE UNCHANGED uiVars
  <2>1. TypeInv'
    BY <1>1, <1>8, NextTypeInv DEF uiVars
  <2>2. QED
    BY <1>1, <1>8, <2>1 DEF uiVars, window, flags, observers, UITypeInv, WindowType
<1>9. QED
  BY <1>2, <1>3, <1>4, <1>5, <1>6, <1>7, <1>8, <1>10 DEF UINext

(* The window's fields keep their types, and the backend its own, also in  *)
(* the steps of the window that are not steps of NMBackend.                *)
THEOREM WindowTypeCorrect == UISpec => []UITypeOK
<1>1. UITypeInv => UITypeOK
  BY TypeInvTypes DEF UITypeInv, WindowType, UITypeOK
<1>2. UITypeInv /\ [UINext]_uiVars => UITypeInv'
  BY NextUIType
<1>3. QED
  BY InitUIType, <1>1, <1>2, PTL DEF UISpec

-----------------------------------------------------------------------------
(* What is asked of the worker and not activated yet.                      *)

Asks == Queued("connect") \/ \E t \in Threads : thread[t].pc \in BeforeActivation

LEMMA SameAsks ==
    ASSUME UNCHANGED <<queue, thread>>
    PROVE  Asks' = Asks /\ Queued("connect")' = Queued("connect")
BY DEF Asks, Queued

(* Before it is activated, the profile of a thread at work is the only one *)
(* that is on its way.                                                     *)
LEMMA WorkerAsks ==
    ASSUME TypeInv, NEW t \in Threads, Worker(t)
    PROVE  /\ Asks' => Asks
           /\ Asks => Asks' \/ Fails(t) \/ Activates(t) \/ (Works(t) /\ cancel)
           /\ ~Takes(t) => queue' = queue
<1>1. /\ Effect(t) /\ QueueType
      /\ \A v \in Threads \ {t} : thread'[v] = thread[v]
  BY WorkerEffect DEF TypeInv, IInv
<1>2. CASE Takes(t)
  <2>1. /\ 1 \in 1..Len(queue) /\ queue[1] = Head(queue)
        /\ \A i \in 1..Len(queue') : i + 1 \in 1..Len(queue) /\ i + 1 # 1
                                     /\ queue'[i] = queue[i + 1]
    BY <1>1, <1>2, TailQueued DEF Takes
  <2>2. Queued("connect")' => Queued("connect")
    BY <2>1 DEF Queued
  <2>3. thread'[t].pc \in BeforeActivation => Queued("connect")
    BY <1>2, <2>1 DEF Takes, Queued, BeforeActivation
  <2>4. Asks' => Asks
    BY <1>1, <2>2, <2>3 DEF Asks
  <2>5. ASSUME NEW i \in 1..Len(queue), queue[i] = "connect"
        PROVE  Asks'
    <3>1. CASE i = 1
      BY <1>2, <2>1, <2>5, <3>1 DEF Takes, Asks, BeforeActivation
    <3>2. CASE i # 1
      <4>1. i - 1 \in 1..Len(queue')
        BY <1>1, <1>2, <3>2 DEF QueueType, Takes
      <4>2. queue'[i - 1] = "connect"
        BY <1>1, <2>1, <2>5, <4>1
      <4>3. QED
        BY <4>1, <4>2 DEF Asks, Queued
    <3>3. QED
      BY <3>1, <3>2
  <2>6. ASSUME NEW v \in Threads, thread[v].pc \in BeforeActivation
        PROVE  Asks'
    <3>1. v # t
      BY <1>2, <2>6 DEF Takes, BeforeActivation
    <3>2. QED
      BY <1>1, <2>6, <3>1 DEF Asks
  <2>7. QED
    BY <1>2, <2>4, <2>5, <2>6 DEF Asks, Queued
<1>3. CASE ~Takes(t)
  <2>1. queue' = queue
    BY <1>1, <1>3 DEF Effect, Works, Fails, Activates, Removes
  <2>2. Queued("connect")' = Queued("connect")
    BY <2>1 DEF Queued
  <2>3. thread'[t].pc \in BeforeActivation => thread[t].pc \in BeforeActivation
    BY <1>1, <1>3 DEF Effect, Works, Fails, Activates, Removes, Onward, BeforeActivation
  <2>4. Asks' => Asks
    BY <1>1, <2>2, <2>3 DEF Asks
  <2>5. ASSUME ~Fails(t), ~Activates(t), ~(Works(t) /\ cancel)
        PROVE  thread[t].pc \in BeforeActivation => thread'[t].pc \in BeforeActivation
    BY <1>1, <1>3, <2>5 DEF Effect, Works, Removes, Onward
  <2>6. ASSUME ~Fails(t), ~Activates(t), ~(Works(t) /\ cancel)
        PROVE  Asks => Asks'
    BY <1>1, <2>2, <2>5, <2>6 DEF Asks
  <2>7. QED
    BY <1>3, <2>1, <2>4, <2>6
<1>4. QED
  BY <1>2, <1>3

LEMMA DispatchAsks ==
    ASSUME TypeInv, NEW op \in Operations, Dispatch(op)
    PROVE  /\ op = "connect" => Queued("connect")'
           /\ op # "connect" => Asks' = Asks
           /\ Len(queue') = Len(queue) + 1
           /\ \A t \in Threads : \/ thread'[t] = thread[t]
                                 \/ thread'[t] = Popping("none", NoUuid)
<1>1. QueueType /\ queue' = Append(queue, op)
  BY DEF TypeInv, IInv, Dispatch
<1>2. /\ Len(queue') = Len(queue) + 1 /\ Len(queue) \in Nat
      /\ \A i \in 1..Len(queue') : IF i = Len(queue') THEN queue'[i] = op
                                   ELSE i \in 1..Len(queue) /\ queue'[i] = queue[i]
  BY <1>1, AppendQueued
<1>3. \A t \in Threads : thread'[t] = thread[t] \/ thread'[t] = Popping("none", NoUuid)
  BY <1>1 DEF Dispatch, QueueType
<1>4. op = "connect" => Queued("connect")'
  <2>1. Len(queue') \in 1..Len(queue')
    BY <1>2
  <2>2. QED
    BY <1>2, <2>1 DEF Queued
<1>5. ASSUME op # "connect"
      PROVE  Asks' = Asks
  <2>1. \A i \in 1..Len(queue) : i \in 1..Len(queue') /\ queue'[i] = queue[i]
    BY <1>2
  <2>2. Queued("connect")' = Queued("connect")
    BY <1>2, <1>5, <2>1 DEF Queued
  <2>3. \A t \in Threads : (thread'[t].pc \in BeforeActivation) = (thread[t].pc \in BeforeActivation)
    <3>1. CASE UNCHANGED thread
      BY <3>1
    <3>2. ASSUME NEW v \in Threads, thread[v].pc = "dead",
                 thread' = [thread EXCEPT ![v] = Popping("none", NoUuid)]
          PROVE  \A t \in Threads : (thread'[t].pc \in BeforeActivation)
                                       = (thread[t].pc \in BeforeActivation)
      BY <1>1, <3>2 DEF QueueType, Popping, BeforeActivation
    <3>3. QED
      BY <3>1, <3>2 DEF Dispatch
  <2>4. QED
    BY <2>2, <2>3 DEF Asks
<1>6. QED
  BY <1>2, <1>3, <1>4, <1>5

-----------------------------------------------------------------------------
(* An attempt of which nothing is left but what the callback will hear.    *)
(* A cancelled operation is not reported; but the flag stays set only      *)
(* until the next operation is taken, and an attempt made meanwhile has    *)
(* one queued, or was refused.                                             *)

BackedBy ==
    \/ Asks \/ Status
    \/ bus # <<>> \/ late > 0 \/ failures > 0 \/ refusals > 0

AttemptInv ==
    attempting /\ ui = "free" =>
        /\ watch /\ ~suppress
        /\ cancel => Queued("connect") \/ refusals > 0
        /\ BackedBy

(* A tunnel lost while it is watched is heard of.                          *)
LEMMA LossIsSignalled ==
    ASSUME TypeInv, watch, LosesTunnel
    PROVE  bus' # <<>>
<1>1. bus' = Append(bus, "down") /\ bus \in Seq({"up", "down"})
  BY DEF LosesTunnel, Signal, TypeInv, Signals
<1>2. QED
  BY <1>1


LEMMA WorkerAttempt ==
    ASSUME TypeInv, AttemptInv, NEW t \in Threads, Worker(t), attempting' = attempting
    PROVE  AttemptInv'
<1> SUFFICES ASSUME attempting, ui = "free"
             PROVE  /\ watch' /\ ~suppress'
                    /\ cancel' => Queued("connect")' \/ refusals' > 0
                    /\ BackedBy'
  BY WorkerEffect DEF AttemptInv
<1>1. /\ watch /\ ~suppress
      /\ cancel => Queued("connect") \/ refusals > 0
      /\ BackedBy
  BY DEF AttemptInv
<1>2. Effect(t) /\ UNCHANGED <<watch, late, refusals>> /\ Signals
  BY WorkerEffect DEF TypeInv
<1>3. CASE Takes(t)
  <2>1. Asks => Asks'
    BY <1>3, WorkerAsks DEF Takes, Fails, Activates, Works, BeforeActivation
  <2>2. Status' = Status /\ UNCHANGED <<bus, failures>> /\ ~cancel' /\ ~suppress'
    BY <1>3 DEF Takes, SameTunnels, Status
  <2>3. QED
    BY <1>1, <1>2, <2>1, <2>2 DEF BackedBy
<1>4. CASE ~Takes(t)
  <2>1. queue' = queue /\ UNCHANGED <<cancel, suppress>>
    BY <1>2, <1>4 DEF Effect, Works, Fails, Activates, Removes
  <2>2. Queued("connect")' = Queued("connect")
    BY <2>1 DEF Queued
  <2>3. Queued("connect") => Asks'
    BY <2>2 DEF Asks
  <2>4. CASE Works(t)
    <3>1. Status' = Status /\ UNCHANGED <<bus, failures>>
      BY <2>4 DEF Works, SameTunnels, Status
    <3>2. Asks => Asks' \/ cancel
      BY <2>4, WorkerAsks DEF Works, Fails, Activates, Onward, BeforeActivation
    <3>3. QED
      BY <1>1, <1>2, <2>1, <2>2, <2>3, <3>1, <3>2 DEF BackedBy
  <2>5. CASE Fails(t)
    <3>1. CASE cancel
      BY <1>1, <1>2, <2>1, <2>2, <2>3, <3>1 DEF BackedBy
    <3>2. CASE ~cancel
      <4>1. failures' > 0
        BY <1>2, <2>5, <3>2 DEF Fails, Signals
      <4>2. QED
        BY <1>1, <1>2, <2>1, <2>2, <4>1 DEF BackedBy
    <3>3. QED
      BY <3>1, <3>2
  <2>6. CASE Activates(t)
    <3>1. uuid \in ActiveProfiles'
      BY <2>6 DEF Activates, ActiveProfiles, TypeInv, DaemonType
    <3>2. Status'
      BY <3>1 DEF Status
    <3>3. QED
      BY <1>1, <1>2, <2>1, <2>2, <3>2 DEF BackedBy
  <2>7. CASE Removes(t)
    <3>1. bus' # <<>>
      BY <1>1, <2>7, LossIsSignalled DEF Removes
    <3>2. QED
      BY <1>1, <1>2, <2>1, <2>2, <3>1 DEF BackedBy
  <2>8. QED
    BY <1>2, <1>4, <2>4, <2>5, <2>6, <2>7 DEF Effect
<1>5. QED
  BY <1>3, <1>4

LEMMA ToggleAttempt ==
    ASSUME TypeInv, AttemptInv, Toggle
    PROVE  AttemptInv'
<1> SUFFICES ASSUME attempting', ui' = "free"
             PROVE  /\ watch' /\ ~suppress'
                    /\ cancel' => Queued("connect")' \/ refusals' > 0
                    /\ BackedBy'
  BY DEF AttemptInv
<1>1. ~ToggleCancel /\ ~ToggleDisconnect
  BY DEF ToggleCancel, SetCancel, ToggleDisconnect
<1>2. ToggleConnect /\ RequestConnect
  BY <1>1 DEF Toggle, ToggleConnect
<1>3. watch' = TRUE /\ suppress' = FALSE
  BY <1>2 DEF RequestConnect
<1>4. CASE Dispatch("connect")
  <2>1. Queued("connect")'
    BY <1>4, DispatchAsks DEF Operations
  <2>2. QED
    BY <1>3, <2>1 DEF BackedBy, Asks
<1>5. CASE refusals' = refusals + 1
  <2>1. refusals' > 0
    BY <1>5 DEF TypeInv, Signals
  <2>2. QED
    BY <1>3, <2>1 DEF BackedBy
<1>6. QED
  BY <1>2, <1>4, <1>5 DEF RequestConnect

(* An event that is not dropped ends the attempt, except a loss that waits *)
(* for its second.                                                         *)
LEMMA EventAttempt ==
    ASSUME TypeInv, AttemptInv, Event
    PROVE  AttemptInv'
<1> SUFFICES ASSUME attempting', ui' = "free"
             PROVE  /\ watch' /\ ~suppress'
                    /\ cancel' => Queued("connect")' \/ refusals' > 0
                    /\ BackedBy'
  BY DEF AttemptInv
<1>1. heard' = "none" /\ attempting
  BY DEF Event, Hear, HandleConnected, HandleDisconnected, window, flags
<1>2. UNCHANGED <<queue, thread, cancel, suppress, watch, ui, profiles, act>>
  BY DEF Event, Callbacks, SignalArrives, LateDisconnection, FailureNotified, RefusalNotified,
         backend, daemon
<1>3. /\ watch /\ ~suppress
      /\ cancel => Queued("connect") \/ refusals > 0
  BY <1>1, <1>2 DEF AttemptInv
<1>4. SignalArrives /\ late' = late + 1
  BY <1>1, <1>3 DEF Event, Callbacks, SignalArrives, LateDisconnection, FailureNotified,
                    RefusalNotified, Guarded
<1>5. late' > 0 /\ refusals' = refusals
  BY <1>4 DEF SignalArrives, TypeInv, Signals
<1>6. Queued("connect")' = Queued("connect")
  BY <1>2, SameAsks
<1>7. QED
  BY <1>2, <1>3, <1>5, <1>6 DEF BackedBy

LEMMA ElsewhereAttempt ==
    ASSUME TypeInv, AttemptInv, Elsewhere
    PROVE  AttemptInv'
<1>1. attempting' = attempting
  BY DEF Elsewhere, window, flags
<1>2. CASE \E t \in Threads : Worker(t)
  BY <1>1, <1>2, WorkerAttempt
<1>3. ASSUME UNCHANGED <<queue, thread, cancel, suppress, watch, ui, late, failures, refusals>>,
             bus' # <<>> \/ Status' \/ (bus' = bus /\ ~Status)
      PROVE  AttemptInv'
  <2> SUFFICES ASSUME attempting, ui = "free"
               PROVE  /\ watch' /\ ~suppress'
                      /\ cancel' => Queued("connect")' \/ refusals' > 0
                      /\ BackedBy'
    BY <1>1, <1>3 DEF AttemptInv
  <2>1. /\ watch /\ ~suppress
        /\ cancel => Queued("connect") \/ refusals > 0
        /\ BackedBy
    BY DEF AttemptInv
  <2>2. Asks' = Asks /\ Queued("connect")' = Queued("connect")
    BY <1>3, SameAsks
  <2>3. QED
    BY <1>3, <2>1, <2>2 DEF BackedBy
<1>4. ASSUME ~(attempting /\ ui = "free"), UNCHANGED ui
      PROVE  AttemptInv'
  BY <1>1, <1>4 DEF AttemptInv
<1>5. attempting /\ ui = "free" => watch
  BY DEF AttemptInv
<1>6. CASE DeleteAll
  <2>1. UNCHANGED <<queue, thread, cancel, suppress, watch, ui, late, failures, refusals>>
    BY <1>6 DEF DeleteAll, backend, inbox
  <2>2. \/ ActiveProfiles' = ActiveProfiles /\ bus' = bus
        \/ bus' = Signal("down")
    BY <1>6, DeleteAllEffect
  <2>3. watch => Signal("down") # <<>>
    BY DEF Signal, TypeInv, Signals
  <2>4. ActiveProfiles' = ActiveProfiles => Status' = Status
    BY DEF Status
  <2>5. QED
    BY <1>3, <1>4, <1>5, <2>1, <2>2, <2>3, <2>4
<1>7. ASSUME NEW u \in Uuids, HandshakeDone(u)
      PROVE  AttemptInv'
  <2>1. UNCHANGED <<queue, thread, cancel, suppress, watch, ui, late, failures, refusals>>
    BY <1>7 DEF HandshakeDone, backend, inbox
  <2>2. Status'
    BY <1>7, HandshakeEffect DEF Status
  <2>3. QED
    BY <1>3, <2>1, <2>2
<1>8. ASSUME NEW u \in Uuids, GoesDown(u)
      PROVE  AttemptInv'
  <2>1. UNCHANGED <<queue, thread, cancel, suppress, watch, ui, late, failures, refusals>>
    BY <1>8 DEF GoesDown, backend, inbox
  <2>2. watch => bus' # <<>>
    BY <1>8, GoesDownEffect, LossIsSignalled
  <2>3. QED
    BY <1>3, <1>4, <1>5, <2>1, <2>2
<1>9. QED
  BY <1>2, <1>6, <1>7, <1>8 DEF Elsewhere

LEMMA NextAttempt ==
    ASSUME UITypeInv, AttemptInv, [UINext]_uiVars
    PROVE  AttemptInv'
<1>1. TypeInv
  BY DEF UITypeInv
<1>2. ASSUME UNCHANGED <<attempting, queue, thread, cancel, suppress, watch, ui, daemon, bus, inbox>>
      PROVE  AttemptInv'
  <2>1. Asks' = Asks /\ Queued("connect")' = Queued("connect")
    BY <1>2, SameAsks
  <2>2. Status' = Status
    BY <1>2 DEF Status, ActiveProfiles, daemon
  <2>3. QED
    BY <1>2, <2>1, <2>2 DEF AttemptInv, BackedBy, inbox
<1>3. CASE Press
  BY <1>1, <1>3, ToggleAttempt DEF Press
<1>4. CASE CancelReturns
  BY <1>4 DEF CancelReturns, HandleDisconnected, AttemptInv
<1>11. CASE CancelGoesOn
  BY <1>11 DEF CancelGoesOn, SetSuppress, AttemptInv
<1>5. CASE ReconnectFires
  BY <1>1, <1>2, <1>5, ToggleAttempt DEF ReconnectFires, backend, flags
<1>6. CASE Event
  BY <1>1, <1>6, EventAttempt
<1>7. CASE Elsewhere
  BY <1>1, <1>7, ElsewhereAttempt
<1>8. CASE WindowRestart
  BY <1>8 DEF WindowRestart, AttemptInv
<1>9. CASE UNCHANGED uiVars
  BY <1>2, <1>9 DEF uiVars, vars, backend, window, flags
<1>10. QED
  BY <1>3, <1>4, <1>5, <1>6, <1>7, <1>8, <1>9, <1>11 DEF UINext

(* "Connecting..." never stands there with nothing behind it that will end *)
(* it, whatever NetworkManager refuses, loses or never answers, and in     *)
(* whatever order the user asks and cancels.                               *)
THEOREM AttemptIsBacked == UISpec => []AttemptBacked
<1>1. UITypeInv /\ AttemptInv => AttemptBacked
  <2> SUFFICES ASSUME UITypeInv, AttemptInv, attempting, ui = "free"
               PROVE  \/ ConnectPending \/ Status
                      \/ bus # <<>> \/ late > 0 \/ failures > 0 \/ refusals > 0
    BY DEF AttemptBacked
  <2>1. BackedBy
    BY DEF AttemptInv
  <2>2. Asks => ConnectPending
    BY DEF Asks, Queued, ConnectPending, BeforeActivation, Connecting
  <2>3. QED
    BY <2>1, <2>2 DEF BackedBy
<1>2. UIInit => AttemptInv
  BY DEF UIInit, AttemptInv
<1>3. UITypeInv /\ AttemptInv /\ [UINext]_uiVars => UITypeInv' /\ AttemptInv'
  BY NextUIType, NextAttempt
<1>4. QED
  BY InitUIType, <1>1, <1>2, <1>3, PTL DEF UISpec


-----------------------------------------------------------------------------
(* What is on its way to a user who waits.  He has asked for one thing at  *)
(* a time: until it activates a profile nothing is up and nothing to be    *)
(* heard of (Asking); then the tunnel, the signals not yet dispatched and  *)
(* the window are in one of the stages of Told.                            *)

On == label = "Disconnect" /\ monitor /\ ~attempting
Off == label = "Connect" /\ ~monitor /\ ~attempting
Trying == label = "Connecting" /\ ~monitor /\ attempting

Asking ==
    /\ Trying /\ ~Status /\ bus = <<>> /\ late = 0
    /\ \/ Asks /\ failures = 0 /\ refusals = 0
       \/ ~Asks /\ failures = 1 /\ refusals = 0
       \/ ~Asks /\ failures = 0 /\ refusals = 1

Stages ==
    \/ late = 0 /\ bus = <<>> /\ Trying /\ \E u \in ActiveProfiles : act[u] = "activating"
    \/ late = 0 /\ bus = <<"up">> /\ Trying /\ \E u \in ActiveProfiles : act[u] = "up"
    \/ late = 0 /\ bus = <<>> /\ On /\ \E u \in ActiveProfiles : act[u] = "up"
    \/ late = 0 /\ bus = <<"up", "down">> /\ Trying /\ ~Status
    \/ late = 0 /\ bus = <<"down">> /\ (Trying \/ On) /\ ~Status
    \/ late = 1 /\ bus = <<>> /\ (Trying \/ On) /\ ~Status
    \/ late = 0 /\ bus = <<>> /\ Off /\ ~Status

Told == ~Asks /\ failures = 0 /\ refusals = 0 /\ Stages

OneOp ==
    /\ Len(queue) <= 1
    /\ queue # <<>> => \A t \in Threads : thread[t].pc \notin InOp
    /\ \A t \in Threads : thread[t].pc \notin Undoing

OneUp == \A u, v \in ActiveProfiles : u = v
Watched == Status \/ attempting => watch
Heeded == ~cancel /\ ~suppress /\ ui = "free"

CalmInv == calm => Heeded /\ OneOp /\ OneUp /\ Watched /\ (Asking \/ Told)

SameWindow == UNCHANGED <<attempting, label, monitor>>

LEMMA Tuples ==
    /\ Append(<<>>, "up") = <<"up">>
    /\ Append(<<>>, "down") = <<"down">>
    /\ Append(<<"up">>, "down") = <<"up", "down">>
    /\ Tail(<<"up">>) = <<>> /\ Head(<<"up">>) = "up"
    /\ Tail(<<"down">>) = <<>> /\ Head(<<"down">>) = "down"
    /\ Tail(<<"up", "down">>) = <<"down">> /\ Head(<<"up", "down">>) = "up"
    /\ <<"up">> # <<>> /\ <<"down">> # <<>> /\ <<"up", "down">> # <<>>
    /\ <<"up">> # <<"down">>
<1>1. Append(<<>>, "up") = <<"up">> /\ Append(<<>>, "down") = <<"down">>
  OBVIOUS
<1>2. Append(<<"up">>, "down") = <<"up", "down">>
  <2> DEFINE s == Append(<<"up">>, "down")
             d == <<"up", "down">>
  <2>1. s \in Seq({"up", "down"}) /\ Len(s) = 2 /\ s[1] = "up" /\ s[2] = "down"
    OBVIOUS
  <2>2. d \in Seq({"up", "down"}) /\ Len(d) = 2 /\ d[1] = "up" /\ d[2] = "down"
    OBVIOUS
  <2> HIDE DEF s, d
  <2>3. \A i \in 1..Len(s) : s[i] = d[i]
    BY <2>1, <2>2
  <2>4. s = d
    BY <2>1, <2>2, <2>3, SeqEqual
  <2>5. QED
    BY <2>4 DEF s, d
<1>3. Head(<<"up">>) = "up" /\ Head(<<"down">>) = "down" /\ Head(<<"up", "down">>) = "up"
  OBVIOUS
<1>4. Tail(<<"up">>) = <<>> /\ Tail(<<"down">>) = <<>>
  OBVIOUS
<1>5. Tail(<<"up", "down">>) = <<"down">>
  OBVIOUS
<1>6. <<"up">> # <<>> /\ <<"down">> # <<>> /\ <<"up", "down">> # <<>>
  OBVIOUS
<1>7. <<"up">> # <<"down">>
  OBVIOUS
<1>8. QED
  BY <1>1, <1>2, <1>3, <1>4, <1>5, <1>6, <1>7

LEMMA SameStages ==
    ASSUME SameTunnels, SameWindow, late' = late
    PROVE  /\ Stages => Stages'
           /\ OneUp => OneUp'
           /\ Watched /\ watch' = watch => Watched'
           /\ Status' = Status
<1>1. Status' = Status
  BY DEF SameTunnels, Status
<1>2. /\ On' = On /\ Off' = Off /\ Trying' = Trying
      /\ bus' = bus /\ ActiveProfiles' = ActiveProfiles
      /\ \A u \in ActiveProfiles : act'[u] = act[u]
  BY DEF SameWindow, SameTunnels, On, Off, Trying
<1>3. Stages => Stages'
  BY <1>1, <1>2 DEF Stages
<1>4. QED
  BY <1>1, <1>2, <1>3 DEF OneUp, Watched, SameWindow

LEMMA LostStages ==
    ASSUME LosesTunnel, SameWindow, late' = late, OneUp, Watched
    PROVE  /\ Stages => Stages'
           /\ OneUp' /\ Status /\ ~Status'
           /\ watch' = watch => Watched'
<1>1. ActiveProfiles # {} /\ ActiveProfiles' = {}
  BY DEF LosesTunnel, OneUp
<1>2. Status /\ ~Status' /\ OneUp'
  BY <1>1 DEF Status, OneUp
<1>3. bus' = Append(bus, "down")
  BY <1>2 DEF LosesTunnel, Signal, Watched
<1>4. On' = On /\ Off' = Off /\ Trying' = Trying
  BY DEF SameWindow, On, Off, Trying
<1>5. ASSUME Stages PROVE Stages'
  <2>1. CASE late = 0 /\ bus = <<>> /\ (Trying \/ On)
    <3>1. bus' = <<"down">>
      BY <1>3, <2>1, Tuples
    <3>2. QED
      BY <1>2, <1>4, <2>1, <3>1 DEF Stages
  <2>2. CASE late = 0 /\ bus = <<"up">> /\ Trying
    <3>1. bus' = <<"up", "down">>
      BY <1>3, <2>2, Tuples
    <3>2. QED
      BY <1>2, <1>4, <2>2, <3>1 DEF Stages
  <2>3. QED
    BY <1>2, <1>5, <2>1, <2>2 DEF Stages
<1>6. QED
  BY <1>2, <1>5 DEF Watched, SameWindow

LEMMA RisenStages ==
    ASSUME TypeInv, NEW u \in Uuids, HandshakeDone(u), SameWindow, OneUp, Watched, Stages
    PROVE  Stages' /\ OneUp' /\ Watched'
<1>1. /\ u \in ActiveProfiles /\ act[u] = "activating"
      /\ ActiveProfiles' = ActiveProfiles /\ act'[u] = "up"
      /\ bus' = Signal("up")
  BY HandshakeEffect
<1>2. Status /\ Status' /\ watch' = watch /\ watch /\ late' = late
  BY <1>1 DEF Status, Watched, HandshakeDone, backend, inbox
<1>3. OneUp' /\ Watched'
  BY <1>1, <1>2 DEF OneUp, Watched
<1>4. \A v \in ActiveProfiles : act[v] = "activating"
  BY <1>1 DEF OneUp
<1>5. late = 0 /\ bus = <<>> /\ Trying
  BY <1>2, <1>4 DEF Stages
<1>6. bus' = <<"up">> /\ Trying'
  BY <1>1, <1>2, <1>5, Tuples DEF Signal, Trying, SameWindow
<1>7. QED
  BY <1>1, <1>2, <1>3, <1>5, <1>6 DEF Stages


(* The operation was the only one, and has nothing left to activate.       *)
LEMMA NothingAsked ==
    ASSUME TypeInv, OneOp, NEW t \in Threads, Worker(t),
           thread[t].pc \in BeforeActivation, thread'[t].pc \notin BeforeActivation,
           queue' = queue
    PROVE  Asks /\ ~Asks'
<1>1. queue = <<>>
  BY DEF OneOp, InOp, Connecting, BeforeActivation
<1>2. ~Queued("connect")'
  BY <1>1 DEF Queued
<1>3. \A v \in Threads \ {t} : thread[v].pc \notin Working
  BY DEF TypeInv, IInv, WorkerIsField, Working, Connecting, BeforeActivation
<1>4. \A v \in Threads \ {t} : thread'[v].pc \notin BeforeActivation
  BY <1>3, WorkerEffect DEF Working, Connecting, BeforeActivation
<1>5. QED
  BY <1>2, <1>4 DEF Asks

LEMMA WorkerOneOp ==
    ASSUME TypeInv, OneOp, Heeded, NEW t \in Threads, Worker(t)
    PROVE  Heeded' /\ OneOp'
<1>1. /\ Effect(t) /\ UNCHANGED ui /\ QueueType
      /\ \A v \in Threads \ {t} : thread'[v] = thread[v]
  BY WorkerEffect DEF TypeInv, IInv
<1>2. Heeded'
  BY <1>1 DEF Effect, Takes, Works, Fails, Activates, Removes, Heeded
<1>3. CASE Takes(t)
  <2>1. queue' = <<>>
    BY <1>1, <1>3 DEF Takes, OneOp, QueueType
  <2>2. thread'[t].pc \notin Undoing
    BY <1>3 DEF Takes, Undoing
  <2>3. \A v \in Threads : thread'[v].pc \notin Undoing
    BY <1>1, <2>2 DEF OneOp
  <2>4. Len(queue') <= 1
    BY <2>1
  <2>5. QED
    BY <1>2, <2>1, <2>3, <2>4 DEF OneOp
<1>4. CASE ~Takes(t)
  <2>1. queue' = queue
    BY <1>4, WorkerAsks
  <2>2. thread'[t].pc \in InOp => thread[t].pc \in InOp
    BY <1>1, <1>4
    DEF Effect, Works, Fails, Activates, Removes, Onward, InOp, Connecting, Disconnecting
  <2>3. thread'[t].pc \in Undoing => thread[t].pc \in Undoing
    BY <1>1, <1>4 DEF Effect, Works, Fails, Activates, Removes, Onward, Undoing, Heeded
  <2>4. QED
    BY <1>1, <1>2, <2>1, <2>2, <2>3 DEF OneOp
<1>5. QED
  BY <1>3, <1>4

LEMMA WorkerCalm ==
    ASSUME TypeInv, CalmInv, calm, NEW t \in Threads, Worker(t), SameWindow, ~TimedOut'
    PROVE  CalmInv'
<1>1. Heeded /\ OneOp /\ OneUp /\ Watched /\ (Asking \/ Told)
  BY DEF CalmInv
<1>2. Heeded' /\ OneOp'
  BY <1>1, WorkerOneOp
<1>3. Effect(t) /\ UNCHANGED <<watch, late, refusals>>
  BY WorkerEffect
<1>4. ASSUME SameTunnels, UNCHANGED failures, Asks' = Asks
      PROVE  CalmInv'
  <2>1. OneUp' /\ Watched' /\ Status' = Status /\ (Stages => Stages')
    BY <1>1, <1>3, <1>4, SameStages
  <2>2. bus' = bus /\ (Trying => Trying')
    BY <1>4 DEF SameTunnels, SameWindow, Trying
  <2>3. Asking => Asking'
    BY <1>3, <1>4, <2>1, <2>2 DEF Asking
  <2>4. Told => Told'
    BY <1>3, <1>4, <2>1 DEF Told
  <2>5. QED
    BY <1>1, <1>2, <2>1, <2>3, <2>4 DEF CalmInv
<1>5. CASE Takes(t) \/ Works(t)
  <2>1. SameTunnels /\ UNCHANGED failures
    BY <1>5 DEF Takes, Works
  <2>2. CASE Takes(t)
    <3>1. thread[t].pc \notin BeforeActivation
      BY <2>2 DEF Takes, BeforeActivation
    <3>2. Asks => Asks'
      BY <1>1, <3>1, WorkerAsks DEF Fails, Activates, Heeded, BeforeActivation
    <3>3. Asks' = Asks
      BY <3>2, WorkerAsks DEF Asks
    <3>4. QED
      BY <1>4, <2>1, <3>3
  <2>3. CASE Works(t)
    <3>1. thread[t].pc \in BeforeActivation => thread'[t].pc \in BeforeActivation
      BY <1>1, <2>3 DEF Works, Onward, Heeded
    <3>2. Asks => Asks'
      BY <1>1, <3>1, WorkerAsks DEF Fails, Activates, Heeded, BeforeActivation
    <3>3. Asks' = Asks
      BY <3>2, WorkerAsks DEF Asks
    <3>4. QED
      BY <1>4, <2>1, <3>3
  <2>4. QED
    BY <1>5, <2>2, <2>3
<1>6. CASE Fails(t)
  <2>1. Asks /\ ~Asks'
    BY <1>1, <1>6, NothingAsked DEF Fails, BeforeActivation
  <2>2. Asking /\ failures = 0 /\ refusals = 0
    BY <1>1, <2>1 DEF Asking, Told
  <2>3. failures' = 1 /\ SameTunnels
    BY <1>1, <1>6, <2>2 DEF Fails, Heeded
  <2>4. OneUp' /\ Watched' /\ Status' = Status
    BY <1>1, <1>3, <2>3, SameStages
  <2>5. bus' = bus /\ (Trying => Trying')
    BY <2>3 DEF SameTunnels, SameWindow, Trying
  <2>6. Asking'
    BY <1>3, <2>1, <2>2, <2>3, <2>4, <2>5 DEF Asking
  <2>7. QED
    BY <1>2, <2>4, <2>6 DEF CalmInv
<1>7. CASE Activates(t)
  <2>1. ActiveProfiles = {} /\ uuid \in profiles /\ profiles \subseteq Uuids /\ profiles' = profiles
        /\ Asking /\ failures = 0 /\ refusals = 0 /\ ~Asks'
    <3>1. Asks /\ ~Asks'
      BY <1>1, <1>7, NothingAsked DEF Activates, BeforeActivation
    <3>2. Asking /\ failures = 0 /\ refusals = 0
      BY <1>1, <3>1 DEF Asking, Told
    <3>3. QED
      BY <1>7, <3>1, <3>2 DEF Asking, Status, Activates, TypeInv, DaemonType
  <2>2. ActiveProfiles' = {uuid} /\ act'[uuid] = "activating"
    <3>1. \A u \in profiles : act'[u] = IF u = uuid THEN "activating" ELSE act[u]
      BY <1>7, <2>1 DEF Activates, TypeInv, DaemonType
    <3>2. QED
      BY <2>1, <3>1 DEF ActiveProfiles
  <2>3. thread'[t].pc = "lastCheck" /\ failures' = failures
    <3>1. ~(thread'[t].outcome = "failed" /\ thread'[t].mine = uuid)
      BY <2>2 DEF TimedOut
    <3>2. QED
      BY <1>7, <3>1 DEF Activates
  <2>4. Trying' /\ bus' = <<>> /\ late' = 0 /\ refusals' = 0 /\ attempting' /\ watch'
    BY <1>1, <1>3, <1>7, <2>1 DEF Asking, Trying, SameWindow, Activates, Watched
  <2>5. Stages'
    BY <2>2, <2>4 DEF Stages
  <2>6. OneUp' /\ Watched'
    BY <2>2, <2>4 DEF OneUp, Watched
  <2>7. Told'
    BY <2>1, <2>3, <2>4, <2>5 DEF Told
  <2>8. QED
    BY <1>2, <2>6, <2>7 DEF CalmInv
<1>8. CASE Removes(t)
  <2>1. LosesTunnel /\ UNCHANGED failures /\ thread[t].pc \notin BeforeActivation
    BY <1>8 DEF Removes
  <2>2. Status /\ OneUp' /\ Watched' /\ (Stages => Stages')
    BY <1>1, <1>3, <2>1, LostStages
  <2>3. Told
    BY <1>1, <2>2 DEF Asking
  <2>4. ~Asks'
    BY <2>3, WorkerAsks DEF Told
  <2>5. Told'
    BY <1>3, <2>1, <2>2, <2>3, <2>4 DEF Told
  <2>6. QED
    BY <1>2, <2>2, <2>5 DEF CalmInv
<1>9. QED
  BY <1>3, <1>5, <1>6, <1>7, <1>8 DEF Effect


(* NetworkManager, and Delete Profiles.                                    *)
LEMMA DaemonCalm ==
    ASSUME TypeInv, CalmInv, calm, SameWindow,
           DeleteAll \/ \E u \in Uuids : HandshakeDone(u) \/ GoesDown(u)
    PROVE  CalmInv'
<1>1. Heeded /\ OneOp /\ OneUp /\ Watched /\ (Asking \/ Told)
  BY DEF CalmInv
<1>2. UNCHANGED <<queue, thread, cancel, suppress, watch, ui, late, failures, refusals>>
  BY DEF DeleteAll, HandshakeDone, GoesDown, backend, inbox
<1>3. Heeded' /\ OneOp' /\ Asks' = Asks
  BY <1>1, <1>2, SameAsks DEF Heeded, OneOp
<1>4. CASE SameTunnels
  <2>1. OneUp' /\ Watched' /\ Status' = Status /\ (Stages => Stages')
    BY <1>1, <1>2, <1>4, SameStages
  <2>2. bus' = bus /\ (Trying => Trying')
    BY <1>4 DEF SameTunnels, SameWindow, Trying
  <2>3. Asking => Asking'
    BY <1>2, <1>3, <2>1, <2>2 DEF Asking
  <2>4. Told => Told'
    BY <1>2, <1>3, <2>1 DEF Told
  <2>5. QED
    BY <1>1, <1>3, <2>1, <2>3, <2>4 DEF CalmInv
<1>5. CASE LosesTunnel
  <2>1. Status /\ OneUp' /\ Watched' /\ (Stages => Stages')
    BY <1>1, <1>2, <1>5, LostStages
  <2>2. Told'
    BY <1>1, <1>2, <1>3, <2>1 DEF Asking, Told
  <2>3. QED
    BY <1>3, <2>1, <2>2 DEF CalmInv
<1>6. CASE DeleteAll
  <2>1. /\ \A u \in ActiveProfiles' : act'[u] = act[u]
        /\ \/ ActiveProfiles' = ActiveProfiles /\ bus' = bus
           \/ /\ ActiveProfiles' \subseteq ActiveProfiles /\ ActiveProfiles' # ActiveProfiles
              /\ bus' = Signal("down")
    BY <1>6, DeleteAllEffect
  <2>2. CASE ActiveProfiles' = ActiveProfiles /\ bus' = bus
    BY <1>4, <2>1, <2>2 DEF SameTunnels
  <2>3. CASE /\ ActiveProfiles' \subseteq ActiveProfiles /\ ActiveProfiles' # ActiveProfiles
             /\ bus' = Signal("down")
    <3>1. PICK u \in ActiveProfiles : u \notin ActiveProfiles'
      BY <2>3
    <3>2. ActiveProfiles' = ActiveProfiles \ {u}
      BY <1>1, <2>3, <3>1 DEF OneUp
    <3>3. QED
      BY <1>5, <2>1, <2>3, <3>1, <3>2 DEF LosesTunnel
  <2>4. QED
    BY <2>1, <2>2, <2>3
<1>7. ASSUME NEW u \in Uuids, HandshakeDone(u)
      PROVE  CalmInv'
  <2>1. Status
    BY <1>7, HandshakeEffect DEF Status
  <2>2. Told
    BY <1>1, <2>1 DEF Asking
  <2>3. Stages' /\ OneUp' /\ Watched'
    BY <1>1, <1>7, <2>2, RisenStages DEF Told
  <2>4. Told'
    BY <1>2, <1>3, <2>2, <2>3 DEF Told
  <2>5. QED
    BY <1>3, <2>3, <2>4 DEF CalmInv
<1>8. ASSUME NEW u \in Uuids, GoesDown(u)
      PROVE  CalmInv'
  BY <1>5, <1>8, GoesDownEffect
<1>9. QED
  BY <1>6, <1>7, <1>8

LEMMA ElsewhereCalm ==
    ASSUME TypeInv, CalmInv, Elsewhere
    PROVE  CalmInv'
<1>1. SameWindow
  BY DEF Elsewhere, window, flags, SameWindow
<1>2. CASE ~calm'
  BY <1>2 DEF CalmInv
<1>3. CASE calm'
  <2>1. calm /\ ~TimedOut'
    BY <1>3 DEF Elsewhere
  <2>2. CASE \E t \in Threads : Worker(t)
    BY <1>1, <2>1, <2>2, WorkerCalm
  <2>3. CASE DeleteAll \/ \E u \in Uuids : HandshakeDone(u) \/ GoesDown(u)
    BY <1>1, <2>1, <2>3, DaemonCalm
  <2>4. QED
    BY <2>2, <2>3 DEF Elsewhere
<1>4. QED
  BY <1>2, <1>3

(* What the window makes of an event.                                      *)
LEMMA HearWindow ==
    ASSUME Hear
    PROVE  /\ heard' = "up" => On'
           /\ heard' \in {"down", "fail"} => Off'
           /\ heard' = "none" => SameWindow
BY DEF Hear, HandleConnected, HandleDisconnected, StartMonitor, StopMonitor, window, flags,
       On, Off, SameWindow

LEMMA EventCalm ==
    ASSUME TypeInv, CalmInv, Event
    PROVE  CalmInv'
<1> SUFFICES ASSUME calm
             PROVE  Heeded' /\ OneOp' /\ OneUp' /\ Watched' /\ (Asking' \/ Told')
  BY DEF CalmInv, Event, observers
<1>1. Heeded /\ OneOp /\ OneUp /\ Watched /\ (Asking \/ Told)
  BY DEF CalmInv
<1>2. UNCHANGED <<queue, thread, cancel, suppress, watch, ui, profiles, act>>
  BY DEF Event, Callbacks, SignalArrives, LateDisconnection, FailureNotified, RefusalNotified,
         backend, daemon
<1>3. Heeded' /\ OneOp' /\ Asks' = Asks
  BY <1>1, <1>2, SameAsks DEF Heeded, OneOp
<1>4. ActiveProfiles' = ActiveProfiles /\ Status' = Status
  BY <1>2 DEF ActiveProfiles, Status
<1>5. OneUp'
  BY <1>1, <1>4 DEF OneUp
<1>6. attempting' => attempting
  BY DEF Event, Hear, HandleConnected, HandleDisconnected, window, flags
<1>7. Watched'
  BY <1>1, <1>2, <1>4, <1>6 DEF Watched
<1>8. /\ heard' = "up" => On'
      /\ heard' \in {"down", "fail"} => Off'
      /\ heard' = "none" => SameWindow
  BY HearWindow DEF Event
<1>9. CASE SignalArrives
  <2>1. /\ bus # <<>> /\ bus' = Tail(bus) /\ UNCHANGED <<failures, refusals>>
        /\ Head(bus) = "up" => heard' = "up" /\ late' = late
        /\ Head(bus) # "up" => heard' = "none" /\ late' = late + 1
    BY <1>1, <1>9 DEF SignalArrives, Guarded, Heeded
  <2>2. Told
    BY <1>1, <2>1 DEF Asking
  <2>3. Stages'
    <3>1. CASE late = 0 /\ bus = <<"up">> /\ \E u \in ActiveProfiles : act[u] = "up"
      <4>1. bus' = <<>> /\ late' = 0 /\ On'
        BY <1>8, <2>1, <3>1, Tuples
      <4>2. QED
        BY <1>2, <1>4, <3>1, <4>1 DEF Stages
    <3>2. CASE late = 0 /\ bus = <<"up", "down">> /\ ~Status
      <4>1. bus' = <<"down">> /\ late' = 0 /\ On'
        BY <1>8, <2>1, <3>2, Tuples
      <4>2. QED
        BY <1>4, <3>2, <4>1 DEF Stages
    <3>3. CASE late = 0 /\ bus = <<"down">> /\ (Trying \/ On) /\ ~Status
      <4>1. bus' = <<>> /\ late' = 1 /\ SameWindow
        BY <1>8, <2>1, <3>3, Tuples
      <4>2. Trying' \/ On'
        BY <3>3, <4>1 DEF Trying, On, SameWindow
      <4>3. QED
        BY <1>4, <3>3, <4>1, <4>2 DEF Stages
    <3>4. QED
      BY <2>1, <2>2, <3>1, <3>2, <3>3 DEF Told, Stages
  <2>4. Told'
    BY <1>3, <2>1, <2>2, <2>3 DEF Told
  <2>5. QED
    BY <1>3, <1>5, <1>7, <2>4
<1>10. CASE LateDisconnection
  <2>1. late > 0 /\ late' = late - 1 /\ heard' = "down" /\ UNCHANGED <<bus, failures, refusals>>
    BY <1>1, <1>10 DEF LateDisconnection, Guarded, Heeded
  <2>2. Told
    BY <1>1, <2>1 DEF Asking
  <2>3. late = 1 /\ bus = <<>> /\ ~Status
    BY <2>1, <2>2 DEF Told, Stages
  <2>4. Stages'
    BY <1>4, <1>8, <2>1, <2>3 DEF Stages
  <2>5. Told'
    BY <1>3, <2>1, <2>2, <2>4 DEF Told
  <2>6. QED
    BY <1>3, <1>5, <1>7, <2>5
<1>11. CASE FailureNotified \/ RefusalNotified
  <2>1. /\ heard' = "fail" /\ UNCHANGED <<bus, late>>
        /\ \/ failures > 0 /\ failures' = failures - 1 /\ refusals' = refusals
           \/ refusals > 0 /\ refusals' = refusals - 1 /\ failures' = failures
    BY <1>1, <1>11 DEF FailureNotified, RefusalNotified, Guarded, Heeded
  <2>2. Asking /\ ~Asks /\ failures' = 0 /\ refusals' = 0
    BY <1>1, <2>1 DEF Asking, Told
  <2>3. Stages'
    BY <1>4, <1>8, <2>1, <2>2 DEF Asking, Stages
  <2>4. Told'
    BY <1>3, <2>2, <2>3 DEF Told
  <2>5. QED
    BY <1>3, <1>5, <1>7, <2>4
<1>12. QED
  BY <1>9, <1>10, <1>11 DEF Event, Callbacks


(* When nothing is on its way any more, the window has been told all.      *)
LEMMA RestTells ==
    ASSUME CalmInv, calm, AtRest
    PROVE  /\ Heeded /\ OneUp /\ Told
           /\ (On /\ Status) \/ (Off /\ ~Status)
<1>1. Heeded /\ OneUp /\ (Asking \/ Told)
  BY DEF CalmInv
<1>2. ~Asks /\ failures = 0 /\ refusals = 0
  BY DEF AtRest, Asks, Queued, BeforeActivation, Working, Connecting
<1>3. Told
  BY <1>1, <1>2 DEF Asking
<1>4. bus = <<>> /\ late = 0 /\ \A u \in ActiveProfiles : act[u] # "activating"
  BY DEF AtRest, ActiveProfiles
<1>5. bus # <<"up">> /\ bus # <<"down">> /\ bus # <<"up", "down">>
  BY <1>4, Tuples
<1>6. (On /\ Status) \/ (Off /\ ~Status)
  <2>1. \/ late = 0 /\ bus = <<>> /\ On /\ \E u \in ActiveProfiles : act[u] = "up"
        \/ late = 0 /\ bus = <<>> /\ Off /\ ~Status
    BY <1>3, <1>4, <1>5 DEF Told, Stages
  <2>2. (\E u \in ActiveProfiles : act[u] = "up") => Status
    BY DEF Status
  <2>3. QED
    BY <2>1, <2>2
<1>7. QED
  BY <1>1, <1>3, <1>6

LEMMA ToggleCalm ==
    ASSUME TypeInv, CalmInv, Toggle
    PROVE  CalmInv'
<1> SUFFICES ASSUME calm'
             PROVE  Heeded' /\ OneOp' /\ OneUp' /\ Watched' /\ (Asking' \/ Told')
  BY DEF CalmInv
<1>1. calm /\ AtRest /\ (ToggleConnect => ~Status)
  <2>1. ToggleConnect => ~ToggleDisconnect /\ ~ToggleCancel
    BY DEF ToggleConnect, ToggleDisconnect, ToggleCancel
  <2>2. QED
    BY <2>1 DEF Toggle
<1>2. /\ Heeded /\ OneUp /\ Told
      /\ (On /\ Status) \/ (Off /\ ~Status)
  BY <1>1, RestTells
<1>3. ~attempting
  BY <1>2 DEF On, Off
<1>4. /\ queue = <<>> /\ bus = <<>> /\ late = 0 /\ failures = 0 /\ refusals = 0
      /\ \A t \in Threads : thread[t].pc \notin InOp
  BY <1>1 DEF AtRest, InOp, Working
<1>5. UNCHANGED <<profiles, act, bus, cancel, ui, late, failures>>
  BY <1>3 DEF Toggle, ToggleConnect, ToggleDisconnect, ToggleCancel, RequestConnect,
              RequestDisconnect, StartWatchOnly, daemon, inbox
<1>6. watch' /\ ~suppress'
  BY <1>3 DEF Toggle, ToggleConnect, ToggleDisconnect, ToggleCancel, RequestConnect,
              StartWatchOnly
<1>7. ActiveProfiles' = ActiveProfiles /\ Status' = Status
  BY <1>5 DEF ActiveProfiles, Status
<1>8. Heeded' /\ OneUp' /\ Watched'
  BY <1>2, <1>5, <1>6, <1>7 DEF Heeded, OneUp, Watched
<1>9. ASSUME NEW op \in Operations, Dispatch(op)
      PROVE  OneOp'
  <2>1. Len(queue') = 1 /\ \A t \in Threads : \/ thread'[t] = thread[t]
                                              \/ thread'[t] = Popping("none", NoUuid)
    BY <1>4, <1>9, DispatchAsks
  <2>2. \A t \in Threads : thread'[t].pc \notin InOp
    BY <1>4, <2>1 DEF Popping, InOp, Connecting, Disconnecting
  <2>3. \A t \in Threads : thread'[t].pc \notin Undoing
    BY <2>2 DEF InOp, Connecting, Undoing
  <2>4. QED
    BY <2>1, <2>2, <2>3 DEF OneOp
<1>10. ASSUME UNCHANGED <<queue, thread>>
       PROVE  OneOp' /\ Asks' = Asks
  BY <1>1, <1>10, SameAsks DEF CalmInv, OneOp
<1>11. CASE ToggleConnect /\ RequestConnect /\ attempting' = TRUE /\ label' = "Connecting"
  <2>1. Off /\ ~Status
    BY <1>1, <1>2, <1>11
  <2>2. Trying'
    BY <1>11, <2>1 DEF ToggleConnect, Off, Trying
  <2>3. CASE Dispatch("connect") /\ UNCHANGED refusals
    <3>1. OneOp' /\ Asks'
      BY <1>9, <2>3, DispatchAsks DEF Operations, Asks
    <3>2. Asking'
      BY <1>4, <1>5, <1>7, <2>1, <2>2, <2>3, <3>1 DEF Asking
    <3>3. QED
      BY <1>8, <3>1, <3>2
  <2>4. CASE refusals' = refusals + 1 /\ UNCHANGED <<queue, thread>>
    <3>1. OneOp' /\ ~Asks'
      BY <1>2, <1>10, <2>4 DEF Told
    <3>2. Asking'
      BY <1>4, <1>5, <1>7, <2>1, <2>2, <2>4, <3>1 DEF Asking
    <3>3. QED
      BY <1>8, <3>1, <3>2
  <2>5. QED
    BY <1>11, <2>3, <2>4 DEF RequestConnect
<1>12. CASE ToggleConnect /\ StartWatchOnly /\ UNCHANGED <<attempting, label>>
  <2>1. UNCHANGED <<queue, thread, refusals>> /\ SameWindow
    BY <1>12 DEF StartWatchOnly, ToggleConnect, SameWindow, inbox
  <2>2. OneOp' /\ ~Asks'
    BY <1>2, <1>10, <2>1 DEF Told
  <2>3. Off' /\ ~Status'
    BY <1>1, <1>2, <1>7, <1>12, <2>1 DEF Off, SameWindow
  <2>4. Stages'
    BY <1>4, <1>5, <2>3 DEF Stages
  <2>5. Told'
    BY <1>4, <1>5, <2>1, <2>2, <2>4 DEF Told
  <2>6. QED
    BY <1>8, <2>2, <2>5
<1>13. CASE ToggleDisconnect
  <2>1. /\ Dispatch("disconnect") /\ UNCHANGED refusals
        /\ attempting' = attempting /\ label' = label /\ monitor' = monitor
    BY <1>13 DEF ToggleDisconnect, RequestDisconnect, inbox
  <2>2. OneOp' /\ ~Asks'
    BY <1>2, <1>9, <2>1, DispatchAsks DEF Operations, Told
  <2>3. SameTunnels /\ SameWindow /\ late' = late
    BY <1>5, <1>7, <2>1 DEF SameTunnels, SameWindow
  <2>4. Stages'
    BY <1>2, <2>3, SameStages DEF Told
  <2>5. Told'
    BY <1>4, <1>5, <2>1, <2>2, <2>4 DEF Told
  <2>6. QED
    BY <1>8, <2>2, <2>5
<1>14. QED
  BY <1>3, <1>11, <1>12, <1>13 DEF Toggle, ToggleConnect, ToggleCancel

LEMMA NextCalm ==
    ASSUME UITypeInv, CalmInv, [UINext]_uiVars
    PROVE  CalmInv'
<1>1. TypeInv
  BY DEF UITypeInv
<1>2. ASSUME UNCHANGED <<backend, thread, ui, daemon, bus, inbox, flags, observers>>
      PROVE  CalmInv'
  <2>1. UNCHANGED <<queue, thread, cancel, suppress, watch, ui, profiles, act, bus, late,
                    failures, refusals, calm>> /\ SameWindow
    BY <1>2 DEF backend, daemon, inbox, flags, observers, SameWindow
  <2>2. Asks' = Asks /\ SameTunnels
    BY <2>1, SameAsks DEF SameTunnels, ActiveProfiles
  <2>3. /\ Stages => Stages'
        /\ OneUp => OneUp'
        /\ Watched => Watched'
        /\ Status' = Status
    BY <2>1, <2>2, SameStages
  <2>4. Asking => Asking'
    BY <2>1, <2>2, <2>3 DEF Asking, Trying, SameWindow
  <2>5. Told => Told'
    BY <2>1, <2>2, <2>3 DEF Told
  <2>6. QED
    BY <2>1, <2>3, <2>4, <2>5 DEF CalmInv, Heeded, OneOp
<1>3. CASE Press
  BY <1>1, <1>3, ToggleCalm DEF Press
<1>4. CASE CancelReturns \/ CancelGoesOn
  BY <1>4 DEF CancelReturns, CancelClear, CancelGoesOn, SetSuppress, observers, CalmInv, Heeded
<1>5. CASE ReconnectFires
  BY <1>1, <1>2, <1>5, ToggleCalm DEF ReconnectFires
<1>6. CASE Event
  BY <1>1, <1>6, EventCalm
<1>7. CASE Elsewhere
  BY <1>1, <1>7, ElsewhereCalm
<1>8. CASE WindowRestart
  BY <1>8 DEF WindowRestart, CalmInv
<1>9. CASE UNCHANGED uiVars
  BY <1>2, <1>9 DEF uiVars, vars, window
<1>10. QED
  BY <1>3, <1>4, <1>5, <1>6, <1>7, <1>8, <1>9 DEF UINext

LEMMA InitCalm == UIInit => CalmInv
<1> SUFFICES ASSUME UIInit PROVE CalmInv
  OBVIOUS
<1>1. /\ queue = <<>> /\ cancel = FALSE /\ suppress = FALSE /\ ui = "free"
      /\ bus = <<>> /\ late = 0 /\ failures = 0 /\ refusals = 0
      /\ \A t \in Threads : thread[t] = Dead
      /\ attempting = FALSE /\ label = "Connect" /\ monitor = FALSE
  BY DEF UIInit, Init
<1>2. ActiveProfiles = {}
  BY DEF UIInit, Init, ActiveProfiles
<1>3. ~Asks /\ OneOp
  BY <1>1 DEF Asks, Queued, OneOp, Dead, BeforeActivation, Undoing
<1>4. Heeded /\ OneUp /\ Watched /\ Off /\ ~Status
  BY <1>1, <1>2 DEF Heeded, OneUp, Watched, Off, Status
<1>5. Told
  BY <1>1, <1>3, <1>4 DEF Told, Stages
<1>6. QED
  BY <1>3, <1>4, <1>5 DEF CalmInv

(* To a user who waits until nothing is under way, as long as the program  *)
(* runs and no native call times out, the button and the bandwidth monitor *)
(* tell at rest whether a tunnel is up, whatever failed on the way or went *)
(* down by itself.                                                         *)
THEOREM WindowTellsTunnel == UISpec => []WindowFollowsTunnel
<1>1. CalmInv => WindowFollowsTunnel
  BY RestTells DEF WindowFollowsTunnel, On, Off
<1>2. UITypeInv /\ CalmInv /\ [UINext]_uiVars => UITypeInv' /\ CalmInv'
  BY NextUIType, NextCalm
<1>3. QED
  BY InitUIType, InitCalm, <1>1, <1>2, PTL DEF UISpec

-----------------------------------------------------------------------------
(* A connection that such a user has asked to end is marked as ended by    *)
(* hand until the window hears of its end: no attempt is under way then    *)
(* that could be reported in between.                                      *)

NoInv == calm /\ saidNo => (wasConnected => manual) /\ ~attempting

LEMMA ToggleNo ==
    ASSUME CalmInv, Toggle
    PROVE  NoInv'
<1> SUFFICES ASSUME calm', saidNo'
             PROVE  manual' /\ ~attempting'
  BY DEF NoInv
<1>1. ToggleDisconnect
  BY DEF Toggle, ToggleConnect, ToggleCancel
<1>2. QED
  BY <1>1 DEF ToggleDisconnect

LEMMA EventNo ==
    ASSUME CalmInv, NoInv, Event
    PROVE  NoInv'
<1> SUFFICES ASSUME calm, saidNo
             PROVE  (wasConnected' => manual') /\ ~attempting'
  BY DEF NoInv, Event, observers
<1>1. (wasConnected => manual) /\ ~attempting
  BY DEF NoInv
<1>2. CASE heard' \in {"down", "fail"}
  BY <1>2 DEF Event, Hear, HandleDisconnected
<1>3. CASE heard' = "none"
  BY <1>1, <1>3 DEF Event, Hear, window, flags
<1>4. heard' # "up"
  <2>1. heard' = "up" => SignalArrives /\ Head(bus) = "up" /\ bus # <<>>
    BY DEF Event, Callbacks, SignalArrives, LateDisconnection, FailureNotified,
           RefusalNotified, Guarded
  <2>2. ~Asking /\ (Stages => bus \in {<<>>, <<"down">>})
    BY <1>1 DEF Asking, Stages, Trying
  <2>3. QED
    BY <2>1, <2>2, Tuples DEF CalmInv, Told
<1>5. QED
  BY <1>2, <1>3, <1>4 DEF Event, Hear

LEMMA NextNo ==
    ASSUME CalmInv, NoInv, [UINext]_uiVars
    PROVE  NoInv'
<1>1. CASE Press
  BY <1>1, ToggleNo DEF Press
<1>2. CASE CancelReturns \/ CancelGoesOn
  BY <1>2 DEF CancelReturns, HandleDisconnected, CancelGoesOn, window, flags, observers, NoInv
<1>3. CASE ReconnectFires
  <2>1. CASE Toggle
    BY <2>1, ToggleNo
  <2>2. CASE UNCHANGED <<flags, observers>>
    BY <2>2 DEF NoInv, flags, observers
  <2>3. QED
    BY <1>3, <2>1, <2>2 DEF ReconnectFires
<1>4. CASE Event
  BY <1>4, EventNo
<1>5. CASE Elsewhere
  BY <1>5 DEF Elsewhere, NoInv, window, flags
<1>6. CASE WindowRestart
  BY <1>6 DEF WindowRestart, NoInv
<1>7. CASE UNCHANGED uiVars
  BY <1>7 DEF uiVars, window, flags, observers, NoInv
<1>8. QED
  BY <1>1, <1>2, <1>3, <1>4, <1>5, <1>6, <1>7 DEF UINext

(* For such a user the reconnect timer is never armed for a connection he  *)
(* has asked to end, even if it ends for another reason, or much later.    *)
THEOREM NoStaysNo == UISpec => NoReconnectAfterNo
<1>1. UIInit => NoInv
  BY DEF UIInit, NoInv
<1>2. /\ UITypeInv /\ CalmInv /\ NoInv /\ [UINext]_uiVars
         => UITypeInv' /\ CalmInv' /\ NoInv'
  BY NextUIType, NextCalm, NextNo
<1>3. UITypeInv /\ NoInv /\ [UINext]_uiVars
        => [reconnects' > reconnects => ~(calm /\ saidNo)]_uiVars
  <2> SUFFICES ASSUME UITypeInv, NoInv, UINext, reconnects' > reconnects, calm, saidNo
               PROVE  FALSE
    BY DEF uiVars
  <2>1. reconnects \in Nat /\ (wasConnected => manual)
    BY DEF UITypeInv, WindowType, NoInv
  <2>2. reconnects' # reconnects /\ reconnects' # reconnects - 1 /\ reconnects' # 0
    BY <2>1
  <2>3. ~Press /\ ~ReconnectFires /\ ~Elsewhere /\ ~WindowRestart /\ ~CancelGoesOn
    BY <2>2 DEF Press, ReconnectFires, Elsewhere, WindowRestart, CancelGoesOn, window
  <2>4. HandleDisconnected
    BY <2>2, <2>3 DEF UINext, CancelReturns, Event, Hear, HandleConnected, window
  <2>5. QED
    BY <2>1, <2>2, <2>4 DEF HandleDisconnected
<1>4. QED
  BY InitUIType, InitCalm, <1>1, <1>2, <1>3, PTL DEF UISpec, NoReconnectAfterNo


-----------------------------------------------------------------------------
(* The composition implements its controller: whatever NetworkManager does,*)
(* a step of it is a step of Cascade or leaves the controller alone.       *)

(* A cancellation takes four steps here and one in Cascade.   In between   *)
(* the GTK thread does nothing else, so that the run it found busy still is*)
(* when Cascade's step is made.                                            *)
Underway == ui # "free" \/ hand = "finishing"

Between ==
    /\ ui # "free" => hand = "free"
    /\ Underway => C!Busy(ctl)

LEMMA StatusType == Status \in BOOLEAN
BY DEF Status

LEMMA AnswerType ==
    ASSUME NEW up \in StatusAnswers
    PROVE  up \in BOOLEAN /\ Answer(up) \in C!Answers /\ Opening(up) \in C!Openings
BY DEF StatusAnswers, Answer, Opening, C!Answers, C!Openings

LEMMA EventType ==
    ASSUME NEW kind, NEW event \in EventsOf(kind)
    PROVE  event \in C!Events
BY DEF EventsOf, C!Events

LEMMA InitBetween == ComposedInit => Between
BY DEF ComposedInit, Between, Underway

(* The worker and the daemon leave the GTK thread's state alone.           *)
LEMMA WorkerKeepsUI ==
    ASSUME NEW t \in Threads, WorkerStep(t)
    PROVE  UNCHANGED <<ui, hand, controller>>
<1>1. UNCHANGED ui
  BY DEF WorkerStep, Worker, PopNext, Exit, CheckBeforeAdd, AddProfile, CheckAfterAdd,
         Activate, CheckAfterActivate, Undo, Look, TakeDown, Sweep
<1>2. QED
  BY <1>1 DEF WorkerStep

LEMMA DaemonKeepsUI ==
    ASSUME NEW u \in Uuids, DaemonStep(u)
    PROVE  UNCHANGED <<ui, hand, controller>>
BY DEF DaemonStep, HandshakeDone, GoesDown

LEMMA CallbackKeepsUI ==
    ASSUME Callback
    PROVE  UNCHANGED <<ui, controller>>
BY DEF Callback, SignalArrives, LateDisconnection, FailureNotified

(* What a step of the controller leaves alone, the manager included.       *)
LEMMA ControllerStepKeeps ==
    ASSUME NEW c, ControllerStep(c)
    PROVE  ctl' = c /\ UNCHANGED <<dialog, test, measured, ui>>
BY DEF ControllerStep

(* One step: an action of the controller, or none of its business.         *)
LEMMA StepIsControllers ==
    ASSUME Between, ComposedNext
    PROVE  C!Next \/ UNCHANGED controller
<1>1. CASE StartRun
  <2>1. PICK q \in Queues, up \in StatusAnswers :
            ControllerStep(C!StartFromVisibleList(C!Quiet(ctl), q, Opening(up), up))
    BY <1>1 DEF StartRun
  <2>2. /\ ctl' = C!StartFromVisibleList(C!Quiet(ctl), q, Opening(up), up)
        /\ UNCHANGED <<dialog, test, measured>>
    BY <2>1, ControllerStepKeeps
  <2>3. up \in BOOLEAN /\ Opening(up) \in C!Openings
    BY AnswerType
  <2>5. C!Start
    BY <1>1, <2>2, <2>3 DEF StartRun, C!Start
  <2>4. QED
    BY <2>5 DEF C!Next
<1>2. CASE CancelEnds
  <2>1. PICK up \in StatusAnswers :
            /\ ctl' = C!Cancel(C!Quiet(ctl), up)
            /\ UNCHANGED <<dialog, test, measured>>
    BY <1>2, ControllerStepKeeps DEF CancelEnds
  <2>2. C!Busy(ctl) /\ up \in BOOLEAN
    BY <1>2, AnswerType DEF CancelEnds, Between, Underway
  <2>3. C!CancelRun
    BY <2>1, <2>2 DEF C!CancelRun
  <2>4. QED
    BY <2>3 DEF C!Next
<1>3. CASE TimeoutFires
  <2>1. PICK up \in StatusAnswers :
            /\ ctl' = C!OnTimeout([C!Quiet(ctl) EXCEPT !.timeout = C!Off],
                                  ctl.timeout.gen, dialog, up)
            /\ UNCHANGED <<dialog, test, measured>>
    BY <1>3, ControllerStepKeeps DEF TimeoutFires
  <2>2. up \in BOOLEAN
    BY AnswerType
  <2>3. C!TimeoutFires
    BY <1>3, <2>1, <2>2 DEF TimeoutFires, C!TimeoutFires
  <2>4. QED
    BY <2>3 DEF C!Next, C!MainLoop
<1>4. CASE TickFires
  <2>1. PICK up \in StatusAnswers :
            ctl' = C!OnTick(C!Quiet(ctl), dialog, up) /\ UNCHANGED <<dialog, test, measured>>
    BY <1>4, ControllerStepKeeps DEF TickFires
  <2>2. up \in BOOLEAN
    BY AnswerType
  <2>3. C!TickFires
    BY <1>4, <2>1, <2>2 DEF TickFires, C!TickFires
  <2>4. QED
    BY <2>3 DEF C!Next, C!MainLoop
<1>5. CASE SettleFires
  <2>1. PICK up \in StatusAnswers :
            /\ ctl' = C!OnSettled(C!Quiet(ctl), Answer(up), up)
            /\ UNCHANGED <<dialog, test, measured>>
    BY <1>5, ControllerStepKeeps DEF SettleFires
  <2>2. up \in BOOLEAN /\ Answer(up) \in C!Answers
    BY AnswerType
  <2>3. C!SettleFires
    BY <1>5, <2>1, <2>2 DEF SettleFires, C!SettleFires
  <2>4. QED
    BY <2>3 DEF C!Next, C!MainLoop
<1>6. CASE HandleEvent
  <2>1. PICK event \in EventsOf(hand), up \in StatusAnswers :
            ControllerStep(C!OnConnectionEvent(C!Quiet(ctl), event, up))
    BY <1>6 DEF HandleEvent
  <2>2. /\ ctl' = C!OnConnectionEvent(C!Quiet(ctl), event, up)
        /\ UNCHANGED <<dialog, test, measured>>
    BY <2>1, ControllerStepKeeps
  <2>3. up \in BOOLEAN /\ event \in C!Events
    BY AnswerType, EventType
  <2>4. C!ConnectionEvent
    BY <2>2, <2>3 DEF C!ConnectionEvent
  <2>5. QED
    BY <2>4 DEF C!Next
<1>7. CASE Elapse
  BY <1>7 DEF Elapse, C!Next, C!MainLoop
<1>8. CASE ClickCancel \/ CancelSuppresses \/ CancelEmpties
  BY <1>8 DEF ClickCancel, CancelSuppresses, CancelEmpties
<1>9. CASE Callback
  BY <1>9, CallbackKeepsUI
<1>10. ASSUME NEW t \in Threads, WorkerStep(t) PROVE UNCHANGED controller
  BY <1>10, WorkerKeepsUI
<1>11. ASSUME NEW u \in Uuids, DaemonStep(u) PROVE UNCHANGED controller
  BY <1>11, DaemonKeepsUI
<1>12. QED
  BY <1>1, <1>2, <1>3, <1>4, <1>5, <1>6, <1>7, <1>8, <1>9, <1>10, <1>11 DEF ComposedNext

(* What the GTK thread is in the middle of, it finishes.                   *)
LEMMA NextBetween == Between /\ [ComposedNext]_composed => Between'
<1> SUFFICES ASSUME Between, [ComposedNext]_composed PROVE Between'
  OBVIOUS
<1>1. CASE StartRun \/ TimeoutFires \/ TickFires \/ SettleFires
  <2>1. ui = "free" /\ hand = "free" /\ UNCHANGED hand
    BY <1>1 DEF StartRun, TimeoutFires, TickFires, SettleFires, Free
  <2>2. UNCHANGED ui
    BY <1>1, ControllerStepKeeps DEF StartRun, TimeoutFires, TickFires, SettleFires
  <2>3. QED
    BY <2>1, <2>2 DEF Between, Underway
<1>2. CASE ClickCancel
  BY <1>2 DEF ClickCancel, SetCancel, Free, Between, Underway, controller
<1>12. CASE CancelSuppresses
  BY <1>12 DEF CancelSuppresses, SetSuppress, Between, Underway, controller
<1>3. CASE CancelEmpties
  BY <1>3 DEF CancelEmpties, CancelClear, Between, Underway, controller
<1>4. CASE CancelEnds
  <2>1. hand = "finishing" /\ hand' = "free" /\ UNCHANGED ui
    BY <1>4, ControllerStepKeeps DEF CancelEnds
  <2>2. QED
    BY <2>1 DEF Between, Underway
<1>5. CASE Callback
  <2>1. ui = "free" /\ UNCHANGED <<ui, controller>>
    BY <1>5, CallbackKeepsUI DEF Callback, Free
  <2>2. heard' \in {"none", "up", "down", "fail"}
    BY <1>5 DEF Callback, SignalArrives, LateDisconnection, FailureNotified, Guarded
  <2>3. hand' # "finishing"
    BY <1>5, <2>2 DEF Callback
  <2>4. QED
    BY <2>1, <2>3 DEF Between, Underway
<1>6. CASE HandleEvent
  <2>1. hand \in {"up", "down", "fail"} /\ hand' = "free"
    BY <1>6 DEF HandleEvent
  <2>2. UNCHANGED ui
    BY <1>6, ControllerStepKeeps DEF HandleEvent
  <2>3. QED
    BY <2>1, <2>2 DEF Between, Underway
<1>7. CASE Elapse
  BY <1>7 DEF Elapse, Free, Between, Underway, vars, controller
<1>8. ASSUME NEW t \in Threads, WorkerStep(t) PROVE Between'
  BY <1>8, WorkerKeepsUI DEF Between, Underway, controller
<1>9. ASSUME NEW u \in Uuids, DaemonStep(u) PROVE Between'
  BY <1>9, DaemonKeepsUI DEF Between, Underway, controller
<1>10. CASE UNCHANGED composed
  BY <1>10 DEF composed, vars, controller, Between, Underway
<1>11. QED
  BY <1>1, <1>2, <1>3, <1>4, <1>5, <1>6, <1>7, <1>8, <1>9, <1>10, <1>12 DEF ComposedNext

(* For every instance and every behaviour of NetworkManager and of the     *)
(* worker, the controller over this backend does what Cascade allows, so   *)
(* that a safety property of Cascade needs no second look here.            *)
THEOREM ImplementsController == ComposedSpec => ControllerIsCascade
<1>1. ComposedInit => ctl = C!InitController
  BY DEF ComposedInit
<1>2. Between /\ [ComposedNext]_composed => [controller' # controller => C!Next]_controller
  BY StepIsControllers DEF composed, controller
<1>3. QED
  BY <1>1, <1>2, InitBetween, NextBetween, PTL DEF ComposedSpec, ControllerIsCascade

-----------------------------------------------------------------------------
(* What is proved of the controller's methods in CascadeProofs, for the    *)
(* controller of this composition.                                         *)

CP == INSTANCE CascadeProofs WITH
        LateDispatch <- FALSE, Dialogs <- FALSE, Extension <- 1, OrphanIds <- {1}

LEMMA Assumed == CP!CascadeAssumption
<1>1. /\ NoServer \notin Servers
      /\ Queues \subseteq Seq(Servers)
      /\ \A q \in Queues : \A i, j \in 1..Len(q) : q[i] = q[j] => i = j
      /\ Budget \in [Servers -> Nat \ {0}]
      /\ MaxGen \in Nat
      /\ Settle \in Nat \ {0}
  BY CompositionAssumption
<1>2. ASSUME NEW s \in Servers PROVE Settle < Budget[s]
  <2>1. Budget[s] \in Nat /\ DownDelay \in Nat /\ Settle \in Nat
        /\ Settle < DownDelay /\ DownDelay < Budget[s]
    BY CompositionAssumption
  <2>2. QED
    BY <2>1
<1>3. FALSE \in BOOLEAN /\ 1 \in Nat \ {0}
  OBVIOUS
<1>4. QED
  BY <1>1, <1>2, <1>3 DEF CP!CascadeAssumption

(* The controller here and the one of those proofs are the same.           *)
LEMMA SameRecords ==
    /\ C!InitController = CP!InitController
    /\ C!Off = CP!Off
    /\ \A timer : C!Due(timer) = CP!Due(timer) /\ C!Elapsed(timer) = CP!Elapsed(timer)
    /\ \A event : C!FailureReason(event) = CP!FailureReason(event)
    /\ \A c : /\ C!Quiet(c) = CP!Quiet(c) /\ C!Busy(c) = CP!Busy(c)
              /\ C!HasRoom(c) = CP!HasRoom(c)
              /\ \A call : Called(c, call) = CP!Called(c, call)
BY Zenon DEF C!InitController, CP!InitController, C!Off, CP!Off, C!Due, CP!Due,
       C!Elapsed, CP!Elapsed, C!FailureReason, CP!FailureReason,
       C!Quiet, CP!Quiet, C!Busy, CP!Busy, C!HasRoom, CP!HasRoom, Called, CP!Called

LEMMA SameParts ==
    \A c : /\ C!DisarmTimers(c) = CP!DisarmTimers(c)
           /\ C!ArmTimeoutAndTicks(c) = CP!ArmTimeoutAndTicks(c)
           /\ C!ArmSettle(c) = CP!ArmSettle(c)
           /\ C!ForgetTimeout(c) = CP!ForgetTimeout(c)
           /\ C!OpenAttempt(c) = CP!OpenAttempt(c)
           /\ \A call : C!Emit(c, call) = CP!Emit(c, call)
           /\ \A result : C!CompleteActiveAttempt(c, result) = CP!CompleteActiveAttempt(c, result)
<1> TAKE c
<1>1. C!Off = CP!Off /\ \A g, f : C!On(g, f) = CP!On(g, f)
  BY SameRecords DEF C!On, CP!On
<1>2. C!DisarmTimers(c) = CP!DisarmTimers(c)
  BY <1>1 DEF C!DisarmTimers, CP!DisarmTimers
<1>3. \A d : C!ArmTimeoutAndTicks(d) = CP!ArmTimeoutAndTicks(d)
  <2>1. \A d : C!DisarmTimers(d) = CP!DisarmTimers(d)
    BY <1>1 DEF C!DisarmTimers, CP!DisarmTimers
  <2>2. QED
    BY <1>1, <2>1 DEF C!ArmTimeoutAndTicks, CP!ArmTimeoutAndTicks
<1>4. C!ArmSettle(c) = CP!ArmSettle(c)
  BY <1>1 DEF C!ArmSettle, CP!ArmSettle
<1>5. C!ForgetTimeout(c) = CP!ForgetTimeout(c)
  <2>1. C!FreshId(c) = CP!FreshId(c)
    BY DEF C!FreshId, CP!FreshId
  <2>2. QED
    BY <1>1, <2>1 DEF C!ForgetTimeout, CP!ForgetTimeout
<1>6. C!OpenAttempt(c) = CP!OpenAttempt(c)
  BY <1>3 DEF C!OpenAttempt, CP!OpenAttempt
<1>7. \A call : C!Emit(c, call) = CP!Emit(c, call)
  BY DEF C!Emit, CP!Emit
<1>8. \A result : C!CompleteActiveAttempt(c, result) = CP!CompleteActiveAttempt(c, result)
  <2>1. C!IsOpen(c) = CP!IsOpen(c)
    BY DEF C!IsOpen, CP!IsOpen
  <2>2. QED
    BY <2>1 DEF C!CompleteActiveAttempt, CP!CompleteActiveAttempt
<1>9. QED
  BY <1>2, <1>3, <1>4, <1>5, <1>6, <1>7, <1>8

LEMMA SameFinish ==
    \A c, phase, restore, status :
       C!Finish(c, phase, restore, status) = CP!Finish(c, phase, restore, status)
<1> TAKE c, phase, restore, status
<1> DEFINE ended == [C!DisarmTimers(c) EXCEPT !.active = FALSE, !.phase = phase,
                        !.expect = FALSE, !.autoTest = FALSE,
                        !.locked = FALSE, !.testBtn = TRUE]
           same == [CP!DisarmTimers(c) EXCEPT !.active = FALSE, !.phase = phase,
                        !.expect = FALSE, !.autoTest = FALSE,
                        !.locked = FALSE, !.testBtn = TRUE]
<1>1. ended = same
  BY SameParts
<1> HIDE DEF ended, same
<1>2. \A r : C!CompleteActiveAttempt(ended, r) = CP!CompleteActiveAttempt(same, r)
  BY <1>1, SameParts
<1>3. CASE phase = "succeeded"
  BY <1>2, <1>3 DEF C!Finish, CP!Finish, ended, same
<1>4. CASE phase = "cancelled"
  <2>1. \A d, call : C!Emit(d, call) = CP!Emit(d, call)
    BY SameParts
  <2>2. QED
    BY <1>2, <1>4, <2>1 DEF C!Finish, CP!Finish, ended, same
<1>5. CASE phase \notin {"succeeded", "cancelled"}
  BY <1>2, <1>5 DEF C!Finish, CP!Finish, ended, same
<1>6. QED
  BY <1>3, <1>4, <1>5

LEMMA SameAdvance ==
    \A c, reason, status : C!Advance(c, reason, status) = CP!Advance(c, reason, status)
<1>1. \A c, reason : C!RecordFailure(c, reason) = CP!RecordFailure(c, reason)
  BY SameParts DEF C!RecordFailure, CP!RecordFailure
<1>2. QED
  BY <1>1, SameParts DEF C!Advance, CP!Advance

(* Over this backend an attempt finds a tunnel that is still up, or none.  *)
LEMMA SameTry ==
    \A c, status : \A answer \in {"up", "accepts"} :
       C!TryCurrentServer(c, answer, status) = CP!TryCurrentServer(c, answer, status)
<1> TAKE c, status
<1> TAKE answer \in {"up", "accepts"}
<1>1. \A d : C!StillConnected(d, answer, status) = CP!StillConnected(d, answer, status)
  BY SameAdvance, SameParts DEF C!StillConnected, CP!StillConnected
<1>2. C!Finish(c, "exhausted", TRUE, status) = CP!Finish(c, "exhausted", TRUE, status)
  BY SameFinish
<1>3. /\ C!OpenAttempt(c) = CP!OpenAttempt(c)
      /\ \A d, call : C!Emit(d, call) = CP!Emit(d, call)
  BY SameParts
<1>4. CASE answer = "up"
  BY <1>1, <1>2, <1>3, <1>4 DEF C!TryCurrentServer, CP!TryCurrentServer
<1>5. CASE answer = "accepts"
  BY <1>2, <1>3, <1>5 DEF C!TryCurrentServer, CP!TryCurrentServer
<1>6. QED
  BY <1>4, <1>5

LEMMA SameStart ==
    \A c, q, status : \A opening \in {"connected", "accepts"} :
       C!StartFromVisibleList(c, q, opening, status)
          = CP!StartFromVisibleList(c, q, opening, status)
<1> TAKE c, q, status
<1> TAKE opening \in {"connected", "accepts"}
<1>1. C!Begin(c, q, opening, status) = CP!Begin(c, q, opening, status)
  <2>1. /\ \A d : C!ArmSettle(d) = CP!ArmSettle(d)
        /\ \A d, call : C!Emit(d, call) = CP!Emit(d, call)
    BY SameParts
  <2>2. \A d : C!TryCurrentServer(d, "accepts", status) = CP!TryCurrentServer(d, "accepts", status)
    BY SameTry
  <2>3. CASE opening = "connected"
    BY <2>1, <2>3 DEF C!Begin, CP!Begin
  <2>4. CASE opening = "accepts"
    BY <2>2, <2>4 DEF C!Begin, CP!Begin
  <2>5. QED
    BY <2>3, <2>4
<1>2. QED
  BY <1>1, SameFinish DEF C!StartFromVisibleList, CP!StartFromVisibleList

LEMMA SameCancel == \A c, status : C!Cancel(c, status) = CP!Cancel(c, status)
BY SameRecords, SameParts, SameFinish DEF C!Cancel, CP!Cancel

LEMMA SameEvent ==
    \A c, event, status :
       C!OnConnectionEvent(c, event, status) = CP!OnConnectionEvent(c, event, status)
BY SameRecords, SameParts, SameFinish, SameAdvance DEF C!OnConnectionEvent, CP!OnConnectionEvent

LEMMA SameTimeout ==
    \A c, gen, busy, status : C!OnTimeout(c, gen, busy, status) = CP!OnTimeout(c, gen, busy, status)
BY SameParts, SameAdvance DEF C!OnTimeout, CP!OnTimeout

LEMMA SameTick ==
    \A c, busy, status : C!OnTick(c, busy, status) = CP!OnTick(c, busy, status)
<1> SUFFICES ASSUME NEW c, NEW busy, NEW status
             PROVE  C!OnTick(c, busy, status) = CP!OnTick(c, busy, status)
  OBVIOUS
<1>1. C!Off = CP!Off /\ C!ForgetTimeout(c) = CP!ForgetTimeout(c)
  BY SameRecords, SameParts
<1>2. C!OnTimeout(C!ForgetTimeout(c), c.tick.gen, FALSE, status)
         = CP!OnTimeout(CP!ForgetTimeout(c), c.tick.gen, FALSE, status)
  BY <1>1, SameTimeout
<1>3. QED
  BY <1>1, <1>2 DEF C!OnTick, CP!OnTick

LEMMA SameSettled ==
    \A c, status : \A answer \in {"up", "accepts"} :
       C!OnSettled(c, answer, status) = CP!OnSettled(c, answer, status)
BY SameRecords, SameTry DEF C!OnSettled, CP!OnSettled

-----------------------------------------------------------------------------
(* The controller's steps.                                                 *)

RunInv == ctl \in CP!Controller /\ CP!Regular(ctl) /\ dialog = FALSE

LEMMA AnswerOfStatus ==
    /\ Answer(Status) = IF Status THEN "up" ELSE "accepts"
    /\ Opening(Status) = IF Status THEN "connected" ELSE "accepts"
    /\ Answer(Status) \in {"up", "accepts"} /\ Opening(Status) \in {"connected", "accepts"}
BY DEF Answer, Opening

(* When NetworkManager can be asked, status() tells.                       *)
LEMMA TrueAnswer ==
    ASSUME ~Faults, NEW up \in StatusAnswers
    PROVE  up = Status
BY BackendAssumption DEF StatusAnswers

LEMMA GoesOn ==
    ASSUME RunInv, ~Faults, StartRun \/ TimeoutFires \/ TickFires \/ SettleFires
    PROVE  /\ Free /\ hand' = hand
           /\ \E d : ControllerStep(d) /\ CP!Follows(ctl, d, Status)
<1>1. CP!CascadeAssumption /\ ctl \in CP!Controller /\ CP!Regular(ctl) /\ dialog = FALSE
      /\ Status \in BOOLEAN
  BY Assumed, StatusType DEF RunInv
<1>2. Free /\ hand' = hand
  BY DEF StartRun, TimeoutFires, TickFires, SettleFires
<1>3. C!Quiet(ctl) = CP!Quiet(ctl) /\ C!Busy(ctl) = CP!Busy(ctl) /\ C!Off = CP!Off
      /\ C!HasRoom(ctl) = CP!HasRoom(ctl) /\ C!Due(ctl.settle) = CP!Due(ctl.settle)
  BY SameRecords
<1>4. CASE StartRun
  <2>1. PICK q \in Queues :
            ControllerStep(C!StartFromVisibleList(C!Quiet(ctl), q, Opening(Status), Status))
    BY <1>4, TrueAnswer DEF StartRun
  <2>2. ~CP!Busy(ctl)
    BY <1>3, <1>4 DEF StartRun
  <2> DEFINE d == CP!StartFromVisibleList(CP!Quiet(ctl), q,
                     IF Status THEN "connected" ELSE "accepts", Status)
  <2>3. C!StartFromVisibleList(C!Quiet(ctl), q, Opening(Status), Status) = d
    BY <1>3, AnswerOfStatus, SameStart
  <2>4. CP!Follows(ctl, d, Status)
    BY <1>1, <2>2, CP!StartFollows
  <2> HIDE DEF d
  <2>5. QED
    BY <1>2, <2>1, <2>3, <2>4
<1>5. CASE TimeoutFires
  <2> DEFINE d == CP!OnTimeout([CP!Quiet(ctl) EXCEPT !.timeout = CP!Off],
                               ctl.timeout.gen, FALSE, Status)
  <2>1. C!OnTimeout([C!Quiet(ctl) EXCEPT !.timeout = C!Off], ctl.timeout.gen, dialog, Status) = d
    BY <1>1, <1>3, SameTimeout
  <2>2. CP!Follows(ctl, d, Status)
    BY <1>1, CP!FiredFollows
  <2> HIDE DEF d
  <2>3. ControllerStep(d)
    BY <1>5, <2>1, TrueAnswer DEF TimeoutFires
  <2>4. QED
    BY <1>2, <2>2, <2>3
<1>6. CASE TickFires
  <2> DEFINE d == CP!OnTick(CP!Quiet(ctl), FALSE, Status)
  <2>1. C!OnTick(C!Quiet(ctl), dialog, Status) = d
    BY <1>1, <1>3, SameTick
  <2>2. CP!HasRoom(ctl)
    BY <1>3, <1>6 DEF TickFires
  <2>3. CP!Follows(ctl, d, Status)
    BY <1>1, <2>2, CP!TickFollows
  <2> HIDE DEF d
  <2>4. ControllerStep(d)
    BY <1>6, <2>1, TrueAnswer DEF TickFires
  <2>5. QED
    BY <1>2, <2>3, <2>4
<1>7. CASE SettleFires
  <2> DEFINE d == CP!OnSettled(CP!Quiet(ctl), IF Status THEN "up" ELSE "accepts", Status)
  <2>1. C!OnSettled(C!Quiet(ctl), Answer(Status), Status) = d
    BY <1>3, AnswerOfStatus, SameSettled
  <2>2. ctl.settle.armed
    BY <1>7 DEF SettleFires, C!Due
  <2>3. CP!Follows(ctl, d, Status)
    BY <1>1, <2>2, CP!SettledFollows
  <2> HIDE DEF d
  <2>4. ControllerStep(d)
    BY <1>7, <2>1, TrueAnswer DEF SettleFires
  <2>5. QED
    BY <1>2, <2>3, <2>4
<1>8. QED
  BY <1>4, <1>5, <1>6, <1>7

LEMMA Hears ==
    ASSUME RunInv, ~Faults, HandleEvent
    PROVE  /\ hand \in {"up", "down", "fail"} /\ hand' = "free"
           /\ \E d : /\ ControllerStep(d)
                     /\ \/ CP!Follows(ctl, d, Status)
                        \/ /\ hand = "up"
                           /\ d \in CP!Controller /\ CP!Regular(d) /\ CP!Succeeds(ctl, d)
<1>1. CP!CascadeAssumption /\ ctl \in CP!Controller /\ CP!Regular(ctl) /\ Status \in BOOLEAN
  BY Assumed, StatusType DEF RunInv
<1>2. PICK event \in EventsOf(hand) :
          ControllerStep(C!OnConnectionEvent(C!Quiet(ctl), event, Status))
  BY TrueAnswer DEF HandleEvent
<1> DEFINE d == CP!OnConnectionEvent(CP!Quiet(ctl), event, Status)
<1>3. C!OnConnectionEvent(C!Quiet(ctl), event, Status) = d
  BY SameRecords, SameEvent
<1>4. event \in CP!Events
  BY DEF EventsOf, CP!Events
<1>5. \/ CP!Follows(ctl, d, Status)
      \/ event = "connected" /\ d \in CP!Controller /\ CP!Regular(d) /\ CP!Succeeds(ctl, d)
  BY <1>1, <1>4, CP!EventFollows
<1>6. event = "connected" => hand = "up"
  BY DEF HandleEvent, EventsOf
<1> HIDE DEF d
<1>7. ControllerStep(d)
  BY <1>2, <1>3
<1>8. QED
  BY <1>5, <1>6, <1>7 DEF HandleEvent

LEMMA CallsItOff ==
    ASSUME RunInv, Between, ~Faults, CancelEnds
    PROVE  /\ hand = "finishing" /\ hand' = "free"
           /\ \E d : /\ ControllerStep(d) /\ d \in CP!Controller /\ CP!Regular(d)
                     /\ CP!CallsOff(d, Status)
<1>1. CP!CascadeAssumption /\ ctl \in CP!Controller /\ CP!Regular(ctl) /\ Status \in BOOLEAN
  BY Assumed, StatusType DEF RunInv
<1>2. CP!Busy(ctl)
  BY SameRecords DEF CancelEnds, Between, Underway
<1> DEFINE d == CP!Cancel(CP!Quiet(ctl), Status)
<1>3. C!Cancel(C!Quiet(ctl), Status) = d
  BY SameRecords, SameCancel
<1>4. d \in CP!Controller /\ CP!Regular(d) /\ CP!CallsOff(d, Status)
  BY <1>1, <1>2, CP!CancelFollows
<1> HIDE DEF d
<1>5. ControllerStep(d)
  BY <1>3, TrueAnswer DEF CancelEnds
<1>6. QED
  BY <1>4, <1>5 DEF CancelEnds

LEMMA TimeGoesOn ==
    ASSUME RunInv, Elapse
    PROVE  /\ ctl' \in CP!Controller /\ CP!Regular(ctl') /\ dialog' = FALSE
           /\ ctl'.phase = ctl.phase /\ ctl'.current = ctl.current
<1>1. CP!CascadeAssumption /\ ctl \in CP!Controller /\ CP!Regular(ctl) /\ dialog = FALSE
  BY Assumed DEF RunInv
<1>2. /\ ~CP!Due(ctl.timeout) /\ ~CP!Due(ctl.tick) /\ ~CP!Due(ctl.settle)
      /\ \A o \in ctl.orphans : o.fuse > 0
  BY SameRecords DEF Elapse, C!Elapse, C!NoTimeoutDue
<1> DEFINE d == [CP!Quiet(ctl) EXCEPT !.left = IF @ > 0 THEN @ - 1 ELSE 0,
                    !.timeout = CP!Elapsed(@), !.tick = CP!Elapsed(@), !.settle = CP!Elapsed(@),
                    !.orphans = {[o EXCEPT !.fuse = @ - 1] : o \in @}]
<1>3. d \in CP!Controller /\ CP!Regular(d) /\ d.phase = ctl.phase /\ d.current = ctl.current
  BY <1>1, <1>2, CP!ElapsedFollows
<1>4. ctl' = d
  BY SameRecords DEF Elapse, C!Elapse
<1>5. dialog' = dialog
  BY DEF Elapse, C!Elapse
<1> HIDE DEF d
<1>6. QED
  BY <1>1, <1>3, <1>4, <1>5

-----------------------------------------------------------------------------
(* Types, and what the backend's proofs rely on, in the composition.       *)

LEMMA Carried ==
    ASSUME NEW d, ControllerStep(d)
    PROVE  /\ ctl' = d
           /\ UNCHANGED <<cancel, uuid, ui, profiles, act, bus, late, failures, refusals,
                          calls, working, owner, lost>>
           /\ heard' = "none"
           /\ watch' \in {watch, TRUE} /\ suppress' \in {suppress, FALSE}
           /\ \/ /\ Called(d, "connect") /\ Dispatch("connect")
                 /\ jobs' = Append(jobs, d.current)
              \/ ~Called(d, "connect") /\ Called(d, "disconnect") /\ Dispatch("disconnect")
                 /\ jobs' = jobs
              \/ ~Called(d, "connect") /\ ~Called(d, "disconnect")
                 /\ UNCHANGED <<queue, field, thread, jobs>>
BY DEF ControllerStep, CarryOut, daemon, inbox

LEMMA CarriedTypes ==
    ASSUME TypeInv, \A t \in Threads : ThreadInv(t), NEW d, ControllerStep(d)
    PROVE  TypeInv' /\ \A t \in Threads : ThreadInv(t)'
<1>1. IInv /\ DaemonType /\ Signals /\ uuid' = uuid
  BY Carried DEF TypeInv
<1>2. IInv'
  <2>1. ASSUME NEW op \in Operations, Dispatch(op) PROVE IInv'
    BY <1>1, <2>1, DispatchKeeps
  <2>2. CASE UNCHANGED <<queue, field, thread>>
    BY <1>1, <2>2 DEF IInv, QueueType, WorkerIsField, FieldWorks, QueueHasWorker
  <2>3. QED
    BY <2>1, <2>2, Carried DEF Operations
<1>3. DaemonType' /\ ActiveProfiles' = ActiveProfiles
  BY <1>1, Carried, NothingChanges
<1>4. Signals'
  BY <1>1, Carried DEF Signals
<1>5. \A t \in Threads : thread'[t] = thread[t] \/ thread'[t] = Popping("none", NoUuid)
  <2>1. ASSUME NEW op \in Operations, Dispatch(op)
        PROVE  \A t \in Threads : thread'[t] = thread[t] \/ thread'[t] = Popping("none", NoUuid)
    BY <2>1, DispatchAsks
  <2>2. QED
    BY <2>1, Carried DEF Operations
<1>6. \A t \in Threads : ThreadInv(t)'
  BY <1>1, <1>3, <1>5, Unmoved, IdleThread
<1>7. QED
  BY <1>2, <1>3, <1>4, <1>6 DEF TypeInv

LEMMA CarriedAside ==
    ASSUME TypeInv, NEW d, ControllerStep(d),
           Called(d, "connect") => ~ConnectPending /\ ~Status
    PROVE  Aside
<1>1. ActiveProfiles' = ActiveProfiles /\ uuid' = uuid
  BY Carried, NothingChanges DEF TypeInv
<1>2. /\ \A t \in Threads : thread'[t] = thread[t] \/ thread'[t] = Popping("none", NoUuid)
      /\ \/ queue' = queue
         \/ queue' = Append(queue, "connect") /\ Called(d, "connect")
         \/ queue' = Append(queue, "disconnect")
  <2>1. ASSUME NEW op \in Operations, Dispatch(op)
        PROVE  /\ \A t \in Threads : thread'[t] = thread[t] \/ thread'[t] = Popping("none", NoUuid)
               /\ queue' = Append(queue, op)
    BY <2>1, DispatchAsks DEF Dispatch
  <2>2. QED
    BY <2>1, Carried DEF Operations
<1>3. QED
  BY <1>1, <1>2 DEF Aside

(* The other steps of the GTK thread, and NetworkManager's own.            *)
Bystands ==
    \/ ClickCancel \/ CancelSuppresses \/ CancelEmpties \/ Callback \/ Elapse
    \/ \E u \in Uuids : DaemonStep(u)
    \/ UNCHANGED composed

LEMMA BystandsOutside ==
    ASSUME Bystands
    PROVE  /\ Outside /\ queue' \in {queue, <<>>}
           /\ UNCHANGED <<working, owner, prompt, lost>>
<1>1. CASE ClickCancel \/ CancelSuppresses
  BY <1>1 DEF ClickCancel, CancelSuppresses, SetCancel, SetSuppress, Outside, made
<1>2. CASE CancelEmpties
  BY <1>2 DEF CancelEmpties, CancelClear, Outside
<1>3. CASE Callback
  <2>1. Callbacks
    BY <1>3 DEF Callback, Callbacks
  <2>2. queue' = queue
    BY <2>1 DEF Callbacks, SignalArrives, LateDisconnection, FailureNotified,
                RefusalNotified, backend
  <2>3. QED
    BY <1>3, <2>1, <2>2 DEF Callback, Outside, made
<1>4. CASE Elapse
  BY <1>4 DEF Elapse, Outside, vars, backend, made
<1>5. ASSUME NEW u \in Uuids, DaemonStep(u)
      PROVE  /\ Outside /\ queue' = queue
             /\ UNCHANGED <<working, owner, prompt, lost>>
  <2>1. HandshakeDone(u) \/ GoesDown(u)
    BY <1>5 DEF DaemonStep
  <2>2. queue' = queue
    BY <2>1 DEF HandshakeDone, GoesDown, backend
  <2>3. QED
    BY <1>5, <2>1, <2>2 DEF DaemonStep, Outside, made
<1>6. CASE UNCHANGED composed
  BY <1>6 DEF composed, Outside, vars, backend, made
<1>7. QED
  BY <1>1, <1>2, <1>3, <1>4, <1>5, <1>6 DEF Bystands

LEMMA BystandsTypes ==
    ASSUME TypeInv, \A t \in Threads : ThreadInv(t), Bystands
    PROVE  TypeInv' /\ (\A t \in Threads : ThreadInv(t)') /\ Aside
<1>1. Outside /\ queue' \in {queue, <<>>} /\ NativeInv
  BY BystandsOutside DEF TypeInv, NativeInv
<1>2. [Next]_vars
  BY <1>1 DEF Outside, Next
<1>3. TypeInv'
  BY <1>2, NextTypeInv
<1>4. /\ ActiveProfiles' \subseteq ActiveProfiles
      /\ \A t \in Threads : ThreadInv(t)'
      /\ uuid' = uuid \/ uuid' = NoUuid
      /\ \A t \in Threads : \/ thread'[t] = thread[t]
                            \/ thread'[t] \in {Dead, Popping("none", NoUuid)}
  BY <1>1, OutsideNative
<1>5. Aside
  BY <1>1, <1>4 DEF Aside
<1>6. QED
  BY <1>3, <1>4, <1>5

Grounds == TypeInv /\ (\A t \in Threads : ThreadInv(t)) /\ Between /\ RunInv

LEMMA InitGrounds == ComposedInit => Grounds
<1> SUFFICES ASSUME ComposedInit PROVE Grounds
  OBVIOUS
<1>1. /\ queue = <<>> /\ field = NoThread /\ cancel = FALSE /\ suppress = FALSE
      /\ watch = TRUE /\ ui = "free"
      /\ thread = [t \in Threads |-> Dead]
      /\ bus = <<>> /\ late = 0 /\ failures = 0 /\ refusals = 0
      /\ heard = "none" /\ calls = 0
  BY DEF ComposedInit
<1>2. profiles \subseteq Uuids /\ uuid \in Uuids \cup {NoUuid}
      /\ act \in [Uuids -> {"down", "activating", "up"}]
      /\ \A u \in Uuids \ profiles : act[u] = "down"
  BY DEF ComposedInit
<1>3. DaemonType
  BY <1>2 DEF DaemonType
<1>4. Signals
  <2>1. <<>> \in Seq({"up", "down"})
    BY EmptySeq
  <2>2. QED
    BY <1>1, <2>1 DEF Signals
<1>5. IInv
  <2>1. <<>> \in Seq(Operations)
    BY EmptySeq
  <2>2. Dead \in ThreadState /\ Dead.pc = "dead"
    BY DEF Dead, ThreadState, Working, Gone, Outcomes
  <2>3. "dead" \notin Working
    BY DEF Working, Connecting, Disconnecting
  <2>4. QED
    BY <1>1, <1>2, <2>1, <2>2, <2>3
       DEF IInv, QueueType, WorkerIsField, FieldWorks, QueueHasWorker
<1>6. \A t \in Threads : ThreadInv(t)
  BY <1>1 DEF ThreadInv, Dead, Holding
<1>7. RunInv
  <2>1. ctl = CP!InitController /\ dialog = FALSE
    BY SameRecords DEF ComposedInit
  <2>2. QED
    BY <2>1, Assumed, CP!InitRegular DEF RunInv
<1>8. QED
  BY <1>3, <1>4, <1>5, <1>6, <1>7, InitBetween DEF Grounds, TypeInv

LEMMA NextGrounds ==
    ASSUME Grounds, ~Faults, [ComposedNext]_composed
    PROVE  Grounds'
<1>1. TypeInv /\ (\A t \in Threads : ThreadInv(t)) /\ Between /\ RunInv
  BY DEF Grounds
<1>2. Between'
  BY <1>1, NextBetween
<1>3. ASSUME NEW d \in CP!Controller, ControllerStep(d), CP!Regular(d)
      PROVE  Grounds'
  <2>1. ctl' = d /\ dialog' = dialog
    BY <1>3, ControllerStepKeeps
  <2>2. RunInv'
    BY <1>1, <1>3, <2>1 DEF RunInv
  <2>3. TypeInv' /\ \A t \in Threads : ThreadInv(t)'
    BY <1>1, <1>3, CarriedTypes
  <2>4. QED
    BY <1>2, <2>2, <2>3 DEF Grounds
<1>4. CASE StartRun \/ TimeoutFires \/ TickFires \/ SettleFires
  <2>1. PICK d : ControllerStep(d) /\ CP!Follows(ctl, d, Status)
    BY <1>1, <1>4, GoesOn
  <2>2. QED
    BY <1>3, <2>1 DEF CP!Follows
<1>5. CASE HandleEvent
  <2>1. PICK d : ControllerStep(d) /\ d \in CP!Controller /\ CP!Regular(d)
    BY <1>1, <1>5, Hears DEF CP!Follows
  <2>2. QED
    BY <1>3, <2>1
<1>6. CASE CancelEnds
  <2>1. PICK d : ControllerStep(d) /\ d \in CP!Controller /\ CP!Regular(d)
    BY <1>1, <1>6, CallsItOff
  <2>2. QED
    BY <1>3, <2>1
<1>7. CASE Bystands
  <2>1. TypeInv' /\ \A t \in Threads : ThreadInv(t)'
    BY <1>1, <1>7, BystandsTypes
  <2>2. RunInv'
    <3>1. CASE Elapse
      BY <1>1, <3>1, TimeGoesOn DEF RunInv
    <3>2. CASE ~Elapse
      <4>1. UNCHANGED controller
        BY <1>7, <3>2, CallbackKeepsUI, DaemonKeepsUI 
           DEF Bystands, ClickCancel, CancelSuppresses, CancelEmpties, composed
      <4>2. QED
        BY <1>1, <4>1 DEF RunInv, controller
    <3>3. QED
      BY <3>1, <3>2
  <2>3. QED
    BY <1>2, <2>1, <2>2 DEF Grounds
<1>8. ASSUME NEW t \in Threads, WorkerStep(t)
      PROVE  Grounds'
  <2>1. Worker(t) /\ UNCHANGED controller
    BY <1>8 DEF WorkerStep
  <2>2. TypeInv'
    BY <1>1, <2>1, NextTypeInv DEF Next
  <2>3. \A v \in Threads : ThreadInv(v)'
    BY <1>1, <2>1, WorkerNative DEF TypeInv, NativeInv
  <2>4. RunInv'
    BY <1>1, <2>1 DEF RunInv, controller
  <2>5. QED
    BY <1>2, <2>2, <2>3, <2>4 DEF Grounds
<1>9. QED
  BY <1>4, <1>5, <1>6, <1>7, <1>8 DEF ComposedNext, Bystands

-----------------------------------------------------------------------------
(* The run and the manager.  While no attempt was given up, or opened, with*)
(* an earlier connect still at work, what is queued, under way or up       *)
(* belongs to the server the controller is trying.                         *)

UpComing == hand = "up" \/ \E i \in 1..Len(bus) : bus[i] = "up"

Owned ==
    /\ \A u \in ActiveProfiles : owner[u] = ctl.current
    /\ \A t \in Threads : thread[t].pc \in {"check", "add"} => working = ctl.current
    /\ \A t \in Threads : thread[t].pc \in {"addedCheck", "activate"} /\ uuid \in profiles =>
                              owner[uuid] = ctl.current
    /\ UpComing => rose /\ ~Asks

OwnInv ==
    /\ hand = "finishing" => queue = <<>>
    /\ ctl.phase # "connecting" => ~Queued("connect")
    /\ jobs = IF Queued("connect") THEN <<ctl.current>> ELSE <<>>
    /\ ctl.phase = "connecting" => Owned

(* And what a run leaves behind is coming down: a disconnect is queued or  *)
(* under way, or a connect that will find itself cancelled.                *)
Doomed ==
    \/ Queued("disconnect")
    \/ \E t \in Threads : \/ thread[t].pc \in {"look", "takeDown", "sweep", "undoDown"}
                          \/ thread[t].pc = "lastCheck" /\ cancel

LeftInv ==
    /\ ui # "free" => cancel
    /\ hand = "finishing" =>
          \A t \in Threads : thread[t].pc \in BeforeActivation \cup {"lastCheck"} => cancel
    /\ ctl.phase # "connecting" => \A t \in Threads : thread[t].pc \in BeforeActivation => cancel
    /\ ctl.phase \in {"settling", "exhausted", "cancelled"} /\ hand # "finishing" /\ Status =>
          Doomed

-----------------------------------------------------------------------------
(* A step of the controller.                                               *)

Turn(d) ==
    \/ CP!LeavesIt(ctl, d) /\ hand # "finishing"
    \/ CP!Settles(ctl, d, Status) /\ hand # "finishing"
    \/ CP!Tries(ctl, d, Status) /\ d.active
    \/ CP!RunsOut(ctl, d) /\ hand # "finishing"
    \/ CP!Succeeds(ctl, d) /\ ctl.active /\ hand = "up"
    \/ CP!CallsOff(d, Status) /\ hand = "finishing"

ControllerMoves ==
    \/ StartRun \/ TimeoutFires \/ TickFires \/ SettleFires \/ HandleEvent \/ CancelEnds

LEMMA FollowsTurn ==
    ASSUME NEW d, CP!Follows(ctl, d, Status), hand # "finishing"
    PROVE  Turn(d)
<1>1. /\ d.active <=> d.phase \in {"connecting", "settling"}
      /\ \/ CP!LeavesIt(ctl, d) \/ CP!Settles(ctl, d, Status)
         \/ CP!Tries(ctl, d, Status) \/ CP!RunsOut(ctl, d)
  BY DEF CP!Follows, CP!Regular
<1>2. CP!Tries(ctl, d, Status) => d.phase = "connecting"
  BY DEF CP!Tries
<1>3. QED
  BY <1>1, <1>2 DEF Turn

LEMMA ControllerTurns ==
    ASSUME Grounds, ~Faults, ControllerMoves
    PROVE  hand' = "free" /\ \E d : ControllerStep(d) /\ Turn(d)
<1>1. RunInv /\ Between
  BY DEF Grounds
<1>2. CASE StartRun \/ TimeoutFires \/ TickFires \/ SettleFires
  <2>1. Free /\ hand' = hand
    BY <1>1, <1>2, GoesOn
  <2>2. PICK d : ControllerStep(d) /\ CP!Follows(ctl, d, Status)
    BY <1>1, <1>2, GoesOn
  <2>3. hand = "free"
    BY <2>1 DEF Free
  <2>4. QED
    BY <2>1, <2>2, <2>3, FollowsTurn
<1>3. CASE HandleEvent
  <2>1. hand \in {"up", "down", "fail"} /\ hand' = "free"
    BY <1>1, <1>3, Hears
  <2>2. PICK d : /\ ControllerStep(d)
                 /\ \/ CP!Follows(ctl, d, Status)
                    \/ /\ hand = "up"
                       /\ d \in CP!Controller /\ CP!Regular(d) /\ CP!Succeeds(ctl, d)
    BY <1>1, <1>3, Hears
  <2>3. CASE CP!Follows(ctl, d, Status)
    BY <2>1, <2>2, <2>3, FollowsTurn
  <2>4. CASE hand = "up" /\ CP!Succeeds(ctl, d)
    <3>1. Turn(d)
      BY <2>4 DEF Turn, CP!Succeeds
    <3>2. QED
      BY <2>1, <2>2, <3>1
  <2>5. QED
    BY <2>2, <2>3, <2>4
<1>4. CASE CancelEnds
  <2>1. hand = "finishing" /\ hand' = "free"
    BY <1>1, <1>4, CallsItOff
  <2>2. PICK d : ControllerStep(d) /\ CP!CallsOff(d, Status)
    BY <1>1, <1>4, CallsItOff
  <2>3. Turn(d)
    BY <2>1, <2>2 DEF Turn
  <2>4. QED
    BY <2>1, <2>2, <2>3
<1>5. QED
  BY <1>2, <1>3, <1>4 DEF ControllerMoves

(* What it leaves in the queue.                                            *)
LEMMA CarriedQueue ==
    ASSUME TypeInv, NEW d, ControllerStep(d)
    PROVE  /\ Called(d, "connect") => Queued("connect")' /\ jobs' = Append(jobs, d.current)
           /\ ~Called(d, "connect") => (Queued("connect")' <=> Queued("connect")) /\ jobs' = jobs
           /\ ~Called(d, "connect") /\ Called(d, "disconnect") => Queued("disconnect")'
           /\ ~Called(d, "connect") /\ ~Called(d, "disconnect") => UNCHANGED <<queue, thread>>
           /\ \A t \in Threads : thread'[t] = thread[t] \/ thread'[t] = Popping("none", NoUuid)
<1>1. QueueType
  BY DEF TypeInv, IInv
<1>2. ASSUME NEW op \in Operations, Dispatch(op)
      PROVE  /\ Queued(op)'
             /\ op # "connect" => (Queued("connect")' <=> Queued("connect"))
             /\ \A t \in Threads : thread'[t] = thread[t] \/ thread'[t] = Popping("none", NoUuid)
  <2>1. queue' = Append(queue, op)
    BY <1>2 DEF Dispatch
  <2>2. /\ Len(queue') = Len(queue) + 1 /\ Len(queue) \in Nat
        /\ \A i \in 1..Len(queue') : IF i = Len(queue') THEN queue'[i] = op
                                     ELSE i \in 1..Len(queue) /\ queue'[i] = queue[i]
    BY <1>1, <2>1, AppendQueued
  <2>3. Queued(op)'
    <3>1. Len(queue') \in 1..Len(queue')
      BY <2>2
    <3>2. QED
      BY <2>2, <3>1 DEF Queued
  <2>4. op # "connect" => (Queued("connect")' <=> Queued("connect"))
    <3>1. \A i \in 1..Len(queue) : i \in 1..Len(queue') /\ queue'[i] = queue[i]
      BY <2>2
    <3>2. QED
      BY <2>2, <3>1 DEF Queued
  <2>5. QED
    BY <1>2, <2>3, <2>4, DispatchAsks
<1>3. /\ \/ /\ Called(d, "connect") /\ Dispatch("connect")
            /\ jobs' = Append(jobs, d.current)
         \/ ~Called(d, "connect") /\ Called(d, "disconnect") /\ Dispatch("disconnect")
            /\ jobs' = jobs
         \/ ~Called(d, "connect") /\ ~Called(d, "disconnect")
            /\ UNCHANGED <<queue, field, thread, jobs>>
  BY Carried
<1>4. CASE Called(d, "connect") /\ Dispatch("connect") /\ jobs' = Append(jobs, d.current)
  BY <1>2, <1>4 DEF Operations
<1>5. CASE ~Called(d, "connect") /\ Called(d, "disconnect") /\ Dispatch("disconnect")
           /\ jobs' = jobs
  BY <1>2, <1>5 DEF Operations
<1>6. CASE ~Called(d, "connect") /\ ~Called(d, "disconnect")
           /\ UNCHANGED <<queue, field, thread, jobs>>
  <2>1. Queued("connect")' <=> Queued("connect")
    BY <1>6 DEF Queued
  <2>2. QED
    BY <1>6, <2>1
<1>7. QED
  BY <1>3, <1>4, <1>5, <1>6

LEMMA TurnCalls ==
    ASSUME NEW d, Turn(d)
    PROVE  /\ CP!Silent(d) => ~Called(d, "connect") /\ ~Called(d, "disconnect")
           /\ \A x : CP!Called(d, x) <=> Called(d, x)
           /\ ~CP!Tries(ctl, d, Status) => ~Called(d, "connect")
<1>1. \A x : CP!Called(d, x) <=> Called(d, x)
  BY DEF CP!Called, Called
<1>2. CP!Silent(d) => ~Called(d, "connect") /\ ~Called(d, "disconnect")
  BY <1>1 DEF CP!Silent
<1>3. ~CP!Tries(ctl, d, Status) => ~Called(d, "connect")
  BY <1>1, <1>2 DEF Turn, CP!LeavesIt, CP!Settles, CP!RunsOut, CP!Succeeds, CP!CallsOff
<1>4. QED
  BY <1>1, <1>2, <1>3

(* An attempt is opened on a clear field.                                  *)
LEMMA TurnOpens ==
    ASSUME NEW d, ControllerStep(d), Turn(d), prompt'
    PROVE  /\ prompt
           /\ Opened(d) \/ Called(d, "connect") => ~ConnectPending /\ bus = <<>>
           /\ Called(d, "connect") => ~Status
           /\ Len(d.failures) > Len(ctl.failures) => ~ConnectPending
<1>1. prompt' = (/\ prompt
                 /\ GivenUp(d) \/ Opened(d) => ~ConnectPending
                 /\ Opened(d) => bus = <<>>)
  BY DEF ControllerStep
<1>2. prompt /\ (GivenUp(d) \/ Opened(d) => ~ConnectPending) /\ (Opened(d) => bus = <<>>)
  BY <1>1
<1>3. Called(d, "connect") => CP!Tries(ctl, d, Status) /\ d.active
  BY TurnCalls DEF Turn, CP!LeavesIt, CP!Settles, CP!RunsOut, CP!Succeeds, CP!CallsOff
<1>4. Called(d, "connect") => Opened(d) /\ ~Status
  BY <1>3 DEF CP!Tries, Opened
<1>5. QED
  BY <1>2, <1>4 DEF GivenUp

LEMMA NonePending ==
    ASSUME ~ConnectPending
    PROVE  /\ ~Queued("connect") /\ ~Asks
           /\ \A t \in Threads : thread[t].pc \notin Connecting
BY DEF ConnectPending, Queued, Asks, BeforeActivation, Connecting

LEMMA TurnTunnel ==
    ASSUME TypeInv, TunnelInv, NEW d, ControllerStep(d), Turn(d), prompt', NativeInv'
    PROVE  TunnelInv'
<1>1. Called(d, "connect") => ~ConnectPending /\ ~Status
  BY TurnOpens
<1>2. Aside
  BY <1>1, CarriedAside
<1>3. QED
  BY <1>2, AsideTunnel DEF TunnelInv

LEMMA TurnOwn ==
    ASSUME TypeInv, OwnInv, NEW d, ControllerStep(d), Turn(d), prompt', hand' = "free"
    PROVE  OwnInv'
<1>1. /\ ctl' = d /\ UNCHANGED <<uuid, profiles, act, bus, working, owner>>
      /\ rose' = (rose /\ ~Opened(d))
  BY Carried DEF ControllerStep
<1>2. ActiveProfiles' = ActiveProfiles
  BY <1>1, NothingChanges DEF TypeInv
<1>3. /\ hand = "finishing" => queue = <<>>
      /\ ctl.phase # "connecting" => ~Queued("connect")
      /\ jobs = IF Queued("connect") THEN <<ctl.current>> ELSE <<>>
      /\ ctl.phase = "connecting" => Owned
  BY DEF OwnInv
<1>4. UpComing' => UpComing /\ bus # <<>>
  BY <1>1 DEF UpComing
<1>5. \A t \in Threads : thread'[t] = thread[t] \/ thread'[t] = Popping("none", NoUuid)
  BY CarriedQueue
<1>6. \A t \in Threads : thread'[t].pc \in Connecting => thread'[t] = thread[t]
  BY <1>5 DEF Popping, Connecting
<1>7. CASE CP!LeavesIt(ctl, d)
  <2>1. /\ d.phase = ctl.phase /\ d.current = ctl.current
        /\ ~Called(d, "connect") /\ ~Called(d, "disconnect")
    BY <1>7, TurnCalls DEF CP!LeavesIt
  <2>2. UNCHANGED <<queue, thread, jobs>> /\ (Queued("connect")' <=> Queued("connect"))
    BY <2>1, CarriedQueue
  <2>3. Asks' = Asks
    BY <2>2, SameAsks
  <2>4. ASSUME Owned PROVE Owned'
    <3>1. UpComing' => rose' /\ ~Asks'
      BY <1>1, <1>4, <2>3, <2>4, TurnOpens DEF Owned
    <3>2. QED
      BY <1>1, <1>2, <2>1, <2>2, <2>4, <3>1 DEF Owned
  <2>5. jobs' = IF Queued("connect")' THEN <<ctl'.current>> ELSE <<>>
    BY <1>1, <1>3, <2>1, <2>2
  <2>6. QED
    BY <1>1, <1>3, <2>1, <2>2, <2>4, <2>5 DEF OwnInv
<1>8. CASE CP!Tries(ctl, d, Status)
  <2>1. Called(d, "connect") /\ d.phase = "connecting" /\ ~Status
    BY <1>8, TurnCalls DEF CP!Tries
  <2>2. ~ConnectPending /\ bus = <<>>
    BY <2>1, TurnOpens
  <2>3. jobs = <<>>
    BY <1>3, <2>2, NonePending
  <2>4. Queued("connect")' /\ jobs' = <<d.current>>
    BY <2>1, <2>3, CarriedQueue
  <2>5. \A t \in Threads : thread'[t].pc \notin Connecting
    BY <1>6, <2>2, NonePending
  <2>6. ActiveProfiles' = {} /\ ~UpComing'
    BY <1>2, <1>4, <2>1, <2>2 DEF Status
  <2>7. Owned'
    BY <2>5, <2>6 DEF Owned, Connecting
  <2>8. QED
    BY <1>1, <2>1, <2>4, <2>7 DEF OwnInv
<1>9. CASE ~CP!LeavesIt(ctl, d) /\ ~CP!Tries(ctl, d, Status)
  <2>1. ~Called(d, "connect") /\ jobs' = jobs /\ (Queued("connect")' <=> Queued("connect"))
    BY <1>9, TurnCalls, CarriedQueue
  <2>2. d.phase # "connecting"
    BY <1>9 DEF Turn, CP!Settles, CP!RunsOut, CP!Succeeds, CP!CallsOff
  <2>3. ~Queued("connect")
    <3>1. CASE CP!Settles(ctl, d, Status)
      BY <1>3, <3>1, TurnOpens, NonePending DEF CP!Settles
    <3>2. CASE CP!RunsOut(ctl, d)
      BY <1>3, <3>2 DEF CP!RunsOut
    <3>3. CASE hand = "up"
      <4>1. UpComing
        BY <3>3 DEF UpComing
      <4>2. QED
        BY <1>3, <4>1 DEF Owned, Asks
    <3>4. CASE hand = "finishing"
      BY <1>3, <3>4 DEF Queued
    <3>5. QED
      BY <1>9, <3>1, <3>2, <3>3, <3>4 DEF Turn
  <2>4. QED
    BY <1>1, <1>3, <2>1, <2>2, <2>3 DEF OwnInv
<1>10. QED
  BY <1>7, <1>8, <1>9

LEMMA SameDoomed ==
    ASSUME UNCHANGED <<queue, thread>>, cancel => cancel', Doomed
    PROVE  Doomed'
BY DEF Doomed, Queued

LEMMA TurnLeft ==
    ASSUME TypeInv, OwnInv, LeftInv, NEW d, ControllerStep(d), Turn(d), prompt', hand' = "free"
    PROVE  LeftInv'
<1>1. ctl' = d /\ UNCHANGED <<cancel, ui, profiles, act>>
  BY Carried
<1>2. ActiveProfiles' = ActiveProfiles
  BY <1>1, NothingChanges DEF TypeInv
<1>3. Status' <=> Status
  BY <1>2 DEF Status
<1>4. /\ ui # "free" => cancel
      /\ hand = "finishing" =>
            \A t \in Threads : thread[t].pc \in BeforeActivation \cup {"lastCheck"} => cancel
      /\ ctl.phase # "connecting" => \A t \in Threads : thread[t].pc \in BeforeActivation => cancel
      /\ ctl.phase \in {"settling", "exhausted", "cancelled"} /\ hand # "finishing" /\ Status =>
            Doomed
  BY DEF LeftInv
<1>5. \A t \in Threads : thread'[t].pc \in BeforeActivation => thread'[t] = thread[t]
  BY CarriedQueue DEF Popping, BeforeActivation
<1>6. d.phase # "connecting" => \A t \in Threads : thread'[t].pc \in BeforeActivation => cancel'
  <2> SUFFICES ASSUME d.phase # "connecting", NEW t \in Threads,
                      thread[t].pc \in BeforeActivation
               PROVE  cancel
    BY <1>1, <1>5
  <2>1. CASE ctl.phase # "connecting"
    BY <1>4, <2>1
  <2>2. CASE CP!Settles(ctl, d, Status) /\ ctl.phase = "connecting"
    <3>1. thread[t].pc \notin Connecting
      BY <2>2, TurnOpens, NonePending DEF CP!Settles
    <3>2. QED
      BY <3>1 DEF BeforeActivation, Connecting
  <2>3. CASE hand = "up" /\ ctl.phase = "connecting"
    <3>1. UpComing
      BY <2>3 DEF UpComing
    <3>2. ~Asks
      BY <2>3, <3>1 DEF OwnInv, Owned
    <3>3. QED
      BY <3>2 DEF Asks
  <2>4. CASE hand = "finishing"
    BY <1>4, <2>4
  <2>5. CASE CP!LeavesIt(ctl, d) \/ CP!Tries(ctl, d, Status) \/ CP!RunsOut(ctl, d)
    BY <1>4, <2>5 DEF CP!LeavesIt, CP!Tries, CP!RunsOut
  <2>6. QED
    BY <2>1, <2>2, <2>3, <2>4, <2>5 DEF Turn
<1>7. ASSUME d.phase \in {"settling", "exhausted", "cancelled"}, Status
      PROVE  Doomed'
  <2>1. CASE CP!LeavesIt(ctl, d) \/ CP!RunsOut(ctl, d)
    <3>1. hand # "finishing"
      BY <2>1, <1>7 DEF Turn, CP!LeavesIt, CP!RunsOut, CP!CallsOff, CP!Succeeds, CP!Tries, CP!Settles, CP!Silent
    <3>2. ctl.phase \in {"settling", "exhausted", "cancelled"}
      BY <1>7, <2>1 DEF CP!LeavesIt, CP!RunsOut
    <3>3. ~Called(d, "connect") /\ ~Called(d, "disconnect")
      BY <2>1, TurnCalls DEF CP!LeavesIt, CP!RunsOut
    <3>4. UNCHANGED <<queue, thread>>
      BY <3>3, CarriedQueue
    <3>5. QED
      BY <1>1, <1>4, <1>7, <3>1, <3>2, <3>4, SameDoomed
  <2>2. CASE CP!Settles(ctl, d, Status) \/ CP!CallsOff(d, Status)
    <3>1. ~Called(d, "connect") /\ Called(d, "disconnect")
      BY <1>7, <2>2, TurnCalls DEF CP!Settles, CP!CallsOff
    <3>2. QED
      BY <3>1, CarriedQueue DEF Doomed
  <2>3. CASE CP!Tries(ctl, d, Status) \/ CP!Succeeds(ctl, d)
    BY <1>7, <2>3 DEF CP!Tries, CP!Succeeds
  <2>4. QED
    BY <2>1, <2>2, <2>3 DEF Turn
<1>8. QED
  BY <1>1, <1>3, <1>4, <1>6, <1>7 DEF LeftInv

-----------------------------------------------------------------------------
(* The steps of the GTK thread that are not the controller's, and          *)
(* NetworkManager's own.                                                   *)

Stands ==
    /\ UNCHANGED <<thread, profiles, uuid, working, owner, prompt, lost>>
    /\ ctl'.phase = ctl.phase /\ ctl'.current = ctl.current
    /\ ActiveProfiles' \subseteq ActiveProfiles
    /\ rose => rose'
    /\ cancel => cancel'
    /\ ui' # "free" => cancel' \/ ui # "free"
    /\ \/ UNCHANGED <<queue, jobs>> /\ (hand' = "finishing" <=> hand = "finishing")
       \/ /\ queue' = <<>> /\ jobs' = <<>> /\ hand' = "finishing" /\ hand # "finishing"
          /\ ui # "free"
    /\ \/ UpComing' => UpComing
       \/ \E u \in ActiveProfiles : rose' = (rose \/ Own(u))

LEMMA UpStays ==
    ASSUME UNCHANGED bus, hand' \in {hand, "free", "finishing"}
    PROVE  UpComing' => UpComing
BY DEF UpComing

LEMMA CallbackStands ==
    ASSUME TypeInv, Callback
    PROVE  Stands
<1>1. /\ UNCHANGED <<thread, profiles, uuid, working, owner, prompt, lost>>
      /\ UNCHANGED <<ctl, act, rose, cancel, ui, queue, jobs>>
      /\ hand = "free" /\ hand' = IF heard' = "none" THEN "free" ELSE heard'
      /\ ui = "free"
  BY DEF Callback, Free, SignalArrives, LateDisconnection, FailureNotified, backend, daemon,
         controller, made, tunnels
<1>2. ActiveProfiles' = ActiveProfiles
  BY <1>1, NothingChanges DEF TypeInv
<1>3. heard' \in {"none", "up", "down", "fail"}
  BY DEF Callback, SignalArrives, LateDisconnection, FailureNotified, Guarded
<1>4. UpComing' => UpComing
  <2>1. CASE SignalArrives
    <3>1. /\ bus # <<>> /\ bus' = Tail(bus) /\ bus \in Seq({"up", "down"})
          /\ heard' = "up" => Head(bus) = "up"
      BY <2>1 DEF SignalArrives, Guarded, TypeInv, Signals
    <3>2. 1 \in 1..Len(bus) /\ bus[1] = Head(bus)
      BY <3>1
    <3>3. hand' = "up" => UpComing
      BY <1>1, <3>1, <3>2 DEF UpComing
    <3>4. \A i \in 1..Len(bus') : i + 1 \in 1..Len(bus) /\ bus'[i] = bus[i + 1]
      BY <3>1
    <3>5. QED
      BY <3>3, <3>4 DEF UpComing
  <2>2. CASE LateDisconnection \/ FailureNotified
    <3>1. bus' = bus /\ heard' # "up"
      BY <2>2 DEF LateDisconnection, FailureNotified, Guarded
    <3>2. QED
      BY <1>1, <3>1 DEF UpComing
  <2>3. QED
    BY <2>1, <2>2 DEF Callback
<1>5. QED
  BY <1>1, <1>2, <1>3, <1>4 DEF Stands

LEMMA DaemonStands ==
    ASSUME TypeInv, NEW u \in Uuids, DaemonStep(u)
    PROVE  Stands
<1>1. /\ UNCHANGED <<thread, profiles, uuid, working, owner, prompt, lost>>
      /\ UNCHANGED <<ctl, hand, cancel, ui, queue, jobs>>
      /\ rose' = (rose \/ (Own(u) /\ act'[u] = "up"))
  BY DEF DaemonStep, HandshakeDone, GoesDown, backend, controller, made
<1>2. CASE HandshakeDone(u)
  <2>1. /\ u \in ActiveProfiles
        /\ ActiveProfiles' = ActiveProfiles /\ act'[u] = "up"
    BY <1>2, HandshakeEffect
  <2>2. rose' = (rose \/ Own(u))
    BY <1>1, <2>1 DEF Own
  <2>3. QED
    BY <1>1, <2>1, <2>2 DEF Stands
<1>3. CASE GoesDown(u)
  <2>1. LosesTunnel
    BY <1>3, GoesDownEffect
  <2>2. ActiveProfiles' \subseteq ActiveProfiles /\ bus' \in {bus, Append(bus, "down")}
    BY <2>1 DEF LosesTunnel, Signal
  <2>3. UpComing' => UpComing
    <3>1. bus \in Seq({"up", "down"})
      BY DEF TypeInv, Signals
    <3>2. \A i \in 1..Len(bus') : bus'[i] = "up" => i \in 1..Len(bus) /\ bus[i] = "up"
      BY <2>2, <3>1
    <3>3. QED
      BY <1>1, <3>2 DEF UpComing
  <2>4. QED
    BY <1>1, <2>2, <2>3 DEF Stands
<1>4. QED
  BY <1>2, <1>3 DEF DaemonStep

LEMMA BystandsStands ==
    ASSUME Grounds, Bystands
    PROVE  Stands
<1>1. TypeInv /\ Between /\ RunInv
  BY DEF Grounds
<1>2. ASSUME UNCHANGED <<profiles, act>> PROVE ActiveProfiles' = ActiveProfiles
  BY <1>1, <1>2, NothingChanges DEF TypeInv
<1>3. CASE ClickCancel
  <2>1. /\ UNCHANGED <<thread, profiles, uuid, working, owner, prompt, lost>>
        /\ UNCHANGED <<ctl, act, bus, rose, hand, queue, jobs>>
        /\ cancel' = TRUE
    BY <1>3 DEF ClickCancel, SetCancel, daemon, controller, made, tunnels
  <2>2. QED
    BY <1>2, <2>1, UpStays DEF Stands
<1>10. CASE CancelSuppresses
  <2>1. /\ UNCHANGED <<thread, profiles, uuid, working, owner, prompt, lost>>
        /\ UNCHANGED <<ctl, act, bus, rose, hand, queue, jobs, cancel>>
        /\ ui # "free"
    BY <1>10 DEF CancelSuppresses, SetSuppress, daemon, controller, made, tunnels
  <2>2. QED
    BY <1>2, <2>1, UpStays DEF Stands
<1>4. CASE CancelEmpties
  <2>1. /\ UNCHANGED <<thread, profiles, uuid, working, owner, prompt, lost>>
        /\ UNCHANGED <<ctl, act, bus, rose, cancel>>
        /\ ui # "free" /\ ui' = "free" /\ queue' = <<>>
        /\ hand' = "finishing" /\ jobs' = <<>>
    BY <1>4 DEF CancelEmpties, CancelClear, daemon, controller, tunnels
  <2>2. hand # "finishing"
    BY <1>1, <2>1 DEF Between
  <2>3. QED
    BY <1>2, <2>1, <2>2, UpStays DEF Stands
<1>5. CASE Callback
  BY <1>1, <1>5, CallbackStands
<1>6. CASE Elapse
  <2>1. /\ UNCHANGED <<thread, profiles, uuid, working, owner, prompt, lost>>
        /\ UNCHANGED <<act, bus, rose, cancel, ui, hand, queue, jobs>>
    BY <1>6 DEF Elapse, vars, backend, daemon, made, tunnels
  <2>2. ctl'.phase = ctl.phase /\ ctl'.current = ctl.current
    BY <1>1, <1>6, TimeGoesOn
  <2>3. QED
    BY <1>2, <2>1, <2>2, UpStays DEF Stands
<1>7. ASSUME NEW u \in Uuids, DaemonStep(u) PROVE Stands
  BY <1>1, <1>7, DaemonStands
<1>8. CASE UNCHANGED composed
  <2>1. /\ UNCHANGED <<thread, profiles, uuid, working, owner, prompt, lost>>
        /\ UNCHANGED <<ctl, act, bus, rose, cancel, ui, hand, queue, jobs>>
    BY <1>8 DEF composed, vars, backend, daemon, controller, made, tunnels
  <2>2. QED
    BY <1>2, <2>1, UpStays DEF Stands
<1>9. QED
  BY <1>3, <1>4, <1>5, <1>6, <1>7, <1>8, <1>10 DEF Bystands

LEMMA StandsTunnel ==
    ASSUME Grounds, TunnelInv, Bystands, NativeInv'
    PROVE  TunnelInv'
<1>1. Aside
  BY BystandsTypes DEF Grounds
<1>2. QED
  BY <1>1, AsideTunnel DEF TunnelInv

LEMMA StandsOwn ==
    ASSUME FreshConnect, OwnInv, Stands
    PROVE  OwnInv'
<1>1. /\ UNCHANGED <<thread, profiles, uuid, working, owner>>
      /\ ctl'.phase = ctl.phase /\ ctl'.current = ctl.current
      /\ ActiveProfiles' \subseteq ActiveProfiles
      /\ rose => rose'
      /\ \/ UNCHANGED <<queue, jobs>> /\ (hand' = "finishing" => hand = "finishing")
         \/ queue' = <<>> /\ jobs' = <<>>
      /\ \/ UpComing' => UpComing
         \/ \E u \in ActiveProfiles : rose' = (rose \/ Own(u))
  BY DEF Stands
<1>2. /\ hand = "finishing" => queue = <<>>
      /\ ctl.phase # "connecting" => ~Queued("connect")
      /\ jobs = IF Queued("connect") THEN <<ctl.current>> ELSE <<>>
      /\ ctl.phase = "connecting" => Owned
  BY DEF OwnInv
<1>3. /\ hand' = "finishing" => queue' = <<>>
      /\ Queued("connect")' => Queued("connect")
      /\ jobs' = IF Queued("connect")' THEN <<ctl'.current>> ELSE <<>>
  <2>1. CASE UNCHANGED <<queue, jobs>> /\ (hand' = "finishing" => hand = "finishing")
    <3>1. Queued("connect")' <=> Queued("connect")
      BY <2>1 DEF Queued
    <3>2. QED
      BY <1>1, <1>2, <2>1, <3>1
  <2>2. CASE queue' = <<>> /\ jobs' = <<>>
    <3>1. ~Queued("connect")'
      BY <2>2 DEF Queued
    <3>2. QED
      BY <2>2, <3>1
  <2>3. QED
    BY <1>1, <2>1, <2>2
<1>4. Asks' => Asks
  BY <1>1, <1>3 DEF Asks
<1>5. ASSUME Owned PROVE Owned'
  <2>1. \A u \in ActiveProfiles' : owner'[u] = ctl'.current
    BY <1>1, <1>5 DEF Owned
  <2>2. UpComing' => rose' /\ ~Asks'
    <3>1. CASE UpComing' => UpComing
      BY <1>1, <1>4, <1>5, <3>1 DEF Owned
    <3>2. CASE \E u \in ActiveProfiles : rose' = (rose \/ Own(u))
      <4>1. rose'
        BY <1>5, <3>2 DEF Owned, Own
      <4>2. Status
        BY <3>2 DEF Status
      <4>3. ~Asks
        BY <4>2 DEF FreshConnect, Asks
      <4>4. QED
        BY <1>4, <4>1, <4>3
    <3>3. QED
      BY <1>1, <3>1, <3>2
  <2>3. QED
    BY <1>1, <1>5, <2>1, <2>2 DEF Owned
<1>6. QED
  BY <1>1, <1>2, <1>3, <1>5 DEF OwnInv

LEMMA StandsLeft ==
    ASSUME LeftInv, Stands
    PROVE  LeftInv'
<1>1. /\ UNCHANGED thread /\ ctl'.phase = ctl.phase
      /\ ActiveProfiles' \subseteq ActiveProfiles
      /\ cancel => cancel'
      /\ ui' # "free" => cancel' \/ ui # "free"
      /\ hand' = "finishing" => hand = "finishing" \/ ui # "free"
      /\ hand' # "finishing" => hand # "finishing" /\ UNCHANGED queue
  BY DEF Stands
<1>2. Status' => Status
  BY <1>1 DEF Status
<1>3. ASSUME hand' # "finishing", Doomed PROVE Doomed'
  BY <1>1, <1>3, SameDoomed
<1>4. QED
  BY <1>1, <1>2, <1>3 DEF LeftInv

-----------------------------------------------------------------------------
(* The worker.  Where a connect operation comes from, step by step.        *)

LEMMA Sources ==
    ASSUME NativeInv, ~Faults, NEW t \in Threads, Worker(t)
    PROVE  /\ thread'[t].pc = "check" => PopNext(t)
           /\ thread'[t].pc = "add" => CheckBeforeAdd(t)
           /\ thread'[t].pc = "addedCheck" => AddProfile(t)
           /\ thread'[t].pc = "activate" => CheckAfterAdd(t)
           /\ thread'[t].pc = "lastCheck" => Activate(t)
<1>1. IInv
  BY DEF NativeInv
<1>2. CASE PopNext(t) \/ Exit(t)
  <2>1. thread'[t].pc \in {"exiting", "dead", "check", "look"}
    BY <1>2, PopNative
  <2>2. Exit(t) => thread'[t].pc = "dead"
    BY <1>1 DEF Exit, Dead, IInv, QueueType
  <2>3. QED
    BY <1>2, <2>1, <2>2
<1>3. CASE CheckBeforeAdd(t)
  <2>1. thread'[t].pc \in {"add", "pop"}
    BY <1>1, <1>3, LookingMoves
  <2>2. QED
    BY <1>3, <2>1
<1>4. CASE AddProfile(t)
  BY <1>4, AddProfileNative
<1>5. CASE CheckAfterAdd(t)
  <2>1. thread'[t].pc \in {"activate", "pop"}
    BY <1>1, <1>5, LookingMoves
  <2>2. QED
    BY <1>5, <2>1
<1>6. CASE Activate(t)
  <2>1. thread'[t].pc \in {"lastCheck", "pop"}
    BY <1>6, ActivateNative
  <2>2. QED
    BY <1>6, <2>1
<1>7. CASE CheckAfterActivate(t)
  <2>1. thread'[t].pc \in {"undoDown", "pop"}
    BY <1>1, <1>7, LookingMoves
  <2>2. QED
    BY <2>1
<1>8. CASE Look(t)
  <2>1. thread'[t].pc \in {"sweep", "takeDown", "pop"}
    BY <1>1, <1>8, LookingMoves
  <2>2. QED
    BY <2>1
<1>9. CASE Undo(t) \/ TakeDown(t) \/ Sweep(t)
  <2>1. thread'[t].pc \in {"undoDelete", "delete", "sweep", "pop"}
    BY <1>9, RemovalNative
  <2>2. QED
    BY <2>1
<1>10. QED
  BY <1>2, <1>3, <1>4, <1>5, <1>6, <1>7, <1>8, <1>9 DEF Worker

(* Working threads other than the one that moves there are none.           *)
LEMMA OthersGone ==
    ASSUME NativeInv, NEW t \in Threads, Worker(t), NEW v \in Threads, v # t,
           thread'[v].pc \notin Gone
    PROVE  Exit(t) /\ thread'[v] = thread[v]
<1>1. IInv
  BY DEF NativeInv
<1>2. thread[t].pc \notin Working
  BY <1>1, Bystanders
<1>3. Exit(t)
  BY <1>2 DEF Worker, PopNext, Pop, CheckBeforeAdd, AddProfile, CheckAfterAdd, Activate,
              CheckAfterActivate, Undo, Look, TakeDown, Sweep, Working, Connecting, Disconnecting
<1>4. QED
  BY <1>1, <1>3 DEF Exit, IInv, QueueType

(* What a worker's step does to the queue and to the accounts.             *)
Popped(t) == thread[t].pc = "pop" /\ thread'[t].pc = "check"

LEMMA WorkerJobs ==
    ASSUME TypeInv, OneConnect, OneConnect', OwnInv, NEW t \in Threads, WorkerStep(t)
    PROVE  /\ Queued("connect")' => Queued("connect")
           /\ jobs' = IF Queued("connect")' THEN <<ctl'.current>> ELSE <<>>
           /\ Popped(t) => ctl.phase = "connecting" /\ working' = ctl.current
           /\ ~Popped(t) => working' = IF thread'[t].pc = "pop" THEN NoServer ELSE working
<1>1. /\ Worker(t) /\ ctl' = ctl
      /\ jobs' = IF Popped(t) THEN Tail(jobs) ELSE jobs
      /\ working' = IF Popped(t) THEN Head(jobs)
                    ELSE IF thread'[t].pc = "pop" THEN NoServer ELSE working
  BY DEF WorkerStep, Popped, controller
<1>2. /\ ctl.phase # "connecting" => ~Queued("connect")
      /\ jobs = IF Queued("connect") THEN <<ctl.current>> ELSE <<>>
  BY DEF OwnInv
<1>3. Effect(t) /\ QueueType
  BY <1>1, WorkerEffect DEF TypeInv, IInv
<1>4. CASE Takes(t)
  <2>1. /\ queue # <<>> /\ queue' = Tail(queue) /\ thread[t].pc = "pop"
        /\ thread'[t].pc = IF Head(queue) = "connect" THEN "check" ELSE "look"
    BY <1>4 DEF Takes
  <2>2. /\ 1 \in 1..Len(queue) /\ queue[1] = Head(queue)
        /\ \A i \in 1..Len(queue') : i + 1 \in 1..Len(queue) /\ i + 1 # 1
                                     /\ queue'[i] = queue[i + 1]
    BY <1>3, <2>1, TailQueued
  <2>3. Queued("connect")' => Queued("connect")
    BY <2>2 DEF Queued
  <2>4. CASE Head(queue) = "connect"
    <3>1. Queued("connect") /\ Popped(t)
      BY <2>1, <2>2, <2>4 DEF Queued, Popped
    <3>2. jobs = <<ctl.current>> /\ ctl.phase = "connecting"
      BY <1>2, <3>1
    <3>3. working' = ctl.current /\ jobs' = <<>>
      BY <1>1, <3>1, <3>2
    <3>4. ~Queued("connect")'
      BY <2>1, <2>4 DEF OneConnect, Connecting
    <3>5. QED
      BY <2>3, <3>1, <3>2, <3>3, <3>4
  <2>5. CASE Head(queue) # "connect"
    <3>1. ~Popped(t)
      BY <2>1, <2>5 DEF Popped
    <3>2. Queued("connect") => Queued("connect")'
      <4> SUFFICES ASSUME NEW i \in 1..Len(queue), queue[i] = "connect"
                   PROVE  Queued("connect")'
        BY DEF Queued
      <4>1. i # 1
        BY <2>2, <2>5
      <4>2. i - 1 \in 1..Len(queue')
        BY <1>3, <2>1, <4>1 DEF QueueType
      <4>3. queue'[i - 1] = "connect"
        BY <1>3, <2>2, <4>2
      <4>4. QED
        BY <4>2, <4>3 DEF Queued
    <3>3. jobs' = jobs
      BY <1>1, <3>1
    <3>4. QED
      BY <1>1, <1>2, <2>3, <3>1, <3>2, <3>3
  <2>6. QED
    BY <2>4, <2>5
<1>5. CASE ~Takes(t)
  <2>1. queue' = queue
    BY <1>3, <1>5 DEF Effect, Works, Fails, Activates, Removes
  <2>2. Queued("connect")' <=> Queued("connect")
    BY <2>1 DEF Queued
  <2>3. ~Popped(t)
    BY <1>3, <1>5 DEF Popped, Effect, Works, Fails, Activates, Removes, Onward, BeforeActivation
  <2>4. jobs' = jobs
    BY <1>1, <2>3
  <2>5. QED
    BY <1>1, <1>2, <2>2, <2>3, <2>4
<1>6. QED
  BY <1>4, <1>5

(* What is up, or about to be made, keeps its server.                      *)
LEMMA WorkerOwned ==
    ASSUME TypeInv, NativeInv, ~Faults, OneConnect, OneConnect', OwnInv,
           NEW t \in Threads, WorkerStep(t), Owned
    PROVE  Owned'
<1>1. /\ Worker(t) /\ UNCHANGED <<ctl, hand, rose>>
      /\ owner' = [u \in Uuids |-> IF u \notin profiles' THEN NoServer
                                   ELSE IF u \notin profiles THEN working ELSE owner[u]]
  BY DEF WorkerStep, controller
<1>2. Effect(t) /\ DaemonType' /\ DaemonType
  BY <1>1, WorkerEffect DEF TypeInv
<1>3. /\ \A u \in ActiveProfiles : owner[u] = ctl.current
      /\ \A v \in Threads : thread[v].pc \in {"check", "add"} => working = ctl.current
      /\ \A v \in Threads : thread[v].pc \in {"addedCheck", "activate"} /\ uuid \in profiles =>
                                owner[uuid] = ctl.current
      /\ UpComing => rose /\ ~Asks
  BY DEF Owned
<1>4. \A u \in profiles : u \in profiles' => owner'[u] = owner[u]
  BY <1>1, <1>2 DEF DaemonType
<1>5. \A u \in ActiveProfiles' : owner'[u] = ctl.current
  <2>1. CASE Activates(t)
    <3>1. /\ profiles' = profiles /\ uuid \in profiles /\ thread[t].pc = "activate"
          /\ act' = [act EXCEPT ![uuid] = "activating"]
      BY <2>1 DEF Activates
    <3>2. ActiveProfiles' \subseteq ActiveProfiles \cup {uuid}
      BY <1>2, <3>1 DEF ActiveProfiles, DaemonType
    <3>3. owner[uuid] = ctl.current
      BY <1>3, <3>1
    <3>4. \A u \in ActiveProfiles' : u \in profiles
      BY <3>1 DEF ActiveProfiles
    <3>5. QED
      BY <1>3, <1>4, <3>1, <3>2, <3>3, <3>4
  <2>2. CASE ~Activates(t)
    <3>1. ActiveProfiles' \subseteq ActiveProfiles
      BY <1>2, <2>2 DEF Effect, Takes, Works, Fails, Removes, SameTunnels, LosesTunnel
    <3>2. \A u \in ActiveProfiles' : u \in ActiveProfiles /\ u \in profiles /\ u \in profiles'
      BY <3>1 DEF ActiveProfiles
    <3>3. QED
      BY <1>3, <1>4, <3>2
  <2>3. QED
    BY <2>1, <2>2
<1>6. ASSUME NEW v \in Threads, thread'[v].pc \in {"check", "add"}
      PROVE  working' = ctl.current
  <2>1. CASE v = t /\ thread'[t].pc = "check"
    <3>1. PopNext(t)
      BY <1>1, <2>1, Sources
    <3>2. Popped(t)
      BY <2>1, <3>1 DEF PopNext, Pop, Popped
    <3>3. QED
      BY <3>2, WorkerJobs
  <2>2. CASE v = t /\ thread'[t].pc = "add"
    <3>1. thread[t].pc = "check"
      BY <1>1, <2>2, Sources DEF CheckBeforeAdd
    <3>2. ~Popped(t) /\ working = ctl.current
      BY <1>3, <3>1 DEF Popped
    <3>3. QED
      BY <2>2, <3>2, WorkerJobs
  <2>3. CASE v # t
    <3>1. Exit(t) /\ thread'[v] = thread[v]
      BY <1>1, <1>6, <2>3, OthersGone DEF Gone
    <3>2. thread'[t].pc = "dead"
      BY <3>1 DEF Exit, Dead, TypeInv, IInv, QueueType
    <3>3. ~Popped(t) /\ working' = working
      BY <3>2, WorkerJobs DEF Popped
    <3>4. QED
      BY <1>3, <1>6, <3>1, <3>3
  <2>4. QED
    BY <1>6, <2>1, <2>2, <2>3
<1>7. ASSUME NEW v \in Threads, thread'[v].pc \in {"addedCheck", "activate"}, uuid' \in profiles'
      PROVE  owner'[uuid'] = ctl.current
  <2>1. CASE v = t /\ thread'[t].pc = "addedCheck"
    <3>1. AddProfile(t)
      BY <1>1, <2>1, Sources
    <3>2. uuid' \in Uuids \ profiles
      BY <3>1 DEF AddProfile
    <3>3. owner'[uuid'] = working /\ thread[t].pc = "add"
      BY <1>1, <1>7, <3>1, <3>2 DEF AddProfile
    <3>4. QED
      BY <1>3, <3>3
  <2>2. CASE v = t /\ thread'[t].pc = "activate"
    <3>1. CheckAfterAdd(t)
      BY <1>1, <2>2, Sources
    <3>2. thread[t].pc = "addedCheck" /\ UNCHANGED <<uuid, profiles>>
      BY <3>1 DEF CheckAfterAdd, backend, daemon
    <3>3. QED
      BY <1>3, <1>4, <1>7, <3>2
  <2>3. CASE v # t
    <3>1. Exit(t) /\ thread'[v] = thread[v]
      BY <1>1, <1>7, <2>3, OthersGone DEF Gone
    <3>2. UNCHANGED <<uuid, profiles>>
      BY <3>1 DEF Exit, backend, daemon
    <3>3. QED
      BY <1>3, <1>4, <1>7, <3>1, <3>2
  <2>4. QED
    BY <1>7, <2>1, <2>2, <2>3
<1>8. UpComing' => UpComing
  <2>1. bus' \in {bus, Append(bus, "down")}
    BY <1>2 DEF Effect, Takes, Works, Fails, Activates, Removes, SameTunnels, LosesTunnel, Signal
  <2>2. bus \in Seq({"up", "down"})
    BY DEF TypeInv, Signals
  <2>3. \A i \in 1..Len(bus') : bus'[i] = "up" => i \in 1..Len(bus) /\ bus[i] = "up"
    BY <2>1, <2>2
  <2>4. QED
    BY <1>1, <2>3 DEF UpComing
<1>9. UpComing' => rose' /\ ~Asks'
  BY <1>1, <1>3, <1>8, WorkerAsks
<1>10. QED
  BY <1>1, <1>5, <1>6, <1>7, <1>9 DEF Owned

LEMMA WorkerTunnel ==
    ASSUME TunnelInv, ~Faults, NEW t \in Threads, Worker(t), NativeInv'
    PROVE  TunnelInv'
BY OperationTunnel, PopTunnel DEF TunnelInv

LEMMA WorkerOwn ==
    ASSUME TypeInv, TunnelInv, TunnelInv', ~Faults, OwnInv, NEW t \in Threads, WorkerStep(t)
    PROVE  OwnInv'
<1>1. NativeInv /\ OneConnect /\ OneConnect'
  BY DEF TunnelInv
<1>2. UNCHANGED <<ctl, hand>> /\ Effect(t)
  BY WorkerEffect DEF WorkerStep, controller
<1>3. hand' = "finishing" => queue' = <<>>
  BY <1>2 DEF OwnInv, Effect, Takes, Works, Fails, Activates, Removes
<1>4. /\ Queued("connect")' => Queued("connect")
      /\ jobs' = IF Queued("connect")' THEN <<ctl'.current>> ELSE <<>>
  BY <1>1, WorkerJobs
<1>5. Owned => Owned'
  BY <1>1, WorkerOwned
<1>6. QED
  BY <1>2, <1>3, <1>4, <1>5 DEF OwnInv

(* A tunnel that is up after a step of the worker, though no connect is    *)
(* left to be heeded, is still coming down.                                *)
LEMMA WorkerDooms ==
    ASSUME TypeInv, TunnelInv, ~Faults, NEW t \in Threads, Worker(t),
           ~Queued("connect"), \A v \in Threads : thread[v].pc \in BeforeActivation => cancel,
           Status => Doomed, Status'
    PROVE  Doomed'
<1>1. /\ NativeInv /\ IInv /\ DaemonType /\ FreshConnect /\ OwnTunnel /\ QueueType
      /\ \A v \in Threads : TakenDownInv(v)
  BY DEF TunnelInv, NativeInv, IInv
<1>2. Effect(t) /\ \A v \in Threads \ {t} : thread'[v] = thread[v]
  BY WorkerEffect
<1>3. CASE Takes(t)
  <2>1. /\ queue # <<>> /\ queue' = Tail(queue)
        /\ thread'[t].pc = IF Head(queue) = "connect" THEN "check" ELSE "look"
    BY <1>3 DEF Takes
  <2>2. 1 \in 1..Len(queue) /\ queue[1] = Head(queue)
    BY <1>1, <2>1, TailQueued
  <2>3. thread'[t].pc = "look"
    BY <2>1, <2>2 DEF Queued
  <2>4. QED
    BY <2>3 DEF Doomed
<1>4. CASE ~Takes(t)
  <2>1. UNCHANGED <<queue, cancel>>
    BY <1>2, <1>4 DEF Effect, Works, Fails, Activates, Removes
  <2>2. ASSUME ActiveProfiles' \subseteq ActiveProfiles,
               thread[t].pc \notin {"look", "takeDown", "sweep", "undoDown"},
               ~(thread[t].pc = "lastCheck" /\ cancel)
        PROVE  Doomed'
    <3>1. Doomed
      BY <2>2 DEF Status
    <3>2. CASE Queued("disconnect")
      BY <2>1, <3>2 DEF Doomed, Queued
    <3>3. ASSUME NEW v \in Threads, \/ thread[v].pc \in {"look", "takeDown", "sweep", "undoDown"}
                                    \/ thread[v].pc = "lastCheck" /\ cancel
          PROVE  Doomed'
      <4>1. v # t
        BY <2>2, <3>3
      <4>2. QED
        BY <1>2, <2>1, <3>3, <4>1 DEF Doomed
    <3>4. QED
      BY <3>1, <3>2, <3>3 DEF Doomed
  <2>3. ASSUME thread[t].pc \in BeforeActivation, ActiveProfiles' = ActiveProfiles
        PROVE  Doomed'
    BY <1>1, <2>3 DEF FreshConnect, Status
  <2>4. CASE PopNext(t) \/ Exit(t)
    <3>1. thread[t].pc \in {"pop", "exiting"} /\ ActiveProfiles' = ActiveProfiles
      BY <1>1, <2>4, PopNative DEF PopNext, Pop, Exit
    <3>2. QED
      BY <2>2, <3>1
  <2>5. CASE CheckBeforeAdd(t) \/ CheckAfterAdd(t)
    <3>1. thread[t].pc \in BeforeActivation
      BY <2>5 DEF CheckBeforeAdd, CheckAfterAdd, BeforeActivation
    <3>2. QED
      BY <1>1, <2>3, <2>5, <3>1, LookingNative
  <2>6. CASE AddProfile(t)
    <3>1. thread[t].pc \in BeforeActivation
      BY <2>6 DEF AddProfile, BeforeActivation
    <3>2. QED
      BY <1>1, <2>3, <2>6, <3>1, AddProfileNative
  <2>7. CASE Activate(t)
    <3>1. thread[t].pc \in BeforeActivation
      BY <2>7 DEF Activate, BeforeActivation
    <3>2. CASE Goto(t, "lastCheck")
      <4>1. thread'[t].pc = "lastCheck"
        BY <1>1, <3>2, GotoResult
      <4>2. cancel'
        BY <2>1, <3>1
      <4>3. QED
        BY <4>1, <4>2 DEF Doomed
    <3>3. CASE UNCHANGED act
      <4>1. ActiveProfiles' = ActiveProfiles
        BY <1>1, <2>7, <3>3, NothingChanges DEF Activate
      <4>2. QED
        BY <2>3, <3>1, <4>1
    <3>4. QED
      BY <2>7, <3>2, <3>3 DEF Activate
  <2>8. CASE CheckAfterActivate(t)
    <3>1. thread[t].pc = "lastCheck" /\ ActiveProfiles' = ActiveProfiles
      BY <1>1, <2>8, LookingNative DEF CheckAfterActivate
    <3>2. CASE cancel
      <4>1. Goto(t, "undoDown")
        BY <2>8, <3>2 DEF CheckAfterActivate
      <4>2. thread'[t].pc = "undoDown"
        BY <1>1, <4>1, GotoResult
      <4>3. QED
        BY <4>2 DEF Doomed
    <3>3. CASE ~cancel
      BY <2>2, <3>1, <3>3
    <3>4. QED
      BY <3>2, <3>3
  <2>9. CASE Look(t)
    <3>1. ActiveProfiles' = ActiveProfiles
      BY <1>1, <2>9, LookingNative
    <3>2. \/ thread'[t].pc \in {"sweep", "takeDown"}
          \/ uuid # NoUuid /\ ~Active(uuid)
      BY <1>1, <2>9, LookingMoves
    <3>3. uuid # NoUuid /\ ~Active(uuid) => ~Status
      BY <1>1 DEF OwnTunnel, Status, ActiveProfiles, Active
    <3>4. thread'[t].pc \in {"sweep", "takeDown"}
      BY <3>1, <3>2, <3>3 DEF Status
    <3>5. QED
      BY <3>4 DEF Doomed
  <2>10. CASE Undo(t) \/ TakeDown(t)
    <3>1. uuid \in Uuids /\ ActiveProfiles' \subseteq ActiveProfiles \ {uuid}
      BY <1>1, <2>10, RemovalNative
    <3>2. ~Status'
      BY <1>1, <3>1, BackendAssumption DEF OwnTunnel, Status
    <3>3. QED
      BY <3>2
  <2>11. CASE Sweep(t)
    <3>1. /\ ActiveProfiles' \subseteq ActiveProfiles
          /\ \/ thread[t].swept = 3 \/ ~Status
             \/ \E u \in ActiveProfiles : ActiveProfiles' \subseteq ActiveProfiles \ {u}
      BY <1>1, <2>11, RemovalNative
    <3>2. thread[t].pc = "sweep"
      BY <2>11 DEF Sweep
    <3>3. ~Status'
      BY <1>1, <3>1, <3>2 DEF OwnTunnel, TakenDownInv, Status
    <3>4. QED
      BY <3>3
  <2>12. QED
    BY <2>4, <2>5, <2>6, <2>7, <2>8, <2>9, <2>10, <2>11 DEF Worker
<1>5. QED
  BY <1>3, <1>4

LEMMA WorkerLeft ==
    ASSUME TypeInv, TunnelInv, ~Faults, Between, OwnInv, LeftInv,
           NEW t \in Threads, WorkerStep(t), ~lost'
    PROVE  LeftInv'
<1>1. /\ Worker(t) /\ UNCHANGED <<ctl, hand, ui>>
      /\ lost' = (lost \/ (cancel /\ ~cancel' /\ ui # "free"))
  BY WorkerKeepsUI DEF WorkerStep, controller
<1>2. /\ ui # "free" => cancel
      /\ hand = "finishing" =>
            \A v \in Threads : thread[v].pc \in BeforeActivation \cup {"lastCheck"} => cancel
      /\ ctl.phase # "connecting" => \A v \in Threads : thread[v].pc \in BeforeActivation => cancel
      /\ ctl.phase \in {"settling", "exhausted", "cancelled"} /\ hand # "finishing" /\ Status =>
            Doomed
      /\ ctl.phase # "connecting" => ~Queued("connect")
      /\ hand = "finishing" => queue = <<>>
  BY DEF LeftInv, OwnInv
<1>3. NativeInv /\ Effect(t) /\ QueueType
  BY <1>1, WorkerEffect DEF TunnelInv, TypeInv, IInv
<1>4. ui' # "free" => cancel'
  BY <1>1, <1>2
<1>5. ~Takes(t) => cancel' = cancel
  BY <1>3 DEF Effect, Works, Fails, Activates, Removes
<1>6. ASSUME NEW v \in Threads, thread'[v].pc \in BeforeActivation \cup {"lastCheck"}, ~Takes(t)
      PROVE  \/ thread[v].pc \in BeforeActivation
             \/ thread'[v].pc = "lastCheck" /\ thread[v].pc = "lastCheck"
  <2>1. CASE v = t
    <3>1. thread'[t].pc = "lastCheck" => thread[t].pc \in BeforeActivation
      BY <1>1, <1>3, Sources DEF Activate, BeforeActivation
    <3>2. thread'[t].pc \in BeforeActivation => thread[t].pc \in BeforeActivation
      BY <1>3, <1>6 DEF Effect, Works, Fails, Activates, Removes, Onward, BeforeActivation
    <3>3. QED
      BY <1>6, <2>1, <3>1, <3>2
  <2>2. CASE v # t
    <3>1. thread'[v] = thread[v]
      BY <1>1, <2>2, WorkerEffect
    <3>2. QED
      BY <1>6, <3>1
  <2>3. QED
    BY <2>1, <2>2
<1>7. ASSUME hand = "finishing", NEW v \in Threads,
             thread'[v].pc \in BeforeActivation \cup {"lastCheck"}
      PROVE  cancel'
  <2>1. ~Takes(t)
    BY <1>2, <1>7 DEF Takes
  <2>2. QED
    BY <1>2, <1>5, <1>6, <1>7, <2>1
<1>8. ASSUME ctl.phase # "connecting", NEW v \in Threads, thread'[v].pc \in BeforeActivation
      PROVE  cancel'
  <2>1. CASE Takes(t)
    <3>1. 1 \in 1..Len(queue) /\ queue[1] = Head(queue)
      BY <1>3, <2>1, TailQueued DEF Takes
    <3>2. Head(queue) # "connect"
      BY <1>2, <1>8, <3>1 DEF Queued
    <3>3. thread'[t].pc = "look" /\ thread[t].pc = "pop"
      BY <2>1, <3>2 DEF Takes
    <3>4. v # t
      BY <1>8, <3>3 DEF BeforeActivation
    <3>5. Exit(t)
      BY <1>1, <1>3, <1>8, <3>4, OthersGone DEF BeforeActivation, Gone
    <3>6. QED
      BY <3>3, <3>5 DEF Exit
  <2>2. CASE ~Takes(t)
    <3>1. thread[v].pc \in BeforeActivation
      BY <1>6, <1>8, <2>2 DEF BeforeActivation
    <3>2. QED
      BY <1>2, <1>5, <1>8, <2>2, <3>1
  <2>3. QED
    BY <2>1, <2>2
<1>9. ASSUME ctl.phase \in {"settling", "exhausted", "cancelled"}, hand # "finishing", Status'
      PROVE  Doomed'
  BY <1>1, <1>2, <1>9, WorkerDooms
<1>10. QED
  BY <1>1, <1>4, <1>7, <1>8, <1>9 DEF LeftInv

-----------------------------------------------------------------------------
(* The inductive invariant, and what follows from it.                      *)

ComposedInv ==
    /\ Grounds
    /\ prompt => TunnelInv /\ OwnInv
    /\ prompt /\ ~lost => LeftInv

LEMMA InitComposed == ComposedInit => ComposedInv
<1> SUFFICES ASSUME ComposedInit PROVE ComposedInv
  OBVIOUS
<1>1. Grounds
  BY InitGrounds
<1>2. /\ queue = <<>> /\ \A t \in Threads : thread[t] = Dead
      /\ ctl.phase = "idle" /\ jobs = <<>> /\ hand = "free" /\ ui = "free"
  BY DEF ComposedInit, C!InitController
<1>3. ~Queued("connect")
  BY <1>2 DEF Queued
<1>4. \A t \in Threads : thread[t].pc = "dead"
  BY <1>2 DEF Dead
<1>5. OwnTunnel
  BY DEF ComposedInit, OwnTunnel, ActiveProfiles
<1>6. NativeInv
  BY <1>1 DEF Grounds, TypeInv, NativeInv
<1>7. TunnelInv
  BY <1>2, <1>3, <1>4, <1>5, <1>6
  DEF TunnelInv, OneConnect, FreshConnect, TakenDownInv, Connecting, BeforeActivation, Queued
<1>8. OwnInv
  BY <1>2, <1>3 DEF OwnInv
<1>9. LeftInv
  BY <1>2, <1>4 DEF LeftInv, BeforeActivation
<1>10. QED
  BY <1>1, <1>7, <1>8, <1>9 DEF ComposedInv

LEMMA NextComposed ==
    ASSUME ComposedInv, ~Faults, [ComposedNext]_composed
    PROVE  ComposedInv'
<1>1. Grounds /\ Grounds' /\ TypeInv /\ Between
  BY NextGrounds DEF ComposedInv, Grounds
<1>2. NativeInv'
  BY <1>1 DEF Grounds, TypeInv, NativeInv
<1>3. CASE ControllerMoves
  <2>1. hand' = "free" /\ \E d : ControllerStep(d) /\ Turn(d)
    BY <1>1, <1>3, ControllerTurns
  <2>2. PICK d : ControllerStep(d) /\ Turn(d)
    BY <2>1
  <2>3. lost' = lost /\ (prompt' => prompt)
    BY <2>2, Carried, TurnOpens
  <2>4. ASSUME prompt' PROVE TunnelInv' /\ OwnInv'
    <3>1. TunnelInv /\ OwnInv
      BY <2>3, <2>4 DEF ComposedInv
    <3>2. QED
      BY <1>1, <1>2, <2>1, <2>2, <2>4, <3>1, TurnTunnel, TurnOwn
  <2>5. ASSUME prompt', ~lost' PROVE LeftInv'
    <3>1. OwnInv /\ LeftInv
      BY <2>3, <2>5 DEF ComposedInv
    <3>2. QED
      BY <1>1, <2>1, <2>2, <2>5, <3>1, TurnLeft
  <2>6. QED
    BY <1>1, <2>4, <2>5 DEF ComposedInv
<1>4. CASE Bystands
  <2>1. Stands /\ UNCHANGED <<prompt, lost>>
    BY <1>1, <1>4, BystandsStands DEF Stands
  <2>2. ASSUME prompt PROVE TunnelInv' /\ OwnInv'
    <3>1. TunnelInv /\ OwnInv
      BY <2>2 DEF ComposedInv
    <3>2. TunnelInv'
      BY <1>1, <1>2, <1>4, <3>1, StandsTunnel
    <3>3. OwnInv'
      BY <2>1, <3>1, StandsOwn DEF TunnelInv
    <3>4. QED
      BY <3>2, <3>3
  <2>3. ASSUME prompt, ~lost PROVE LeftInv'
    BY <2>1, <2>3, StandsLeft DEF ComposedInv
  <2>4. QED
    BY <1>1, <2>1, <2>2, <2>3 DEF ComposedInv
<1>5. ASSUME NEW t \in Threads, WorkerStep(t)
      PROVE  ComposedInv'
  <2>1. /\ Worker(t) /\ prompt' = prompt
        /\ lost' = (lost \/ (cancel /\ ~cancel' /\ ui # "free"))
    BY <1>5 DEF WorkerStep
  <2>2. ASSUME prompt PROVE TunnelInv' /\ OwnInv'
    <3>1. TunnelInv /\ OwnInv
      BY <2>2 DEF ComposedInv
    <3>2. TunnelInv'
      BY <1>2, <2>1, <3>1, WorkerTunnel
    <3>3. QED
      BY <1>1, <1>5, <3>1, <3>2, WorkerOwn
  <2>3. ASSUME prompt, ~lost' PROVE LeftInv'
    <3>1. TunnelInv /\ OwnInv /\ LeftInv
      BY <2>1, <2>3 DEF ComposedInv
    <3>2. QED
      BY <1>1, <1>5, <2>3, <3>1, WorkerLeft
  <2>4. QED
    BY <1>1, <2>1, <2>2, <2>3 DEF ComposedInv
<1>6. QED
  BY <1>3, <1>4, <1>5 DEF ComposedNext, ControllerMoves, Bystands

(* A run that was called off, or that tried every server in vain, leaves no*)
(* tunnel once nothing is on its way any more, whatever the worker was     *)
(* doing when it ended: for any servers, budgets, threads and profiles and *)
(* any number of runs, as long as NetworkManager does what it is asked, no *)
(* attempt was opened or given up with a connect still at work, and no     *)
(* worker has cleared the flag of a cancellation under way.                *)
THEOREM FailedRunIsDown ==
    ASSUME ~Faults
    PROVE  ComposedSpec => []FailedRunLeavesNothing
<1>1. ComposedInv => FailedRunLeavesNothing
  <2> SUFFICES ASSUME ComposedInv, ctl.phase \in {"cancelled", "exhausted"}, Still, prompt, ~lost
               PROVE  ~Status
    BY DEF FailedRunLeavesNothing
  <2>1. LeftInv /\ hand = "free" /\ queue = <<>>
        /\ \A t \in Threads : thread[t].pc \notin Working
    BY DEF ComposedInv, Still, Free, WorkerIdle
  <2>2. ~Doomed
    BY <2>1 DEF Doomed, Queued, Working, Connecting, Disconnecting
  <2>3. QED
    BY <2>1, <2>2 DEF LeftInv
<1>2. ComposedInv /\ [ComposedNext]_composed => ComposedInv'
  BY NextComposed
<1>3. QED
  BY InitComposed, <1>1, <1>2, PTL DEF ComposedSpec

(* The server a run reports as connected had its handshake in this very    *)
(* attempt: as long as no attempt was opened or given up with a connect    *)
(* still at work, the signal of an earlier one, or of the tunnel the run   *)
(* found, is never taken for it.                                           *)
THEOREM SuccessIsItsOwn ==
    ASSUME ~Faults
    PROVE  ComposedSpec => SuccessIsOwn
<1>1. ComposedInv /\ [ComposedNext]_composed =>
         [(prompt /\ ctl.phase = "connecting" /\ ctl'.phase = "succeeded") => rose]_composed
  <2> SUFFICES ASSUME ComposedInv, [ComposedNext]_composed, prompt,
                      ctl.phase = "connecting", ctl'.phase = "succeeded"
               PROVE  rose
    OBVIOUS
  <2>1. Grounds /\ OwnInv
    BY DEF ComposedInv
  <2>2. CASE ControllerMoves
    <3>1. PICK d : ControllerStep(d) /\ Turn(d)
      BY <2>1, <2>2, ControllerTurns
    <3>2. d.phase = "succeeded"
      BY <3>1 DEF ControllerStep
    <3>3. hand = "up"
      BY <3>1, <3>2 DEF Turn, CP!LeavesIt, CP!Settles, CP!Tries, CP!RunsOut, CP!CallsOff
    <3>4. QED
      BY <2>1, <3>3 DEF OwnInv, Owned, UpComing
  <2>3. CASE Bystands
    BY <2>1, <2>3, BystandsStands DEF Stands
  <2>4. ASSUME NEW t \in Threads, WorkerStep(t) PROVE FALSE
    BY <2>4 DEF WorkerStep, controller
  <2>5. QED
    BY <2>2, <2>3, <2>4 DEF ComposedNext, ControllerMoves, Bystands
<1>2. ComposedInv /\ [ComposedNext]_composed => ComposedInv'
  BY NextComposed
<1>3. QED
  BY InitComposed, <1>1, <1>2, PTL DEF ComposedSpec, SuccessIsOwn

=============================================================================
