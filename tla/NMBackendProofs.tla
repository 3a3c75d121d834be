-------------------------- MODULE NMBackendProofs --------------------------
(***************************************************************************)
(* Proofs about NMBackend, for any number of worker threads, profiles and  *)
(* requests: operations are serialized and none is stranded, with or       *)
(* without faults; if NetworkManager does what it is asked, nothing is left*)
(* up that was cancelled or disconnected, and there is one tunnel at most. *)
(* The last part says what any step does to the tunnels and to what the    *)
(* callback will hear, which is all that the backend's clients rely on.    *)
(*                                                                         *)
(* What makes the first two inductive is how _worker_thread follows the    *)
(* loop: it names exactly the thread that is inside, because the runner    *)
(* clears it in the lock section in which it finds the queue empty.        *)
(***************************************************************************)
EXTENDS NMBackend, FiniteSetTheorems, TLAPS

ThreadState == [pc : Working \cup Gone, mine : Uuids \cup {NoUuid},
                swept : 0..3, outcome : Outcomes]

QueueType ==
    /\ queue \in Seq(Operations)
    /\ field \in Threads \cup {NoThread}
    /\ thread \in [Threads -> ThreadState]

WorkerIsField == \A t \in Threads : thread[t].pc \in Working => field = t
FieldWorks == field # NoThread => thread[field].pc \in Working
QueueHasWorker == queue # <<>> => field # NoThread

IInv == QueueType /\ uuid \in Uuids \cup {NoUuid}
        /\ WorkerIsField /\ FieldWorks /\ QueueHasWorker

-----------------------------------------------------------------------------
(* Where the actions put a thread.                                         *)
LEMMA PoppingType ==
    ASSUME NEW outcome \in Outcomes, NEW u \in Uuids \cup {NoUuid}
    PROVE  Popping(outcome, u) \in ThreadState /\ Popping(outcome, u).pc \in Working
BY DEF Popping, ThreadState, Working

LEMMA GotoType ==
    ASSUME NEW r \in ThreadState, NEW pc \in Working \cup Gone
    PROVE  [r EXCEPT !.pc = pc] \in ThreadState /\ [r EXCEPT !.pc = pc].pc = pc
BY DEF ThreadState

(* A step of the worker inside an operation: the loop is not left.         *)
Inside(t) ==
    /\ thread[t].pc \in Working
    /\ \E r \in ThreadState : r.pc \in Working /\ thread' = [thread EXCEPT ![t] = r]
    /\ UNCHANGED <<queue, field>>

LEMMA GotoInside ==
    ASSUME NEW t \in Threads, QueueType, thread[t].pc \in Working,
           NEW pc \in Working, Goto(t, pc), UNCHANGED <<queue, field>>
    PROVE  Inside(t)
<1>1. thread[t] \in ThreadState
  BY DEF QueueType
<1>2. /\ [thread[t] EXCEPT !.pc = pc] \in ThreadState
      /\ [thread[t] EXCEPT !.pc = pc].pc \in Working
  BY <1>1, GotoType
<1>3. thread' = [thread EXCEPT ![t] = [thread[t] EXCEPT !.pc = pc]]
  BY DEF Goto
<1>4. QED
  BY <1>2, <1>3 DEF Inside

LEMMA EndInside ==
    ASSUME NEW t \in Threads, thread[t].pc \in Working,
           NEW outcome \in Outcomes, NEW u \in Uuids \cup {NoUuid},
           EndOperation(t, outcome, u), UNCHANGED <<queue, field>>
    PROVE  Inside(t)
BY PoppingType DEF EndOperation, Inside

LEMMA InsideKeeps ==
    ASSUME NEW t \in Threads, Inside(t), uuid' \in Uuids \cup {NoUuid}, IInv
    PROVE  IInv'
<1>1. PICK r \in ThreadState : r.pc \in Working /\ thread' = [thread EXCEPT ![t] = r]
  BY DEF Inside
<1>2. QueueType'
  BY <1>1 DEF Inside, IInv, QueueType
<1>3. \A v \in Threads : thread'[v] = IF v = t THEN r ELSE thread[v]
  BY <1>1 DEF IInv, QueueType
<1>4. WorkerIsField'
  BY <1>3 DEF Inside, IInv, WorkerIsField
<1>5. FieldWorks'
  BY <1>1, <1>3 DEF Inside, IInv, FieldWorks, QueueType
<1>6. QueueHasWorker'
  BY DEF Inside, IInv, QueueHasWorker
<1>7. QED
  BY <1>2, <1>4, <1>5, <1>6 DEF IInv

(* Every step of an operation is a step inside the loop.                   *)
LEMMA OperationInside ==
    ASSUME IInv, NEW t \in Threads,
           \/ CheckBeforeAdd(t) \/ AddProfile(t) \/ CheckAfterAdd(t)
           \/ Activate(t) \/ CheckAfterActivate(t) \/ Undo(t)
           \/ Look(t) \/ TakeDown(t) \/ Sweep(t)
    PROVE  Inside(t) /\ uuid' \in Uuids \cup {NoUuid}
<1>1. /\ thread \in [Threads -> ThreadState] /\ uuid \in Uuids \cup {NoUuid} /\ QueueType
      /\ thread[t] \in ThreadState
  BY DEF IInv, QueueType
<1>2. thread[t].mine \in Uuids \cup {NoUuid}
  BY <1>1 DEF ThreadState
<1> USE DEF Working, Connecting, Disconnecting, Outcomes, backend
<1>3. CASE CheckBeforeAdd(t)
  BY <1>1, <1>3, GotoInside, EndInside DEF CheckBeforeAdd, Raise
<1>4. CASE AddProfile(t)
  <2>1. UNCHANGED <<queue, field>> /\ thread[t].pc \in Working
    BY <1>4 DEF AddProfile
  <2>2. CASE uuid' = NoUuid /\ Raise(t, NoUuid)
    BY <2>1, <2>2, EndInside DEF Raise
  <2>3. ASSUME NEW u \in Uuids, uuid' = u,
               thread' = [thread EXCEPT ![t].pc = "addedCheck", ![t].mine = u]
        PROVE  Inside(t) /\ uuid' \in Uuids \cup {NoUuid}
    <3> DEFINE r == [thread[t] EXCEPT !.pc = "addedCheck", !.mine = u]
    <3>1. r \in ThreadState /\ r.pc \in Working
      BY <1>1 DEF ThreadState
    <3>2. thread' = [thread EXCEPT ![t] = r]
      BY <1>1, <2>3
    <3>3. QED
      BY <2>1, <2>3, <3>1, <3>2 DEF Inside
  <2>4. QED
    BY <1>4, <2>2, <2>3 DEF AddProfile
<1>5. CASE CheckAfterAdd(t)
  BY <1>1, <1>2, <1>5, GotoInside, EndInside DEF CheckAfterAdd
<1>6. CASE Activate(t)
  BY <1>1, <1>6, GotoInside, EndInside DEF Activate, Raise
<1>7. CASE CheckAfterActivate(t)
  BY <1>1, <1>7, GotoInside, EndInside DEF CheckAfterActivate
<1>8. CASE Undo(t)
  BY <1>1, <1>8, GotoInside, EndInside DEF Undo
<1>9. CASE Look(t)
  BY <1>1, <1>9, GotoInside, EndInside DEF Look
<1>10. CASE TakeDown(t)
  BY <1>1, <1>10, GotoInside, EndInside DEF TakeDown
<1>11. CASE Sweep(t)
  <2>1. UNCHANGED <<queue, field, uuid>> /\ thread[t].pc \in Working
    BY <1>11 DEF Sweep
  <2>2. CASE EndOperation(t, "disconnected", NoUuid)
    BY <1>1, <2>1, <2>2, EndInside
  <2>3. CASE thread[t].swept # 3 /\ thread' = [thread EXCEPT ![t].swept = @ + 1]
    <3> DEFINE r == [thread[t] EXCEPT !.swept = @ + 1]
    <3>1. thread[t].swept + 1 \in 0..3
      BY <1>1, <2>3 DEF ThreadState
    <3>2. r \in ThreadState /\ r.pc \in Working
      BY <1>1, <2>1, <3>1 DEF ThreadState
    <3>3. thread' = [thread EXCEPT ![t] = r]
      BY <1>1, <2>3
    <3>4. QED
      BY <1>1, <2>1, <3>2, <3>3 DEF Inside
  <2>4. QED
    BY <1>11, <2>2, <2>3 DEF Sweep
<1>12. QED
  BY <1>3, <1>4, <1>5, <1>6, <1>7, <1>8, <1>9, <1>10, <1>11

-----------------------------------------------------------------------------
(* The three lock sections that move a thread into or out of the loop.     *)
LEMMA DispatchKeeps ==
    ASSUME IInv, NEW op \in Operations, Dispatch(op), uuid' = uuid
    PROVE  IInv'
<1>1. queue' \in Seq(Operations)
  BY DEF IInv, QueueType, Dispatch
<1>2. CASE Alive(field)
  <2>1. UNCHANGED <<thread, field>> /\ field # NoThread
    BY <1>2 DEF Dispatch, Alive
  <2>2. QED
    BY <1>1, <2>1 DEF IInv, QueueType, WorkerIsField, FieldWorks, QueueHasWorker
<1>3. CASE ~Alive(field)
  <2>1. field = NoThread
    BY <1>3 DEF IInv, FieldWorks, Alive, Working, Connecting, Disconnecting
  <2>2. PICK t \in Threads : /\ thread[t].pc = "dead"
                             /\ thread' = [thread EXCEPT ![t] = Popping("none", NoUuid)]
                             /\ field' = t
    BY <1>3 DEF Dispatch
  <2> DEFINE r == Popping("none", NoUuid)
  <2>3. r \in ThreadState /\ r.pc \in Working
    BY PoppingType DEF Outcomes
  <2> HIDE DEF r
  <2>4. thread' \in [Threads -> ThreadState]
        /\ \A v \in Threads : thread'[v] = IF v = t THEN r ELSE thread[v]
    BY <2>2, <2>3 DEF IInv, QueueType, r
  <2>5. WorkerIsField'
    BY <2>1, <2>2, <2>4, BackendAssumption DEF IInv, WorkerIsField
  <2>6. FieldWorks' /\ QueueHasWorker'
    BY <2>2, <2>3, <2>4, BackendAssumption DEF FieldWorks, QueueHasWorker
  <2>7. QED
    BY <1>1, <2>2, <2>4, <2>5, <2>6 DEF IInv, QueueType
<1>4. QED
  BY <1>2, <1>3

LEMMA PopKeeps ==
    ASSUME IInv, NEW t \in Threads, Pop(t), uuid' = uuid
    PROVE  IInv'
<1>1. field = t /\ thread[t] \in ThreadState /\ t # NoThread
  BY BackendAssumption DEF Pop, IInv, QueueType, WorkerIsField, Working
<1>2. CASE queue = <<>>
  <2> DEFINE r == [thread[t] EXCEPT !.pc = "exiting"]
  <2>1. r \in ThreadState /\ r.pc = "exiting"
    BY <1>1, GotoType DEF Gone
  <2>2. thread' = [thread EXCEPT ![t] = r] /\ field' = NoThread /\ queue' = queue
    BY <1>2 DEF Pop
  <2> HIDE DEF r
  <2>3. thread' \in [Threads -> ThreadState]
        /\ \A v \in Threads : thread'[v] = IF v = t THEN r ELSE thread[v]
    BY <2>1, <2>2 DEF IInv, QueueType
  <2>4. WorkerIsField'
    BY <1>1, <2>1, <2>3 DEF IInv, WorkerIsField, Working, Connecting, Disconnecting
  <2>5. QED
    BY <1>2, <2>2, <2>3, <2>4 DEF IInv, QueueType, FieldWorks, QueueHasWorker
<1>3. CASE queue # <<>>
  <2> DEFINE r == [Popping("none", NoUuid) EXCEPT
                      !.pc = IF Head(queue) = "connect" THEN "check" ELSE "look"]
  <2>1. r \in ThreadState /\ r.pc \in Working
    BY PoppingType DEF Popping, ThreadState, Outcomes, Working, Connecting, Disconnecting
  <2>2. /\ thread' = [thread EXCEPT ![t] = r]
        /\ field' = field
        /\ queue' = Tail(queue)
    BY <1>3 DEF Pop
  <2> HIDE DEF r
  <2>3. queue' \in Seq(Operations)
    BY <1>3, <2>2 DEF IInv, QueueType
  <2>4. thread' \in [Threads -> ThreadState]
        /\ \A v \in Threads : thread'[v] = IF v = t THEN r ELSE thread[v]
    BY <2>1, <2>2 DEF IInv, QueueType
  <2>5. WorkerIsField'
    BY <1>1, <2>2, <2>4 DEF IInv, WorkerIsField
  <2>6. FieldWorks' /\ QueueHasWorker'
    BY <1>1, <2>1, <2>2, <2>4 DEF FieldWorks, QueueHasWorker
  <2>7. QED
    BY <2>2, <2>3, <2>4, <2>5, <2>6 DEF IInv, QueueType
<1>4. QED
  BY <1>2, <1>3

LEMMA ExitKeeps ==
    ASSUME IInv, NEW t \in Threads, Exit(t)
    PROVE  IInv'
<1>1. /\ thread[t].pc = "exiting" /\ thread' = [thread EXCEPT ![t] = Dead]
      /\ UNCHANGED <<queue, field, uuid>>
  BY DEF Exit, backend
<1>2. Dead \in ThreadState /\ Dead.pc = "dead"
  BY DEF Dead, ThreadState, Gone, Outcomes
<1>3. "exiting" \notin Working /\ "dead" \notin Working
  BY DEF Working, Connecting, Disconnecting
<1>4. thread' \in [Threads -> ThreadState]
      /\ \A v \in Threads : thread'[v] = IF v = t THEN Dead ELSE thread[v]
  BY <1>1, <1>2 DEF IInv, QueueType
<1>5. WorkerIsField'
  BY <1>1, <1>2, <1>3, <1>4 DEF IInv, WorkerIsField
<1>6. FieldWorks'
  BY <1>1, <1>3, <1>4 DEF IInv, FieldWorks, QueueType
<1>7. QED
  BY <1>1, <1>4, <1>5, <1>6 DEF IInv, QueueType, QueueHasWorker

(* No thread, nothing queued: the start, and the start after a crash.      *)
LEMMA FreshIInv ==
    ASSUME queue' = <<>>, field' = NoThread, uuid' = NoUuid,
           thread' = [t \in Threads |-> Dead]
    PROVE  IInv'
<1>1. Dead \in ThreadState /\ Dead.pc \notin Working
  BY DEF Dead, ThreadState, Gone, Outcomes, Working, Connecting, Disconnecting
<1>2. QED
  BY <1>1 DEF IInv, QueueType, WorkerIsField, FieldWorks, QueueHasWorker

LEMMA InitIInv == Init => IInv
<1> SUFFICES ASSUME Init PROVE IInv
  OBVIOUS
<1>1. Dead \in ThreadState /\ Dead.pc \notin Working
  BY DEF Dead, ThreadState, Gone, Outcomes, Working, Connecting, Disconnecting
<1>2. QED
  BY <1>1 DEF Init, IInv, QueueType, WorkerIsField, FieldWorks, QueueHasWorker

LEMMA NextIInv ==
    ASSUME IInv, [Next]_vars
    PROVE  IInv'
<1>1. ASSUME NEW t \in Threads, Worker(t) PROVE IInv'
  <2>1. CASE PopNext(t)
    BY <2>1, PopKeeps DEF PopNext
  <2>2. CASE Exit(t)
    BY <2>2, ExitKeeps
  <2>3. CASE ~PopNext(t) /\ ~Exit(t)
    BY <1>1, <2>3, OperationInside, InsideKeeps DEF Worker
  <2>4. QED
    BY <2>1, <2>2, <2>3
<1>2. ASSUME UNCHANGED <<queue, field, thread, uuid>> PROVE IInv'
  BY <1>2 DEF IInv, QueueType, WorkerIsField, FieldWorks, QueueHasWorker
<1>3. CASE RequestConnect
  <2>1. uuid' = uuid
    BY <1>3 DEF RequestConnect
  <2>2. CASE Dispatch("connect")
    BY <2>1, <2>2, DispatchKeeps DEF Operations
  <2>3. CASE UNCHANGED <<queue, field, thread>>
    BY <1>2, <2>1, <2>3
  <2>4. QED
    BY <1>3, <2>2, <2>3 DEF RequestConnect
<1>4. CASE RequestDisconnect
  BY <1>4, DispatchKeeps DEF RequestDisconnect, Operations
<1>5. CASE CancelClear
  <2>1. queue' = <<>> /\ UNCHANGED <<field, thread, uuid>>
    BY <1>5 DEF CancelClear
  <2>2. QED
    BY <2>1 DEF IInv, QueueType, WorkerIsField, FieldWorks, QueueHasWorker
<1>6. CASE SetCancel \/ SetSuppress \/ DeleteAll
  BY <1>2, <1>6 DEF SetCancel, SetSuppress, DeleteAll, backend
<1>7. CASE Callbacks
  BY <1>2, <1>7 DEF Callbacks, SignalArrives, LateDisconnection, FailureNotified,
                    RefusalNotified, backend
<1>8. ASSUME NEW u \in Uuids, HandshakeDone(u) \/ GoesDown(u) PROVE IInv'
  BY <1>2, <1>8 DEF HandshakeDone, GoesDown, backend
<1>9. CASE Restart
  BY <1>9, FreshIInv DEF Restart
<1>10. CASE UNCHANGED vars
  BY <1>2, <1>10 DEF vars, backend
<1>11. QED
  BY <1>1, <1>3, <1>4, <1>5, <1>6, <1>7, <1>8, <1>9, <1>10 DEF Next

(* Two threads never run native operations at the same time, however often *)
(* a runner has finished while the next request was being queued.          *)
THEOREM OperationsSerialized == Spec => []OneWorker
<1>1. IInv => OneWorker
  BY DEF IInv, WorkerIsField, OneWorker
<1>2. QED
  BY InitIInv, NextIInv, <1>1, PTL DEF Spec

(* A queued operation always has a thread that will look at the queue      *)
(* again, crashes and cancellations included.                              *)
THEOREM QueueNeverStranded == Spec => []NoOpStranded
<1>1. IInv => NoOpStranded
  <2> SUFFICES ASSUME IInv, queue # <<>> PROVE \E t \in Threads : thread[t].pc \in Working
    BY DEF NoOpStranded
  <2>1. field \in Threads /\ thread[field].pc \in Working
    BY DEF IInv, QueueType, QueueHasWorker, FieldWorks
  <2>2. QED
    BY <2>1
<1>2. QED
  BY InitIInv, NextIInv, <1>1, PTL DEF Spec

-----------------------------------------------------------------------------
(* What NetworkManager has up.  NothingActivated and Activated below say   *)
(* how a step can change it; the rest follows which thread may do so.      *)

DaemonType ==
    /\ profiles \subseteq Uuids
    /\ act \in [Uuids -> {"down", "activating", "up"}]
    /\ \A u \in Uuids \ profiles : act[u] = "down"

(* Where the worker relies on self.uuid.                                   *)
Holding == {"addedCheck", "activate", "lastCheck", "undoDown", "undoDelete",
            "takeDown", "delete"}

(* What a thread has created and not activated, or has undone, is down.    *)
ThreadInv(t) ==
    /\ thread[t].pc \in Holding => uuid \in Uuids
    /\ thread[t].pc = "addedCheck" => ~Active(thread[t].mine)
    /\ thread[t].pc = "pop" /\ thread[t].outcome = "cancelled" => ~Active(thread[t].mine)

NativeInv == IInv /\ DaemonType /\ \A t \in Threads : ThreadInv(t)

(* With one connect at a time: until it activates its profile nothing is   *)
(* up, and what is up is the backend's own, if it knows it.                *)
BeforeActivation == {"check", "add", "addedCheck", "activate"}
Queued(op) == \E i \in 1..Len(queue) : queue[i] = op

OneConnect ==
    /\ \A i, j \in 1..Len(queue) : queue[i] = "connect" /\ queue[j] = "connect" => i = j
    /\ \A t \in Threads : thread[t].pc \in Connecting => ~Queued("connect")

FreshConnect ==
    /\ Queued("connect") => ~Status
    /\ \A t \in Threads : thread[t].pc \in BeforeActivation => ~Status

OwnTunnel ==
    /\ uuid # NoUuid => ActiveProfiles \subseteq {uuid}
    /\ \A u, v \in ActiveProfiles : u = v

TakenDownInv(t) ==
    /\ thread[t].pc = "look" => thread[t].swept = 0
    /\ thread[t].pc = "sweep" /\ thread[t].swept > 0 => ~Status
    /\ thread[t].pc = "pop" /\ thread[t].outcome = "disconnected" => ~Status

TunnelInv ==
    /\ NativeInv /\ OneConnect /\ FreshConnect /\ OwnTunnel
    /\ \A t \in Threads : TakenDownInv(t)

LEMMA GotoResult ==
    ASSUME IInv, NEW t \in Threads, NEW pc, Goto(t, pc)
    PROVE  thread'[t].pc = pc /\ thread'[t].swept = thread[t].swept
           /\ thread'[t].mine = thread[t].mine /\ thread'[t].outcome = thread[t].outcome
BY DEF Goto, IInv, QueueType, ThreadState

LEMMA EndResult ==
    ASSUME IInv, NEW t \in Threads, NEW outcome, NEW u, EndOperation(t, outcome, u)
    PROVE  thread'[t].pc = "pop" /\ thread'[t].outcome = outcome /\ thread'[t].mine = u
BY DEF EndOperation, Popping, IInv, QueueType

(* A thread that works is the only one.                                    *)
LEMMA Bystanders ==
    ASSUME IInv, NEW t \in Threads, Worker(t), thread[t].pc \in Working,
           NEW v \in Threads, v # t
    PROVE  thread'[v] = thread[v] /\ thread'[v].pc \in Gone
<1>1. thread[v].pc \notin Working
  BY DEF IInv, WorkerIsField
<1>2. thread[v].pc \in Working \cup Gone
  BY DEF IInv, QueueType, ThreadState
<1>3. thread'[v] = thread[v]
  <2>1. CASE PopNext(t)
    BY <2>1 DEF PopNext, Pop, IInv, QueueType
  <2>2. CASE Exit(t)
    BY <2>2 DEF Exit, IInv, QueueType
  <2>3. CASE ~PopNext(t) /\ ~Exit(t)
    <3>1. Inside(t)
      BY <2>3, OperationInside DEF Worker
    <3>2. QED
      BY <3>1 DEF Inside, IInv, QueueType
  <2>4. QED
    BY <2>1, <2>2, <2>3
<1>4. QED
  BY <1>1, <1>2, <1>3

(* Something goes down, and may be deleted as well.                        *)
LEMMA GoingDown ==
    ASSUME DaemonType, NEW u, TakenDown(u), profiles' \in {profiles, profiles \ {u}}
    PROVE  DaemonType' /\ ActiveProfiles' \subseteq ActiveProfiles \ {u}
<1>1. act' \in [Uuids -> {"down", "activating", "up"}]
      /\ \A w \in Uuids : act'[w] = IF w = u THEN "down" ELSE act[w]
  BY DEF TakenDown, DaemonType
<1>2. profiles' \subseteq profiles /\ \A w \in profiles \ profiles' : w = u
  OBVIOUS
<1>3. DaemonType'
  BY <1>1, <1>2 DEF DaemonType
<1>4. ActiveProfiles' \subseteq ActiveProfiles \ {u}
  BY <1>1, <1>2 DEF ActiveProfiles, DaemonType
<1>5. QED
  BY <1>3, <1>4

LEMMA NothingChanges ==
    ASSUME DaemonType, UNCHANGED <<profiles, act>>
    PROVE  DaemonType' /\ ActiveProfiles' = ActiveProfiles
BY DEF DaemonType, ActiveProfiles

(* What status() may answer.                                               *)
LEMMA Answers ==
    /\ FALSE \in StatusAnswers <=> ~Status \/ Faults
    /\ TRUE \in StatusAnswers <=> Status
BY BackendAssumption DEF StatusAnswers, Status

-----------------------------------------------------------------------------
(* The worker, when NetworkManager obeys.                                  *)

LEMMA AddProfileNative ==
    ASSUME NativeInv, ~Faults, NEW t \in Threads, AddProfile(t)
    PROVE  /\ DaemonType' /\ ThreadInv(t)' /\ ActiveProfiles' = ActiveProfiles
           /\ thread'[t].pc = "addedCheck"
<1>1. IInv /\ DaemonType /\ thread[t].pc = "add"
  BY DEF NativeInv, AddProfile
<1>2. PICK u \in Uuids \ (profiles \cup {uuid}) :
         /\ profiles' = profiles \cup {u} /\ uuid' = u /\ act' = act
         /\ thread' = [thread EXCEPT ![t].pc = "addedCheck", ![t].mine = u]
  BY DEF AddProfile
<1>3. act[u] = "down"
  BY <1>1, <1>2 DEF DaemonType
<1>4. DaemonType'
  BY <1>1, <1>2 DEF DaemonType
<1>5. ActiveProfiles' = ActiveProfiles
  BY <1>2, <1>3 DEF ActiveProfiles
<1>6. thread'[t].pc = "addedCheck" /\ thread'[t].mine = u
  BY <1>1, <1>2 DEF IInv, QueueType, ThreadState
<1>7. ~Active(u)'
  BY <1>2, <1>3 DEF Active
<1>8. ThreadInv(t)'
  BY <1>2, <1>6, <1>7 DEF ThreadInv, Active
<1>9. QED
  BY <1>4, <1>5, <1>6, <1>8

LEMMA ActivateNative ==
    ASSUME NativeInv, ~Faults, NEW t \in Threads, Activate(t)
    PROVE  /\ DaemonType' /\ ThreadInv(t)' /\ ActiveProfiles' \subseteq ActiveProfiles \cup {uuid}
           /\ uuid' = uuid /\ uuid \in Uuids
           /\ thread'[t].pc \in {"lastCheck", "pop"}
           /\ thread'[t].pc = "pop" => thread'[t].outcome = "failed"
<1>1. IInv /\ DaemonType /\ thread[t].pc = "activate"
  BY DEF NativeInv, Activate
<1>2. uuid \in Uuids /\ uuid' = uuid /\ profiles' = profiles
  BY <1>1 DEF NativeInv, ThreadInv, Holding, Activate, backend
<1>3. CASE uuid \in profiles /\ act' = [act EXCEPT ![uuid] = "activating"] /\ Goto(t, "lastCheck")
  <2>1. thread'[t].pc = "lastCheck"
    BY <1>1, <1>3, GotoResult
  <2>2. DaemonType'
    BY <1>1, <1>2, <1>3 DEF DaemonType
  <2>3. ActiveProfiles' \subseteq ActiveProfiles \cup {uuid}
    BY <1>1, <1>2, <1>3 DEF DaemonType, ActiveProfiles
  <2>4. QED
    BY <1>2, <2>1, <2>2, <2>3 DEF ThreadInv, Holding
<1>4. CASE Raise(t, uuid) /\ act' = act
  <2>1. thread'[t].pc = "pop" /\ thread'[t].outcome = "failed"
    BY <1>1, <1>4, EndResult DEF Raise
  <2>2. DaemonType' /\ ActiveProfiles' = ActiveProfiles
    BY <1>1, <1>2, <1>4, NothingChanges
  <2>3. QED
    BY <1>2, <2>1, <2>2 DEF ThreadInv, Holding
<1>5. QED
  BY <1>3, <1>4 DEF Activate

(* The steps that leave NetworkManager alone.                              *)
LEMMA LookingNative ==
    ASSUME NativeInv, ~Faults, NEW t \in Threads,
           CheckBeforeAdd(t) \/ CheckAfterAdd(t) \/ CheckAfterActivate(t) \/ Look(t)
    PROVE  DaemonType' /\ ThreadInv(t)' /\ ActiveProfiles' = ActiveProfiles /\ uuid' = uuid
<1>1. IInv /\ DaemonType /\ ThreadInv(t)
  BY DEF NativeInv
<1>2. UNCHANGED <<profiles, act, uuid>>
  BY DEF CheckBeforeAdd, CheckAfterAdd, CheckAfterActivate, Look, backend, daemon
<1>3. DaemonType' /\ ActiveProfiles' = ActiveProfiles /\ \A u : Active(u)' = Active(u)
  BY <1>1, <1>2, NothingChanges DEF Active
<1>4. ~Active(NoUuid)
  BY <1>1, BackendAssumption DEF DaemonType, Active
<1>5. CASE CheckBeforeAdd(t)
  <2>1. CASE Goto(t, "add")
    <3>1. thread'[t].pc = "add"
      BY <1>1, <2>1, GotoResult
    <3>2. QED
      BY <1>2, <1>3, <3>1 DEF ThreadInv, Holding
  <2>2. CASE EndOperation(t, "cancelled", NoUuid)
    <3>1. thread'[t].pc = "pop" /\ thread'[t].mine = NoUuid
      BY <1>1, <2>2, EndResult
    <3>2. NoUuid \notin profiles'
      BY <1>1, <1>2, BackendAssumption DEF DaemonType
    <3>3. thread'[t].mine \notin profiles'
      BY <3>1, <3>2
    <3>4. QED
      BY <1>2, <1>3, <3>1, <3>3 DEF ThreadInv, Holding, Active
  <2>3. QED
    BY <1>5, <2>1, <2>2 DEF CheckBeforeAdd
<1>6. CASE CheckAfterAdd(t)
  <2>1. thread[t].pc = "addedCheck" /\ ~Active(thread[t].mine) /\ uuid \in Uuids
    BY <1>1, <1>6 DEF CheckAfterAdd, ThreadInv, Holding
  <2>2. CASE Goto(t, "activate")
    <3>1. thread'[t].pc = "activate"
      BY <1>1, <2>2, GotoResult
    <3>2. QED
      BY <1>2, <1>3, <2>1, <3>1 DEF ThreadInv
  <2>3. CASE EndOperation(t, "cancelled", thread[t].mine)
    <3>1. thread'[t].pc = "pop" /\ thread'[t].mine = thread[t].mine
      BY <1>1, <2>3, EndResult
    <3>2. QED
      BY <1>2, <1>3, <2>1, <3>1 DEF ThreadInv, Holding, Active
  <2>4. QED
    BY <1>6, <2>2, <2>3 DEF CheckAfterAdd
<1>7. CASE CheckAfterActivate(t)
  <2>1. thread[t].pc = "lastCheck" /\ uuid \in Uuids
    BY <1>1, <1>7 DEF CheckAfterActivate, ThreadInv, Holding
  <2>2. CASE Goto(t, "undoDown")
    <3>1. thread'[t].pc = "undoDown"
      BY <1>1, <2>2, GotoResult
    <3>2. QED
      BY <1>2, <1>3, <2>1, <3>1 DEF ThreadInv
  <2>3. CASE EndOperation(t, "connected", uuid)
    <3>1. thread'[t].pc = "pop" /\ thread'[t].outcome = "connected"
      BY <1>1, <2>3, EndResult
    <3>2. QED
      BY <1>2, <1>3, <3>1 DEF ThreadInv, Holding
  <2>4. QED
    BY <1>7, <2>2, <2>3 DEF CheckAfterActivate
<1>8. CASE Look(t)
  <2>1. CASE uuid = NoUuid /\ Goto(t, "sweep")
    <3>1. thread'[t].pc = "sweep"
      BY <1>1, <2>1, GotoResult
    <3>2. QED
      BY <1>2, <1>3, <3>1 DEF ThreadInv, Holding
  <2>2. CASE uuid # NoUuid /\ Goto(t, "takeDown")
    <3>1. thread'[t].pc = "takeDown" /\ uuid \in Uuids
      BY <1>1, <2>2, GotoResult DEF IInv
    <3>2. QED
      BY <1>2, <1>3, <3>1 DEF ThreadInv
  <2>3. CASE EndOperation(t, "disconnected", NoUuid)
    <3>1. thread'[t].pc = "pop" /\ thread'[t].outcome = "disconnected"
      BY <1>1, <2>3, EndResult
    <3>2. QED
      BY <1>2, <1>3, <3>1 DEF ThreadInv, Holding
  <2>4. QED
    BY <1>8, <2>1, <2>2, <2>3 DEF Look
<1>9. QED
  BY <1>5, <1>6, <1>7, <1>8, <1>2, <1>3

(* The steps that take a tunnel down, or find none.                        *)
LEMMA RemovalNative ==
    ASSUME NativeInv, ~Faults, NEW t \in Threads, Undo(t) \/ TakeDown(t) \/ Sweep(t)
    PROVE  /\ DaemonType' /\ ThreadInv(t)' /\ ActiveProfiles' \subseteq ActiveProfiles
           /\ uuid' \in {uuid, NoUuid}
           /\ thread'[t].pc \in {"undoDelete", "delete", "sweep", "pop"}
           /\ Undo(t) \/ TakeDown(t) =>
                 uuid \in Uuids /\ ActiveProfiles' \subseteq ActiveProfiles \ {uuid}
           /\ Sweep(t) => \/ /\ thread'[t].pc = "pop"
                             /\ thread[t].swept = 3 \/ ~Status
                          \/ \E u \in ActiveProfiles :
                                ActiveProfiles' \subseteq ActiveProfiles \ {u}
<1>1. IInv /\ DaemonType /\ ThreadInv(t)
  BY DEF NativeInv
<1>2. CASE Undo(t)
  <2>1. uuid \in Uuids /\ thread[t].pc \in {"undoDown", "undoDelete"}
    BY <1>1, <1>2 DEF Undo, ThreadInv, Holding
  <2>2. TakenDown(uuid) /\ profiles' \in {profiles, profiles \ {uuid}}
    BY <1>2 DEF Undo, NMDisconnect, NMDelete
  <2>3. DaemonType' /\ ActiveProfiles' \subseteq ActiveProfiles \ {uuid}
    BY <1>1, <2>2, GoingDown
  <2>4. CASE Goto(t, "undoDelete") /\ uuid' = uuid
    <3>1. thread'[t].pc = "undoDelete"
      BY <1>1, <2>4, GotoResult
    <3>2. ThreadInv(t)'
      BY <2>1, <2>4, <3>1 DEF ThreadInv
    <3>3. QED
      BY <1>2, <2>1, <2>3, <2>4, <3>1, <3>2 DEF Undo, Sweep
  <2>5. CASE thread[t].pc = "undoDelete" /\ EndOperation(t, "cancelled", uuid) /\ uuid' = NoUuid
    <3>1. thread'[t].pc = "pop" /\ thread'[t].mine = uuid
      BY <1>1, <2>5, EndResult
    <3>2. profiles' = profiles \ {uuid}
      BY <1>2, <2>5 DEF Undo, NMDelete
    <3>3. thread'[t].mine \notin profiles'
      BY <3>1, <3>2
    <3>4. ThreadInv(t)'
      BY <3>1, <3>3 DEF ThreadInv, Holding, Active
    <3>5. QED
      BY <1>2, <2>1, <2>3, <2>5, <3>1, <3>4 DEF Undo, Sweep
  <2>6. QED
    BY <1>2, <2>4, <2>5 DEF Undo
<1>3. CASE TakeDown(t)
  <2>1. uuid \in Uuids /\ thread[t].pc \in {"takeDown", "delete"}
    BY <1>1, <1>3 DEF TakeDown, ThreadInv, Holding
  <2>2. TakenDown(uuid) /\ profiles' \in {profiles, profiles \ {uuid}}
    BY <1>3 DEF TakeDown, NMDisconnect, NMDelete
  <2>3. DaemonType' /\ ActiveProfiles' \subseteq ActiveProfiles \ {uuid}
    BY <1>1, <2>2, GoingDown
  <2>4. CASE Goto(t, "delete") /\ uuid' = uuid
    <3>1. thread'[t].pc = "delete"
      BY <1>1, <2>4, GotoResult
    <3>2. ThreadInv(t)'
      BY <2>1, <2>4, <3>1 DEF ThreadInv
    <3>3. QED
      BY <1>3, <2>1, <2>3, <2>4, <3>1, <3>2 DEF TakeDown, Sweep
  <2>5. CASE EndOperation(t, "disconnected", NoUuid) /\ uuid' = NoUuid
    <3>1. thread'[t].pc = "pop" /\ thread'[t].outcome = "disconnected"
      BY <1>1, <2>5, EndResult
    <3>2. ThreadInv(t)'
      BY <3>1 DEF ThreadInv, Holding
    <3>3. QED
      BY <1>3, <2>1, <2>3, <2>5, <3>1, <3>2 DEF TakeDown, Sweep
  <2>6. QED
    BY <1>3, <2>4, <2>5 DEF TakeDown
<1>4. CASE Sweep(t)
  <2>1. thread[t].pc = "sweep" /\ UNCHANGED <<profiles, uuid>>
    BY <1>4 DEF Sweep, backend
  <2>2. ~Undo(t) /\ ~TakeDown(t)
    BY <2>1 DEF Undo, TakeDown
  <2>3. CASE /\ EndOperation(t, "disconnected", NoUuid) /\ UNCHANGED <<act, bus>>
             /\ thread[t].swept = 3 \/ ~Status
    <3>1. thread'[t].pc = "pop" /\ thread'[t].outcome = "disconnected"
      BY <1>1, <2>3, EndResult
    <3>2. DaemonType' /\ ActiveProfiles' = ActiveProfiles
      BY <1>1, <2>1, <2>3, NothingChanges
    <3>3. ThreadInv(t)'
      BY <3>1 DEF ThreadInv, Holding
    <3>4. QED
      BY <2>1, <2>2, <2>3, <3>1, <3>2, <3>3
  <2>4. ASSUME NEW u \in ActiveProfiles, NMDisconnect(u),
               thread' = [thread EXCEPT ![t].swept = @ + 1]
        PROVE  /\ DaemonType' /\ ThreadInv(t)'
               /\ thread'[t].pc = "sweep" /\ ActiveProfiles' \subseteq ActiveProfiles \ {u}
    <3>1. thread'[t].pc = "sweep"
      BY <1>1, <2>1, <2>4 DEF IInv, QueueType, ThreadState
    <3>2. TakenDown(u)
      BY <2>4 DEF NMDisconnect
    <3>3. DaemonType' /\ ActiveProfiles' \subseteq ActiveProfiles \ {u}
      BY <1>1, <2>1, <3>2, GoingDown
    <3>4. ThreadInv(t)'
      BY <3>1 DEF ThreadInv, Holding
    <3>5. QED
      BY <3>1, <3>3, <3>4
  <2>5. CASE \E u \in ActiveProfiles :
                NMDisconnect(u) /\ thread' = [thread EXCEPT ![t].swept = @ + 1]
    BY <1>4, <2>1, <2>2, <2>4, <2>5
  <2>6. CASE /\ EndOperation(t, "disconnected", NoUuid) /\ UNCHANGED <<act, bus>>
             /\ thread[t].swept = 3 \/ FALSE \in StatusAnswers
    BY <2>3, <2>6, Answers
  <2>7. QED
    BY <1>4, <2>5, <2>6 DEF Sweep
<1>5. QED
  BY <1>2, <1>3, <1>4

(* Taking the next operation, and leaving the loop.                        *)
LEMMA PopNative ==
    ASSUME NativeInv, NEW t \in Threads, PopNext(t) \/ Exit(t)
    PROVE  /\ DaemonType' /\ ThreadInv(t)' /\ ActiveProfiles' = ActiveProfiles /\ uuid' = uuid
           /\ \A v \in Threads : v # t => thread'[v] = thread[v]
           /\ \/ /\ thread'[t].pc \in {"exiting", "dead"} /\ queue' = queue
              \/ /\ queue # <<>> /\ queue' = Tail(queue)
                 /\ thread'[t].swept = 0
                 /\ thread'[t].pc = IF Head(queue) = "connect" THEN "check" ELSE "look"
<1>1. IInv /\ DaemonType /\ thread[t] \in ThreadState
  BY DEF NativeInv, IInv, QueueType
<1>2. UNCHANGED <<profiles, act, uuid>>
  BY DEF PopNext, Pop, Exit, backend, daemon
<1>3. DaemonType' /\ ActiveProfiles' = ActiveProfiles
  BY <1>1, <1>2, NothingChanges
<1>4. CASE Exit(t)
  <2>1. thread'[t].pc = "dead" /\ \A v \in Threads : v # t => thread'[v] = thread[v]
    BY <1>1, <1>4 DEF Exit, Dead, IInv, QueueType
  <2>2. queue' = queue
    BY <1>4 DEF Exit, backend
  <2>3. QED
    BY <1>2, <1>3, <2>1, <2>2 DEF ThreadInv, Holding
<1>5. CASE Pop(t) /\ queue = <<>>
  <2>1. thread'[t].pc = "exiting" /\ \A v \in Threads : v # t => thread'[v] = thread[v]
    BY <1>1, <1>5 DEF Pop, IInv, QueueType, ThreadState
  <2>2. queue' = queue
    BY <1>5 DEF Pop
  <2>3. QED
    BY <1>2, <1>3, <2>1, <2>2 DEF ThreadInv, Holding
<1>6. CASE Pop(t) /\ queue # <<>>
  <2>1. /\ thread'[t].pc = IF Head(queue) = "connect" THEN "check" ELSE "look"
        /\ thread'[t].swept = 0
        /\ \A v \in Threads : v # t => thread'[v] = thread[v]
    BY <1>1, <1>6 DEF Pop, Popping, IInv, QueueType
  <2>2. queue' = Tail(queue)
    BY <1>6 DEF Pop
  <2>3. thread'[t].pc \in {"check", "look"}
    BY <2>1
  <2>4. ThreadInv(t)'
    BY <2>3 DEF ThreadInv, Holding
  <2>5. QED
    BY <1>2, <1>3, <1>6, <2>1, <2>2, <2>4
<1>7. QED
  BY <1>4, <1>5, <1>6 DEF PopNext

-----------------------------------------------------------------------------
(* Everything else, and NativeInv as a whole.                              *)

LEMMA Unmoved ==
    ASSUME NEW t \in Threads, ThreadInv(t), thread'[t] = thread[t],
           thread[t].pc \in Gone \/ (uuid' = uuid /\ ActiveProfiles' \subseteq ActiveProfiles)
    PROVE  ThreadInv(t)'
<1>1. CASE thread[t].pc \in Gone
  BY <1>1 DEF ThreadInv, Gone, Holding
<1>2. CASE uuid' = uuid /\ ActiveProfiles' \subseteq ActiveProfiles
  <2>1. \A u : Active(u)' => Active(u)
    BY <1>2 DEF Active, ActiveProfiles
  <2>2. \A u : (u \in profiles' /\ act'[u] # "down") => Active(u)
    BY <2>1 DEF Active
  <2>3. QED
    BY <1>2, <2>2 DEF ThreadInv, Active
<1>3. QED
  BY <1>1, <1>2

LEMMA IdleThread ==
    ASSUME NEW t \in Threads, thread'[t] \in {Dead, Popping("none", NoUuid)}
    PROVE  ThreadInv(t)'
BY DEF ThreadInv, Dead, Popping, Holding

Asked(op) ==
    /\ queue' = Append(queue, op)
    /\ op = "connect" => (~Status \/ Faults) /\ (Polite => ~ConnectPending)
    /\ op = "disconnect" => Status

Outside ==
    \/ RequestConnect \/ RequestDisconnect \/ SetCancel \/ SetSuppress \/ CancelClear \/ DeleteAll
    \/ Callbacks
    \/ \E u \in Uuids : HandshakeDone(u) \/ GoesDown(u)
    \/ Restart
    \/ UNCHANGED vars

(* What a deletion of all profiles leaves.                                 *)
LEMMA DeletedAll ==
    ASSUME DaemonType, DeleteAll
    PROVE  DaemonType' /\ ActiveProfiles' \subseteq ActiveProfiles
<1>1. PICK kept \in SUBSET profiles :
         profiles' = kept /\ act' = [u \in Uuids |-> IF u \in kept THEN act[u] ELSE "down"]
  BY DEF DeleteAll
<1>2. QED
  BY <1>1 DEF DaemonType, ActiveProfiles

LEMMA OutsideNative ==
    ASSUME NativeInv, Outside
    PROVE  /\ DaemonType' /\ ActiveProfiles' \subseteq ActiveProfiles
           /\ \A t \in Threads : ThreadInv(t)'
           /\ \/ uuid' = uuid
              \/ uuid' = NoUuid
           /\ \A t \in Threads : \/ thread'[t] = thread[t]
                                 \/ thread'[t] \in {Dead, Popping("none", NoUuid)}
           /\ \/ queue' \in {queue, <<>>}
              \/ Asked("connect") /\ ActiveProfiles' = ActiveProfiles
              \/ Asked("disconnect")
<1>1. IInv /\ DaemonType /\ \A t \in Threads : ThreadInv(t)
  BY DEF NativeInv
<1>2. ASSUME NEW op \in Operations, Dispatch(op)
      PROVE  \A t \in Threads : \/ thread'[t] = thread[t]
                                \/ thread'[t] \in {Dead, Popping("none", NoUuid)}
  BY <1>1, <1>2 DEF Dispatch, IInv, QueueType
<1>3. ASSUME DaemonType', uuid' = uuid, ActiveProfiles' \subseteq ActiveProfiles,
             \A t \in Threads : \/ thread'[t] = thread[t]
                               \/ thread'[t] \in {Dead, Popping("none", NoUuid)}
      PROVE  \A t \in Threads : ThreadInv(t)'
  BY <1>1, <1>3, Unmoved, IdleThread
<1>4. CASE RequestConnect
  <2>1. UNCHANGED <<profiles, act, uuid>> /\ (~Status \/ Faults) /\ (Polite => ~ConnectPending)
    BY <1>4, Answers DEF RequestConnect, daemon
  <2>2. DaemonType' /\ ActiveProfiles' = ActiveProfiles
    BY <1>1, <2>1, NothingChanges
  <2>3. CASE Dispatch("connect")
    <3>1. Asked("connect")
      BY <2>1, <2>3 DEF Asked, Dispatch
    <3>2. QED
      BY <1>2, <1>3, <2>1, <2>2, <2>3, <3>1 DEF Operations
  <2>4. CASE UNCHANGED <<queue, thread>>
    BY <1>3, <2>1, <2>2, <2>4
  <2>5. QED
    BY <1>4, <2>3, <2>4 DEF RequestConnect
<1>5. CASE RequestDisconnect
  <2>1. UNCHANGED <<profiles, act, uuid>> /\ Status /\ Dispatch("disconnect")
    BY <1>5, Answers DEF RequestDisconnect, daemon
  <2>2. DaemonType' /\ ActiveProfiles' = ActiveProfiles
    BY <1>1, <2>1, NothingChanges
  <2>3. Asked("disconnect")
    BY <2>1 DEF Asked, Dispatch
  <2>4. QED
    BY <1>2, <1>3, <2>1, <2>2, <2>3 DEF Operations
<1>6. CASE SetCancel \/ SetSuppress \/ CancelClear \/ Callbacks \/ UNCHANGED vars
  <2>1. UNCHANGED <<profiles, act, uuid, thread>> /\ queue' \in {queue, <<>>}
    BY <1>6 DEF SetCancel, SetSuppress, CancelClear, Callbacks, SignalArrives, LateDisconnection,
                FailureNotified, RefusalNotified, backend, daemon, vars
  <2>2. DaemonType' /\ ActiveProfiles' = ActiveProfiles
    BY <1>1, <2>1, NothingChanges
  <2>3. QED
    BY <1>3, <2>1, <2>2
<1>7. CASE DeleteAll
  <2>1. UNCHANGED <<uuid, thread, queue>>
    BY <1>7 DEF DeleteAll, backend
  <2>2. DaemonType' /\ ActiveProfiles' \subseteq ActiveProfiles
    BY <1>1, <1>7, DeletedAll
  <2>3. QED
    BY <1>3, <2>1, <2>2
<1>8. ASSUME NEW u \in Uuids, HandshakeDone(u) \/ GoesDown(u)
      PROVE  /\ DaemonType' /\ ActiveProfiles' \subseteq ActiveProfiles
             /\ UNCHANGED <<uuid, thread, queue>>
  <2>1. CASE HandshakeDone(u)
    BY <1>1, <2>1 DEF HandshakeDone, DaemonType, ActiveProfiles, backend
  <2>2. CASE GoesDown(u)
    BY <1>1, <2>2, GoingDown DEF GoesDown, backend
  <2>3. QED
    BY <1>8, <2>1, <2>2
<1>9. CASE \E u \in Uuids : HandshakeDone(u) \/ GoesDown(u)
  <2>1. /\ DaemonType' /\ ActiveProfiles' \subseteq ActiveProfiles
        /\ UNCHANGED <<uuid, thread, queue>>
    BY <1>8, <1>9
  <2>2. QED
    BY <1>3, <2>1
<1>10. CASE Restart
  <2>1. UNCHANGED <<profiles, act>> /\ uuid' = NoUuid /\ queue' = <<>>
    BY <1>10 DEF Restart, daemon
  <2>2. \A t \in Threads : thread'[t] = Dead
    BY <1>10 DEF Restart
  <2>3. DaemonType' /\ ActiveProfiles' = ActiveProfiles
    BY <1>1, <2>1, NothingChanges
  <2>4. \A t \in Threads : ThreadInv(t)'
    BY <2>2, IdleThread
  <2>5. QED
    BY <2>1, <2>2, <2>3, <2>4
<1>11. QED
  BY <1>4, <1>5, <1>6, <1>7, <1>9, <1>10 DEF Outside

LEMMA WorkerNative ==
    ASSUME NativeInv, ~Faults, NEW t \in Threads, Worker(t)
    PROVE  /\ DaemonType' /\ \A v \in Threads : ThreadInv(v)'
           /\ Exit(t) \/ \A v \in Threads \ {t} : thread'[v] = thread[v] /\ thread'[v].pc \in Gone
<1>1. IInv /\ \A v \in Threads : ThreadInv(v)
  BY DEF NativeInv
<1>2. DaemonType' /\ ThreadInv(t)'
  BY AddProfileNative, ActivateNative, LookingNative, RemovalNative, PopNative DEF Worker
<1>3. CASE Exit(t)
  <2>1. \A v \in Threads \ {t} : thread'[v] = thread[v]
    BY <1>3, PopNative
  <2>2. UNCHANGED <<uuid, profiles, act>>
    BY <1>3 DEF Exit, backend, daemon
  <2>3. ActiveProfiles' = ActiveProfiles
    BY <2>2 DEF ActiveProfiles
  <2>4. \A v \in Threads \ {t} : ThreadInv(v)'
    BY <1>1, <2>1, <2>2, <2>3, Unmoved
  <2>5. QED
    BY <1>2, <1>3, <2>4
<1>4. CASE ~Exit(t)
  <2>1. thread[t].pc \in Working
    <3>1. CASE PopNext(t)
      BY <3>1 DEF PopNext, Pop, Working
    <3>2. CASE ~PopNext(t)
      BY <1>1, <1>4, <3>2, OperationInside DEF Worker, Inside
    <3>3. QED
      BY <3>1, <3>2
  <2>2. \A v \in Threads \ {t} : thread'[v] = thread[v] /\ thread'[v].pc \in Gone
    BY <1>1, <2>1, Bystanders
  <2>3. \A v \in Threads \ {t} : ThreadInv(v)'
    BY <1>1, <2>2, Unmoved
  <2>4. QED
    BY <1>2, <2>2, <2>3
<1>5. QED
  BY <1>3, <1>4

LEMMA InitNative == Init => NativeInv
<1> SUFFICES ASSUME Init PROVE NativeInv
  OBVIOUS
<1>1. DaemonType
  BY DEF Init, DaemonType
<1>2. \A t \in Threads : thread[t] = Dead
  BY DEF Init
<1>3. \A t \in Threads : ThreadInv(t)
  BY <1>2 DEF ThreadInv, Dead, Holding
<1>4. QED
  BY <1>1, <1>3, InitIInv DEF NativeInv

LEMMA NextNative ==
    ASSUME NativeInv, ~Faults, [Next]_vars
    PROVE  NativeInv'
<1>1. IInv'
  BY NextIInv DEF NativeInv
<1>2. CASE \E t \in Threads : Worker(t)
  BY <1>1, <1>2, WorkerNative DEF NativeInv
<1>3. CASE Outside
  BY <1>1, <1>3, OutsideNative DEF NativeInv
<1>4. QED
  BY <1>2, <1>3 DEF Next, Outside

(* A connect that ended as cancelled has left nothing up, wherever the     *)
(* cancellation caught it, as long as NetworkManager carries out what it   *)
(* is asked; no restriction on how often connect() is called.              *)
THEOREM CancelledLeavesNothing ==
    ASSUME ~Faults
    PROVE  Spec => []CancelledIsDown
<1>1. NativeInv => CancelledIsDown
  BY DEF NativeInv, ThreadInv, CancelledIsDown
<1>2. NativeInv /\ [Next]_vars => NativeInv'
  BY NextNative
<1>3. QED
  BY InitNative, <1>1, <1>2, PTL DEF Spec

-----------------------------------------------------------------------------
(* TunnelInv.  First, what the queue's changes do to what is queued.       *)

LEMMA AppendQueued ==
    ASSUME QueueType, NEW op, queue' = Append(queue, op)
    PROVE  /\ Len(queue') = Len(queue) + 1 /\ Len(queue) \in Nat
           /\ \A i \in 1..Len(queue') : IF i = Len(queue') THEN queue'[i] = op
                                        ELSE i \in 1..Len(queue) /\ queue'[i] = queue[i]
BY DEF QueueType

LEMMA TailQueued ==
    ASSUME QueueType, queue # <<>>, queue' = Tail(queue)
    PROVE  /\ 1 \in 1..Len(queue) /\ queue[1] = Head(queue)
           /\ \A i \in 1..Len(queue') : i + 1 \in 1..Len(queue) /\ i + 1 # 1
                                        /\ queue'[i] = queue[i + 1]
BY DEF QueueType

(* Requests, callbacks and the daemon bring no tunnel up and move no       *)
(* thread; a connect is asked for when none is pending and nothing is up.  *)
Aside ==
    /\ ActiveProfiles' \subseteq ActiveProfiles /\ uuid' \in {uuid, NoUuid}
    /\ \A t \in Threads : \/ thread'[t] = thread[t]
                          \/ thread'[t] \in {Dead, Popping("none", NoUuid)}
    /\ \/ queue' \in {queue, <<>>}
       \/ queue' = Append(queue, "connect") /\ ~ConnectPending /\ ~Status
       \/ queue' = Append(queue, "disconnect")

LEMMA OutsideAside ==
    ASSUME NativeInv, Polite, ~Faults, Outside
    PROVE  Aside
BY OutsideNative DEF Aside, Asked

(* They keep at most one connect on its way.                               *)
LEMMA AsideOneConnect ==
    ASSUME QueueType, OneConnect, Aside
    PROVE  OneConnect' /\ (Queued("connect")' => Queued("connect") \/ ~Status)
<1>1. \A t \in Threads : thread'[t].pc \in Connecting => thread'[t] = thread[t]
  BY DEF Aside, Dead, Popping, Connecting
<1>2. CASE queue' = queue
  BY <1>1, <1>2 DEF OneConnect, Queued
<1>3. CASE queue' = <<>>
  BY <1>3 DEF OneConnect, Queued
<1>4. CASE queue' = Append(queue, "connect") /\ ~ConnectPending /\ ~Status
  <2>1. \A i \in 1..Len(queue') : queue'[i] = "connect" => i = Len(queue')
    BY <1>4, AppendQueued DEF ConnectPending
  <2>2. \A t \in Threads : thread'[t].pc \notin Connecting
    BY <1>1, <1>4 DEF ConnectPending
  <2>3. QED
    BY <1>4, <2>1, <2>2 DEF OneConnect
<1>5. CASE queue' = Append(queue, "disconnect")
  <2>1. \A i \in 1..Len(queue') : queue'[i] = "connect" =>
           i \in 1..Len(queue) /\ queue[i] = "connect"
    BY <1>5, AppendQueued
  <2>2. QED
    BY <1>1, <2>1 DEF OneConnect, Queued
<1>6. QED
  BY <1>2, <1>3, <1>4, <1>5 DEF Aside

LEMMA AsideTunnel ==
    ASSUME TunnelInv, Aside
    PROVE  OneConnect' /\ FreshConnect' /\ OwnTunnel' /\ \A t \in Threads : TakenDownInv(t)'
<1>1. QueueType /\ OneConnect
  BY DEF TunnelInv, NativeInv, IInv
<1>2. /\ ActiveProfiles' \subseteq ActiveProfiles /\ uuid' \in {uuid, NoUuid}
      /\ \A t \in Threads : \/ thread'[t] = thread[t]
                            \/ thread'[t] \in {Dead, Popping("none", NoUuid)}
  BY DEF Aside
<1>3. OneConnect' /\ (Queued("connect")' => Queued("connect") \/ ~Status)
  BY <1>1, AsideOneConnect
<1>4. Status' => Status
  BY <1>2 DEF Status
<1>5. FreshConnect'
  <2>1. \A t \in Threads : thread'[t].pc \in BeforeActivation => thread'[t] = thread[t]
    BY <1>2 DEF Dead, Popping, BeforeActivation
  <2>2. QED
    BY <1>3, <1>4, <2>1 DEF TunnelInv, FreshConnect
<1>6. OwnTunnel'
  BY <1>2 DEF TunnelInv, OwnTunnel
<1>7. \A t \in Threads : TakenDownInv(t)'
  BY <1>2, <1>4 DEF TunnelInv, TakenDownInv, Dead, Popping
<1>8. QED
  BY <1>3, <1>5, <1>6, <1>7

(* Where the steps that leave NetworkManager alone lead.                   *)
LEMMA LookingMoves ==
    ASSUME IInv, ~Faults, NEW t \in Threads
    PROVE  /\ CheckBeforeAdd(t) =>
                 /\ thread[t].pc = "check" /\ queue' = queue
                 /\ \/ thread'[t].pc = "add"
                    \/ thread'[t].pc = "pop" /\ thread'[t].outcome = "cancelled"
           /\ CheckAfterAdd(t) =>
                 /\ thread[t].pc = "addedCheck" /\ queue' = queue
                 /\ \/ thread'[t].pc = "activate"
                    \/ thread'[t].pc = "pop" /\ thread'[t].outcome = "cancelled"
           /\ CheckAfterActivate(t) =>
                 /\ thread[t].pc = "lastCheck" /\ queue' = queue
                 /\ \/ thread'[t].pc = "undoDown"
                    \/ thread'[t].pc = "pop" /\ thread'[t].outcome = "connected"
           /\ Look(t) =>
                 /\ thread[t].pc = "look" /\ queue' = queue
                 /\ \/ thread'[t].pc = "sweep" /\ thread'[t].swept = thread[t].swept
                    \/ thread'[t].pc = "takeDown"
                    \/ /\ thread'[t].pc = "pop" /\ thread'[t].outcome = "disconnected"
                       /\ uuid # NoUuid /\ ~Active(uuid)
<1>1. CheckBeforeAdd(t) => /\ thread[t].pc = "check" /\ queue' = queue
                           /\ Goto(t, "add") \/ EndOperation(t, "cancelled", NoUuid)
  BY DEF CheckBeforeAdd, backend
<1>2. CheckAfterAdd(t) => /\ thread[t].pc = "addedCheck" /\ queue' = queue
                          /\ \/ Goto(t, "activate")
                             \/ EndOperation(t, "cancelled", thread[t].mine)
  BY DEF CheckAfterAdd, backend
<1>3. CheckAfterActivate(t) => /\ thread[t].pc = "lastCheck" /\ queue' = queue
                               /\ \/ Goto(t, "undoDown")
                                  \/ EndOperation(t, "connected", uuid)
  BY DEF CheckAfterActivate, backend
<1>4. Look(t) => /\ thread[t].pc = "look" /\ queue' = queue
                 /\ \/ Goto(t, "sweep")
                    \/ Goto(t, "takeDown")
                    \/ /\ EndOperation(t, "disconnected", NoUuid)
                       /\ uuid # NoUuid /\ ~Active(uuid)
  BY DEF Look, backend
<1>5. QED
  BY <1>1, <1>2, <1>3, <1>4, GotoResult, EndResult

(* A step of the loop leaves the connect operation where it was, or ahead. *)
Advances(t) ==
    /\ queue' = queue
    /\ thread'[t].pc \in Connecting => thread[t].pc \in Connecting
    /\ thread'[t].pc \in BeforeActivation => thread[t].pc \in BeforeActivation
    /\ \A v \in Threads \ {t} : thread'[v] = thread[v] /\ thread'[v].pc \in Gone

LEMMA AdvancesKeeps ==
    ASSUME OneConnect, NEW t \in Threads, Advances(t)
    PROVE  OneConnect'
<1>1. Queued("connect")' = Queued("connect")
  BY DEF Advances, Queued
<1>2. \A v \in Threads : thread'[v].pc \in Connecting => thread[v].pc \in Connecting
  BY DEF Advances
<1>3. QED
  BY <1>1, <1>2 DEF OneConnect, Advances

LEMMA ShrinkingKeeps ==
    ASSUME FreshConnect, OwnTunnel, NEW t \in Threads, Advances(t),
           \A v \in Threads : TakenDownInv(v),
           ActiveProfiles' \subseteq ActiveProfiles, uuid' \in {uuid, NoUuid}
    PROVE  FreshConnect' /\ OwnTunnel' /\ \A v \in Threads \ {t} : TakenDownInv(v)'
<1>1. Status' => Status
  BY DEF Status
<1>2. Queued("connect")' = Queued("connect")
  BY DEF Advances, Queued
<1>3. \A v \in Threads : thread'[v].pc \in BeforeActivation => thread[v].pc \in BeforeActivation
  BY DEF Advances
<1>4. FreshConnect'
  BY <1>1, <1>2, <1>3 DEF FreshConnect
<1>5. OwnTunnel'
  BY DEF OwnTunnel
<1>6. \A v \in Threads \ {t} : TakenDownInv(v)'
  BY DEF Advances, TakenDownInv, Gone
<1>7. QED
  BY <1>4, <1>5, <1>6

LEMMA OperationTunnel ==
    ASSUME TunnelInv, ~Faults, NEW t \in Threads, Worker(t), ~PopNext(t), ~Exit(t)
    PROVE  OneConnect' /\ FreshConnect' /\ OwnTunnel' /\ \A v \in Threads : TakenDownInv(v)'
<1>1. /\ NativeInv /\ IInv /\ DaemonType /\ OneConnect /\ FreshConnect /\ OwnTunnel
      /\ \A v \in Threads : TakenDownInv(v)
  BY DEF TunnelInv, NativeInv
<1>2. /\ queue' = queue
      /\ \A v \in Threads \ {t} : thread'[v] = thread[v] /\ thread'[v].pc \in Gone
  BY <1>1, OperationInside, WorkerNative DEF Worker, Inside
<1>3. ASSUME thread'[t].pc \in Connecting => thread[t].pc \in Connecting,
             thread'[t].pc \in BeforeActivation => thread[t].pc \in BeforeActivation,
             ActiveProfiles' \subseteq ActiveProfiles, uuid' \in {uuid, NoUuid}, TakenDownInv(t)'
      PROVE  OneConnect' /\ FreshConnect' /\ OwnTunnel' /\ \A v \in Threads : TakenDownInv(v)'
  <2>1. Advances(t)
    BY <1>2, <1>3 DEF Advances
  <2>2. QED
    BY <1>1, <1>3, <2>1, AdvancesKeeps, ShrinkingKeeps
<1>4. CASE AddProfile(t)
  <2>1. thread[t].pc = "add" /\ thread'[t].pc = "addedCheck" /\ ActiveProfiles' = ActiveProfiles
    BY <1>1, <1>4, AddProfileNative DEF AddProfile
  <2>2. ActiveProfiles = {}
    BY <1>1, <2>1 DEF FreshConnect, BeforeActivation, Status
  <2>3. Advances(t)
    BY <1>2, <2>1 DEF Advances, Connecting, BeforeActivation
  <2>4. OneConnect'
    BY <1>1, <2>3, AdvancesKeeps
  <2>5. ActiveProfiles' = {} /\ ~Status'
    BY <2>1, <2>2 DEF Status
  <2>6. FreshConnect'
    BY <2>5 DEF FreshConnect
  <2>7. OwnTunnel'
    BY <2>5 DEF OwnTunnel
  <2>8. \A v \in Threads : TakenDownInv(v)'
    BY <1>2, <2>1, <2>5 DEF TakenDownInv, Gone
  <2>9. QED
    BY <2>4, <2>6, <2>7, <2>8
<1>5. CASE Activate(t)
  <2>1. /\ thread[t].pc = "activate" /\ thread'[t].pc \in {"lastCheck", "pop"}
        /\ thread'[t].pc = "pop" => thread'[t].outcome = "failed"
        /\ uuid' = uuid /\ uuid \in Uuids /\ ActiveProfiles' \subseteq ActiveProfiles \cup {uuid}
    BY <1>1, <1>5, ActivateNative DEF Activate
  <2>2. ActiveProfiles' \subseteq {uuid}
    BY <1>1, <2>1 DEF FreshConnect, BeforeActivation, Status
  <2>3. Advances(t)
    BY <1>2, <2>1 DEF Advances, Connecting, BeforeActivation
  <2>4. OneConnect'
    BY <1>1, <2>3, AdvancesKeeps
  <2>5. OwnTunnel'
    BY <2>1, <2>2 DEF OwnTunnel
  <2>6. FreshConnect'
    <3>1. ~Queued("connect")
      BY <1>1, <2>1 DEF OneConnect, Connecting
    <3>2. ~Queued("connect")'
      BY <1>2, <3>1 DEF Queued
    <3>3. \A v \in Threads : thread'[v].pc \notin BeforeActivation
      BY <1>2, <2>1 DEF BeforeActivation, Gone
    <3>4. QED
      BY <3>2, <3>3 DEF FreshConnect
  <2>7. \A v \in Threads : TakenDownInv(v)'
    BY <1>2, <2>1 DEF TakenDownInv, Gone
  <2>8. QED
    BY <2>4, <2>5, <2>6, <2>7
<1>6. CASE CheckBeforeAdd(t) \/ CheckAfterAdd(t) \/ CheckAfterActivate(t)
  <2>1. ActiveProfiles' = ActiveProfiles /\ uuid' = uuid
    BY <1>1, <1>6, LookingNative
  <2>2. \/ thread[t].pc = "check" /\ thread'[t].pc = "add"
        \/ thread[t].pc = "addedCheck" /\ thread'[t].pc = "activate"
        \/ thread[t].pc = "lastCheck" /\ thread'[t].pc = "undoDown"
        \/ thread'[t].pc = "pop" /\ thread'[t].outcome \in {"cancelled", "connected"}
    BY <1>1, <1>6, LookingMoves
  <2>3. TakenDownInv(t)'
    BY <2>2 DEF TakenDownInv
  <2>4. QED
    BY <1>3, <2>1, <2>2, <2>3 DEF Connecting, BeforeActivation
<1>7. CASE Look(t)
  <2>1. ActiveProfiles' = ActiveProfiles /\ uuid' = uuid
    BY <1>1, <1>7, LookingNative
  <2>2. thread[t].pc = "look" /\ thread[t].swept = 0
    BY <1>1, <1>7 DEF Look, TakenDownInv
  <2>3. \/ thread'[t].pc = "sweep" /\ thread'[t].swept = 0
        \/ thread'[t].pc = "takeDown"
        \/ thread'[t].pc = "pop" /\ uuid # NoUuid /\ ~Active(uuid)
    BY <1>1, <1>7, <2>2, LookingMoves
  <2>4. uuid # NoUuid /\ ~Active(uuid) => ~Status
    BY <1>1 DEF OwnTunnel, Status, ActiveProfiles, Active
  <2>5. TakenDownInv(t)'
    BY <2>1, <2>3, <2>4 DEF TakenDownInv, Status
  <2>6. QED
    BY <1>3, <2>1, <2>3, <2>5 DEF Connecting, BeforeActivation
<1>8. CASE Undo(t) \/ TakeDown(t)
  <2>1. /\ uuid' \in {uuid, NoUuid} /\ uuid \in Uuids
        /\ ActiveProfiles' \subseteq ActiveProfiles \ {uuid}
        /\ thread'[t].pc \in {"undoDelete", "delete", "sweep", "pop"}
    BY <1>1, <1>8, RemovalNative
  <2>2. ~Status'
    BY <1>1, <2>1, BackendAssumption DEF OwnTunnel, Status
  <2>3. thread'[t].pc = "undoDelete" => thread[t].pc \in Connecting
    BY <1>1, <1>8, GotoResult, EndResult DEF Undo, TakeDown, Connecting
  <2>4. thread'[t].pc # "sweep"
    BY <1>1, <1>8, GotoResult, EndResult DEF Undo, TakeDown
  <2>5. TakenDownInv(t)'
    BY <2>1, <2>2, <2>4 DEF TakenDownInv
  <2>6. QED
    BY <1>3, <2>1, <2>3, <2>5 DEF Connecting, BeforeActivation
<1>9. CASE Sweep(t)
  <2>1. /\ ActiveProfiles' \subseteq ActiveProfiles /\ uuid' \in {uuid, NoUuid}
        /\ \/ thread'[t].pc = "pop" /\ (thread[t].swept = 3 \/ ~Status)
           \/ \E u \in ActiveProfiles : ActiveProfiles' \subseteq ActiveProfiles \ {u}
    BY <1>1, <1>9, RemovalNative
  <2>2. thread[t].pc = "sweep"
    BY <1>9 DEF Sweep
  <2>3. ~Status'
    BY <1>1, <2>1, <2>2 DEF OwnTunnel, TakenDownInv, Status
  <2>4. thread'[t].pc \in {"sweep", "pop"}
    <3>1. CASE EndOperation(t, "disconnected", NoUuid)
      BY <1>1, <3>1, EndResult
    <3>2. CASE thread' = [thread EXCEPT ![t].swept = @ + 1]
      BY <1>1, <2>2, <3>2 DEF IInv, QueueType, ThreadState
    <3>3. QED
      BY <1>9, <3>1, <3>2 DEF Sweep
  <2>5. TakenDownInv(t)'
    BY <2>3, <2>4 DEF TakenDownInv
  <2>6. QED
    BY <1>3, <2>1, <2>4, <2>5 DEF Connecting, BeforeActivation
<1>10. QED
  BY <1>4, <1>5, <1>6, <1>7, <1>8, <1>9 DEF Worker

LEMMA PopTunnel ==
    ASSUME TunnelInv, NEW t \in Threads, PopNext(t) \/ Exit(t)
    PROVE  OneConnect' /\ FreshConnect' /\ OwnTunnel' /\ \A v \in Threads : TakenDownInv(v)'
<1>1. /\ NativeInv /\ QueueType /\ OneConnect /\ FreshConnect /\ OwnTunnel
      /\ \A v \in Threads : TakenDownInv(v)
  BY DEF TunnelInv, NativeInv, IInv
<1>2. /\ ActiveProfiles' = ActiveProfiles /\ uuid' = uuid
      /\ \A v \in Threads : v # t => thread'[v] = thread[v]
      /\ \/ /\ thread'[t].pc \in {"exiting", "dead"} /\ queue' = queue
         \/ /\ queue # <<>> /\ queue' = Tail(queue)
            /\ thread'[t].swept = 0
            /\ thread'[t].pc = IF Head(queue) = "connect" THEN "check" ELSE "look"
  BY <1>1, PopNative
<1>3. OwnTunnel'
  BY <1>1, <1>2 DEF OwnTunnel
<1>4. Status' = Status
  BY <1>2 DEF Status
<1>5. \A v \in Threads : TakenDownInv(v)'
  BY <1>1, <1>2, <1>4 DEF TakenDownInv
<1>6. CASE thread'[t].pc \in {"exiting", "dead"} /\ queue' = queue
  <2>1. \A v \in Threads : /\ thread'[v].pc \in Connecting => thread[v].pc \in Connecting
                           /\ thread'[v].pc \in BeforeActivation => thread[v].pc \in BeforeActivation
    BY <1>2, <1>6 DEF Connecting, BeforeActivation
  <2>2. Queued("connect")' = Queued("connect")
    BY <1>6 DEF Queued
  <2>3. OneConnect'
    BY <1>1, <1>6, <2>1, <2>2 DEF OneConnect
  <2>4. FreshConnect'
    BY <1>1, <1>4, <2>1, <2>2 DEF FreshConnect
  <2>5. QED
    BY <1>3, <1>5, <2>3, <2>4
<1>7. CASE /\ queue # <<>> /\ queue' = Tail(queue)
           /\ thread'[t].pc = IF Head(queue) = "connect" THEN "check" ELSE "look"
  <2>1. /\ 1 \in 1..Len(queue) /\ queue[1] = Head(queue)
        /\ \A i \in 1..Len(queue') : i + 1 \in 1..Len(queue) /\ i + 1 # 1
                                     /\ queue'[i] = queue[i + 1]
    BY <1>1, <1>7, TailQueued
  <2>2. Queued("connect")' => Queued("connect")
    BY <2>1 DEF Queued
  <2>3. Head(queue) = "connect" => Queued("connect") /\ ~Queued("connect")'
    <3>1. ASSUME Head(queue) = "connect", NEW i \in 1..Len(queue'), queue'[i] = "connect"
          PROVE  FALSE
      BY <1>1, <2>1, <3>1 DEF OneConnect
    <3>2. QED
      BY <2>1, <3>1 DEF Queued
  <2>4. \A i, j \in 1..Len(queue') : queue'[i] = "connect" /\ queue'[j] = "connect" => i = j
    <3>1. SUFFICES ASSUME NEW i \in 1..Len(queue'), NEW j \in 1..Len(queue'),
                          queue'[i] = "connect", queue'[j] = "connect"
                   PROVE  i = j
      OBVIOUS
    <3>2. i + 1 = j + 1
      BY <1>1, <2>1, <3>1 DEF OneConnect
    <3>3. QED
      BY <3>2
  <2>5. \A v \in Threads : thread'[v].pc \in Connecting => ~Queued("connect")'
    <3>1. SUFFICES ASSUME NEW v \in Threads, thread'[v].pc \in Connecting
                   PROVE  ~Queued("connect")'
      OBVIOUS
    <3>2. CASE v = t
      BY <1>7, <2>3, <3>1, <3>2 DEF Connecting
    <3>3. CASE v # t
      BY <1>1, <1>2, <2>2, <3>1, <3>3 DEF OneConnect
    <3>4. QED
      BY <3>2, <3>3
  <2>6. OneConnect'
    BY <2>4, <2>5 DEF OneConnect
  <2>7. \A v \in Threads : thread'[v].pc \in BeforeActivation => ~Status
    <3>1. SUFFICES ASSUME NEW v \in Threads, thread'[v].pc \in BeforeActivation
                   PROVE  ~Status
      OBVIOUS
    <3>2. CASE v = t
      BY <1>1, <1>7, <2>3, <3>1, <3>2 DEF FreshConnect, BeforeActivation
    <3>3. CASE v # t
      BY <1>1, <1>2, <3>1, <3>3 DEF FreshConnect
    <3>4. QED
      BY <3>2, <3>3
  <2>8. FreshConnect'
    BY <1>1, <1>4, <2>2, <2>7 DEF FreshConnect
  <2>9. QED
    BY <1>3, <1>5, <2>6, <2>8
<1>8. QED
  BY <1>2, <1>6, <1>7

LEMMA InitTunnel == Init => TunnelInv
<1> SUFFICES ASSUME Init PROVE TunnelInv
  OBVIOUS
<1>1. NativeInv
  BY InitNative
<1>2. queue = <<>> /\ uuid = NoUuid /\ profiles = {} /\ \A t \in Threads : thread[t] = Dead
  BY DEF Init
<1>3. OneConnect /\ FreshConnect
  BY <1>2 DEF OneConnect, FreshConnect, Queued, Dead, Connecting, BeforeActivation
<1>4. OwnTunnel
  BY <1>2 DEF OwnTunnel, ActiveProfiles
<1>5. \A t \in Threads : TakenDownInv(t)
  BY <1>2 DEF TakenDownInv, Dead
<1>6. QED
  BY <1>1, <1>3, <1>4, <1>5 DEF TunnelInv

LEMMA NextTunnel ==
    ASSUME TunnelInv, ~Faults, Polite, [Next]_vars
    PROVE  TunnelInv'
<1>1. NativeInv /\ NativeInv'
  BY NextNative DEF TunnelInv
<1>2. CASE \E t \in Threads : Worker(t)
  BY <1>1, <1>2, OperationTunnel, PopTunnel DEF TunnelInv
<1>3. CASE Outside
  BY <1>1, <1>3, OutsideAside, AsideTunnel DEF TunnelInv
<1>4. QED
  BY <1>2, <1>3 DEF Next, Outside

(* When a disconnect operation is over nothing of this backend is up, even *)
(* after a restart that forgot the profile's UUID: the sweep has found the *)
(* profile that the dead process activated.                                *)
THEOREM DisconnectLeavesNothing ==
    ASSUME ~Faults, Polite
    PROVE  Spec => []DisconnectTakesDown
<1>1. TunnelInv => DisconnectTakesDown
  BY DEF TunnelInv, TakenDownInv, DisconnectTakesDown
<1>2. TunnelInv /\ [Next]_vars => TunnelInv'
  BY NextTunnel
<1>3. QED
  BY InitTunnel, <1>1, <1>2, PTL DEF Spec

(* Never two tunnels: connect() asks for the status first, and what the    *)
(* answer said still holds when the worker activates the profile.          *)
THEOREM AtMostOneTunnel ==
    ASSUME ~Faults, Polite
    PROVE  Spec => []OneTunnel
<1>1. TunnelInv => OneTunnel
  <2> SUFFICES ASSUME TunnelInv PROVE Cardinality(ActiveProfiles) <= 1
    BY DEF OneTunnel
  <2>1. \A u, v \in ActiveProfiles : u = v
    BY DEF TunnelInv, OwnTunnel
  <2>2. CASE ActiveProfiles = {}
    BY <2>2, FS_EmptySet
  <2>3. ASSUME NEW u \in ActiveProfiles PROVE Cardinality(ActiveProfiles) <= 1
    <3>1. ActiveProfiles = {u}
      BY <2>1, <2>3
    <3>2. Cardinality({u}) = 1
      BY FS_Singleton
    <3>3. QED
      BY <3>1, <3>2
  <2>4. QED
    BY <2>2, <2>3
<1>2. TunnelInv /\ [Next]_vars => TunnelInv'
  BY NextTunnel
<1>3. QED
  BY InitTunnel, <1>1, <1>2, PTL DEF Spec
-----------------------------------------------------------------------------
(* What a step does to the tunnels and to what the callback will hear,     *)
(* whether NetworkManager obeys or not.                                    *)

Signals ==
    /\ cancel \in BOOLEAN /\ suppress \in BOOLEAN /\ watch \in BOOLEAN
    /\ ui \in {"free", "cancelling", "suppressing"}
    /\ bus \in Seq({"up", "down"})
    /\ late \in Nat /\ failures \in Nat /\ refusals \in Nat
    /\ heard \in {"none", "up", "down", "fail"}
    /\ calls \in Nat

TypeInv == IInv /\ DaemonType /\ Signals

InOp == Connecting \cup Disconnecting
Undoing == {"undoDown", "undoDelete"}

SameTunnels ==
    /\ ActiveProfiles' = ActiveProfiles
    /\ \A u \in ActiveProfiles : act'[u] = act[u]
    /\ bus' = bus

LosesTunnel ==
    /\ \E u \in ActiveProfiles : ActiveProfiles' = ActiveProfiles \ {u}
    /\ \A u \in ActiveProfiles' : act'[u] = act[u]
    /\ bus' = Signal("down")

LEMMA TakenDownEffect ==
    ASSUME DaemonType, NEW u, TakenDown(u), profiles' \in {profiles, profiles \ {u}}
    PROVE  DaemonType' /\ (SameTunnels \/ LosesTunnel)
<1>1. act' \in [Uuids -> {"down", "activating", "up"}]
      /\ \A w \in Uuids : act'[w] = IF w = u THEN "down" ELSE act[w]
  BY DEF TakenDown, DaemonType
<1>2. DaemonType'
  BY GoingDown
<1>3. ActiveProfiles' = ActiveProfiles \ {u}
  BY <1>1 DEF ActiveProfiles, DaemonType
<1>4. \A w \in ActiveProfiles' : act'[w] = act[w]
  BY <1>1, <1>3 DEF ActiveProfiles, DaemonType
<1>5. CASE Active(u)
  <2>1. u \in ActiveProfiles /\ bus' = Signal("down")
    BY <1>5 DEF TakenDown, Active, ActiveProfiles
  <2>2. QED
    BY <1>2, <1>3, <1>4, <2>1 DEF LosesTunnel
<1>6. CASE ~Active(u)
  <2>1. u \notin ActiveProfiles /\ bus' = bus
    BY <1>6 DEF TakenDown, Active, ActiveProfiles
  <2>2. ActiveProfiles' = ActiveProfiles
    BY <1>3, <2>1
  <2>3. QED
    BY <1>2, <1>4, <2>1, <2>2 DEF SameTunnels
<1>7. QED
  BY <1>5, <1>6

LEMMA SameEffect ==
    ASSUME DaemonType, UNCHANGED <<profiles, act, bus>>
    PROVE  DaemonType' /\ SameTunnels
BY NothingChanges DEF SameTunnels

LEMMA DeletedOrNot ==
    ASSUME DaemonType, NEW u, NMDelete(u) \/ (NMDisconnect(u) /\ profiles' = profiles)
    PROVE  DaemonType' /\ (SameTunnels \/ LosesTunnel)
<1>1. CASE TakenDown(u) /\ profiles' \in {profiles, profiles \ {u}}
  BY <1>1, TakenDownEffect
<1>2. CASE UNCHANGED <<profiles, act, bus>>
  BY <1>2, SameEffect
<1>3. QED
  BY <1>1, <1>2 DEF NMDelete, NMDisconnect

(* What a step of a worker does: it takes an operation from the queue, it  *)
(* goes on or is over, it fails before anything is up, it activates its    *)
(* profile, or it takes a tunnel down.                                     *)
Onward(t) ==
    /\ thread[t].pc \in BeforeActivation => thread'[t].pc \in BeforeActivation \/ cancel
    /\ thread'[t].pc \in BeforeActivation => thread[t].pc \in BeforeActivation
    /\ thread'[t].pc \in InOp => thread[t].pc \in InOp
    /\ thread'[t].pc \in Undoing => thread[t].pc \in Undoing \/ cancel

Takes(t) ==
    /\ queue # <<>> /\ queue' = Tail(queue)
    /\ ~cancel' /\ ~suppress' /\ failures' = failures
    /\ SameTunnels
    /\ thread[t].pc = "pop"
    /\ thread'[t].pc = IF Head(queue) = "connect" THEN "check" ELSE "look"

Works(t) ==
    /\ UNCHANGED <<queue, cancel, suppress, failures>>
    /\ SameTunnels
    /\ Onward(t)

Fails(t) ==
    /\ UNCHANGED <<queue, cancel, suppress>>
    /\ SameTunnels
    /\ thread[t].pc \in BeforeActivation /\ thread'[t].pc = "pop"
    /\ failures' = IF cancel THEN failures ELSE failures + 1

Activates(t) ==
    /\ UNCHANGED <<queue, cancel, suppress, profiles, bus>>
    /\ uuid \in profiles
    /\ act' = [act EXCEPT ![uuid] = "activating"]
    /\ thread[t].pc = "activate"
    /\ \/ thread'[t].pc = "lastCheck" /\ failures' = failures
       \/ /\ thread'[t].pc = "pop" /\ failures' \in {failures, failures + 1}
          /\ thread'[t].outcome = "failed" /\ thread'[t].mine = uuid

Removes(t) ==
    /\ UNCHANGED <<queue, cancel, suppress, failures>>
    /\ LosesTunnel
    /\ thread[t].pc \notin BeforeActivation
    /\ Onward(t)

Effect(t) == Takes(t) \/ Works(t) \/ Fails(t) \/ Activates(t) \/ Removes(t)

(* Going on without a look at the flags.                                   *)
LEMMA Goes ==
    ASSUME NEW t \in Threads, thread[t].pc \notin BeforeActivation,
           thread'[t].pc \notin BeforeActivation,
           thread'[t].pc \in InOp => thread[t].pc \in InOp,
           thread'[t].pc \in Undoing => thread[t].pc \in Undoing,
           UNCHANGED <<queue, cancel, suppress, failures>>,
           SameTunnels \/ LosesTunnel
    PROVE  Effect(t)
<1>1. Onward(t)
  BY DEF Onward
<1>2. QED
  BY <1>1 DEF Effect, Works, Removes


(* The connect operation up to its activation.                             *)
LEMMA ConnectEffect ==
    ASSUME TypeInv, NEW t \in Threads,
           CheckBeforeAdd(t) \/ AddProfile(t) \/ CheckAfterAdd(t) \/ Activate(t)
    PROVE  DaemonType' /\ Effect(t)
<1>1. IInv /\ DaemonType /\ Signals
  BY DEF TypeInv
<1>2. ASSUME thread[t].pc \in BeforeActivation, UNCHANGED <<queue, cancel, suppress>>,
             SameTunnels, NEW u, Raise(t, u)
      PROVE  Fails(t)
  BY <1>1, <1>2, EndResult DEF Raise, Fails
<1>3. ASSUME thread[t].pc \in BeforeActivation, thread'[t].pc \in BeforeActivation,
             UNCHANGED <<queue, cancel, suppress, failures>>, SameTunnels
      PROVE  Works(t)
  BY <1>3 DEF Works, Onward, BeforeActivation, InOp, Connecting, Disconnecting, Undoing
<1>4. ASSUME thread[t].pc \in BeforeActivation, thread'[t].pc = "pop", cancel,
             UNCHANGED <<queue, cancel, suppress, failures>>, SameTunnels
      PROVE  Works(t)
  BY <1>4 DEF Works, Onward, BeforeActivation, InOp, Connecting, Disconnecting, Undoing
<1>5. CASE CheckBeforeAdd(t)
  <2>1. /\ thread[t].pc \in BeforeActivation
        /\ UNCHANGED <<queue, cancel, suppress, profiles, act, bus>>
    BY <1>5 DEF CheckBeforeAdd, BeforeActivation, backend, daemon
  <2>2. DaemonType' /\ SameTunnels
    BY <1>1, <2>1, SameEffect
  <2>3. CASE Raise(t, NoUuid)
    BY <1>2, <2>1, <2>2, <2>3 DEF Effect
  <2>4. CASE cancel /\ EndOperation(t, "cancelled", NoUuid) /\ UNCHANGED failures
    BY <1>1, <1>4, <2>1, <2>2, <2>4, EndResult DEF Effect
  <2>5. CASE Goto(t, "add") /\ UNCHANGED failures
    <3>1. thread'[t].pc = "add"
      BY <1>1, <2>5, GotoResult
    <3>2. QED
      BY <1>3, <2>1, <2>2, <2>5, <3>1 DEF Effect, BeforeActivation
  <2>6. QED
    BY <1>5, <2>3, <2>4, <2>5 DEF CheckBeforeAdd
<1>6. CASE AddProfile(t)
  <2>1. /\ thread[t].pc \in BeforeActivation
        /\ UNCHANGED <<queue, cancel, suppress, act, bus>>
    BY <1>6 DEF AddProfile, BeforeActivation
  <2>2. \/ profiles' = profiles
        \/ \E u \in Uuids \ profiles : profiles' = profiles \cup {u}
    BY <1>6 DEF AddProfile
  <2>3. DaemonType' /\ SameTunnels
    <3>1. CASE profiles' = profiles
      BY <1>1, <2>1, <3>1, SameEffect
    <3>2. ASSUME NEW u \in Uuids \ profiles, profiles' = profiles \cup {u}
          PROVE  DaemonType' /\ SameTunnels
      <4>1. act[u] = "down"
        BY <1>1, <3>2 DEF DaemonType
      <4>2. ActiveProfiles' = ActiveProfiles
        BY <2>1, <3>2, <4>1 DEF ActiveProfiles
      <4>3. QED
        BY <1>1, <2>1, <3>2, <4>2 DEF DaemonType, SameTunnels
    <3>3. QED
      BY <2>2, <3>1, <3>2
  <2>4. CASE Raise(t, NoUuid)
    BY <1>2, <2>1, <2>3, <2>4 DEF Effect
  <2>5. ASSUME NEW u, UNCHANGED failures,
               thread' = [thread EXCEPT ![t].pc = "addedCheck", ![t].mine = u]
        PROVE  Works(t)
    <3>1. thread'[t].pc = "addedCheck"
      BY <1>1, <2>5 DEF IInv, QueueType, ThreadState
    <3>2. QED
      BY <1>3, <2>1, <2>3, <2>5, <3>1 DEF BeforeActivation
  <2>6. QED
    BY <1>6, <2>3, <2>4, <2>5 DEF AddProfile, Effect
<1>7. CASE CheckAfterAdd(t)
  <2>1. /\ thread[t].pc \in BeforeActivation
        /\ UNCHANGED <<queue, cancel, suppress, failures, profiles, act, bus>>
    BY <1>7 DEF CheckAfterAdd, BeforeActivation, backend, daemon, inbox
  <2>2. DaemonType' /\ SameTunnels
    BY <1>1, <2>1, SameEffect
  <2>3. CASE cancel /\ EndOperation(t, "cancelled", thread[t].mine)
    BY <1>1, <1>4, <2>1, <2>2, <2>3, EndResult DEF Effect
  <2>4. CASE Goto(t, "activate")
    <3>1. thread'[t].pc = "activate"
      BY <1>1, <2>4, GotoResult
    <3>2. QED
      BY <1>3, <2>1, <2>2, <3>1 DEF Effect, BeforeActivation
  <2>5. QED
    BY <1>7, <2>3, <2>4 DEF CheckAfterAdd
<1>8. CASE Activate(t)
  <2>1. /\ thread[t].pc = "activate"
        /\ UNCHANGED <<queue, cancel, suppress, profiles, bus>>
    BY <1>8 DEF Activate, backend
  <2>2. thread[t].pc \in BeforeActivation
    BY <2>1 DEF BeforeActivation
  <2>3. CASE Raise(t, uuid) /\ UNCHANGED act
    <3>1. DaemonType' /\ SameTunnels
      BY <1>1, <2>1, <2>3, SameEffect
    <3>2. QED
      BY <1>2, <2>1, <2>2, <2>3, <3>1 DEF Effect
  <2>4. CASE uuid \in profiles /\ act' = [act EXCEPT ![uuid] = "activating"]
    <3>1. DaemonType'
      BY <1>1, <2>1, <2>4 DEF DaemonType
    <3>2. CASE Goto(t, "lastCheck") /\ UNCHANGED failures
      <4>1. thread'[t].pc = "lastCheck"
        BY <1>1, <3>2, GotoResult
      <4>2. QED
        BY <2>1, <2>4, <3>1, <3>2, <4>1 DEF Effect, Activates
    <3>3. CASE Raise(t, uuid)
      <4>1. /\ thread'[t].pc = "pop" /\ thread'[t].outcome = "failed" /\ thread'[t].mine = uuid
            /\ failures' \in {failures, failures + 1}
        BY <1>1, <3>3, EndResult DEF Raise
      <4>2. QED
        BY <2>1, <2>4, <3>1, <4>1 DEF Effect, Activates
    <3>4. QED
      BY <1>8, <2>3, <3>2, <3>3 DEF Activate
  <2>5. QED
    BY <1>8, <2>3, <2>4 DEF Activate
<1>9. QED
  BY <1>5, <1>6, <1>7, <1>8


(* The end of a connect operation, and the disconnect operation.           *)
LEMMA RemovalEffect ==
    ASSUME TypeInv, NEW t \in Threads,
           CheckAfterActivate(t) \/ Undo(t) \/ Look(t) \/ TakeDown(t) \/ Sweep(t)
    PROVE  DaemonType' /\ Effect(t)
<1> USE DEF BeforeActivation, InOp, Connecting, Disconnecting, Undoing
<1>1. IInv /\ DaemonType /\ Signals
  BY DEF TypeInv
<1>2. UNCHANGED <<queue, cancel, suppress, failures>>
  BY DEF CheckAfterActivate, Undo, Look, TakeDown, Sweep, backend, inbox
<1>3. CASE CheckAfterActivate(t) \/ Look(t)
  <2>1. UNCHANGED <<profiles, act, bus>> /\ thread[t].pc \in {"lastCheck", "look"}
    BY <1>3 DEF CheckAfterActivate, Look, daemon
  <2>2. DaemonType' /\ SameTunnels
    BY <1>1, <2>1, SameEffect
  <2>3. CASE cancel /\ Goto(t, "undoDown")
    <3>1. thread'[t].pc = "undoDown"
      BY <1>1, <2>3, GotoResult
    <3>2. Works(t)
      BY <1>2, <2>1, <2>2, <2>3, <3>1 DEF Works, Onward
    <3>3. QED
      BY <2>2, <3>2 DEF Effect
  <2>4. ASSUME thread'[t].pc \in {"sweep", "takeDown", "pop"}
        PROVE  Effect(t)
    BY <1>2, <2>1, <2>2, <2>4, Goes
  <2>5. CASE Goto(t, "sweep") \/ Goto(t, "takeDown")
    BY <1>1, <2>2, <2>4, <2>5, GotoResult
  <2>6. CASE \E outcome, u : EndOperation(t, outcome, u)
    BY <1>1, <2>2, <2>4, <2>6, EndResult
  <2>7. QED
    BY <1>3, <2>3, <2>5, <2>6 DEF CheckAfterActivate, Look
<1>4. CASE Undo(t)
  <2>1. /\ thread[t].pc \in Undoing
        /\ NMDelete(uuid) \/ (NMDisconnect(uuid) /\ profiles' = profiles)
    BY <1>4 DEF Undo
  <2>2. DaemonType' /\ (SameTunnels \/ LosesTunnel)
    BY <1>1, <2>1, DeletedOrNot
  <2>3. thread'[t].pc \in {"undoDelete", "pop"}
    <3>1. Goto(t, "undoDelete") \/ EndOperation(t, "cancelled", uuid)
      BY <1>4 DEF Undo
    <3>2. QED
      BY <1>1, <3>1, GotoResult, EndResult
  <2>4. QED
    BY <1>2, <2>1, <2>2, <2>3, Goes
<1>5. CASE TakeDown(t)
  <2>1. /\ thread[t].pc \in {"takeDown", "delete"}
        /\ NMDelete(uuid) \/ (NMDisconnect(uuid) /\ profiles' = profiles)
    BY <1>5 DEF TakeDown
  <2>2. DaemonType' /\ (SameTunnels \/ LosesTunnel)
    BY <1>1, <2>1, DeletedOrNot
  <2>3. thread'[t].pc \in {"delete", "pop"}
    <3>1. Goto(t, "delete") \/ EndOperation(t, "disconnected", NoUuid)
      BY <1>5 DEF TakeDown
    <3>2. QED
      BY <1>1, <3>1, GotoResult, EndResult
  <2>4. QED
    BY <1>2, <2>1, <2>2, <2>3, Goes
<1>6. CASE Sweep(t)
  <2>1. thread[t].pc = "sweep" /\ profiles' = profiles
    BY <1>6 DEF Sweep
  <2>2. CASE EndOperation(t, "disconnected", NoUuid) /\ UNCHANGED <<act, bus>>
    <3>1. thread'[t].pc = "pop"
      BY <1>1, <2>2, EndResult
    <3>2. DaemonType' /\ SameTunnels
      BY <1>1, <2>1, <2>2, SameEffect
    <3>3. QED
      BY <1>2, <2>1, <3>1, <3>2, Goes
  <2>3. ASSUME NEW u, NMDisconnect(u), thread' = [thread EXCEPT ![t].swept = @ + 1]
        PROVE  DaemonType' /\ Effect(t)
    <3>1. thread'[t].pc = "sweep"
      BY <1>1, <2>1, <2>3 DEF IInv, QueueType, ThreadState
    <3>2. DaemonType' /\ (SameTunnels \/ LosesTunnel)
      BY <1>1, <2>1, <2>3, DeletedOrNot
    <3>3. QED
      BY <1>2, <2>1, <3>1, <3>2, Goes
  <2>4. QED
    BY <1>6, <2>2, <2>3 DEF Sweep
<1>7. QED
  BY <1>3, <1>4, <1>5, <1>6

(* Taking the next operation, and leaving the loop.                        *)
LEMMA PopEffect ==
    ASSUME TypeInv, NEW t \in Threads, PopNext(t) \/ Exit(t)
    PROVE  DaemonType' /\ Effect(t)
<1> USE DEF BeforeActivation, InOp, Connecting, Disconnecting, Undoing
<1>1. IInv /\ DaemonType /\ Signals /\ thread[t] \in ThreadState
  BY DEF TypeInv, IInv, QueueType
<1>2. UNCHANGED <<profiles, act, bus, failures>>
  BY DEF PopNext, Exit, daemon, inbox
<1>3. DaemonType' /\ SameTunnels
  BY <1>1, <1>2, SameEffect
<1>4. CASE Exit(t)
  <2>1. thread[t].pc = "exiting" /\ thread'[t].pc = "dead"
    BY <1>1, <1>4 DEF Exit, Dead, IInv, QueueType
  <2>2. UNCHANGED <<queue, cancel, suppress>>
    BY <1>4 DEF Exit, backend
  <2>3. QED
    BY <1>2, <1>3, <2>1, <2>2, Goes
<1>5. CASE Pop(t) /\ queue = <<>>
  <2>1. thread[t].pc = "pop" /\ thread'[t].pc = "exiting"
    BY <1>1, <1>5 DEF Pop, IInv, QueueType, ThreadState
  <2>2. UNCHANGED <<queue, cancel, suppress>>
    BY <1>5 DEF Pop
  <2>3. QED
    BY <1>2, <1>3, <2>1, <2>2, Goes
<1>6. CASE Pop(t) /\ queue # <<>>
  <2>1. thread'[t].pc = IF Head(queue) = "connect" THEN "check" ELSE "look"
    BY <1>1, <1>6 DEF Pop, Popping, IInv, QueueType
  <2>2. thread[t].pc = "pop" /\ queue' = Tail(queue) /\ cancel' = FALSE /\ suppress' = FALSE
    BY <1>6 DEF Pop
  <2>3. Takes(t)
    BY <1>2, <1>3, <1>6, <2>1, <2>2 DEF Takes
  <2>4. QED
    BY <1>3, <2>3 DEF Effect
<1>7. QED
  BY <1>4, <1>5, <1>6 DEF PopNext

LEMMA WorkerEffect ==
    ASSUME TypeInv, NEW t \in Threads, Worker(t)
    PROVE  /\ DaemonType' /\ Effect(t)
           /\ UNCHANGED <<watch, ui, late, refusals, calls>> /\ heard' = "none"
           /\ \A v \in Threads \ {t} : thread'[v] = thread[v]
<1>1. DaemonType' /\ Effect(t)
  BY ConnectEffect, RemovalEffect, PopEffect DEF Worker
<1>2. UNCHANGED <<watch, ui, late, refusals, calls>> /\ heard' = "none"
  BY DEF Worker, PopNext, Exit, CheckBeforeAdd, AddProfile, CheckAfterAdd, Activate,
         CheckAfterActivate, Undo, Look, TakeDown, Sweep, backend, inbox
<1>3. \A v \in Threads \ {t} : thread'[v] = thread[v]
  <2>1. IInv
    BY DEF TypeInv
  <2>2. CASE PopNext(t)
    BY <2>1, <2>2 DEF PopNext, Pop, IInv, QueueType
  <2>3. CASE Exit(t)
    BY <2>1, <2>3 DEF Exit, IInv, QueueType
  <2>4. CASE ~PopNext(t) /\ ~Exit(t)
    <3>1. Inside(t)
      BY <2>1, <2>4, OperationInside DEF Worker
    <3>2. QED
      BY <2>1, <3>1 DEF Inside, IInv, QueueType
  <2>5. QED
    BY <2>2, <2>3, <2>4
<1>4. QED
  BY <1>1, <1>2, <1>3

(* A deletion that takes tunnels down says so once, however many there     *)
(* were.                                                                   *)
LEMMA DeleteAllEffect ==
    ASSUME TypeInv, DeleteAll
    PROVE  /\ DaemonType'
           /\ \A u \in ActiveProfiles' : act'[u] = act[u]
           /\ \/ ActiveProfiles' = ActiveProfiles /\ bus' = bus
              \/ /\ ActiveProfiles' \subseteq ActiveProfiles
                 /\ ActiveProfiles' # ActiveProfiles
                 /\ bus' = Signal("down")
           /\ ~Faults => ActiveProfiles' = {}
<1>1. PICK kept \in SUBSET profiles :
         /\ Faults \/ kept = {}
         /\ profiles' = kept /\ act' = [u \in Uuids |-> IF u \in kept THEN act[u] ELSE "down"]
         /\ bus' = IF ActiveProfiles \subseteq kept THEN bus ELSE Signal("down")
  BY DEF DeleteAll
<1>2. DaemonType /\ DaemonType'
  BY DeletedAll DEF TypeInv
<1>3. ActiveProfiles' = ActiveProfiles \cap kept
  BY <1>1, <1>2 DEF DaemonType, ActiveProfiles
<1>4. \A u \in ActiveProfiles' : act'[u] = act[u]
  BY <1>1, <1>2, <1>3 DEF DaemonType, ActiveProfiles
<1>5. QED
  BY <1>1, <1>2, <1>3, <1>4

LEMMA HandshakeEffect ==
    ASSUME TypeInv, NEW u \in Uuids, HandshakeDone(u)
    PROVE  /\ DaemonType'
           /\ u \in ActiveProfiles /\ act[u] = "activating"
           /\ ActiveProfiles' = ActiveProfiles /\ act'[u] = "up"
           /\ bus' = Signal("up")
BY DEF HandshakeDone, TypeInv, DaemonType, ActiveProfiles

LEMMA GoesDownEffect ==
    ASSUME TypeInv, NEW u \in Uuids, GoesDown(u)
    PROVE  DaemonType' /\ LosesTunnel
<1>1. DaemonType /\ Active(u) /\ TakenDown(u) /\ profiles' = profiles
  BY DEF TypeInv, GoesDown
<1>2. DaemonType' /\ (SameTunnels \/ LosesTunnel)
  BY <1>1, TakenDownEffect
<1>3. ActiveProfiles' # ActiveProfiles
  BY <1>1 DEF Active, TakenDown, ActiveProfiles, DaemonType
<1>4. QED
  BY <1>2, <1>3 DEF SameTunnels


LEMMA SignalType ==
    ASSUME Signals, NEW kind \in {"up", "down"}
    PROVE  Signal(kind) \in Seq({"up", "down"})
BY DEF Signals, Signal

LEMMA WorkerSignals ==
    ASSUME TypeInv, NEW t \in Threads, Worker(t)
    PROVE  Signals'
<1>1. Signals
  BY DEF TypeInv
<1>2. /\ Effect(t) /\ UNCHANGED <<watch, ui, late, refusals, calls>> /\ heard' = "none"
  BY WorkerEffect
<1>3. bus' \in Seq({"up", "down"})
  BY <1>1, <1>2, SignalType
  DEF Signals, Effect, Takes, Works, Fails, Activates, Removes, SameTunnels, LosesTunnel
<1>4. failures' \in Nat
  BY <1>1, <1>2 DEF Signals, Effect, Takes, Works, Fails, Activates, Removes
<1>5. cancel' \in BOOLEAN /\ suppress' \in BOOLEAN
  <2>1. CASE Takes(t)
    <3>1. Pop(t) \/ UNCHANGED <<cancel, suppress>>
      BY DEF Worker, PopNext, Exit, CheckBeforeAdd, AddProfile, CheckAfterAdd, Activate,
             CheckAfterActivate, Undo, Look, TakeDown, Sweep, backend
    <3>2. QED
      BY <1>1, <3>1 DEF Signals, Pop
  <2>2. CASE UNCHANGED <<cancel, suppress>>
    BY <1>1, <2>2 DEF Signals
  <2>3. QED
    BY <1>2, <2>1, <2>2 DEF Effect, Works, Fails, Activates, Removes
<1>6. QED
  BY <1>1, <1>2, <1>3, <1>4, <1>5 DEF Signals

LEMMA InitTypeInv == Init => TypeInv
<1> SUFFICES ASSUME Init
             PROVE  TypeInv
  OBVIOUS
<1>1. IInv /\ DaemonType
  BY InitIInv DEF Init, DaemonType
<1>2. bus \in Seq({"up", "down"})
  BY DEF Init
<1>3. cancel \in BOOLEAN /\ suppress \in BOOLEAN /\ watch \in BOOLEAN
  BY DEF Init
<1>4. ui \in {"free", "cancelling", "suppressing"} /\ heard \in {"none", "up", "down", "fail"}
  BY DEF Init
<1>5. late \in Nat /\ failures \in Nat /\ refusals \in Nat /\ calls \in Nat
  BY DEF Init
<1>6. QED
  BY <1>1, <1>2, <1>3, <1>4, <1>5 DEF TypeInv, Signals

LEMMA NextTypeInv ==
    ASSUME TypeInv, [Next]_vars
    PROVE  TypeInv'
<1>1. IInv /\ DaemonType /\ Signals /\ IInv'
  BY NextIInv DEF TypeInv
<1> SUFFICES DaemonType' /\ Signals'
  BY <1>1 DEF TypeInv
<1>2. ASSUME NEW t \in Threads, Worker(t) PROVE DaemonType' /\ Signals'
  BY <1>2, WorkerEffect, WorkerSignals
<1>3. ASSUME UNCHANGED <<profiles, act>> PROVE DaemonType'
  BY <1>1, <1>3, NothingChanges
<1>4. CASE RequestConnect \/ RequestDisconnect
  <2>1. /\ UNCHANGED <<profiles, act, cancel, ui, bus, late, failures>>
        /\ heard' = "none"
    BY <1>4 DEF RequestConnect, RequestDisconnect, daemon, inbox
  <2>2. watch' \in BOOLEAN /\ suppress' \in BOOLEAN
    BY <1>1, <1>4 DEF RequestConnect, RequestDisconnect, Signals
  <2>3. Request /\ (refusals' = refusals \/ refusals' = refusals + 1)
    BY <1>4 DEF RequestConnect, RequestDisconnect, inbox
  <2>4. calls' \in Nat /\ refusals' \in Nat
    BY <1>1, <2>3 DEF Request, Signals
  <2>5. QED
    BY <1>1, <1>3, <2>1, <2>2, <2>3, <2>4 DEF Signals
<1>5. CASE SetCancel \/ SetSuppress \/ CancelClear
  <2>1. /\ UNCHANGED <<profiles, act, watch, bus, late, failures, refusals>>
        /\ heard' = "none"
    BY <1>5 DEF SetCancel, SetSuppress, CancelClear, daemon, inbox
  <2>2. cancel' \in BOOLEAN /\ suppress' \in BOOLEAN /\ ui' \in {"free", "cancelling", "suppressing"}
    BY <1>1, <1>5 DEF SetCancel, SetSuppress, CancelClear, Signals
  <2>3. calls' \in Nat
    BY <1>1, <1>5 DEF SetCancel, SetSuppress, CancelClear, Request, Signals
  <2>4. QED
    BY <1>1, <1>3, <2>1, <2>2, <2>3 DEF Signals
<1>6. CASE DeleteAll
  <2>1. DaemonType' /\ bus' \in Seq({"up", "down"})
    BY <1>1, <1>6, DeleteAllEffect, SignalType DEF Signals
  <2>2. UNCHANGED <<cancel, suppress, watch, ui, late, failures, refusals>> /\ heard' = "none"
    BY <1>6 DEF DeleteAll, backend, inbox
  <2>3. calls' \in Nat
    BY <1>1, <1>6 DEF DeleteAll, Request, Signals
  <2>4. QED
    BY <1>1, <2>1, <2>2, <2>3 DEF Signals
<1>7. CASE Callbacks
  <2>1. UNCHANGED <<profiles, act, cancel, suppress, watch, ui, calls>>
    BY <1>7 DEF Callbacks, SignalArrives, LateDisconnection, FailureNotified, RefusalNotified,
                daemon, backend
  <2>2. CASE SignalArrives
    <3>1. bus' \in Seq({"up", "down"})
      BY <1>1, <2>2 DEF SignalArrives, Signals
    <3>2. late' \in Nat /\ heard' \in {"none", "up", "down", "fail"}
          /\ UNCHANGED <<failures, refusals>>
      BY <1>1, <2>2 DEF SignalArrives, Signals, Guarded
    <3>3. QED
      BY <1>1, <1>3, <2>1, <3>1, <3>2 DEF Signals
  <2>3. CASE LateDisconnection \/ FailureNotified \/ RefusalNotified
    <3>1. /\ late' \in Nat /\ failures' \in Nat /\ refusals' \in Nat /\ bus' = bus
          /\ heard' \in {"none", "up", "down", "fail"}
      BY <1>1, <2>3 DEF LateDisconnection, FailureNotified, RefusalNotified, Signals, Guarded
    <3>2. QED
      BY <1>1, <1>3, <2>1, <3>1 DEF Signals
  <2>4. QED
    BY <1>7, <2>2, <2>3 DEF Callbacks
<1>8. ASSUME NEW u \in Uuids, HandshakeDone(u) \/ GoesDown(u) PROVE DaemonType' /\ Signals'
  <2>1. DaemonType' /\ bus' \in Seq({"up", "down"})
    BY <1>1, <1>8, HandshakeEffect, GoesDownEffect, SignalType DEF LosesTunnel
  <2>2. UNCHANGED <<cancel, suppress, watch, ui, late, failures, refusals, calls>>
        /\ heard' = "none"
    BY <1>8 DEF HandshakeDone, GoesDown, backend, inbox
  <2>3. QED
    BY <1>1, <2>1, <2>2 DEF Signals
<1>9. CASE Restart
  <2>1. UNCHANGED <<profiles, act>> /\ ui' = "free" /\ bus' = <<>> /\ heard' = "none"
    BY <1>9 DEF Restart, daemon
  <2>2. cancel' \in BOOLEAN /\ suppress' \in BOOLEAN /\ watch' \in BOOLEAN
    BY <1>1, <1>9 DEF Restart, Signals
  <2>3. late' \in Nat /\ failures' \in Nat /\ refusals' \in Nat /\ calls' \in Nat
    BY <1>1, <1>9 DEF Restart, Signals
  <2>4. <<>> \in Seq({"up", "down"})
    OBVIOUS
  <2>5. QED
    BY <1>3, <2>1, <2>2, <2>3, <2>4 DEF Signals
<1>10. CASE UNCHANGED vars
  BY <1>1, <1>3, <1>10 DEF vars, backend, daemon, inbox, Signals
<1>11. QED
  BY <1>2, <1>4, <1>5, <1>6, <1>7, <1>8, <1>9, <1>10 DEF Next

LEMMA TypeInvTypes == TypeInv => TypeOK
BY DEF TypeInv, IInv, QueueType, ThreadState, DaemonType, Signals, TypeOK

(* The backend's fields, its threads and what NetworkManager and the main  *)
(* loop hold for it keep their types, whatever fails and however often the *)
(* application is restarted.                                               *)
THEOREM TypeCorrect == Spec => []TypeOK
<1>1. TypeInv /\ [Next]_vars => TypeInv'
  BY NextTypeInv
<1>2. QED
  BY InitTypeInv, TypeInvTypes, <1>1, PTL DEF Spec

=============================================================================
