-------------------------- MODULE ServerListProofs --------------------------
(***************************************************************************)
(* Proofs about ServerList, for any configurations, latencies, pool size   *)
(* and number of tests: the snapshot is one whole test, no thread outlives *)
(* its test, and the list is what the window's fields say.                 *)
(*                                                                         *)
(* What holds a test together is the cancel event.  It is set only while a *)
(* test runs and cleared only when one starts, so at the end it tells      *)
(* whether anybody asked; and while it is clear, nothing has been skipped, *)
(* dropped or left out since the test began.                               *)
(***************************************************************************)
EXTENDS ServerList, TLAPS

TaskStates == {"todo", "probing", "done", "skipped"}

TestType ==
    /\ running \in BOOLEAN /\ cancel \in BOOLEAN /\ asked \in BOOLEAN
    /\ tester \in {"off", "start", "submit", "collect", "shutdown", "posted"}
    /\ \A f \in DOMAIN task : task[f] \in TaskStates

(* The window's flag, the event and the observer.                          *)
FlagsAgree ==
    /\ running <=> tester # "off"
    /\ running => (asked <=> cancel)

(* Nothing is left in the pool before a test and after it.                 *)
PoolEmpty == tester \in {"off", "start", "posted"} => Pending = {}

Progress ==
    /\ tester = "start" => DOMAIN task = {} /\ DOMAIN results = {}
    /\ tester = "submit" => DOMAIN task \subseteq names /\ DOMAIN results = {}

(* While nobody has asked to stop, no configuration is lost.               *)
NothingSkipped ==
    ~cancel =>
        /\ \A f \in DOMAIN task : task[f] # "skipped"
        /\ DOMAIN results \subseteq DOMAIN task \ Pending
        /\ tester = "collect" => DOMAIN task = names
        /\ tester \in {"shutdown", "posted"} => DOMAIN task = names /\ DOMAIN results = names

TestInv == TestType /\ FlagsAgree /\ PoolEmpty /\ Progress /\ NothingSkipped

-----------------------------------------------------------------------------
(* The GTK thread's part of a test.                                        *)

LEMMA AskToStopKeeps ==
    ASSUME TestInv, AskToStop
    PROVE  TestInv'
<1>1. /\ running /\ cancel' = TRUE /\ asked' = TRUE
      /\ running' = running /\ tester' = tester /\ names' = names
      /\ task' = task /\ results' = results
  BY DEF AskToStop, pool
<1>2. QED
  BY <1>1 DEF TestInv, TestType, FlagsAgree, PoolEmpty, Progress, NothingSkipped, Pending

LEMMA StartTestKeeps ==
    ASSUME StartTest
    PROVE  TestInv'
<1>1. /\ cancel' = FALSE /\ running' = TRUE /\ asked' = FALSE
      /\ tester' = "start" /\ task' = <<>> /\ results' = <<>>
  BY DEF StartTest
<1>2. DOMAIN task' = {} /\ DOMAIN results' = {}
  BY <1>1
<1>3. Pending' = {}
  BY <1>2 DEF Pending
<1>4. QED
  BY <1>1, <1>2, <1>3
     DEF TestInv, TestType, FlagsAgree, PoolEmpty, Progress, NothingSkipped

LEMMA TriggerKeeps ==
    ASSUME TestInv, TriggerSpeedTest
    PROVE  TestInv'
BY AskToStopKeeps, StartTestKeeps DEF TriggerSpeedTest

LEMMA SpeedTestCompleteKeeps ==
    ASSUME TestInv, SpeedTestComplete
    PROVE  TestInv'
<1>1. /\ tester = "posted" /\ tester' = "off" /\ running' = FALSE /\ asked' = FALSE
      /\ cancel' = cancel
      /\ results' = <<>> /\ task' = [f \in Pending |-> task[f]]
  BY DEF SpeedTestComplete, Forget
<1>2. Pending = {}
  BY <1>1 DEF TestInv, PoolEmpty
<1>3. DOMAIN task' = {} /\ DOMAIN results' = {}
  BY <1>1, <1>2
<1>4. Pending' = {}
  BY <1>3 DEF Pending
<1>5. QED
  BY <1>1, <1>3, <1>4
     DEF TestInv, TestType, FlagsAgree, PoolEmpty, Progress, NothingSkipped

-----------------------------------------------------------------------------
(* The test's thread and the pool.                                         *)

LEMMA ReadListKeeps ==
    ASSUME TestInv, ReadList
    PROVE  TestInv'
<1>1. /\ tester = "start" /\ names' = listed
      /\ tester' = IF names' = {} \/ cancel THEN "posted" ELSE "submit"
      /\ task' = task /\ results' = results
      /\ running' = running /\ cancel' = cancel /\ asked' = asked
  BY DEF ReadList, control
<1>2. DOMAIN task = {} /\ DOMAIN results = {} /\ Pending = {}
  BY <1>1 DEF TestInv, Progress, Pending
<1>3. DOMAIN task' = {} /\ DOMAIN results' = {} /\ Pending' = {}
  BY <1>1, <1>2 DEF Pending
<1>4. QED
  BY <1>1, <1>3 DEF TestInv, TestType, FlagsAgree, PoolEmpty, Progress, NothingSkipped

LEMMA SubmitKeeps ==
    ASSUME TestInv, Submit
    PROVE  TestInv'
<1>1. /\ tester = "submit" /\ names' = names /\ results' = results
      /\ running' = running /\ cancel' = cancel /\ asked' = asked
      /\ DOMAIN task \subseteq names /\ DOMAIN results = {}
  BY DEF Submit, control, TestInv, Progress
<1>2. CASE ~cancel
  <2>1. PICK f \in names \ DOMAIN task :
           /\ task' = With(task, f, "todo")
           /\ tester' = IF DOMAIN task' = names THEN "collect" ELSE "submit"
    BY <1>2 DEF Submit
  <2>2. DOMAIN task' = DOMAIN task \cup {f}
    BY <2>1 DEF With
  <2>3. \A g \in DOMAIN task' : task'[g] = IF g = f THEN "todo" ELSE task[g]
    BY <2>1, <2>2 DEF With
  <2>4. TestType'
    BY <1>1, <2>1, <2>2, <2>3 DEF TestInv, TestType, TaskStates
  <2>5. FlagsAgree' /\ PoolEmpty'
    BY <1>1, <2>1 DEF TestInv, FlagsAgree, PoolEmpty
  <2>6. DOMAIN task' \subseteq names
    BY <1>1, <2>2
  <2>7. Progress' /\ NothingSkipped'
    BY <1>1, <1>2, <2>1, <2>2, <2>3, <2>6 DEF TestInv, Progress, NothingSkipped
  <2>8. QED
    BY <2>4, <2>5, <2>7 DEF TestInv
<1>3. CASE cancel
  <2>1. tester' = "collect" /\ task' = task
    BY <1>3 DEF Submit
  <2>2. QED
    BY <1>1, <1>3, <2>1
       DEF TestInv, TestType, FlagsAgree, PoolEmpty, Progress, NothingSkipped
<1>4. QED
  BY <1>2, <1>3

LEMMA ProbeKeeps ==
    ASSUME TestInv, NEW f, StartProbe(f) \/ EndProbe(f)
    PROVE  TestInv'
<1>1. /\ f \in Pending
      /\ UNCHANGED <<tester, names, results, running, cancel, asked>>
  BY DEF StartProbe, EndProbe, control, Probing, Pending
<1>2. PICK st \in {"probing", "done"} \cup (IF cancel THEN {"skipped"} ELSE {}) :
         task' = [task EXCEPT ![f] = st]
  BY DEF StartProbe, EndProbe
<1>3. f \in DOMAIN task /\ DOMAIN task' = DOMAIN task
  BY <1>1, <1>2 DEF Pending
<1>4. \A g \in DOMAIN task : task'[g] = IF g = f THEN st ELSE task[g]
  BY <1>2
<1>5. Pending' \subseteq Pending
  BY <1>1, <1>3, <1>4 DEF Pending
<1>6. TestType'
  BY <1>1, <1>2, <1>3, <1>4 DEF TestInv, TestType, TaskStates
<1>7. FlagsAgree' /\ PoolEmpty' /\ Progress'
  BY <1>1, <1>3, <1>5 DEF TestInv, FlagsAgree, PoolEmpty, Progress
<1>8. NothingSkipped'
  BY <1>1, <1>2, <1>3, <1>4, <1>5 DEF TestInv, NothingSkipped
<1>9. QED
  BY <1>6, <1>7, <1>8 DEF TestInv

LEMMA CollectKeeps ==
    ASSUME TestInv, Collect
    PROVE  TestInv'
<1>1. /\ tester = "collect" /\ names' = names
      /\ running' = running /\ cancel' = cancel /\ asked' = asked
  BY DEF Collect, control
<1>2. CASE cancel /\ results' = results /\ tester' = "shutdown"
           /\ task' = [g \in {h \in DOMAIN task : task[h] # "todo"} |-> task[g]]
  BY <1>1, <1>2
     DEF TestInv, TestType, FlagsAgree, PoolEmpty, Progress, NothingSkipped
<1>3. ASSUME ~cancel, NEW f \in DOMAIN task \ (Pending \cup DOMAIN results),
             NEW rtt, results' = With(results, f, rtt),
             task' = task, tester' = tester
      PROVE  TestInv'
  <2>1. DOMAIN results' = DOMAIN results \cup {f}
    BY <1>3 DEF With
  <2>2. Pending' = Pending
    BY <1>3 DEF Pending
  <2>3. NothingSkipped'
    BY <1>1, <1>3, <2>1, <2>2 DEF TestInv, NothingSkipped
  <2>4. QED
    BY <1>1, <1>3, <2>3 DEF TestInv, TestType, FlagsAgree, PoolEmpty, Progress
<1>4. CASE DOMAIN results = DOMAIN task /\ tester' = "shutdown" /\ UNCHANGED <<task, results>>
  BY <1>1, <1>4
     DEF TestInv, TestType, FlagsAgree, PoolEmpty, Progress, NothingSkipped, Pending
<1>5. QED
  BY <1>2, <1>3, <1>4 DEF Collect

LEMMA ShutdownKeeps ==
    ASSUME TestInv, Shutdown
    PROVE  TestInv'
<1>1. /\ tester = "shutdown" /\ tester' = "posted" /\ Pending = {}
      /\ UNCHANGED <<names, task, results, running, cancel, asked>>
  BY DEF Shutdown, control
<1>2. QED
  BY <1>1 DEF TestInv, TestType, FlagsAgree, PoolEmpty, Progress, NothingSkipped, Pending

LEMMA InitTestInv == Init => TestInv
<1> SUFFICES ASSUME Init PROVE TestInv
  OBVIOUS
<1>1. /\ running = FALSE /\ cancel = FALSE /\ asked = FALSE /\ tester = "off"
      /\ DOMAIN task = {} /\ DOMAIN results = {}
  BY DEF Init
<1>2. Pending = {}
  BY <1>1 DEF Pending
<1>3. QED
  BY <1>1, <1>2 DEF TestInv, TestType, FlagsAgree, PoolEmpty, Progress, NothingSkipped

LEMMA NextTestInv ==
    ASSUME TestInv, [Next]_vars
    PROVE  TestInv'
<1>1. ASSUME UNCHANGED <<control, pool>> PROVE TestInv'
  BY <1>1 DEF control, pool, TestInv, TestType, FlagsAgree, PoolEmpty, Progress,
              NothingSkipped, Pending
<1>2. CASE PressSpeedTest
  BY <1>2, TriggerKeeps DEF PressSpeedTest
<1>3. CASE SpeedTestComplete
  BY <1>3, SpeedTestCompleteKeeps
<1>4. CASE Worker
  BY <1>4, ReadListKeeps, SubmitKeeps, CollectKeeps, ShutdownKeeps, ProbeKeeps DEF Worker
<1>5. CASE SortToggled
  BY <1>1, <1>5, TriggerKeeps DEF SortToggled
<1>6. CASE FilterChanged \/ Reload
  BY <1>1, <1>6 DEF FilterChanged, Reload
<1>7. ASSUME NEW f \in listed, FavoriteToggled(f) PROVE TestInv'
  BY <1>1, <1>7 DEF FavoriteToggled
<1>8. CASE UNCHANGED vars
  BY <1>1, <1>8 DEF vars
<1>9. QED
  BY <1>2, <1>3, <1>4, <1>5, <1>6, <1>7, <1>8 DEF Next

LEMMA SpecTestInv == Spec => []TestInv
BY InitTestInv, NextTestInv, PTL DEF Spec

-----------------------------------------------------------------------------
(* The list.                                                               *)

(* Without sorting by speed the latencies make no difference.              *)
LEMMA SortedByName ==
    ASSUME NEW m, NEW n, NEW S
    PROVE  Sorted(FALSE, m, S) = Sorted(FALSE, n, S)
BY DEF Sorted

OrderFollows == order = Sorted(sortActive, snapshot, listed)
SelectionFollows == visible = {f \in listed : Matches(f, mode, pattern, favCache, snapshot)}

ListInv == sortActive \in BOOLEAN /\ OrderFollows /\ SelectionFollows

LEMMA RefreshSelects ==
    ASSUME RefreshFilter
    PROVE  SelectionFollows'
BY DEF RefreshFilter, SelectionFollows

LEMMA InitListInv == Init => ListInv
<1> SUFFICES ASSUME Init PROVE ListInv
  OBVIOUS
<1>1. /\ sortActive = FALSE /\ mode = "all" /\ pattern = Files /\ snapshot = <<>>
      /\ order = Sorted(FALSE, <<>>, listed) /\ visible = listed
      /\ listed \in Lists
  BY DEF Init
<1>2. listed \subseteq Files
  BY <1>1, ServerListAssumption
<1>3. \A f \in listed : Matches(f, mode, pattern, favCache, snapshot)
  BY <1>1, <1>2 DEF Matches
<1>4. QED
  BY <1>1, <1>3 DEF ListInv, OrderFollows, SelectionFollows

LEMMA NextListInv ==
    ASSUME ListInv, [Next]_vars
    PROVE  ListInv'
<1>1. ASSUME UNCHANGED <<list, speed>> PROVE ListInv'
  BY <1>1 DEF list, speed, filters, models, ListInv, OrderFollows, SelectionFollows
<1>2. CASE PressSpeedTest
  BY <1>1, <1>2 DEF PressSpeedTest
<1>3. CASE SpeedTestComplete
  <2>1. UNCHANGED <<listed, sortActive, mode, pattern, favorites>>
    BY <1>3 DEF SpeedTestComplete
  <2>2. CASE cancel
    BY <1>3, <2>1, <2>2
       DEF SpeedTestComplete, speed, models, ListInv, OrderFollows, SelectionFollows
  <2>3. CASE ~cancel
    <3>1. SelectionFollows'
      BY <1>3, <2>3, RefreshSelects DEF SpeedTestComplete
    <3>2. OrderFollows'
      <4>1. CASE sortActive
        BY <1>3, <2>3, <4>1 DEF SpeedTestComplete, RefreshSorter, OrderFollows
      <4>2. CASE ~sortActive
        <5>1. sortActive = FALSE /\ order' = order
          BY <1>3, <2>3, <4>2 DEF SpeedTestComplete, ListInv
        <5>2. QED
          BY <2>1, <5>1, SortedByName DEF ListInv, OrderFollows
      <4>3. QED
        BY <4>1, <4>2
    <3>3. QED
      BY <2>1, <3>1, <3>2 DEF ListInv
  <2>4. QED
    BY <2>2, <2>3
<1>4. CASE Worker
  BY <1>1, <1>4
     DEF Worker, ReadList, Submit, Collect, Shutdown, StartProbe, EndProbe
<1>5. CASE SortToggled
  <2>1. /\ sortActive' = ~sortActive /\ RefreshSorter
        /\ UNCHANGED <<listed, filters, visible, speed>>
    BY <1>5 DEF SortToggled
  <2>2. SelectionFollows'
    BY <2>1 DEF filters, speed, ListInv, SelectionFollows
  <2>3. QED
    BY <2>1, <2>2 DEF ListInv, OrderFollows, RefreshSorter
<1>6. CASE FilterChanged
  <2>1. RefreshFilter /\ UNCHANGED <<listed, sortActive, order, speed>>
    BY <1>6 DEF FilterChanged
  <2>2. QED
    BY <2>1, RefreshSelects DEF ListInv, OrderFollows, speed
<1>7. ASSUME NEW f \in listed, FavoriteToggled(f) PROVE ListInv'
  <2>1. RefreshFilter /\ UNCHANGED <<listed, sortActive, order, speed>>
    BY <1>7 DEF FavoriteToggled
  <2>2. QED
    BY <2>1, RefreshSelects DEF ListInv, OrderFollows, speed
<1>8. CASE Reload
  <2>1. /\ UNCHANGED <<sortActive, mode, pattern, favCache, speed>> /\ RefreshSorter
        /\ visible' = {f \in listed' : Matches(f, mode, pattern, favCache, snapshot)}
    BY <1>8 DEF Reload
  <2>2. QED
    BY <2>1 DEF ListInv, OrderFollows, SelectionFollows, RefreshSorter, speed
<1>9. CASE UNCHANGED vars
  BY <1>1, <1>9 DEF vars
<1>10. QED
  BY <1>2, <1>3, <1>4, <1>5, <1>6, <1>7, <1>8, <1>9 DEF Next

-----------------------------------------------------------------------------
(* No test, favorite, filter, sort or import leaves GTK's cached order or  *)
(* selection behind the fields they were computed from.                    *)
THEOREM ListAlwaysFollows == Spec => []ListFollowsWindow
<1>1. ListInv => ListFollowsWindow
  BY DEF ListInv, OrderFollows, SelectionFollows, ListFollowsWindow
<1>2. QED
  BY InitListInv, NextListInv, <1>1, PTL DEF Spec

(* When the window says that no test is running, the test's thread has     *)
(* ended and the pool is idle, however the test ended.                     *)
THEOREM PoolIdleBetweenTests == Spec => []NoStragglers
<1>1. TestInv => NoStragglers
  BY DEF TestInv, FlagsAgree, PoolEmpty, NoStragglers
<1>2. QED
  BY SpecTestInv, <1>1, PTL

(* A new generation of the snapshot is one whole test that nobody asked to *)
(* stop: every name of the list it began with, each really probed.         *)
THEOREM SnapshotIsWholeTest == Spec => WholeSnapshot
<1>1. TestInv /\ [Next]_vars =>
          [generation' # generation =>
              /\ ~asked
              /\ DOMAIN snapshot' = names
              /\ \A f \in names : task[f] = "done"]_vars
  <2> SUFFICES ASSUME TestInv, Next, generation' # generation
               PROVE  /\ ~asked
                      /\ DOMAIN snapshot' = names
                      /\ \A f \in names : task[f] = "done"
    OBVIOUS
  <2>1. SpeedTestComplete /\ ~cancel
    <3>1. ~UNCHANGED speed
      BY DEF speed
    <3>2. CASE Worker
      BY <3>1, <3>2
         DEF Worker, ReadList, Submit, Collect, Shutdown, StartProbe, EndProbe
    <3>3. CASE ~Worker
      BY <3>1, <3>3 DEF Next, PressSpeedTest, SortToggled, FilterChanged, Reload,
                        FavoriteToggled, SpeedTestComplete
    <3>4. QED
      BY <3>2, <3>3
  <2>2. tester = "posted" /\ snapshot' = results
    BY <2>1 DEF SpeedTestComplete
  <2>3. running /\ ~asked /\ DOMAIN task = names /\ DOMAIN results = names /\ Pending = {}
    BY <2>1, <2>2 DEF TestInv, TestType, FlagsAgree, PoolEmpty, NothingSkipped
  <2>4. \A f \in names : task[f] \in TaskStates /\ task[f] # "skipped"
    BY <2>1, <2>3 DEF TestInv, TestType, NothingSkipped
  <2>5. \A f \in names : task[f] = "done"
    BY <2>3, <2>4 DEF TaskStates, Pending
  <2>6. QED
    BY <2>2, <2>3, <2>5
<1>2. QED
  BY SpecTestInv, <1>1, PTL DEF Spec, WholeSnapshot
=============================================================================
