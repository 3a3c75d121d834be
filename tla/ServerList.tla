----------------------------- MODULE ServerList -----------------------------
(***************************************************************************)
(* The speed test and the list it sorts: trigger_speed_test with its       *)
(* thread, the pool of eovpn/speed_test.py, on_speed_test_complete, the    *)
(* session snapshot (eovpn/speed_state.py), and the sorted and filtered    *)
(* models of eovpn/main_window.py.                                         *)
(*                                                                         *)
(* GTK caches what a sorter and a filter said until it is told that they   *)
(* changed: `order' and `visible' are these caches, and an action changes  *)
(* them exactly where the code calls _refresh_sorter or _refresh_filter.   *)
(* The test's thread and the pool's threads share with the GTK thread the  *)
(* cancel event, the list of names and the idle queue.                     *)
(***************************************************************************)
EXTENDS Naturals, FiniteSets, SequencesExt

CONSTANTS
    Files,         \* names of configurations, in alphabetical order
    Lists,         \* sets of configurations an import, reset or restore may leave
    Rtts,          \* latencies that may be measured
    Unreachable,   \* no endpoint answered
    Patterns,      \* sets of names some search text and protocol select
    MaxWorkers,    \* threads of the pool
    MaxTests,      \* bound: tests started
    MaxFavorites   \* bound: favorites at one time

ASSUME ServerListAssumption ==
    /\ Files \subseteq Nat
    /\ Lists \subseteq SUBSET Files
    /\ Rtts \subseteq Nat
    /\ Unreachable \notin Rtts
    /\ Patterns \subseteq SUBSET Files
    /\ MaxWorkers \in Nat \ {0}
    /\ MaxTests \in Nat /\ MaxFavorites \in Nat

VARIABLES
    (* the window *)
    listed,        \* CONFIGS_LIST
    sortActive,    \* sort_by_speed_active
    mode,          \* filter_mode
    pattern,       \* search_text and proto_mode, as the names they select
    favorites,     \* SETTING.FAVORITES
    favCache,      \* _favorites_cache
    snapshot,      \* the latencies of the snapshot: name -> latency
    generation,    \* its generation
    order,         \* Gtk.SortListModel
    visible,       \* what Gtk.FilterListModel lets through
    (* the test *)
    running,       \* _speed_test_running
    cancel,        \* _speed_test_cancel
    button,        \* speed_test_btn: "test", "cancel" or insensitive, "off"
    tester,        \* the test's thread
    names,         \* the list it reads
    task,          \* state of each submitted future
    results,       \* results collected so far
    (* observers *)
    asked,         \* the test going on was asked to stop
    tests          \* tests started

filters == <<mode, pattern, favorites, favCache>>
models == <<order, visible>>
list == <<listed, sortActive, filters, models>>
speed == <<snapshot, generation>>
control == <<running, cancel, button, asked, tests>>
pool == <<tester, names, task, results>>
vars == <<list, speed, control, pool>>

Latencies == Rtts \cup {Unreachable}
Modes == {"all", "favorites", "online", "offline"}
Sparse(D, R) == UNION {[S -> R] : S \in SUBSET D}

-----------------------------------------------------------------------------
(* Sorting and filtering.                                                  *)

Measured(m, f) == f \in DOMAIN m /\ m[f] # Unreachable

Precedes(m, f, g) ==
    IF ~(Measured(m, f) \/ Measured(m, g))
    THEN f < g
    ELSE \/ Measured(m, f) /\ ~Measured(m, g)
         \/ /\ Measured(m, f) /\ Measured(m, g)
            /\ m[f] < m[g] \/ (m[f] = m[g] /\ f < g)

Ordered(m, S) == SetToSortSeq(S, LAMBDA f, g : Precedes(m, f, g))

(* Unless the list is sorted by speed, no latency is looked at.            *)
Sorted(byspeed, m, S) == Ordered(IF byspeed THEN m ELSE <<>>, S)

Matches(f, md, pat, favs, m) ==
    /\ f \in pat
    /\ md = "favorites" => f \in favs
    /\ md = "online" => Measured(m, f)
    /\ md = "offline" => ~Measured(m, f)

RefreshSorter == order' = Sorted(sortActive', snapshot', listed')

RefreshFilter ==
    /\ favCache' = favorites'
    /\ visible' = {f \in listed' : Matches(f, mode', pattern', favCache', snapshot')}

-----------------------------------------------------------------------------
(* The speed test, on the GTK thread.                                      *)

AskToStop ==
    /\ running
    /\ cancel' = TRUE /\ button' = "off" /\ asked' = TRUE
    /\ UNCHANGED <<running, tests, pool>>

StartTest ==
    /\ ~running /\ button # "off" /\ tests < MaxTests
    /\ cancel' = FALSE /\ running' = TRUE /\ button' = "cancel"
    /\ tester' = "start" /\ names' = {} /\ task' = <<>> /\ results' = <<>>
    /\ asked' = FALSE /\ tests' = tests + 1

(* Mutant of TriggerSpeedTest: the event is cleared by every click.        *)
TriggerClearsFirst ==
    \/ /\ running
       /\ cancel' = FALSE /\ button' = "off" /\ asked' = TRUE
       /\ UNCHANGED <<running, tests, pool>>
    \/ StartTest

TriggerSpeedTest == AskToStop \/ StartTest

PressSpeedTest ==
    /\ button # "off"
    /\ TriggerSpeedTest
    /\ UNCHANGED <<list, speed>>

(* m[f] = x, as on a dictionary.                                           *)
With(m, f, x) == [g \in DOMAIN m \cup {f} |-> IF g = f THEN x ELSE m[g]]

Probing == {f \in DOMAIN task : task[f] = "probing"}
Pending == {f \in DOMAIN task : task[f] \in {"todo", "probing"}}

(* The thread's variables are gone; a pool's thread would keep its future. *)
Forget ==
    /\ names' = {} /\ results' = <<>>
    /\ task' = [f \in Pending |-> task[f]]

(* Mutant of SpeedTestComplete: the filter is not told.                    *)
SpeedTestCompleteNoFilter ==
    /\ tester = "posted"
    /\ tester' = "off" /\ running' = FALSE /\ button' = "test" /\ asked' = FALSE
    /\ UNCHANGED <<listed, sortActive, filters, visible>>
    /\ IF cancel
       THEN UNCHANGED <<speed, order>>
       ELSE /\ snapshot' = results /\ generation' = generation + 1
            /\ IF sortActive THEN RefreshSorter ELSE UNCHANGED order
    /\ UNCHANGED <<cancel, tests>> /\ Forget

SpeedTestComplete ==
    /\ tester = "posted"
    /\ tester' = "off" /\ running' = FALSE /\ button' = "test" /\ asked' = FALSE
    /\ UNCHANGED <<listed, sortActive, mode, pattern, favorites>>
    /\ IF cancel
       THEN UNCHANGED <<speed, models, favCache>>
       ELSE /\ snapshot' = results /\ generation' = generation + 1
            /\ IF sortActive THEN RefreshSorter ELSE UNCHANGED order
            /\ RefreshFilter
    /\ UNCHANGED <<cancel, tests>> /\ Forget

-----------------------------------------------------------------------------
(* The test's thread and the pool.                                         *)

(* The list is read, and the event looked at, on the test's thread.        *)
ReadList ==
    /\ tester = "start"
    /\ names' = listed
    /\ tester' = IF names' = {} \/ cancel THEN "posted" ELSE "submit"
    /\ UNCHANGED <<list, speed, control, task, results>>

(* Futures are submitted one by one, until the event is seen.              *)
Submit ==
    /\ tester = "submit"
    /\ \/ /\ ~cancel
          /\ \E f \in names \ DOMAIN task : task' = With(task, f, "todo")
          /\ tester' = IF DOMAIN task' = names THEN "collect" ELSE "submit"
       \/ cancel /\ tester' = "collect" /\ UNCHANGED task
    /\ UNCHANGED <<list, speed, control, names, results>>

StartProbe(f) ==
    /\ f \in DOMAIN task /\ task[f] = "todo"
    /\ Cardinality(Probing) < MaxWorkers
    /\ task' = [task EXCEPT ![f] = IF cancel THEN "skipped" ELSE "probing"]
    /\ UNCHANGED <<list, speed, control, tester, names, results>>

(* The event is looked at again before each further endpoint.              *)
EndProbe(f) ==
    /\ f \in Probing
    /\ \E end \in {"done"} \cup (IF cancel THEN {"skipped"} ELSE {}) :
          task' = [task EXCEPT ![f] = end]
    /\ UNCHANGED <<list, speed, control, tester, names, results>>

(* What a future returns: a skipped configuration looks unreachable.       *)
Answers(f) == IF task[f] = "skipped" THEN {Unreachable} ELSE Latencies

(* as_completed: a result, or the event, which drops what has not started. *)
Collect ==
    /\ tester = "collect"
    /\ \/ \E f \in DOMAIN task \ (Pending \cup DOMAIN results) :
             IF cancel
             THEN /\ task' = [g \in {h \in DOMAIN task : task[h] # "todo"} |-> task[g]]
                  /\ tester' = "shutdown"
                  /\ UNCHANGED results
             ELSE /\ \E rtt \in Answers(f) : results' = With(results, f, rtt)
                  /\ UNCHANGED <<task, tester>>
       \/ /\ DOMAIN results = DOMAIN task
          /\ tester' = "shutdown"
          /\ UNCHANGED <<task, results>>
    /\ UNCHANGED <<list, speed, control, names>>

(* Mutants of Shutdown: the pool is not waited for; a test that was        *)
(* stopped does not report.                                                *)
ShutdownNoWait ==
    /\ tester = "shutdown"
    /\ tester' = "posted"
    /\ UNCHANGED <<list, speed, control, names, task, results>>

ShutdownSilent ==
    /\ tester = "shutdown" /\ Pending = {}
    /\ tester' = IF cancel THEN "off" ELSE "posted"
    /\ UNCHANGED <<list, speed, control, names, task, results>>

(* Leaving the pool waits for its threads; then the result is posted.      *)
Shutdown ==
    /\ tester = "shutdown" /\ Pending = {}
    /\ tester' = "posted"
    /\ UNCHANGED <<list, speed, control, names, task, results>>

Worker ==
    \/ ReadList \/ Submit \/ Collect \/ Shutdown
    \/ \E f \in Files : StartProbe(f) \/ EndProbe(f)

-----------------------------------------------------------------------------
(* The list, on the GTK thread.                                            *)

SortToggled ==
    /\ sortActive' = ~sortActive
    /\ UNCHANGED <<listed, filters, visible, speed>>
    /\ IF sortActive' /\ DOMAIN snapshot = {}
       THEN TriggerSpeedTest
       ELSE UNCHANGED <<control, pool>>
    /\ RefreshSorter

FilterChanged ==
    /\ mode' \in Modes /\ pattern' \in Patterns
    /\ UNCHANGED <<listed, sortActive, favorites, order, speed, control, pool>>
    /\ RefreshFilter

FavoriteToggled(f) ==
    /\ favorites' = IF f \in favorites THEN favorites \ {f} ELSE favorites \cup {f}
    /\ Cardinality(favorites') <= MaxFavorites
    /\ UNCHANGED <<listed, sortActive, mode, pattern, order, speed, control, pool>>
    /\ RefreshFilter

(* An import, a reset or a restore ends with remove_only and load_only:    *)
(* the models are filled anew.  A reset or restore has rewritten the       *)
(* favorites, which the cache is not told.                                 *)
Reload ==
    /\ listed' \in Lists
    /\ favorites' \in {favorites, {}}
    /\ UNCHANGED <<sortActive, mode, pattern, favCache, speed, control, pool>>
    /\ RefreshSorter
    /\ visible' = {f \in listed' : Matches(f, mode, pattern, favCache, snapshot)}

Init ==
    /\ listed \in Lists
    /\ sortActive = FALSE /\ mode = "all" /\ pattern \in {p \in Patterns : p = Files}
    /\ favorites \in {{}} \cup {{f} : f \in listed} /\ favCache = {}
    /\ snapshot = <<>> /\ generation = 0
    /\ order = Sorted(FALSE, <<>>, listed) /\ visible = listed
    /\ running = FALSE /\ cancel = FALSE /\ button = "test"
    /\ tester = "off" /\ names = {} /\ task = <<>> /\ results = <<>>
    /\ asked = FALSE /\ tests = 0

Next ==
    \/ PressSpeedTest \/ SpeedTestComplete \/ Worker
    \/ SortToggled \/ FilterChanged \/ Reload
    \/ \E f \in listed : FavoriteToggled(f)

Spec == Init /\ [][Next]_vars

(* Every probe has a socket timeout, and the main loop dispatches.         *)
Fairness == WF_vars(Worker) /\ WF_vars(SpeedTestComplete)

FairSpec == Spec /\ Fairness
-----------------------------------------------------------------------------
(* Properties.                                                             *)

TypeOK ==
    /\ listed \in Lists
    /\ sortActive \in BOOLEAN /\ mode \in Modes /\ pattern \in Patterns
    /\ favorites \subseteq Files /\ favCache \subseteq Files
    /\ snapshot \in Sparse(Files, Latencies) /\ generation \in 0..MaxTests
    /\ order \in Seq(listed) /\ visible \subseteq listed
    /\ running \in BOOLEAN /\ cancel \in BOOLEAN
    /\ button \in {"test", "cancel", "off"}
    /\ tester \in {"off", "start", "submit", "collect", "shutdown", "posted"}
    /\ names \in Lists \cup {{}}
    /\ task \in Sparse(Files, {"todo", "probing", "done", "skipped"})
    /\ results \in Sparse(Files, Latencies)
    /\ asked \in BOOLEAN /\ tests \in 0..MaxTests

(* What the user sees is what the window's fields say: no test, favorite,  *)
(* filter, sort or import leaves GTK's cached order or selection behind    *)
(* the latencies and modes they were computed from.                        *)
ListFollowsWindow ==
    /\ order = Sorted(sortActive, snapshot, listed)
    /\ visible = {f \in listed : Matches(f, mode, pattern, favCache, snapshot)}

(* A snapshot is one whole test that nobody asked to stop: it has every    *)
(* name that was listed when the test began, each of them really probed,   *)
(* wherever a cancellation catches the threads.                            *)
WholeSnapshot ==
    [][generation' # generation =>
          /\ ~asked
          /\ DOMAIN snapshot' = names
          /\ \A f \in names : task[f] = "done"]_vars

(* No thread of a test outlives it: the next one starts on an idle pool.   *)
NoStragglers == ~running => tester = "off" /\ Pending = {}

(* Every test ends, and gives the button back, cancelled or not.           *)
TestEnds == running ~> (~running /\ button = "test")
=============================================================================
