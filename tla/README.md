# eOVPN-Pro in TLA+

A verification development for the logic of eOVPN-Pro, a GTK front end that
imports OpenVPN configurations, measures the servers and connects through
NetworkManager or OpenVPN 3. TLC checks the modules on small instances; TLAPS
proves the theorems named below for every value of the constants.

Line references are to the files of the repository; `CC` is
`eovpn/cascade_controller.py`, `CM` is `eovpn/connection_manager.py`, `MW` is
`eovpn/main_window.py`.

## 1. The system

| Component | State it keeps | Operations | Modelled by |
|---|---|---|---|
| Cascading controller (`CC`, `timers.py`, `events.py`) | active, phase, generation, queue, index, failures, attempts, three GLib source ids, deadline, `expect_disconnect`, retry counter | toggle/start/cancel, `_begin`, `_try_current_server`, `advance`, `finish`, `on_connection_event`, timeout, tick, settle | `Cascade`, complete |
| Candidate queue (`auto_connect.py`) | none | `build_cascade_queue`, `compute_attempt_timeout` | `CascadeQueue`, complete |
| NetworkManager backend (class `NetworkManager` of `CM`, `backend/networkmanager/dbus.py`, `subprojects/networkmanager/eovpn_nm.c`) | operation queue, worker thread, cancel and suppress events, profile UUID, watch flag | connect, disconnect, status, cancel, delete all, the worker's two blocking operations, D-Bus signals and their delayed callbacks | `NMBackend`, complete |
| Both together | the callback, the second by which a disconnection is late | a cascade over NetworkManager | `CascadeOverNM` |
| Configuration store (`eovpn_base.py`, `utils.py`) and reset/restore (`settings_window.py`, `reset_backup.py`) | the directories CONFIGS, CONFIGS.staging, CONFIGS.old, reset-backup-\*, GSettings, the list shown | import (download, swap, list), reset, restore | `ConfigStore` |
| Main window, connecting (`MW`) | `connection_attempt_active`, `was_connected`, `manual_disconnect`, the button, reconnect timers, `network_monitor.py`'s source | connect/disconnect button and shortcut, regular events, automatic reconnect | `ConnectionUI` over `NMBackend` |
| Main window, server list and speed test (`MW`, `speed_test.py`, `speed_state.py`) | GTK's sorted and filtered models, filters, favorites cache, snapshot, cancel event, the test's thread and pool | run, cancel, publish, sort, filter, favorite, reload | `ServerList`; what the cascade sees of a test, in `Cascade` |
| Credentials (`settings_window.py`, `eovpn_base.py`) | AUTH_USER, the keyring, the copy in memory, one write timer per settings window | edits, lookup, store, clear, reset, restore, what a connection sends | `Credentials` |
| OpenVPN 3 backend (class `OpenVPN3` of `CM`, `backend/openvpn3/dbus.py`, `subprojects/openvpn3/openvpn3.c`), OTP dialog (`dialogs/otp.py`), backend switch | session path, watch flag, subscriptions, code dialogs | connect, disconnect, pause, resume, attention and status signals, submit or close the code, select a backend | `OpenVPN3` |
| IP lookup, profile parser, application shell | none that is kept | | see section 9 |

How they interact: all widgets, timers and idle callbacks run in one GLib main
loop (the GTK thread). The window owns the controller and gives it every
`ConnectionEvent` first (`MW:1403`). The controller calls the connection
manager synchronously (`status`, `start_watch`, `connect`, `disconnect`,
`cancel_current_operation`); the NetworkManager backend queues the two slow
calls to a worker thread and answers later through `GLib.idle_add` and D-Bus
signals, disconnections with a delay of one second. Imports run on threads of
their own and report through an idle callback. GSettings, the configuration
directory and NetworkManager's profiles outlive the process.

What is hard: handlers that are correct alone but meet in an order nobody
tested (a tick and a timeout due together, a late disconnection, a cancellation
between two lines of the worker), sources that outlive the run that armed them,
state shared by two threads, signals that do not say whose they are,
requests to the keyring that overtake one another, native calls that time out but are carried out,
and a process that dies between two file operations. `PROJECT.json` lists every
hazard at its line with the properties that would notice it going wrong.

What makes each component correct: the controller gives each server exactly one
verdict, in order, always has something that moves it on, and its runs end; the
queue is fastest first; the backend serializes native operations, loses none,
and leaves no tunnel behind a cancelled or disconnected one; the store never
loses what the user imported; the window's button comes back
from "Connecting..." and tells whether a tunnel is up; a speed test is published
whole or not at all, and the list GTK shows follows the window's fields; a
password that is typed reaches the keyring, of its own user only; no OpenVPN 3
session is left without a handle.

## 2. The modules

| Module | What it is |
|---|---|
| `Cascade` | the controller as a record `ctl`; one operator per method of the code, from the record to the record it leaves; one action per callback of the main loop |
| `AutoConnect` | what "Connect Fastest" promises: an in-order walk of the candidates |
| `CascadeRefinement` | the refinement mapping, `KeepsPromise == Promise!Spec` |
| `CascadeQueue` | the queue and the time budgets as pure operators, and a one-step specification that applies them to every input |
| `NMBackend` | two threads and the NetworkManager daemon as far as the backend sees it |
| `ConnectionUI` | the window's connection state over `NMBackend`: every action is a step of the backend together with what the window does in it |
| `ServerList` | the speed test's threads and the list they sort |
| `ConfigStore` | directories, import thread, reset and restore, idle callbacks, crashes |
| `CascadeOverNM` | the controller of `Cascade`, `NMBackend` and one clock |
| `Credentials` | settings windows, the Secret Service and its requests |
| `OpenVPN3` | the second backend, its signals, the code dialog and the session manager |
| `CascadeProofs` | theorems about `Cascade`: types and liveness of its sources; the walk, the retries, the refinement; what a step asks of a backend |
| `NMBackendProofs` | theorems about `NMBackend`, and what any of its steps does to the tunnels and the callback |
| `NMClientsProofs` | theorems about the backend's two clients, `ConnectionUI` and `CascadeOverNM` |
| `CascadeQueueProofs`, `ServerListProofs`, `ConfigStoreProofs`, `OpenVPN3Proofs`, `CredentialsProofs` | theorems about the module each is named after |
| `MCCascade`, `MCCascadeOverNM`, `MCNMBackend`, `MCConnectionUI`, `MCServerList`, `MCCascadeQueue`, `MCConfigStore`, `MCCredentials`, `MCOpenVPN3` | constants for TLC |

### Cascade

A handler of the code is a chain of methods that call one another, so the
methods are operators (`Advance`, `Finish`, `TryCurrentServer`, `OnTimeout`, ...
keep the source's names) and an action applies one of them to the record. The
connection manager is open: wherever the code asks `status()`, the action
chooses the answer; `connect` may be accepted, refuse, or raise; any event may
arrive at any time. What holds here holds over every backend. The calls a step
makes are left in `ctl.out` for the modules that compose controller and backend.

Time is counted in ticks of the banner's progress source. A timer is
`[armed, gen, fuse]`: the generation its closure captured and the ticks left.
Two details of the code matter and are kept. `_on_timeout` sets `_timeout_id`
to `None` without removing the source (`CC:543`): when it is called from a tick
the source stays attached, so `ForgetTimeout` moves it to `ctl.orphans`, and
`OrphanFires` runs it later. And a tick may find the deadline passed before the
timeout source has been dispatched: GLib dispatches what was ready when it
checked its sources, so a tick that became ready in one iteration and is
dispatched late, after slower callbacks, reads the clock after the deadline
although the timeout source was not ready yet. `LateDispatch = TRUE` allows
this; with `FALSE` a due timeout always goes first.

### NMBackend

Each lock section of `_operation_state_lock` is one action (`Pop`, `Dispatch`,
`CancelClear`); every other statement that touches shared state is an action of
its own, so that `cancel_current_operation` may be caught between its two flags
and before it takes the lock (`SetCancel`, `SetSuppress`, `CancelClear`). A
worker thread has a program counter with one value per cancellation check or
native call. `Faults = TRUE` lets every native call fail, and lets the 15-second
watchdog of `eovpn_nm.c` give up on a call that NetworkManager still carries
out. It also lets `status()` answer FALSE over a tunnel, because a client that
cannot be made counts as no tunnel (`eovpn_nm.c:203-208`); the worker's own
look-ups then find nothing either, and `DeleteAll` deletes only some of the
profiles, since nobody looks at the result of a deletion. `Polite` means that connect is asked for only
when none is pending (the cascade's overlapping calls are `Polite = FALSE`).
`Restart` kills the process: the threads and fields go, the profiles stay.

### CascadeOverNM

Extends `NMBackend` and takes the controller's operators and actions from an
instance of `Cascade`, with punctual dispatch and no dialogs. A controller step
applies a method to `ctl` and, in the same step, `CarryOut` does to the manager
what the method left in `ctl.out`. Two things take more than one step, because
the worker runs between their parts: a callback (`Callback`, then
`HandleEvent`) and a cancellation (`ClickCancel` and `CancelSuppresses` set the
flags, `CancelEmpties` takes the lock, `CancelEnds` finishes the run). `status()` is no longer
chosen freely: it is what NetworkManager has, or FALSE under `Faults`. `fuses` runs beside `late`: a disconnection is
delivered `DownDelay` after it happened, which is longer than the settle pause.
A run may find a tunnel of an earlier connection, its UUID known or forgotten.

### ConnectionUI

The window extends `NMBackend` rather than instantiating it, because its fields
change in the very steps in which the GTK thread calls the backend or runs one
of its callbacks: `Event` is a callback of the backend whose verdict (`heard`)
`on_connection_event` turns into `HandleConnected` or `HandleDisconnected`.
`Toggle` is `signals.connect`, called by the button, the shortcut and by the
reconnect timer (`ReconnectFires`); it cancels, disconnects or connects,
whatever it finds. `calm` and `saidNo` are observers: the user has waited until
nothing was under way (and has not been made to connect over a tunnel that
`status()` did not see), and his last request was to disconnect.

### ServerList

`order` and `visible` are what GTK's sorted and filtered models have cached;
they change only where the code tells the sorter or the filter, or fills the
models anew. A test is a thread (`tester`) that reads the list, submits one
future per name, collects the results and posts them, beside the pool's threads;
`cancel` is the event they all look at. A future that saw the event is
`skipped`: it answers `None`, like a server that cannot be reached.

### ConfigStore

A directory is `[there, files]`. Copying and removing take a step per file, a
rename is one step, and `Crash` may come between any two; it loses threads,
idles and the GTK thread's place, and keeps disk and GSettings. `Faults` names
what may go wrong: a download that raises (`fetch`), a read failure that is
only logged (`silent`), a backup or a copy back that raises. A backup's manifest
is `none`, `empty` or `whole`: it is found as soon as it is a file
(`reset_backup.py:70`), and a restore whose backup has an empty one ends after
its own safety backup, before anything is removed. Observers: `owned` is the
last set of files that was put in place whole, `before` what the latest complete
backup is a backup of, `halted` what was cut short and not made good since: a
swap killed between its two renames, a wiping or copying back that was killed, a
copying back that failed. `Patient = TRUE` is a user who
starts nothing while something is going on.

### Credentials

Every Secret Service request is a record that is served, or fails, in any order
relative to the others, because each is several D-Bus round trips. Opening the
settings window makes a new object: its password entry, its write timer
(800 ms, with the arguments of the edit) and its lookup live on when it is
closed. The answer of a lookup is put in the entry, whose handler treats it like
a password that was typed. Observers: `promise` is the password typed last,
until something revokes it; `forgotten` the users the latest reset or restore
was made for; `mishaps` what failed, and what the user overtook by acting
between a request and its answer. A lookup that fails is noted as `borrowed` if
the password in memory, which stands in for it, is another user's.

A reset and a restore may raise at the managed directory after the keyring item
was cleared (`ApplyResetHalts`, `ApplyRestoreHalts`; noted as `halted`). For a
restore the settings and the copy in memory come last, so the user name, that
copy, the password entry and its pending timer stay as they were. Then the entry
shows a password that is no longer stored, or a timer stores it again, although
the alert says that the current state was preserved.

### OpenVPN3

One action per handler of class `OpenVPN3`, of its two D-Bus subscriptions and
of the dialog, and the window's reaction in the same step. A session waits for
inputs, connects, is up, paused, failed or gone; the session manager is external
and may ask again, refuse or drop at any time. Signals arrive in order; removing
a subscription drops what was on its way to it. No handler asks whose signal it
has, and the model does not either. `untidy` notes what leaves a session without
its window: an attempt cancelled in the window, a code dialog closed, a click
that comes before a signal on its way or connects over a connection that
`status()` did not see (`misread`), a switch of the backend.

Calls of the session manager fail (`Faults`), and `failed` notes which did, for
which session: to disconnect, to provide or read an input, to connect, to
forward the log. (A status that is misread belongs to no session and is noted
in `untidy`.) `openvpn3.c` only logs such a failure, so
the step goes on as the code does: the handle is forgotten although the session
lives, the session waits or stands ready and the window says "Connecting...".
An unreachable manager counts as no connection (`openvpn3.c:624-634`).

## 3. What the runs check

| Run | Instance | What it shows |
|---|---|---|
| `CascadePunctual` | 2 servers, 2 runs, dialogs, punctual dispatch | one verdict per server in queue order, an exhausted run tried every server, at most 4 attempts per server, and the controller implements `AutoConnect` |
| `CascadeLate` | 1 server, 4 runs, late dispatch, fair | an active run is never stuck, the speed-test button comes back, a finished run returns only as a new generation, every run ends |
| `NMPolite` | 2 threads, 3 UUIDs, 5 requests, no faults | cancelled or disconnected means down, also after a restart; never two tunnels |
| `CascadeOverNM` | 1 run of one or two servers over NetworkManager, 3 UUIDs, delayed disconnections | the composition is a controller over its open backend; a run that failed or was cancelled leaves no tunnel; a server reported as connected made its handshake in this attempt |
| `QueueOrder` | lists of up to 3 of 4 servers, 5 measurements, limits -1, 0, 2, 3 | fastest first, dead servers only as a last resort, budgets follow the queue |
| `Window` | 2 threads, 2 UUIDs, 3 requests by hand or by the timer, all faults, restarts, fair | "Connecting" always has something behind it and ends; operations never overlap and none is stranded; for a user who waits, button and monitor tell whether a tunnel is up, and a disconnection he asked for is not reconnected |
| `ListSpeed` | 3 names, lists of two, 2 tests, 2 pool threads, fair | a snapshot is one whole uncancelled test, no thread outlives its test, every test ends, what is shown follows the window's fields |
| `StoreSwap` | 2 sources (one with a certificate), 3 backups, 1 crash, all faults that raise | nothing is lost; what is in place is one whole set, nothing after a swap cut in two, or part of a complete backup after a wiping or copying back cut short; the list matches the disk; a restore gives back |
| `Credentials` | 2 users, 3 passwords, 2 windows, 4 acts, one kind of failure or haste, fair | a keyring item belongs to its user; what was typed last and not cleared since is stored and sent; a reset that finished forgets; what is typed and left alone is stored |
| `OpenVPN3` | 2 sessions that ask up to twice, 4 kinds of session, 1 kind of disorder, 2 failing calls, fair | the window shows the session there is and hears of its end; only a failed Disconnect leaves a session without a handle; an attempt whose calls succeed ends or asks for a code |

Of the type invariants only `Cascade!TypeOK` is a run's property; those of the
other modules were checked on the same instances.

### Disagreements between code and documentation

Two runs expect a violation; each is a finding of `PROJECT.json`, with the line
it contradicts.

* `CascadeBlames`: the disconnection of the server that was given up is
  delivered a second later, when the next attempt is already connecting, and
  that server is given up for it.
* `WindowReconnect`: the reconnect timer has no handle and is never removed. If
  the user connects by hand within its three seconds, it calls the same toggle
  and cancels his attempt, or disconnects the tunnel it was to restore.

Others were confirmed with TLC by changing a constant or dropping an
observer, and have no run:

* a tick dispatched late runs `_on_timeout`, which forgets the live timeout
  source (`CC:543`); the source fires while the next attempt is settling and
  gives up a server that was never tried;
* an open dialog freezes the deadline but not the timeout source (`CC:531`), so
  a dialog closed at the wrong moment leaves the server blamed for a timeout
  with budget to go;
* the flags of a cancellation are set one by one and outside the lock
  (`CM:386-387`): a worker that pops the next operation in between clears those
  that are set, and a cancelled run may leave a tunnel (`lost` of
  `CascadeOverNM`); a failure already on the main loop is
  delivered after the cancellation that should suppress it;
* a connect that outlives its attempt's budget brings up a tunnel after the run
  was exhausted, and a run that is cancelled while its profile is being activated
  and started again at once may be told of the old tunnel (`prompt` of
  `CascadeOverNM` excludes both); a connected event while the run is settling ends
  it as the success of a server that was not yet tried;
* `disconnect()` without a UUID takes the tunnel down and leaves the profile
  that its docstring says it removes (`CM:532`);
* a source folder that cannot be listed counts as an empty one, and the swap
  replaces the existing configurations by nothing (`Faults` with `silent`);
* a reset clears the keyring item of the user shown; items of users whose names
  were entered earlier stay.

What `Credentials` excludes by its observers: after a failed lookup the password
in memory stands in, whichever user it was typed for (`borrowed`), and is then
stored under the name that is shown; a lookup that is answered after the user
name has changed stores one user's password for another (`staleLookup`). Clearing
the password entry does not clear the keyring item, and a connection uses the
copy in memory only when the lookup raises, although the docstring of
`process_password` says that it is used from there.

What `OpenVPN3` excludes by `untidy` or by the premise of `AttemptEnds`: the end
of a session removes the attention subscription while `self.watch` stays `True`,
so a later session asks for its password in vain; a session that asks for
nothing is never told to connect, because only an answered request does that; a
call that provides an input or connects may fail, and is only logged; cancelling an attempt leaves
its session alive, and closing the code dialog leaves it waiting; a late signal
of the session before removes the subscriptions of the new one; a change of
backend forgets a live session; a session that cannot be imported or prepared,
or needs an input other than a login or a code, leaves "Connecting...". A
Disconnect that fails loses the handle of a live session (`CM:660-670`). The
paste handler of `otp.py:89-107` is never reached.

Smaller divergences have no run, because the code's behaviour is plain:
`auto_connect.py:167` says that the visual order is preserved, while lines
194-201 sort by latency as soon as one is known; `CC:301` speaks of a 60-second
budget, while budgets lie between 30 and 45 seconds; `CC:173` says the cascade
starts at the first visible server, while it takes all configurations, visible
or not; `eovpn_base.py:692` and `:755` call the swap atomic, while a process
killed between its two renames leaves no directory (`InPlace` says so); `MW:1225` says that `select_fastest` takes the fastest visible server,
while it takes the fastest measured one (nothing calls it at this commit). And three facts about
`ConfigStore` that its passing run excludes by a constant, each confirmed with
TLC by changing that constant: with `Patient = FALSE` a reset that starts
between the two renames backs up an empty directory and the configurations are
gone; two imports at once can lose them as well; with `MaxCrashes = 2`, a crash
between the renames and another in the next import after `rmtree(.old)` leave
only the staging directory, which the import after that clears.

## 4. Bounds, and why they are enough

* Budgets are 2 ticks, the settle pause and the extension 1. What the
  properties tell apart is the order of deadline, tick and settle, and
  `Settle < Budget` (0.55 s against at least 30 s) is an assumption.
* `MaxGen` bounds the runs: 2 suffice for a late source to meet the next run
  (`CascadePunctual`), 4 let sources of several runs accumulate (`CascadeLate`).
  It only stops new runs from starting.
* `OrphanIds` (2) bounds the sources nobody names at one time.
* `CascadeLate` has no dialogs: with late dispatch and a dialog that keeps
  extending deadlines, forgotten sources and frozen deadlines drift apart
  without bound and the state space is infinite. Dialogs are covered with
  punctual dispatch.
* `MaxCalls` bounds requests of the GTK thread: 3 to 5 cover connect, cancel,
  connect, disconnect and a restart between them. Three UUIDs are needed for two
  profiles and one forgotten.
* `Window` has two UUIDs: a profile and one that was forgotten. Its safety
  properties are proved for any number of them and of requests.
* `CascadeOverNM`: a budget of 3, a delay of 2 and a settle pause of 1 keep the
  order the code has (45 s > 1 s > 0.55 s). One run suffices, because a second
  one meets what the first left, which the initial states include. Queues of one
  server let native calls take any time (`SlowUpTo`); in queues of two, time
  passes only when the worker is idle, without which the instance exceeds
  minutes. `Faults = FALSE` and `MaxCalls = 1`: failing calls are in `Window`.
* `Credentials`: two users and a second password for one of them tell whose
  password is stored and which came last; two windows let a closed one write
  into the other's time. `MaxMishaps = 1` takes each kind of failure or haste
  alone; the safety properties are proved for any number of windows, acts and
  mishaps together. That `TypedIsStored` names `borrowed` was found with the
  passwords of both users saved: a failed lookup alone can also replace the
  password typed last, with the one a lookup for the other user left in memory.
* `OpenVPN3`: two sessions let the signals of one meet the other; `MaxAsks = 2`
  opens a second code dialog; `MaxSignals` bounds only pause and resume.
  `MaxUntidy = 1` takes each kind of disorder alone, `MaxFailures = 2` lets a
  failed call of one session meet one of the other.
* `ListSpeed`: one measured latency and one unreachable server suffice, because
  both sides of `ListFollowsWindow` use the same order; what counts is when it is
  computed. Lists of two names that overlap let an import change what a running
  test measures. `MaxFavorites` bounds the favorites at one time.
* Two sources suffice for an import that replaces another; two files make a
  partial directory; three backups allow a reset, a restore and a restore of
  the restore.
* `CHECK_DEADLOCK FALSE`: the NetworkManager runs, alone, under the window or
  under the cascade, stop when their requests or runs are used up and the
  backend is at rest; the queue specification makes one step; `Credentials` and
  `OpenVPN3` stop when the user has used up his acts or sessions. The
  controller, the list and the store never stop.

Symmetry over threads and UUIDs is used only in runs without liveness.

## 5. Fairness

The user, the daemon and the network are never fair. `Cascade!Fairness` is weak
fairness of the main loop (GLib dispatches due sources and time passes) and of
the speed test's completion (every probe has a socket timeout).
`ConnectionUI!UIFairness` is weak fairness of the worker (every native call ends
within its watchdog), of the few statements between the first flag and the lock in
`cancel_current_operation`, of the dispatch of the backend's callbacks, and of
the end of a handshake, which NetworkManager bounds with a timeout of its own.
`ServerList!Fairness` is weak fairness of the test's threads (every probe has a
socket timeout) and of the posted completion. `Credentials!FairSpec` is weak
fairness of the timers, the Secret Service and its callbacks together;
`OpenVPN3!FairSpec` of the dispatch of signals and of the session manager, which
asks for what it needs and bounds its handshakes. `CascadeOverNM` has no
liveness and states no fairness.
`EveryRunEnds` assumes in addition that dialogs are
closed for good at some time.

## 6. What is proved

`CascadeProofs`, from `CascadeAssumption`, for any servers, queues, budgets,
dispatch order, dialogs and number of runs:

* `TypeCorrect`: `Spec => []TypeOK`.
* `CascadeNeverStuck`: an active run waits for a live speed test, or a source of
  its own generation is attached.
* `ButtonComesBack`: the speed-test button is insensitive only while a run is
  active or a test is going on.

The inductive invariant is the conjunction of the three, because they need each
other: a run waits in PREPARING only if its test really started, which needs
the button; the button stays locked only while a run is active. The argument
follows the code: a lemma per method says which record it returns (its type)
and that it returns one that is `Fit` (it ended the run, or left a source of
the current generation behind); the step lemma only puts methods together.

Of the walk, in the same module:

* `VerdictsInOrder`: `Spec => []VerdictsFollowQueue`, and
* `ExhaustedHasTriedAll`: `Spec => []ExhaustedTriedAll`, both for
  `LateDispatch = FALSE`; with `TRUE` TLC refutes the first.
* `RevivedUnderNewGeneration`: `Spec => RevivedOnlyAsNewRun`, for either.

The invariant `InOrder` says: there are no forgotten sources; a timer is armed
only in a run under way; a tick never outlives the timeout it was armed with,
nor sees the deadline before it; the servers before `index` have been tried and
blamed in their order; and whenever a verdict may be given the attempt in
progress is the one at `index`. The second conjunct carries the argument: it is
what a late tick breaks. The third theorem needs none of this: every method that
makes a finished run active takes a new generation first.

* `AttemptsAreBounded`: `Spec => []AttemptsBounded`, for any `LateDispatch`.

The counter `disconnect_retries` is reset whenever a connect is accepted and not
between two servers, so the bound is not inductive. `Bounded` says in addition
that no server occurs twice in the queue, that the servers behind the one at
`index` have not been opened, and, while the settle timer is armed (only it opens
a server again), that the attempts of the server at `index` are at most three and
at most `retries`.

* `ImplementsAutoConnect`: `Spec => KeepsPromise` for `LateDispatch = FALSE`.

`Sound` adds to `InOrder` what the mapping needs: the servers for which attempts
were opened are a prefix of the queue, one longer than `index` or as long. Each
method is shown to make the move of the abstract walk it stands for (`Moves`), or
none, and the step lemma puts moves and sources together.

`NMBackendProofs`, for any threads, UUIDs, requests, faults and restarts:

* `TypeCorrect`: `Spec => []TypeOK`.
* `OperationsSerialized`: at most one thread is inside the runner's loop.
* `QueueNeverStranded`: if something is queued, a thread will look at the queue.

and, if NetworkManager carries out what it is asked (`Faults = FALSE`; a call
that fails or is given up may leave anything up, which the code cannot know):

* `CancelledLeavesNothing`: `Spec => []CancelledIsDown`.
* `DisconnectLeavesNothing`: `Spec => []DisconnectTakesDown`, and
* `AtMostOneTunnel`: `Spec => []OneTunnel`, both for `Polite = TRUE`: the cascade's
  overlapping connects refute them.

That operations are serialized and not stranded is not inductive. The invariant says how `_worker_thread` follows the loop:
it names exactly the thread inside, because the runner clears it in the same
lock section in which it finds the queue empty; and a queued operation implies
that it is not `None`. All steps of an operation are one lemma (`Inside`): they
keep the thread inside and leave queue and field alone. For the tunnels,
`NativeInv` says at each of the worker's program counters what it has left in
NetworkManager: which profile it holds, and that nothing is active before its
activation or after its deactivation. `TunnelInv` adds what one connect at a
time gives: until the profile is activated nothing at all is up, because
`connect()` asked for the status when it queued the operation and nothing has
been activated since, and what is up is the profile whose UUID is known, unless a
restart forgot it.

The module ends with what a step of a worker or of NetworkManager can do to the
tunnels and to what the callback will hear (`Effect`: it takes an operation,
goes on, fails before anything is up, activates its profile or takes a tunnel
down). The proofs about the clients use this and none of the worker's actions.

`NMClientsProofs`, of `ConnectionUI`, for any threads, UUIDs, requests, faults
and restarts:

* `WindowTypeCorrect`: `UISpec => []UITypeOK`.
* `AttemptIsBacked`: `UISpec => []AttemptBacked`.
* `WindowTellsTunnel`: `UISpec => []WindowFollowsTunnel`.
* `NoStaysNo`: `UISpec => NoReconnectAfterNo`.

`AttemptInv` explains why "Connecting..." is never left alone: the window is
watching and its callbacks are not suppressed; an operation that failed is
reported unless it was cancelled; and if the cancel flag is still set from an
earlier cancellation, the attempt's own operation is still queued (taking it
clears the flag) or was refused. `CalmInv` is about a user who waits. He has
asked for one thing at a time, so there is one operation and at most one tunnel,
and what he has yet to hear is one of a few stages: `Asking`, until the
operation activates a profile, fails or is refused; then `Stages`, from a
handshake through the signals on the bus and the second a disconnection waits to
the window having been told. At rest only the stages remain in which window and
tunnel agree, and that is where the next request starts. `NoInv` adds that after
a request to disconnect no attempt is under way and a connection the window
remembers is marked as ended by hand.

The same module, of `CascadeOverNM`, for any servers, threads, profiles and faults:

* `ImplementsController`: `ComposedSpec => ControllerIsCascade`. Every step of
  the composition is a step of `Cascade` or leaves its variables alone; the
  invariant `Between` says that the GTK thread is in the middle of one thing at
  a time. So what the runs and proofs show of the controller over its open
  backend holds over NetworkManager.

and, for `Faults = FALSE`:

* `FailedRunIsDown`: `ComposedSpec => []FailedRunLeavesNothing`.
* `SuccessIsItsOwn`: `ComposedSpec => SuccessIsOwn`.

Neither looks into the controller's methods. `CascadeProofs` ends with what a
step of it can be to a backend (`Follows`): it leaves the run alone, it settles
and asks for a disconnect if a tunnel is up, it tries a server because none is,
or it is over. `NMClientsProofs` instantiates that module, shows that its
operators are those of the composition (`Same...`), and carries each step out on
the backend of `NMBackendProofs` (`Turn`). `ComposedInv` has three layers:

* `Grounds`, without any premise: types, `Between`, and the run's own shape;
* `TunnelInv` and `OwnInv`, while `prompt` holds. There is one connect at a time,
  here not because `connect()` is called politely but because every attempt is
  opened on a clear field; and while the run is connecting, whatever is queued,
  under way or up belongs to the server at its turn, and a signal that a tunnel
  came up means that no connect is left;
* `LeftInv`, while in addition no flag was `lost`: when the run is not
  connecting, a connect at work will find itself cancelled, and a tunnel that is
  up is `Doomed`: a disconnect is queued or has not passed the point where it
  takes the tunnel down, or the connect that made it is about to undo it.

`prompt` excludes an attempt that was given up, or opened, while an earlier
connect was still at work, and one that was opened with a signal still on the
bus; `lost` is the race of the cancel flag. Section 3 says what the code does
then.

`CascadeQueueProofs`, for any names, latencies, lists and limits:

* `BudgetWithinBounds`, `SlowerServersGetNoLess`: a budget lies between 30 and 45
  seconds for every measurement and does not decrease with latency.
* `QueueHasNoRepetitions`: `Spec => []TypeOK`.
* `WalkIsFastestFirst`: `Spec => []FastestFirst`.
* `DeadServersOnlyIfNoOther`: `Spec => []DeadOnlyAsLastResort`.
* `QueueSpendsLeastFirst`: `Spec => []BudgetsFollowQueue`.

The queue is defined by ranks: the server at place `i` is the one with `i - 1`
candidates before it. That there is exactly one for each place is a counting
argument: the keys (latency, then place in the list) order the candidates
totally, so a slower server has more before it, ranks are pairwise different, and
an injection of a finite set into an interval of its own size meets every place.

`ServerListProofs`, for any names, lists, pool threads, tests and favorites:

* `ListAlwaysFollows`: `Spec => []ListFollowsWindow`.
* `PoolIdleBetweenTests`: `Spec => []NoStragglers`.
* `SnapshotIsWholeTest`: `Spec => WholeSnapshot`.

The first is inductive once it is split into the cached order and the cached
selection. What holds a test together is the cancel event: it is set only while
a test runs and cleared only when one starts, so `TestInv` says that while it is
clear nothing was skipped, dropped or left out since the test began, and that
the pool is empty before a thread submits and after it has shut down.

`ConfigStoreProofs`, for any sources, files, threads, backups and faults:

* `TypeCorrect`: `Spec => []TypeOK`; it needs `HasLatest` and `RestoreFrom`, that a
  restore always has a backup to restore from.
* `ListAlwaysMatches`: `Spec => []ListMatchesDisk`.
* `RestoreReturnsBackup`: `Spec => []RestoreGivesBack`.
* `AllOrNothing`: `Spec => []InPlace`, if no source is read in part without an
  error (`"silent" \notin Faults`), after any number of crashes. The two ways in
  which what is in place is not what was put there whole are named in the
  property.
* `OneCrashLosesNothing`: `Spec => []NothingLost`, under the same assumption and
  for `MaxCrashes <= 1`.

All but the first are for `Patient = TRUE`. Each of these assumptions is needed:
section 3 says what TLC finds without it. The invariant is built in layers, each
inductive on top of the ones before: one thing at a time (`Exclusive`), the last
idle callback decides what is listed (`ListInv`), what an import has staged and
where it made room (`StagingInv`), what a backup that is being made or restored
holds (`BackupInv`), and where the files are that the user owns (`PlaceInv`,
`KeptInv`). The last one says that they are in place, in a complete backup, in
CONFIGS.old, or nowhere but about to be replaced by a source that was read
whole; before the first crash CONFIGS.old is not even needed, except between the
two renames, and that is why an import that begins by removing it loses nothing.

`OpenVPN3Proofs`, for any sessions, inputs and signals in flight:

* `TypeCorrect`: `Spec => []TypeOK`.
* `ShownConnectionIsHeard`: `Spec => []ShownIsHeard`.
* `WindowShowsSession`: `Spec => []WindowFollowsSession`.
* `NoSessionLeftBehind`: `Spec => []NoOrphans`.

All are for any failing calls; the last two name the ones that do harm: a
Disconnect that fails loses the handle, and a log that is not forwarded leaves
the window in ignorance.

The window is right only once the signals on their way have been dispatched, so
the invariants are about the queue. `HeardInv`: a connection that is shown, or
will be, is up and listened to, or a signal that ends it is on its way. `InStep`,
for as long as `untidy` is empty: at most one session lives and the manager holds
it, those aside whose Disconnect failed; the last signal is what the window will show; and a signal that ends a
session is the last one, because the handler of that signal removes the
subscriptions and with them whatever came after it.

`CredentialsProofs`, for any users, passwords, settings windows and acts:

* `TypeCorrect`: `Spec => []TypeOK`.
* `KeyringIsOwn`: `Spec => []OwnPassword`.
* `TypedIsKept`: `Spec => []TypedIsStored`.
* `ResetIsForgotten`: `Spec => []ResetForgets`.

Requests are served in any order, so the invariants are about the set of those
in flight. `Owned`: every password in the keyring, in a timer, in a store or in
an answer is its user's, and every lookup is for the user who is shown and the
window that is open. `Kept` follows the password typed last: it is in the
keyring, in a store or in a timer; no other write is for its user; and a lookup
is in flight only if it is in the keyring already. `Forgets` is its counterpart
for a user who was reset. What makes both inductive is that an act of the user's
that overtakes nothing finds no request in flight and no timer of a closed
window (`ActFindsRest`), so whatever a lookup brings was asked for after the act.

## 7. What is only model-checked

* Liveness (`EveryRunEnds`, `AttemptEnds` of both backends, `TestEnds`,
  `TypedGetsStored`): fairness is out of the prover's reach.
* `TypeOK` of `ServerList`: the sorted list is a recursive function, and what it
  returns for every input needs induction over data, which the installed
  provers cannot do.

## 8. Plan

Next module: `CascadeOverNM` with the window's fields, which hear nothing while
the cascade consumes the events (`MW:1403`).

Theorems: for that module, that its window is told of the tunnel a cascade leaves
once the run has ended, on top of `ComposedInv`.

## 9. What is not modelled, and why

* Labels, toasts, banners, notifications, badges, colours, translations.
* `cascade.py`: the progress fraction and texts of the banner, without state.
* `ip_lookup/lookup.py`: one HTTP request per call, only displayed.
* `network_monitor.py`: reading and formatting of counters; the polling source
  itself is `monitor` of `ConnectionUI`.
* What becomes of the OpenVPN 3 library at this commit:
  `subprojects/openvpn3/openvpn3.h:31-32` declares `set_dco` and
  `set_receive_log_events`, which `openvpn3.c` does not define, and
  `cffi_compile.py` wraps every declaration of the header, so the extension
  cannot be imported and `available_backend_names` never offers it. `OpenVPN3`
  models the classes and handlers as they would run with a library that loads.
* `ovpn_parser.py` and the audit of imported files: text scanning without state;
  the backend keeps their verdict (accepted or refused).
* The digits of `dialogs/otp.py`: a code is submitted or the dialog is closed; for
  a cascade it is open or closed, like any modal window.
* `application.py`, `ui_compat.py`: start-up and widget construction.
* Selection, scrolling and the rows' own labels: presentation over the list that
  `ServerList` has.
