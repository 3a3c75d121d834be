---------------------------- MODULE Credentials ----------------------------
(***************************************************************************)
(* The VPN user name and password: the two entries of the settings window  *)
(* (settings_window.py), the password in the keyring, reached through      *)
(* asynchronous Secret Service requests, the copy in memory that stands in *)
(* for it (eovpn_base.py), and what a connection attempt sends             *)
(* (connection_manager.py, backend/openvpn3/dbus.py).                      *)
(*                                                                         *)
(* A request takes several D-Bus round trips, so requests may be served in *)
(* any order, and each may fail.  Every opening of the settings window     *)
(* makes a new object with a write timer of its own; the timer and the     *)
(* lookup of a closed window live on.  The text of the user name entry is  *)
(* the AUTH_USER setting (but for a reset that halts, and nothing reads it *)
(* there before it is edited again), so it is not a variable.  An empty    *)
(* entry and an absent password are NoUser and NoPwd.                      *)
(***************************************************************************)
EXTENDS Naturals, Sequences, FiniteSets, SequencesExt

CONSTANTS
    Users, NoUser,
    Pwds, NoPwd,
    Owner,        \* Owner[p]: the user whose password p is
    Saved,        \* Saved[u]: u's password in the keyring when the program starts
    Faults,       \* what may fail: "lookup", "store", "clear", "directory"
    MaxWindows,   \* bound: openings of the settings window
    MaxMishaps,   \* bound: kinds of failure and haste in one behaviour
    MaxSteps      \* bound: edits, resets, restores and ends of the process

ASSUME CredentialsAssumption ==
    /\ NoUser \notin Users /\ NoPwd \notin Pwds
    /\ Owner \in [Pwds -> Users]
    /\ Saved \in [Users -> Pwds \cup {NoPwd}]
    /\ \A u \in Users : Saved[u] # NoPwd => Owner[Saved[u]] = u
    /\ Faults \subseteq {"lookup", "store", "clear", "directory"}
    /\ MaxWindows \in Nat /\ MaxSteps \in Nat /\ MaxMishaps \in Nat

VARIABLES
    user,       \* SETTING.AUTH_USER, and the text of the user name entry
    session,    \* _session_secrets["auth_password"]
    keyring,    \* the Secret Service: one item per user name
    cur,        \* the settings window that is open, 0 if none
    shown,      \* the text of each window's password entry
    pending,    \* _keyring_write_source of each window, with the timer's arguments
    requests,   \* Secret Service requests that are not finished
    snapshot,   \* AUTH_USER in the latest reset backup, if there is one
    opened,     \* windows opened so far
    steps,      \* actions of the user so far
    promise,    \* observer: the password typed last, if nothing revoked it
    forgotten,  \* observer: the users of the latest finished reset or restore
    mishaps     \* observer: what failed or was overtaken by the user

observers == <<promise, forgotten, mishaps>>
vars == <<user, session, keyring, cur, shown, pending, requests, snapshot,
          opened, steps, observers>>

Windows == 1..MaxWindows
AnyUser == Users \cup {NoUser}
AnyPwd == Pwds \cup {NoPwd}
Credential == [user : AnyUser, pwd : AnyPwd]
Nothing == [user |-> NoUser, pwd |-> NoPwd]
Request == [op : {"lookup", "answer", "raised", "store", "clear"},
            user : Users, pwd : AnyPwd, win : Windows]

TypeOK ==
    /\ user \in AnyUser /\ session \in AnyPwd
    /\ keyring \in [Users -> AnyPwd]
    /\ cur \in 0..MaxWindows /\ opened \in cur..MaxWindows
    /\ shown \in [Windows -> AnyPwd]
    /\ pending \in [Windows -> Credential]
    /\ requests \in Seq(Request)
    /\ snapshot \in [there : BOOLEAN, user : AnyUser]
    /\ steps \in 0..MaxSteps
    /\ promise \in Credential
    /\ forgotten \subseteq Users
    /\ mishaps \subseteq {"lookup", "borrowed", "store", "clear", "staleLookup",
                    "overtaken", "halted"}

(* The program starts with the settings and the keyring of earlier runs.   *)
Init ==
    /\ user \in AnyUser /\ session = NoPwd
    /\ keyring = Saved
    /\ cur = 0 /\ opened = 0 /\ steps = 0
    /\ shown = [w \in Windows |-> NoPwd]
    /\ pending = [w \in Windows |-> Nothing]
    /\ requests = <<>>
    /\ snapshot = [there |-> FALSE, user |-> NoUser]
    /\ promise = Nothing /\ forgotten = {} /\ mishaps = {}

-----------------------------------------------------------------------------
(* Helpers.                                                                *)

InFlight(ops) == \E i \in DOMAIN requests : requests[i].op \in ops

LookupOps == {"lookup", "answer", "raised"}

(* A store or a clearing is on its way, or a closed window has one to make.*)
Unwritten ==
    InFlight({"store", "clear"}) \/ \E w \in Windows \ {cur} : pending[w] # Nothing

Settled == requests = <<>> /\ \A w \in Windows : pending[w] = Nothing

Mishap(kinds) ==
    /\ Cardinality(mishaps \cup kinds) <= MaxMishaps
    /\ mishaps' = mishaps \cup kinds

(* The user does something that ends as wrong says; what he overtakes by it*)
(* is noted too.                                                           *)
Overtake(wrong) ==
    Mishap(wrong \cup (IF InFlight(LookupOps) THEN {"staleLookup"} ELSE {})
                 \cup (IF Unwritten THEN {"overtaken"} ELSE {}))

Act(wrong) == steps < MaxSteps /\ steps' = steps + 1 /\ Overtake(wrong)

(* _clear_persisted_password                                               *)
ClearRequest(u) ==
    IF u = NoUser THEN <<>>
    ELSE <<[op |-> "clear", user |-> u, pwd |-> NoPwd, win |-> cur]>>

(* process_password of window w, whose entry now reads p.                  *)
ProcessPassword(w, p) ==
    /\ shown' = [shown EXCEPT ![w] = p]
    /\ IF p # NoPwd /\ user # NoUser
       THEN /\ session' = p
            /\ pending' = [pending EXCEPT ![w] = [user |-> user, pwd |-> p]]
       ELSE /\ session' = NoPwd
            /\ pending' = [pending EXCEPT ![w] = Nothing]

-----------------------------------------------------------------------------
(* The settings window.                                                    *)

(* SettingsWindow().show(): the password is looked up for the user shown.  *)
OpenSettings ==
    /\ cur = 0 /\ opened < MaxWindows
    /\ Overtake({})
    /\ opened' = opened + 1 /\ cur' = opened + 1
    /\ requests' = IF user = NoUser THEN requests
                   ELSE Append(requests, [op |-> "lookup", user |-> user,
                                          pwd |-> NoPwd, win |-> opened + 1])
    /\ UNCHANGED <<user, session, keyring, shown, pending, snapshot, steps,
                   promise, forgotten>>

(* Mutant of CloseSettings: closing takes back the pending write.          *)
CloseSettingsDropsWrite ==
    /\ cur # 0
    /\ cur' = 0
    /\ pending' = [pending EXCEPT ![cur] = Nothing]
    /\ UNCHANGED <<user, session, keyring, shown, requests, snapshot, opened,
                   steps, observers>>

CloseSettings ==
    /\ cur # 0
    /\ cur' = 0
    /\ UNCHANGED <<user, session, keyring, shown, pending, requests, snapshot,
                   opened, steps, observers>>

(* Mutant of ProcessUsername: a new user name drops the pending write.     *)
ProcessUsernameDropsWrite(u) ==
    /\ cur # 0 /\ u # user
    /\ Act({})
    /\ user' = u
    /\ pending' = [pending EXCEPT ![cur] = Nothing]
    /\ UNCHANGED <<session, keyring, cur, shown, requests, snapshot, opened,
                   promise, forgotten>>

(* The user edits the user name; the password entry is left as it is.      *)
ProcessUsername(u) ==
    /\ cur # 0 /\ u # user
    /\ Act({})
    /\ user' = u
    /\ UNCHANGED <<session, keyring, cur, shown, pending, requests, snapshot,
                   opened, promise, forgotten>>

(* The user edits the password; he types his own.                          *)
TypePassword(p) ==
    /\ cur # 0 /\ p # shown[cur]
    /\ p # NoPwd => user \in {NoUser, Owner[p]}
    /\ Act({})
    /\ ProcessPassword(cur, p)
    /\ LET typed == [user |-> user, pwd |-> p]
           whole == user # NoUser /\ p # NoPwd
       IN /\ promise' = IF whole THEN typed ELSE Nothing
          /\ forgotten' = IF whole THEN forgotten \ {user} ELSE forgotten
    /\ UNCHANGED <<user, keyring, cur, requests, snapshot, opened>>

(* Mutant of FlushPassword: the user name is read when the timer fires.    *)
FlushPasswordForShownUser(w) ==
    /\ pending[w] # Nothing
    /\ pending' = [pending EXCEPT ![w] = Nothing]
    /\ requests' = IF user = NoUser THEN requests
                   ELSE Append(requests, [op |-> "store", user |-> user,
                                          pwd |-> pending[w].pwd, win |-> w])
    /\ UNCHANGED <<user, session, keyring, cur, shown, snapshot, opened, steps, observers>>

(* The timer fires, 800 ms after the last edit: _flush_password_to_keyring.*)
FlushPassword(w) ==
    /\ pending[w] # Nothing
    /\ pending' = [pending EXCEPT ![w] = Nothing]
    /\ requests' = Append(requests, [op |-> "store", user |-> pending[w].user,
                                     pwd |-> pending[w].pwd, win |-> w])
    /\ UNCHANGED <<user, session, keyring, cur, shown, snapshot, opened, steps, observers>>

-----------------------------------------------------------------------------
(* The Secret Service and the callbacks of its requests.                   *)

Serve(i) ==
    LET r == requests[i] IN
    /\ r.op \in {"lookup", "store", "clear"}
    /\ \/ /\ r.op = "lookup"
          /\ requests' = [requests EXCEPT ![i] = [op |-> "answer", user |-> r.user,
                                                  pwd |-> keyring[r.user], win |-> r.win]]
          /\ UNCHANGED keyring
       \/ /\ r.op # "lookup"
          /\ keyring' = [keyring EXCEPT ![r.user] = r.pwd]
          /\ requests' = RemoveAt(requests, i)
    /\ UNCHANGED <<user, session, cur, shown, pending, snapshot, opened, steps, observers>>

(* A request fails: a store or a clearing is only logged.  It is noted     *)
(* whether the copy in memory, which stands in for a lookup that fails, was*)
(* another user's.                                                         *)
Fail(i) ==
    LET r == requests[i]
        borrowed == r.op = "lookup" /\ session # NoPwd /\ Owner[session] # r.user
    IN
    /\ r.op \in Faults
    /\ requests' = IF r.op = "lookup" THEN [requests EXCEPT ![i].op = "raised"]
                   ELSE RemoveAt(requests, i)
    /\ Mishap({IF borrowed THEN "borrowed" ELSE r.op})
    /\ UNCHANGED <<user, session, keyring, cur, shown, pending, snapshot, opened,
                   steps, promise, forgotten>>

(* on_password_lookup: the password found, or after a failure the one in   *)
(* memory, is put in the entry, which handles it like one that was typed.  *)
LookupDone(i) ==
    LET r == requests[i]
        p == IF r.op = "raised" THEN session ELSE r.pwd
    IN /\ r.op \in {"answer", "raised"}
       /\ requests' = RemoveAt(requests, i)
       /\ IF p = NoPwd \/ p = shown[r.win]
          THEN UNCHANGED <<shown, session, pending>>
          ELSE ProcessPassword(r.win, p)
       /\ UNCHANGED <<user, keyring, cur, snapshot, opened, steps, observers>>

-----------------------------------------------------------------------------
(* Reset, restore, connecting, and the end of the process.                 *)

(* Both put an empty text in the password entry, whose handler takes back  *)
(* the pending write of this window and clears the copy in memory.         *)
ForgetPassword ==
    /\ requests' = requests \o ClearRequest(user)
    /\ session' = NoPwd
    /\ shown' = [shown EXCEPT ![cur] = NoPwd]
    /\ pending' = [pending EXCEPT ![cur] = Nothing]
    /\ promise' = Nothing
    /\ forgotten' = {user} \cap Users
    /\ snapshot' = [there |-> TRUE, user |-> user]
    /\ UNCHANGED <<keyring, cur, opened>>

(* Mutant of ApplyReset: the entries are left as they are.                 *)
ApplyResetKeepsEntries ==
    /\ cur # 0
    /\ Act({})
    /\ user' = NoUser /\ session' = NoPwd
    /\ requests' = requests \o ClearRequest(user)
    /\ promise' = Nothing
    /\ forgotten' = {user} \cap Users
    /\ snapshot' = [there |-> TRUE, user |-> user]
    /\ UNCHANGED <<keyring, cur, shown, pending, opened>>

ApplyReset ==
    /\ cur # 0
    /\ Act({})
    /\ user' = NoUser
    /\ ForgetPassword

(* The snapshot to restore is chosen before the safety backup is made.     *)
ApplyRestore ==
    /\ cur # 0 /\ snapshot.there
    /\ Act({})
    /\ user' = snapshot.user
    /\ ForgetPassword

(* A reset or restore raises at the managed directory: its backup is made, *)
(* the password is cleared if it got that far, and the window keeps its    *)
(* entries and its timer.  A backup that fails leaves all as it was.       *)
Halts(cleared) ==
    /\ "directory" \in Faults
    /\ Act({"halted"})
    /\ requests' = IF cleared THEN requests \o ClearRequest(user) ELSE requests
    /\ promise' = IF cleared THEN Nothing ELSE promise
    /\ snapshot' = [there |-> TRUE, user |-> user]
    /\ UNCHANGED <<keyring, cur, shown, pending, opened, forgotten>>

(* reset_paths raises when the settings are already reset: the entry still *)
(* shows the user name that the setting has lost.                          *)
ApplyResetHalts ==
    /\ cur # 0
    /\ Halts(TRUE)
    /\ user' = NoUser /\ session' = NoPwd

(* The snapshot is refused, or wiping or copying raises after the clearing;*)
(* the settings and the copy in memory come last and are not reached.      *)
ApplyRestoreHalts ==
    /\ cur # 0 /\ snapshot.there
    /\ \E cleared \in BOOLEAN : Halts(cleared)
    /\ UNCHANGED <<user, session>>

(* What a connection attempt made now sends (_connect_blocking and         *)
(* get_auth_password): the copy in memory is used only if the lookup raises.*)
ConnectionPassword(raises) ==
    IF user = NoUser THEN NoPwd
    ELSE IF raises THEN session ELSE keyring[user]

(* The main window closes (_on_window_close), and the process ends: its    *)
(* timers and what has not reached the Secret Service are gone.            *)
Quit ==
    /\ steps < MaxSteps
    /\ steps' = steps + 1
    /\ session' = NoPwd /\ cur' = 0
    /\ shown' = [w \in Windows |-> NoPwd]
    /\ pending' = [w \in Windows |-> Nothing]
    /\ requests' = <<>>
    /\ Mishap(IF InFlight({"store", "clear"}) THEN {"overtaken"} ELSE {})
    /\ promise' = IF \E w \in Windows : pending[w] # Nothing THEN Nothing ELSE promise
    /\ UNCHANGED <<user, keyring, snapshot, opened, forgotten>>

User ==
    \/ OpenSettings \/ CloseSettings
    \/ \E u \in AnyUser : ProcessUsername(u)
    \/ \E p \in AnyPwd : TypePassword(p)
    \/ ApplyReset \/ ApplyRestore \/ ApplyResetHalts \/ ApplyRestoreHalts
    \/ Quit

System ==
    \/ \E w \in Windows : FlushPassword(w)
    \/ \E i \in DOMAIN requests : Serve(i) \/ Fail(i) \/ LookupDone(i)

Next == User \/ System

Spec == Init /\ [][Next]_vars

(* Timers fire, requests are answered and their callbacks run; nobody has  *)
(* to do anything.                                                         *)
FairSpec == Spec /\ WF_vars(System)

-----------------------------------------------------------------------------
(* Properties.                                                             *)

(* A user's keyring item is a password of his: the user name may change    *)
(* between an edit and its write, a lookup is in flight while the window   *)
(* is closed and reopened, writes are served in any order.  Not so when    *)
(* the user overtakes a lookup, or when a lookup fails while the copy in   *)
(* memory, kept for no particular user, is of another one.                 *)
OwnPassword ==
    mishaps \cap {"staleLookup", "borrowed"} = {} =>
        \A u \in Users : keyring[u] # NoPwd => Owner[keyring[u]] = u

(* Once all is settled the password that was typed last is the one stored, *)
(* whatever was done to the user name or the window since, and if the open *)
(* window shows it under the name it was typed for, a connection sends it, *)
(* be the keyring readable or not.  Left out: a password typed before a    *)
(* reset or restore that cleared it, also one that raised after that and   *)
(* left the password in the entry; a user who acts while a lookup, a store *)
(* or a clearing is on its way; a store that fails; and a lookup that fails*)
(* while another user's password is in memory.                             *)
TypedIsStored ==
    (/\ Settled /\ promise # Nothing
     /\ mishaps \cap {"overtaken", "staleLookup", "store", "borrowed"} = {})
        => /\ keyring[promise.user] = promise.pwd
           /\ (cur # 0 /\ user = promise.user /\ shown[cur] = promise.pwd) =>
                 \A raises \in BOOLEAN : ConnectionPassword(raises) = promise.pwd

(* After a finished reset or restore the password of the user it was made  *)
(* for is gone and stays so until one is typed for him again: neither the  *)
(* window that was reset, nor the restored settings, nor the copy in memory*)
(* brings it back.  Stores and lookups may fail, and later resets and      *)
(* restores raise halfway.  Left out: a clearing that fails, requests and  *)
(* lookups that the user overtakes, and a failed lookup that borrows the   *)
(* password of another user.                                               *)
ResetForgets ==
    (Settled /\ mishaps \subseteq {"store", "lookup", "halted"})
        => \A u \in forgotten : keyring[u] = NoPwd

(* A password that is typed and left alone reaches the keyring, also from  *)
(* a window that was closed before the timer fired; unless the write fails *)
(* or the user overtakes requests or lookups.                              *)
TypedGetsStored ==
    \A u \in Users, p \in Pwds :
        promise = [user |-> u, pwd |-> p] ~>
            \/ keyring[u] = p
            \/ promise # [user |-> u, pwd |-> p]
            \/ mishaps \cap {"overtaken", "staleLookup", "store"} # {}
=============================================================================
