---------------------------- MODULE ConfigStore ----------------------------
(***************************************************************************)
(* The managed configuration directory: importing a source through a       *)
(* staging directory and a swap (validate_and_load of eovpn_base.py, with  *)
(* download_remote_to_destination of utils.py), the reset that wipes it    *)
(* and the restore that brings it back (settings_window.py with            *)
(* reset_backup.py), and the list the window shows.                        *)
(*                                                                         *)
(* An import runs on a worker thread, a reset or restore on the GTK        *)
(* thread, list updates in idle callbacks.  Copying and removing a         *)
(* directory take one step per file, a rename is one step, and the process *)
(* may die between any two steps; what is on disk and in GSettings stays.  *)
(* A file stands for a name and its contents, so the files of two sources  *)
(* are different ones.                                                     *)
(***************************************************************************)
EXTENDS Naturals, Sequences, FiniteSets

CONSTANTS
    Sources,      \* configuration sources the user may enter
    NoSource,     \* SETTING.REMOTE is empty
    Files,        \* configuration files and certificates
    Certs,        \* those that are certificates
    NoCert,       \* SETTING.CA is empty
    Content,      \* Content[s]: the files of source s
    Workers,      \* import threads
    Patient,      \* TRUE: the user starts nothing while something is going on
    Faults,       \* what may go wrong: "fetch", "silent", "backup", "restore"
    MaxBackups,   \* bound: reset backups
    MaxCrashes    \* bound: crashes

ASSUME StoreAssumption ==
    /\ NoSource \notin Sources
    /\ Certs \subseteq Files /\ NoCert \notin Certs
    /\ Content \in [Sources -> SUBSET Files]
    /\ Patient \in BOOLEAN
    /\ Faults \subseteq {"fetch", "silent", "backup", "restore"}
    /\ MaxBackups \in Nat /\ MaxCrashes \in Nat

VARIABLES
    disk,       \* the directories CONFIGS, CONFIGS.staging and CONFIGS.old
    backups,    \* reset-backup-*, oldest first
    settings,   \* GSettings: the source and the certificate
    job,        \* the import threads
    pendingCa,  \* self._pending_ca_setting
    ui,         \* the GTK thread: free, or inside a reset or restore
    idles,      \* idle sources, in the order they were added
    listed,     \* the configurations the window lists
    halted,     \* observer: what was cut short and not made good since
    owned,      \* observer: the last set of files that was put in place whole
    before,     \* observer: what the latest complete backup is a backup of
    crashes     \* crashes so far

(* Cut short: the swap killed between its renames, a wiping or copying back*)
(* that was killed, a copying back that failed, of which an alert told.    *)
Cuts == {"none", "swap", "killed", "failed"}

store == <<disk, backups, settings>>
vars == <<store, job, pendingCa, ui, idles, listed, halted, owned, before, crashes>>

Dir == [there : BOOLEAN, files : SUBSET Files]
Missing == [there |-> FALSE, files |-> {}]

Settings == [remote : Sources \cup {NoSource}, ca : Certs \cup {NoCert}]
Defaults == [remote |-> NoSource, ca |-> NoCert]
Snapshot == [files : SUBSET Files, settings : Settings]
Current == [files |-> disk["configs"].files, settings |-> settings]

Importing == {"clear", "fetch", "dropOld", "moveOut", "moveIn", "tidy", "abort"}
Free == [pc |-> "free", op |-> "none", from |-> 0, goal |-> [files |-> {}, settings |-> Defaults]]
NoJob == [pc |-> "off", src |-> NoSource, cert |-> NoCert]

Idle == ui.pc = "free" /\ idles = <<>> /\ \A w \in Workers : job[w].pc = "off"

Configs == disk["configs"].files
OvpnFiles == Configs \ Certs

-----------------------------------------------------------------------------
(* File operations.                                                        *)

(* shutil.rmtree, one file at a time: stay while files are left, then next.*)
Remove(d, stay, next) ==
    \/ /\ \E f \in disk[d].files : disk' = [disk EXCEPT ![d].files = @ \ {f}]
       /\ stay
    \/ /\ disk[d].files = {}
       /\ disk' = [disk EXCEPT ![d] = Missing]
       /\ next

(* os.rename of a directory: the target may exist if it is empty.          *)
CanRename(d, e) == disk[d].there /\ disk[e].files = {}
Rename(d, e) == disk' = [disk EXCEPT ![e] = disk[d], ![d] = Missing]

-----------------------------------------------------------------------------
(* An import.                                                              *)

Goto(w, pc) == job' = [job EXCEPT ![w].pc = pc]

(* The certificates that were copied; the last of them becomes the CA.     *)
CertsOf(files) == IF files \cap Certs = {} THEN {NoCert} ELSE files \cap Certs

ChooseSource ==
    /\ ui.pc = "free"
    /\ Patient => Idle
    /\ \E s \in Sources : settings' = [settings EXCEPT !.remote = s]
    /\ UNCHANGED <<disk, backups, job, pendingCa, ui, idles, listed, halted,
                   owned, before, crashes>>

(* validate_and_load, up to the start of the thread.                       *)
Import(w) ==
    /\ ui.pc = "free" /\ job[w].pc = "off"
    /\ Patient => Idle
    /\ settings.remote # NoSource
    /\ job' = [job EXCEPT ![w] = [NoJob EXCEPT !.pc = "clear", !.src = settings.remote]]
    /\ pendingCa' = NoCert
    /\ UNCHANGED <<store, ui, idles, listed, halted, owned, before, crashes>>

(* Mutant of ClearStaging: the saved directory is cleared away as well.    *)
ClearStagingAndOld(w) ==
    /\ job[w].pc = "clear"
    /\ disk' = [disk EXCEPT !["staging"] = [there |-> TRUE, files |-> {}], !["old"] = Missing]
    /\ Goto(w, "fetch")
    /\ UNCHANGED <<backups, settings, pendingCa, ui, idles, listed, halted,
                   owned, before, crashes>>

ClearStaging(w) ==
    /\ job[w].pc = "clear"
    /\ \/ \E f \in disk["staging"].files :
             /\ disk' = [disk EXCEPT !["staging"].files = @ \ {f}]
             /\ UNCHANGED job
       \/ /\ disk["staging"].files = {}
          /\ disk' = [disk EXCEPT !["staging"].there = TRUE]
          /\ Goto(w, "fetch")
    /\ UNCHANGED <<backups, settings, pendingCa, ui, idles, listed, halted,
                   owned, before, crashes>>

(* Mutant of Fetch: an exception is swallowed.                             *)
FetchSwallows(w) ==
    /\ job[w].pc = "fetch"
    /\ LET staged == disk["staging"].files
           rest == Content[job[w].src] \ staged
       IN  \/ /\ \E f \in rest : disk' = [disk EXCEPT !["staging"].files = @ \cup {f}]
              /\ UNCHANGED job
           \/ /\ rest = {} \/ "fetch" \in Faults
              /\ job' = [job EXCEPT ![w].pc = "dropOld"]
              /\ UNCHANGED disk
    /\ UNCHANGED <<backups, settings, pendingCa, ui, idles, listed, halted,
                   owned, before, crashes>>

(* download_remote_to_destination, file by file.  An exception ends it;    *)
(* but a folder that cannot be listed, or an archive entry that cannot be  *)
(* extracted, is only logged, and what was copied is all there is.         *)
Fetch(w) ==
    /\ job[w].pc = "fetch"
    /\ LET staged == disk["staging"].files
           rest == Content[job[w].src] \ staged
       IN  \/ /\ disk["staging"].there
              /\ \E f \in rest : disk' = [disk EXCEPT !["staging"].files = @ \cup {f}]
              /\ UNCHANGED job
           \/ /\ rest = {} \/ "silent" \in Faults
              /\ \E cert \in CertsOf(staged) :
                    job' = [job EXCEPT ![w].pc = "dropOld", ![w].cert = cert]
              /\ UNCHANGED disk
           \/ /\ ~disk["staging"].there \/ "fetch" \in Faults
              /\ Goto(w, "abort")
              /\ UNCHANGED disk
    /\ UNCHANGED <<backups, settings, pendingCa, ui, idles, listed, halted,
                   owned, before, crashes>>

DropOld(w) ==
    /\ job[w].pc = "dropOld"
    /\ Remove("old", UNCHANGED job, Goto(w, "moveOut"))
    /\ UNCHANGED <<backups, settings, pendingCa, ui, idles, listed, halted,
                   owned, before, crashes>>

MoveOut(w) ==
    /\ job[w].pc = "moveOut"
    /\ IF ~disk["configs"].there THEN Goto(w, "moveIn") /\ UNCHANGED disk
       ELSE IF CanRename("configs", "old") THEN Goto(w, "moveIn") /\ Rename("configs", "old")
       ELSE Goto(w, "abort") /\ UNCHANGED disk
    /\ UNCHANGED <<backups, settings, pendingCa, ui, idles, listed, halted,
                   owned, before, crashes>>

(* An import that read its source whole replaces what the user owns.       *)
MoveIn(w) ==
    /\ job[w].pc = "moveIn"
    /\ IF CanRename("staging", "configs")
       THEN /\ Rename("staging", "configs")
            /\ Goto(w, "tidy")
            /\ owned' = IF disk["staging"].files = Content[job[w].src]
                        THEN Content[job[w].src] ELSE owned
            /\ halted' = "none"
       ELSE Goto(w, "abort") /\ UNCHANGED <<disk, halted, owned>>
    /\ UNCHANGED <<backups, settings, pendingCa, ui, idles, listed, before, crashes>>

(* The last rmtree, the pending CA setting and the idle callback.          *)
Finish(w) ==
    /\ job' = [job EXCEPT ![w] = NoJob]
    /\ idles' = Append(idles, "imported")

Tidy(w) ==
    /\ job[w].pc = "tidy"
    /\ Remove("old", UNCHANGED <<job, idles, pendingCa>>,
              Finish(w) /\ pendingCa' = IF job[w].cert = NoCert THEN pendingCa ELSE job[w].cert)
    /\ UNCHANGED <<backups, settings, ui, listed, halted, owned, before, crashes>>

Abort(w) ==
    /\ job[w].pc = "abort"
    /\ Remove("staging", UNCHANGED <<job, idles>>, Finish(w))
    /\ UNCHANGED <<backups, settings, pendingCa, ui, listed, halted, owned, before, crashes>>

Worker(w) ==
    \/ ClearStaging(w) \/ Fetch(w) \/ DropOld(w) \/ MoveOut(w) \/ MoveIn(w)
    \/ Tidy(w) \/ Abort(w)

-----------------------------------------------------------------------------
(* Idle callbacks: glib_func, remove_only and load_only.                   *)

RunIdle ==
    /\ ui.pc = "free" /\ idles # <<>>
    /\ idles' = Tail(idles)
    /\ listed' = IF Head(idles) = "remove" THEN {} ELSE OvpnFiles
    /\ IF Head(idles) = "imported" /\ pendingCa # NoCert
       THEN settings' = [settings EXCEPT !.ca = pendingCa] /\ pendingCa' = NoCert
       ELSE UNCHANGED <<settings, pendingCa>>
    /\ UNCHANGED <<disk, backups, job, ui, halted, owned, before, crashes>>

-----------------------------------------------------------------------------
(* Reset and restore, on the GTK thread.  A backup can be found as soon as *)
(* its manifest is a file, and used once that is written.                  *)

Found == {i \in 1..Len(backups) : backups[i].manifest # "none"}
Complete == {i \in 1..Len(backups) : backups[i].manifest = "whole"}

LatestBackup == CHOOSE i \in Found : \A j \in Found : j <= i

NewBackup ==
    Append(backups, [manifest |-> "none", files |-> {}, settings |-> settings])

Reset ==
    /\ ui.pc = "free"
    /\ Patient => Idle
    /\ Len(backups) < MaxBackups
    /\ ui' = [Free EXCEPT !.pc = "backup", !.op = "reset"]
    /\ backups' = NewBackup
    /\ UNCHANGED <<disk, settings, job, pendingCa, idles, listed, halted,
                   owned, before, crashes>>

Restore ==
    /\ ui.pc = "free"
    /\ Patient => Idle
    /\ Found # {} /\ Len(backups) < MaxBackups
    /\ ui' = [pc |-> "backup", op |-> "restore", from |-> LatestBackup, goal |-> before]
    /\ backups' = NewBackup
    /\ UNCHANGED <<disk, settings, job, pendingCa, idles, listed, halted,
                   owned, before, crashes>>

(* What comes after the backup: a restore reads the manifest of the one it *)
(* is to restore, and ends here if that is empty.                          *)
AfterBackup ==
    IF ui.op = "reset" THEN [ui EXCEPT !.pc = "settings"]
    ELSE IF ui.from \in Complete THEN [ui EXCEPT !.pc = "wipe"]
    ELSE Free

(* Mutant of Backup: the manifest is written before the files are copied.  *)
BackupManifestFirst ==
    /\ ui.pc = "backup"
    /\ LET n == Len(backups)
       IN  \/ /\ \E f \in Configs \ backups[n].files :
                    backups' = [backups EXCEPT ![n].files = @ \cup {f}, ![n].manifest = "whole"]
              /\ UNCHANGED <<ui, before>>
           \/ /\ Configs \subseteq backups[n].files
              /\ backups' = [backups EXCEPT ![n].manifest = "whole"]
              /\ before' = Current
              /\ ui' = AfterBackup
    /\ UNCHANGED <<disk, settings, job, pendingCa, idles, listed, halted, owned, crashes>>

(* create_reset_backup: the files, the manifest, what is in it.  On an     *)
(* exception the directory is removed again and nothing else has happened. *)
Backup ==
    /\ ui.pc = "backup"
    /\ LET n == Len(backups)
       IN  \/ /\ \E f \in Configs \ backups[n].files :
                    backups' = [backups EXCEPT ![n].files = @ \cup {f}]
              /\ UNCHANGED <<ui, before>>
           \/ /\ Configs \subseteq backups[n].files /\ backups[n].manifest = "none"
              /\ backups' = [backups EXCEPT ![n].manifest = "empty"]
              /\ UNCHANGED <<ui, before>>
           \/ /\ backups[n].manifest = "empty"
              /\ backups' = [backups EXCEPT ![n].manifest = "whole"]
              /\ before' = Current
              /\ ui' = AfterBackup
           \/ /\ "backup" \in Faults
              /\ backups' = SubSeq(backups, 1, n - 1)
              /\ ui' = Free
              /\ UNCHANGED before
    /\ UNCHANGED <<disk, settings, job, pendingCa, idles, listed, halted, owned, crashes>>

(* reset_all_settings; a restore then sets what the manifest says.         *)
ResetSettings ==
    /\ ui.pc = "settings"
    /\ settings' = Defaults
    /\ ui' = [ui EXCEPT !.pc = IF ui.op = "reset" THEN "wipe" ELSE "setAll"]
    /\ UNCHANGED <<disk, backups, job, pendingCa, idles, listed, halted,
                   owned, before, crashes>>

(* reset_paths: rmtree and makedirs.  A reset ends here.                   *)
Wipe ==
    /\ ui.pc = "wipe"
    /\ \/ /\ \E f \in Configs : disk' = [disk EXCEPT !["configs"].files = @ \ {f}]
          /\ UNCHANGED <<ui, idles, halted, owned>>
       \/ /\ Configs = {}
          /\ disk' = [disk EXCEPT !["configs"] = [there |-> TRUE, files |-> {}]]
          /\ IF ui.op = "reset"
             THEN /\ ui' = Free
                  /\ idles' = Append(idles, "remove")
                  /\ halted' = "none"
                  /\ owned' = {}
             ELSE ui' = [ui EXCEPT !.pc = "copyBack"] /\ UNCHANGED <<idles, halted, owned>>
    /\ UNCHANGED <<backups, settings, job, pendingCa, listed, before, crashes>>

(* copytree from the snapshot; it may fail half way.                       *)
CopyBack ==
    /\ ui.pc = "copyBack"
    /\ LET rest == backups[ui.from].files \ Configs
       IN  \/ /\ \E f \in rest :
                    disk' = [disk EXCEPT !["configs"] = [there |-> TRUE, files |-> @.files \cup {f}]]
              /\ UNCHANGED <<ui, halted>>
           \/ /\ rest = {}
              /\ ui' = [ui EXCEPT !.pc = "settings"]
              /\ UNCHANGED <<disk, halted>>
           \/ /\ "restore" \in Faults
              /\ ui' = Free
              /\ halted' = "failed"
              /\ UNCHANGED disk
    /\ UNCHANGED <<backups, settings, job, pendingCa, idles, listed, owned, before, crashes>>

(* Mutant of FinishRestore: the list is loaded and then cleared.           *)
FinishRestoreClearsLast ==
    /\ ui.pc = "setAll"
    /\ settings' = backups[ui.from].settings
    /\ ui' = Free
    /\ idles' = idles \o <<"load", "remove">>
    /\ halted' = "none"
    /\ owned' = Configs
    /\ UNCHANGED <<disk, backups, job, pendingCa, listed, before, crashes>>

FinishRestore ==
    /\ ui.pc = "setAll"
    /\ settings' = backups[ui.from].settings
    /\ ui' = Free
    /\ idles' = idles \o <<"remove", "load">>
    /\ halted' = "none"
    /\ owned' = Configs
    /\ UNCHANGED <<disk, backups, job, pendingCa, listed, before, crashes>>

ResetOrRestore ==
    \/ Reset \/ Restore \/ Backup \/ ResetSettings \/ Wipe \/ CopyBack \/ FinishRestore

-----------------------------------------------------------------------------
(* Between the two renames, and within a wiping or a copying back.         *)
Swapping == ~disk["configs"].there /\ \E w \in Workers : job[w].pc = "moveIn"
Wiping == ui.pc \in {"wipe", "copyBack"} \/ (ui.op = "restore" /\ ui.pc \in {"settings", "setAll"})

(* The process dies and is started again: the window lists what it finds.  *)
Crash ==
    /\ crashes < MaxCrashes
    /\ crashes' = crashes + 1
    /\ job' = [w \in Workers |-> NoJob]
    /\ pendingCa' = NoCert
    /\ ui' = Free
    /\ idles' = <<>>
    /\ listed' = OvpnFiles
    /\ halted' = IF Wiping THEN "killed"
                 ELSE IF Swapping THEN "swap"
                 ELSE IF halted = "failed" THEN "killed"
                 ELSE halted
    /\ UNCHANGED <<store, owned, before>>

Init ==
    /\ disk = [d \in {"configs", "staging", "old"} |-> Missing]
    /\ backups = <<>>
    /\ settings = Defaults
    /\ job = [w \in Workers |-> NoJob]
    /\ pendingCa = NoCert
    /\ ui = Free
    /\ idles = <<>>
    /\ listed = {}
    /\ halted = "none"
    /\ owned = {}
    /\ before = [files |-> {}, settings |-> Defaults]
    /\ crashes = 0

Next ==
    \/ ChooseSource
    \/ \E w \in Workers : Import(w) \/ Worker(w)
    \/ RunIdle
    \/ ResetOrRestore
    \/ Crash

Spec == Init /\ [][Next]_vars
-----------------------------------------------------------------------------
(* Properties.                                                             *)

TypeOK ==
    /\ disk \in [{"configs", "staging", "old"} -> Dir]
    /\ backups \in Seq([manifest : {"none", "empty", "whole"}, files : SUBSET Files, settings : Settings])
    /\ settings \in Settings
    /\ job \in [Workers -> [pc : Importing \cup {"off"}, src : Sources \cup {NoSource},
                            cert : Certs \cup {NoCert}]]
    /\ pendingCa \in Certs \cup {NoCert}
    /\ ui.pc \in {"free", "backup", "settings", "wipe", "copyBack", "setAll"}
    /\ ui.op \in {"none", "reset", "restore"} /\ ui.from \in 0..Len(backups)
    /\ ui.goal \in Snapshot /\ before \in Snapshot
    /\ idles \in Seq({"imported", "remove", "load"})
    /\ listed \subseteq Files \ Certs
    /\ halted \in Cuts
    /\ owned \subseteq Files
    /\ crashes \in Nat

(* What the user owns is never lost: it is in place, or saved in .old, or  *)
(* in a complete backup, or about to be replaced by an import that has     *)
(* read its source whole; whatever failed, and wherever the process died.  *)
NothingLost ==
    \/ owned \in {{}, Configs, disk["old"].files}
    \/ \E i \in Complete : backups[i].files = owned
    \/ \E w \in Workers : /\ job[w].pc \in {"dropOld", "moveOut", "moveIn"}
                          /\ disk["staging"].files = Content[job[w].src]

(* What is in place at rest is the last set that was put there whole, never*)
(* a mixture; and never a part of one, unless a wiping or copying back was *)
(* cut short, and then the rest is in a complete backup.  The swap is not  *)
(* atomic: killed between its two renames it leaves no directory at all    *)
(* until the next import, reset or restore.                                *)
InPlace ==
    Idle => \/ Configs = owned
            \/ halted = "swap" /\ ~disk["configs"].there
            \/ /\ halted \in {"killed", "failed"}
               /\ \E i \in Complete : Configs \subseteq backups[i].files

(* The list follows the directory: at rest it shows exactly the            *)
(* configurations on disk, unless the copying back of a restore failed.    *)
ListMatchesDisk ==
    Idle /\ halted # "failed" => listed = OvpnFiles

(* "Use Restore Reset to undo this reset": a restore gives back the files  *)
(* and the settings as they were when the latest complete backup was made, *)
(* although it makes a backup itself before it touches anything.           *)
RestoreGivesBack ==
    [][ui.pc = "setAll" /\ ui'.pc = "free" /\ crashes' = crashes =>
          Current' = ui.goal]_vars
=============================================================================
