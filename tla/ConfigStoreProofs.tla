------------------------- MODULE ConfigStoreProofs -------------------------
(***************************************************************************)
(* Proofs about the managed configuration directory, for any sources,      *)
(* files, import threads and backups: what a crash, a failed import or a   *)
(* failed restore can destroy, what the list shows, and what a restore     *)
(* gives back.  The properties are about a user who starts nothing while   *)
(* something is going on (Patient), which the window does not enforce; the *)
(* README says what happens otherwise.                                     *)
(*                                                                         *)
(* The invariant is built in layers, each inductive on top of the ones     *)
(* before it: types, mutual exclusion, the list, the staging directory,    *)
(* the backups, and where the files that the user owns are.                *)
(***************************************************************************)
EXTENDS ConfigStore, SequenceTheorems, TLAPS

Backups == [manifest : {"none", "empty", "whole"}, files : SUBSET Files, settings : Settings]
Jobs == [pc : Importing \cup {"off"}, src : Sources \cup {NoSource}, cert : Certs \cup {NoCert}]
Busy == {"backup", "settings", "wipe", "copyBack", "setAll"}
UiState == [pc : {"free"} \cup Busy, op : {"none", "reset", "restore"}, from : Nat, goal : Snapshot]
Places == {"configs", "staging", "old"}

(* Whenever a backup can be found there is a latest one, and there will be *)
(* when the one that is being made is removed again; a backup that is being*)
(* made is not complete; a restore is from one that was found, and from a  *)
(* complete one as soon as its own backup is made.                         *)
HasMax(S) == S # {} => \E i \in S : \A j \in S : j <= i
HasLatest == HasMax(Found) /\ (ui.pc = "backup" => HasMax(Found \ {Len(backups)}))
RestoreFrom ==
    /\ ui.pc # "free" => ui.op # "none"
    /\ ui.pc \in {"copyBack", "setAll"} => ui.op = "restore"
    /\ ui.op = "restore" => ui.from \in Found
    /\ ui.op = "restore" /\ ui.pc # "backup" => ui.from \in Complete
InTheMaking == ui.pc = "backup" => backups # <<>> /\ backups[Len(backups)].manifest # "whole"

DiskType ==
    /\ disk \in [Places -> Dir]
    /\ \A d \in Places : ~disk[d].there => disk[d].files = {}

Running(w) == job[w].pc # "off"
SourceKnown == \A w \in Workers : Running(w) => job[w].src \in Sources

TypeInv == TypeOK /\ DiskType /\ SourceKnown /\ ui \in UiState /\ HasLatest /\ RestoreFrom /\ InTheMaking

(* One thing at a time.                                                    *)
Exclusive ==
    /\ ui.pc # "free" => idles = <<>> /\ \A w \in Workers : ~Running(w)
    /\ \A w \in Workers : Running(w) => idles = <<>> /\ \A v \in Workers : Running(v) => v = w

(* The last idle callback decides what the list will show.                 *)
ListInv ==
    /\ Idle /\ halted # "failed" => listed = OvpnFiles
    /\ ui.pc = "backup" /\ halted # "failed" => listed = OvpnFiles
    /\ idles # <<>> /\ idles[Len(idles)] = "remove" => OvpnFiles = {}

(* What an import has staged, and where it makes room.                     *)
Whole(w) == disk["staging"].there /\ disk["staging"].files = Content[job[w].src]
Replacing == {"dropOld", "moveOut", "moveIn"}

Staged(w) ==
    /\ job[w].pc = "fetch" =>
          disk["staging"].there /\ disk["staging"].files \subseteq Content[job[w].src]
    /\ job[w].pc \in Replacing => Whole(w)
    /\ job[w].pc = "moveOut" => disk["old"].files = {}
    /\ job[w].pc = "moveIn" => ~disk["configs"].there /\ Configs = {}

StagingInv == \A w \in Workers : Staged(w)

(* The backup that is being made, and the one that is being restored.      *)
Saved(i) == [files |-> backups[i].files, settings |-> backups[i].settings]

BackupInv ==
    /\ ui.pc = "backup" =>
          /\ backups[Len(backups)].files \subseteq Configs
          /\ backups[Len(backups)].manifest = "empty" => Configs \subseteq backups[Len(backups)].files
          /\ backups[Len(backups)].settings = settings
    /\ \A i \in Complete : (\A j \in Complete : j <= i) => before = Saved(i)
    /\ ui.op = "restore" /\ ui.from \in Complete => ui.goal = Saved(ui.from)
    /\ ui.pc = "copyBack" => Configs \subseteq backups[ui.from].files
    /\ ui.pc \in {"settings", "setAll"} /\ ui.op = "restore" => Configs = backups[ui.from].files

(* Where the files are that the user owns.                                 *)
Moving == \E w \in Workers : job[w].pc = "moveIn"
InBackup == \E i \in Complete : backups[i].files = owned
Emptied == {"settings", "wipe", "copyBack", "setAll"}

(* What is in place: until a wiping begins, what InPlace says; from the    *)
(* backup before it until its end, no more than a complete backup holds.   *)
BackedUp == \E i \in Complete : Configs \subseteq backups[i].files
Settled ==
    \/ Configs = owned
    \/ halted = "swap" /\ ~disk["configs"].there
    \/ halted \in {"killed", "failed"} /\ BackedUp
Untouched == ui.pc \in {"free", "backup"} \/ (ui.pc = "settings" /\ ui.op = "reset")

PlaceInv ==
    /\ Untouched /\ ~Moving => Settled
    /\ ui.pc \in Emptied => BackedUp

KeptInv ==
    /\ ui.pc \in Emptied => owned \in {{}, disk["old"].files} \/ InBackup
    /\ \A w \in Workers : job[w].pc = "tidy" => Configs = owned
    /\ (\A w \in Workers : job[w].pc \notin Replacing) =>
          owned \in {{}, Configs, disk["old"].files} \/ InBackup
    /\ crashes = 0 =>
          \/ owned = {} \/ InBackup
          \/ /\ ui.pc \in {"free", "backup"}
             /\ owned = IF Moving THEN disk["old"].files ELSE Configs

-----------------------------------------------------------------------------
(* Types.                                                                  *)

(* What the file operations do to the directories.                         *)
LEMMA FileOperations ==
    ASSUME DiskType, NEW d \in Places, NEW e \in Places, d # e
    PROVE  /\ \A f \in Files : disk[d].there /\ disk' = [disk EXCEPT ![d].files = @ \cup {f}] => DiskType'
           /\ \A f : disk' = [disk EXCEPT ![d].files = @ \ {f}] => DiskType'
           /\ disk' = [disk EXCEPT ![d] = Missing] => DiskType'
           /\ disk' = [disk EXCEPT ![d].there = TRUE] => DiskType'
           /\ Rename(d, e) => DiskType'
<1>1. ASSUME NEW f \in Files, disk[d].there, disk' = [disk EXCEPT ![d].files = @ \cup {f}]
      PROVE  DiskType'
  BY <1>1 DEF DiskType, Dir
<1>2. ASSUME NEW f, disk' = [disk EXCEPT ![d].files = @ \ {f}]
      PROVE  DiskType'
  BY <1>2 DEF DiskType, Dir
<1>3. ASSUME disk' = [disk EXCEPT ![d] = Missing] PROVE DiskType'
  BY <1>3 DEF DiskType, Dir, Missing
<1>4. ASSUME disk' = [disk EXCEPT ![d].there = TRUE] PROVE DiskType'
  BY <1>4 DEF DiskType, Dir
<1>5. ASSUME Rename(d, e) PROVE DiskType'
  BY <1>5 DEF DiskType, Dir, Missing, Rename
<1>6. QED
  BY <1>1, <1>2, <1>3, <1>4, <1>5

(* The parts of an import's state.                                         *)
JobType == job \in [Workers -> Jobs] /\ SourceKnown

LEMMA GotoType ==
    ASSUME JobType, NEW w \in Workers, job[w].pc # "off", NEW pc \in Importing, Goto(w, pc)
    PROVE  JobType'
BY DEF Goto, JobType, Jobs, SourceKnown, Running

LEMMA FinishType ==
    ASSUME JobType, idles \in Seq({"imported", "remove", "load"}),
           NEW w \in Workers, Finish(w)
    PROVE  JobType' /\ idles' \in Seq({"imported", "remove", "load"})
BY DEF Finish, NoJob, JobType, Jobs, SourceKnown, Running

ImportType ==
    /\ DiskType /\ JobType
    /\ idles \in Seq({"imported", "remove", "load"})
    /\ pendingCa \in Certs \cup {NoCert}
    /\ owned \subseteq Files /\ halted \in Cuts

LEMMA ImportKeepsType ==
    ASSUME ImportType, NEW w \in Workers, Import(w) \/ Worker(w), settings \in Settings
    PROVE  ImportType' /\ UNCHANGED <<backups, settings, ui, listed, before, crashes>>
<1> USE DEF ImportType, Places, Importing
<1>1. CASE Import(w)
  <2>1. settings.remote \in Sources
    BY <1>1 DEF Import, Settings
  <2>2. JobType'
    BY <1>1, <2>1 DEF Import, JobType, Jobs, NoJob, SourceKnown, Running
  <2>3. QED
    BY <1>1, <2>2 DEF Import, store, DiskType
<1>2. CASE ClearStaging(w)
  <2>1. DiskType'
    BY <1>2, FileOperations DEF ClearStaging
  <2>2. JobType'
    BY <1>2, GotoType DEF ClearStaging, JobType, SourceKnown, Running
  <2>3. QED
    BY <1>2, <2>1, <2>2 DEF ClearStaging
<1>3. CASE Fetch(w)
  <2>1. job[w].src \in Sources /\ job[w] \in Jobs /\ job[w].pc # "off"
    BY <1>3 DEF Fetch, JobType, SourceKnown, Running
  <2>2. DiskType'
    <3>1. \A f \in Content[job[w].src] : f \in Files
      BY <2>1, StoreAssumption
    <3>2. QED
      BY <1>3, <3>1, FileOperations DEF Fetch, DiskType
  <2>3. JobType'
    <3>1. CASE UNCHANGED job
      BY <3>1 DEF JobType, SourceKnown, Running
    <3>2. CASE Goto(w, "abort")
      BY <2>1, <3>2, GotoType
    <3>3. ASSUME NEW cert \in CertsOf(disk["staging"].files),
                 job' = [job EXCEPT ![w].pc = "dropOld", ![w].cert = cert]
          PROVE  JobType'
      <4>1. cert \in Certs \cup {NoCert}
        BY DEF CertsOf
      <4>2. QED
        BY <2>1, <3>3, <4>1 DEF JobType, Jobs, SourceKnown, Running
    <3>4. QED
      BY <1>3, <3>1, <3>2, <3>3 DEF Fetch
  <2>4. QED
    BY <1>3, <2>2, <2>3 DEF Fetch
<1>4. ASSUME UNCHANGED job \/ \E pc \in Importing : Goto(w, pc), job[w].pc # "off"
      PROVE  JobType'
  BY <1>4, GotoType DEF JobType, SourceKnown, Running
<1>5. CASE DropOld(w)
  <2>1. DiskType'
    BY <1>5, FileOperations DEF DropOld, Remove
  <2>2. JobType'
    BY <1>4, <1>5 DEF DropOld, Remove
  <2>3. QED
    BY <1>5, <2>1, <2>2 DEF DropOld
<1>6. CASE MoveOut(w)
  <2>1. DiskType'
    BY <1>6, FileOperations DEF MoveOut, DiskType
  <2>2. JobType'
    BY <1>4, <1>6 DEF MoveOut
  <2>3. QED
    BY <1>6, <2>1, <2>2 DEF MoveOut
<1>7. CASE MoveIn(w)
  <2>1. DiskType'
    BY <1>7, FileOperations DEF MoveIn, DiskType
  <2>2. JobType'
    BY <1>4, <1>7 DEF MoveIn
  <2>3. Content[job[w].src] \subseteq Files
    BY <1>7, StoreAssumption DEF MoveIn, JobType, SourceKnown, Running
  <2>4. QED
    BY <1>7, <2>1, <2>2, <2>3 DEF MoveIn, Cuts
<1>8. CASE Tidy(w)
  <2>1. DiskType'
    BY <1>8, FileOperations DEF Tidy, Remove
  <2>2. JobType' /\ idles' \in Seq({"imported", "remove", "load"})
    BY <1>4, <1>8, FinishType DEF Tidy, Remove
  <2>3. job[w].cert \in Certs \cup {NoCert}
    BY DEF JobType, Jobs
  <2>4. QED
    BY <1>8, <2>1, <2>2, <2>3 DEF Tidy, Remove
<1>9. CASE Abort(w)
  <2>1. DiskType'
    BY <1>9, FileOperations DEF Abort, Remove
  <2>2. JobType' /\ idles' \in Seq({"imported", "remove", "load"})
    BY <1>4, <1>9, FinishType DEF Abort, Remove
  <2>3. QED
    BY <1>9, <2>1, <2>2 DEF Abort
<1>10. QED
  BY <1>1, <1>2, <1>3, <1>5, <1>6, <1>7, <1>8, <1>9 DEF Worker

(* The reset backups.                                                      *)
BackupType ==
    /\ backups \in Seq(Backups) /\ settings \in Settings
    /\ ui \in UiState /\ ui.from \in 0..Len(backups)
    /\ before \in Snapshot
    /\ HasLatest /\ RestoreFrom /\ InTheMaking

LEMMA CompleteBackups ==
    ASSUME BackupType
    PROVE  /\ Complete \subseteq 1..Len(backups) /\ Len(backups) \in Nat
           /\ Complete \subseteq Found /\ Found \subseteq 1..Len(backups)
           /\ \A i \in 1..Len(backups) : backups[i] \in Backups
           /\ ui.pc = "backup" => Len(backups) \in 1..Len(backups) /\ Len(backups) \notin Complete
BY DEF BackupType, Complete, Found, InTheMaking

LEMMA NewBackupKeeps ==
    ASSUME BackupType, backups' = NewBackup
    PROVE  /\ backups' \in Seq(Backups) /\ Len(backups') = Len(backups) + 1 /\ backups' # <<>>
           /\ Complete' = Complete /\ \A i \in 1..Len(backups) : backups'[i] = backups[i]
           /\ Found' = Found
           /\ backups'[Len(backups')] = [manifest |-> "none", files |-> {}, settings |-> settings]
<1> DEFINE b == [manifest |-> "none", files |-> {}, settings |-> settings]
<1>1. b \in Backups
  BY DEF BackupType, Backups
<1>2. backups' = Append(backups, b)
  BY DEF NewBackup
<1>3. b.manifest = "none"
  OBVIOUS
<1> HIDE DEF b
<1>4. /\ backups' \in Seq(Backups) /\ Len(backups') = Len(backups) + 1 /\ backups' # <<>>
      /\ \A i \in 1..Len(backups) : backups'[i] = backups[i]
      /\ backups'[Len(backups')] = b
  BY <1>1, <1>2, AppendProperties DEF BackupType
<1>5. Complete' = Complete
  BY <1>3, <1>4, CompleteBackups DEF Complete
<1>6. Found' = Found
  BY <1>3, <1>4, CompleteBackups DEF Found
<1>7. QED
  BY <1>4, <1>5, <1>6 DEF b

(* A step that changes the backup in the making and does not complete it.  *)
LEMMA MakingKeeps ==
    ASSUME BackupType, ui.pc = "backup", NEW b \in Backups, b.manifest # "whole",
           backups[Len(backups)].manifest # "none" => b.manifest # "none",
           backups' = [backups EXCEPT ![Len(backups)] = b]
    PROVE  /\ backups' \in Seq(Backups) /\ Len(backups') = Len(backups) /\ backups' # <<>>
           /\ Complete' = Complete /\ \A i \in Complete : backups'[i] = backups[i]
           /\ backups'[Len(backups)] = b
           /\ Found' = Found \cup (IF b.manifest = "none" THEN {} ELSE {Len(backups)})
<1> DEFINE n == Len(backups)
<1>1. n \in 1..n /\ n \notin Complete /\ backups[n] \in Backups
  BY CompleteBackups
<1>2. backups[n].manifest # "whole"
  BY <1>1 DEF Complete
<1>3. /\ backups' \in Seq(Backups) /\ Len(backups') = n
      /\ \A i \in 1..n : backups'[i] = IF i = n THEN b ELSE backups[i]
  BY <1>1 DEF BackupType
<1>4. Complete' = Complete
  BY <1>1, <1>2, <1>3 DEF Complete
<1>5. Found' = Found \cup (IF b.manifest = "none" THEN {} ELSE {n})
  BY <1>1, <1>3 DEF Found
<1>6. QED
  BY <1>1, <1>3, <1>4, <1>5, CompleteBackups

LEMMA CopyKeeps ==
    ASSUME BackupType, ui.pc = "backup", NEW f \in Files,
           backups' = [backups EXCEPT ![Len(backups)].files = @ \cup {f}]
    PROVE  /\ backups' \in Seq(Backups) /\ Len(backups') = Len(backups) /\ backups' # <<>>
           /\ Complete' = Complete /\ \A i \in Complete : backups'[i] = backups[i]
           /\ Found' = Found
           /\ backups'[Len(backups)].files = backups[Len(backups)].files \cup {f}
           /\ backups'[Len(backups)].settings = backups[Len(backups)].settings
           /\ backups'[Len(backups)].manifest = backups[Len(backups)].manifest
<1> DEFINE n == Len(backups)
           b == [backups[n] EXCEPT !.files = @ \cup {f}]
<1>1. n \in 1..n /\ n \notin Complete /\ backups[n] \in Backups
  BY CompleteBackups
<1>2. b \in Backups /\ b.manifest = backups[n].manifest /\ b.settings = backups[n].settings
      /\ b.files = backups[n].files \cup {f}
  BY <1>1 DEF Backups
<1>3. backups[n].manifest # "whole"
  BY <1>1 DEF Complete
<1>4. backups' = [backups EXCEPT ![n] = b]
  OBVIOUS
<1> HIDE DEF b
<1>5. /\ backups' \in Seq(Backups) /\ Len(backups') = n /\ backups' # <<>>
      /\ Complete' = Complete /\ \A i \in Complete : backups'[i] = backups[i]
      /\ backups'[n] = b
      /\ Found' = Found \cup (IF b.manifest = "none" THEN {} ELSE {n})
  BY <1>2, <1>3, <1>4, MakingKeeps
<1>6. Found' = Found
  BY <1>1, <1>2, <1>5 DEF Found
<1>7. QED
  BY <1>2, <1>5, <1>6

LEMMA CreateKeeps ==
    ASSUME BackupType, ui.pc = "backup",
           backups' = [backups EXCEPT ![Len(backups)].manifest = "empty"]
    PROVE  /\ backups' \in Seq(Backups) /\ Len(backups') = Len(backups) /\ backups' # <<>>
           /\ Complete' = Complete /\ \A i \in Complete : backups'[i] = backups[i]
           /\ Found' = Found \cup {Len(backups)}
           /\ backups'[Len(backups)].files = backups[Len(backups)].files
           /\ backups'[Len(backups)].settings = backups[Len(backups)].settings
           /\ backups'[Len(backups)].manifest = "empty"
<1> DEFINE n == Len(backups)
           b == [backups[n] EXCEPT !.manifest = "empty"]
<1>1. n \in 1..n /\ backups[n] \in Backups
  BY CompleteBackups
<1>2. b \in Backups /\ b.manifest = "empty" /\ b.settings = backups[n].settings
      /\ b.files = backups[n].files
  BY <1>1 DEF Backups
<1>3. backups' = [backups EXCEPT ![n] = b]
  OBVIOUS
<1> HIDE DEF b
<1>4. QED
  BY <1>2, <1>3, MakingKeeps

LEMMA SealKeeps ==
    ASSUME BackupType, ui.pc = "backup", backups[Len(backups)].manifest = "empty",
           backups' = [backups EXCEPT ![Len(backups)].manifest = "whole"]
    PROVE  /\ backups' \in Seq(Backups) /\ Len(backups') = Len(backups)
           /\ Complete' = Complete \cup {Len(backups)}
           /\ Found' = Found
           /\ \A i \in Complete : backups'[i] = backups[i]
           /\ backups'[Len(backups)].files = backups[Len(backups)].files
           /\ backups'[Len(backups)].settings = backups[Len(backups)].settings
           /\ \A i \in Complete : i <= Len(backups)
<1> DEFINE n == Len(backups)
<1>1. n \in 1..n /\ n \notin Complete /\ backups[n] \in Backups /\ n \in Nat
  BY CompleteBackups
<1> DEFINE b == [backups[n] EXCEPT !.manifest = "whole"]
<1>2. /\ b \in Backups /\ b.manifest = "whole"
      /\ b.files = backups[n].files /\ b.settings = backups[n].settings
  BY <1>1 DEF Backups
<1> HIDE DEF b
<1>3. /\ backups' \in Seq(Backups) /\ Len(backups') = n
      /\ \A i \in 1..n : backups'[i] = IF i = n THEN b ELSE backups[i]
  BY <1>1, <1>2 DEF BackupType, b
<1>4. Complete' = Complete \cup {n}
  BY <1>1, <1>2, <1>3 DEF Complete
<1>5. Found' = Found
  BY <1>1, <1>2, <1>3 DEF Found
<1>6. QED
  BY <1>1, <1>2, <1>3, <1>4, <1>5, CompleteBackups

LEMMA Prefix ==
    ASSUME NEW S, NEW s \in Seq(S), NEW m \in Nat, m <= Len(s)
    PROVE  /\ SubSeq(s, 1, m) \in Seq(S) /\ Len(SubSeq(s, 1, m)) = m
           /\ \A i \in 1..m : SubSeq(s, 1, m)[i] = s[i]
<1>1. \A i \in 1..m : s[i] \in S
  OBVIOUS
<1>2. /\ SubSeq(s, 1, m) \in Seq(S)
      /\ Len(SubSeq(s, 1, m)) = IF 1 <= m THEN m - 1 + 1 ELSE 0
      /\ \A i \in 1..(m - 1 + 1) : SubSeq(s, 1, m)[i] = s[1 + i - 1]
  BY <1>1, SubSeqProperties
<1>3. m - 1 + 1 = m /\ (1 <= m \/ m = 0)
  OBVIOUS
<1>4. QED
  BY <1>2, <1>3

LEMMA DropKeeps ==
    ASSUME BackupType, ui.pc = "backup", backups' = SubSeq(backups, 1, Len(backups) - 1)
    PROVE  /\ backups' \in Seq(Backups)
           /\ Complete' = Complete /\ \A i \in Complete : backups'[i] = backups[i]
           /\ Found' = Found \ {Len(backups)}
<1> DEFINE n == Len(backups)
<1>1. n \in 1..n /\ n \notin Complete /\ n \in Nat /\ Complete \subseteq 1..n
      /\ \A i \in 1..n : backups[i] \in Backups
  BY CompleteBackups
<1>2. /\ backups' \in Seq(Backups) /\ Len(backups') = n - 1
      /\ \A i \in 1..(n - 1) : backups'[i] = backups[i]
  <2> DEFINE m == n - 1
  <2>1. m \in Nat /\ m <= n
    BY <1>1
  <2> HIDE DEF m
  <2>2. /\ SubSeq(backups, 1, m) \in Seq(Backups) /\ Len(SubSeq(backups, 1, m)) = m
        /\ \A i \in 1..m : SubSeq(backups, 1, m)[i] = backups[i]
    BY <2>1, Prefix DEF BackupType
  <2>3. QED
    BY <2>2 DEF m
<1>3. Complete \subseteq 1..(n - 1)
  BY <1>1
<1>4. Complete' = Complete
  BY <1>1, <1>2, <1>3 DEF Complete
<1>5. Found' = Found \ {n}
  BY <1>1, <1>2 DEF Found
<1>6. QED
  BY <1>2, <1>3, <1>4, <1>5

(* Which of them LatestBackup is.                                          *)
LEMMA LatestIsLatest ==
    ASSUME BackupType, Found # {}
    PROVE  LatestBackup \in Found /\ \A j \in Found : j <= LatestBackup
BY DEF BackupType, HasLatest, HasMax, LatestBackup

TypeParts == ImportType /\ BackupType /\ listed \subseteq Files \ Certs /\ crashes \in Nat

LEMMA TypeIsParts == TypeInv <=> TypeParts
BY DEF TypeInv, TypeParts, TypeOK, ImportType, JobType, DiskType, BackupType, Jobs, Backups,
       UiState, Busy, Places

LEMMA InitType == Init => TypeInv
<1> SUFFICES ASSUME Init PROVE TypeParts
  BY TypeIsParts
<1>1. DiskType
  BY DEF Init, DiskType, Missing, Dir, Places
<1>2. JobType
  BY DEF Init, JobType, Jobs, NoJob, SourceKnown, Running
<1>3. BackupType
  <2>1. Complete = {} /\ Found = {}
    BY DEF Init, Complete, Found
  <2>2. ui \in UiState /\ ui.from = 0 /\ ui.pc = "free" /\ ui.op = "none" /\ settings \in Settings /\ before \in Snapshot
    BY DEF Init, UiState, Free, Snapshot, Settings, Defaults
  <2>3. backups \in Seq(Backups) /\ Len(backups) \in Nat
    BY DEF Init
  <2>4. QED
    BY <2>1, <2>2, <2>3 DEF BackupType, HasLatest, HasMax, RestoreFrom, InTheMaking
<1>4. /\ idles = <<>> /\ pendingCa = NoCert /\ owned = {} /\ halted = "none"
      /\ listed = {} /\ crashes = 0
  BY DEF Init
<1>5. ImportType
  <2>1. idles \in Seq({"imported", "remove", "load"})
    BY <1>4
  <2>2. pendingCa \in Certs \cup {NoCert} /\ owned \subseteq Files /\ halted \in Cuts
    BY <1>4 DEF Cuts
  <2>3. QED
    BY <1>1, <1>2, <2>1, <2>2 DEF ImportType
<1>6. QED
  BY <1>3, <1>4, <1>5 DEF TypeParts

LEMMA SameBackups ==
    ASSUME BackupType, UNCHANGED <<backups, before>>, settings' \in Settings,
           ui' \in UiState, ui'.from \in 0..Len(backups), ui'.pc # "backup" \/ ui' = ui,
           RestoreFrom'
    PROVE  BackupType'
<1>1. HasLatest'
  BY DEF BackupType, HasLatest, Found
<1>2. InTheMaking'
  BY DEF BackupType, InTheMaking
<1>3. QED
  BY <1>1, <1>2 DEF BackupType

LEMMA SameImport ==
    ASSUME ImportType, UNCHANGED <<disk, job>>, idles' \in Seq({"imported", "remove", "load"}),
           pendingCa' \in Certs \cup {NoCert}, owned' \subseteq Files, halted' \in Cuts
    PROVE  ImportType'
BY DEF ImportType, DiskType, JobType, SourceKnown, Running

LEMMA ListedType ==
    ASSUME ImportType
    PROVE  OvpnFiles \subseteq Files \ Certs /\ Configs \subseteq Files
BY DEF ImportType, DiskType, Dir, OvpnFiles, Configs, Places

(* The parts of ui that a step sets.                                       *)
LEMMA UiType ==
    ASSUME BackupType, NEW pc \in {"free"} \cup Busy
    PROVE  /\ [ui EXCEPT !.pc = pc] \in UiState
           /\ [ui EXCEPT !.pc = pc].from = ui.from /\ [ui EXCEPT !.pc = pc].pc = pc
           /\ [ui EXCEPT !.pc = pc].op = ui.op /\ [ui EXCEPT !.pc = pc].goal = ui.goal
           /\ Free \in UiState /\ Free.from = 0 /\ Free.pc = "free" /\ Free.op = "none"
BY DEF BackupType, UiState, Free, Snapshot, Settings, Defaults

LEMMA RequestType ==
    ASSUME TypeParts, Reset \/ Restore
    PROVE  TypeParts' /\ ui'.pc = "backup" /\ Complete' = Complete
<1> USE DEF TypeParts
<1>1. backups' = NewBackup /\ UNCHANGED <<settings, before, listed, crashes>>
  BY DEF Reset, Restore
<1>2. /\ backups' \in Seq(Backups) /\ Len(backups') = Len(backups) + 1 /\ backups' # <<>>
      /\ Complete' = Complete /\ Found' = Found
      /\ backups'[Len(backups')].manifest # "whole"
  BY <1>1, NewBackupKeeps
<1>3. /\ ui' \in UiState /\ ui'.pc = "backup" /\ ui'.from \in 0..Len(backups)
      /\ ui'.op # "none" /\ (ui'.op = "restore" => ui'.from \in Found)
  <2>1. CASE Reset
    <3>1. ui' = [pc |-> "backup", op |-> "reset", from |-> 0,
                 goal |-> [files |-> {}, settings |-> Defaults]]
      BY <2>1 DEF Reset, Free
    <3>2. Len(backups) \in Nat
      BY CompleteBackups
    <3>3. QED
      BY <3>1, <3>2 DEF UiState, Busy, Snapshot, Settings, Defaults
  <2>2. CASE Restore
    <3>1. LatestBackup \in Found /\ LatestBackup \in 1..Len(backups)
      BY <2>2, LatestIsLatest, CompleteBackups DEF Restore
    <3>2. QED
      BY <2>2, <3>1, CompleteBackups DEF Restore, UiState, Busy, BackupType
  <2>3. QED
    BY <2>1, <2>2
<1>4. ui'.from \in 0..Len(backups')
  BY <1>2, <1>3, CompleteBackups
<1>5. BackupType'
  <2>1. InTheMaking' /\ RestoreFrom'
    BY <1>2, <1>3 DEF InTheMaking, RestoreFrom
  <2>2. Found' \ {Len(backups')} = Found
    BY <1>2, CompleteBackups
  <2>3. HasLatest'
    BY <1>2, <2>2 DEF BackupType, HasLatest, HasMax
  <2>4. QED
    BY <1>1, <1>2, <1>3, <1>4, <2>1, <2>3 DEF BackupType
<1>6. ImportType'
  BY SameImport DEF Reset, Restore, ImportType
<1>7. QED
  BY <1>1, <1>2, <1>3, <1>5, <1>6

LEMMA BackingUpType ==
    ASSUME TypeParts, Backup
    PROVE  TypeParts'
<1> USE DEF TypeParts
<1> DEFINE n == Len(backups)
<1>1. ui.pc = "backup" /\ UNCHANGED <<settings, listed, crashes>> /\ n \in Nat
  BY CompleteBackups DEF Backup
<1>2. ImportType'
  BY SameImport DEF Backup, ImportType
<1>3. ASSUME backups' \in Seq(Backups), Len(backups') = n, backups' # <<>>,
             Complete' = Complete, backups'[n].manifest # "whole",
             Found' = Found \/ Found' = Found \cup {n},
             UNCHANGED <<ui, before>>
      PROVE  BackupType'
  <2>1. InTheMaking' /\ RestoreFrom'
    BY <1>3 DEF InTheMaking, RestoreFrom, BackupType
  <2>2. Found' \ {Len(backups')} = Found \ {n} /\ \A i \in Found : i <= n
    BY <1>1, <1>3, CompleteBackups
  <2>3. HasLatest'
    BY <1>1, <1>3, <2>2 DEF BackupType, HasLatest, HasMax
  <2>4. QED
    BY <1>1, <1>3, <2>1, <2>3 DEF BackupType
<1>4. ASSUME NEW f \in Configs, backups' = [backups EXCEPT ![n].files = @ \cup {f}],
             UNCHANGED <<ui, before>>
      PROVE  BackupType'
  <2>1. f \in Files
    BY ListedType
  <2>2. /\ backups' \in Seq(Backups) /\ Len(backups') = n /\ backups' # <<>>
        /\ Complete' = Complete /\ Found' = Found
        /\ backups'[n].manifest = backups[n].manifest
    BY <1>1, <1>4, <2>1, CopyKeeps
  <2>3. backups[n].manifest # "whole"
    BY <1>1 DEF BackupType, InTheMaking
  <2>4. QED
    BY <1>3, <1>4, <2>2, <2>3
<1>5. ASSUME backups' = [backups EXCEPT ![n].manifest = "empty"], UNCHANGED <<ui, before>>
      PROVE  BackupType'
  BY <1>1, <1>3, <1>5, CreateKeeps
<1>6. ASSUME backups[n].manifest = "empty", before' = Current, ui' = AfterBackup,
             backups' = [backups EXCEPT ![n].manifest = "whole"]
      PROVE  BackupType'
  <2>1. /\ backups' \in Seq(Backups) /\ Len(backups') = n
        /\ Complete' = Complete \cup {n} /\ Found' = Found
    BY <1>1, <1>6, SealKeeps
  <2>2. /\ ui' \in UiState /\ ui'.from \in 0..n /\ ui'.pc # "backup"
        /\ \/ ui'.pc = "free" /\ ui'.op = "none"
           \/ ui.op = "reset" /\ ui'.op = "reset" /\ ui'.pc = "settings"
           \/ /\ ui.op = "restore" /\ ui'.op = "restore" /\ ui'.pc = "wipe"
              /\ ui'.from \in Complete
    <3>1. ui.op \in {"reset", "restore"} /\ ui.from \in 0..n
      BY <1>1 DEF BackupType, RestoreFrom, UiState
    <3>2. CASE ui.op = "reset"
      <4>1. ui' = [ui EXCEPT !.pc = "settings"]
        BY <1>6, <3>2 DEF AfterBackup
      <4>2. QED
        BY <3>1, <3>2, <4>1, UiType DEF Busy
    <3>3. CASE ui.op = "restore" /\ ui.from \in Complete
      <4>1. ui' = [ui EXCEPT !.pc = "wipe"]
        BY <1>6, <3>3 DEF AfterBackup
      <4>2. QED
        BY <3>1, <3>3, <4>1, UiType DEF Busy
    <3>4. CASE ui.op = "restore" /\ ui.from \notin Complete
      <4>1. ui' = Free
        BY <1>6, <3>4 DEF AfterBackup
      <4>2. ui' \in UiState /\ ui'.from = 0 /\ ui'.pc = "free" /\ ui'.op = "none"
        BY <4>1, UiType
      <4>3. QED
        BY <1>1, <4>2
    <3>5. QED
      BY <3>1, <3>2, <3>3, <3>4
  <2>3. HasLatest'
    BY <2>1, <2>2 DEF BackupType, HasLatest
  <2>4. before' \in Snapshot
    BY <1>6, ListedType DEF Current, Snapshot, BackupType, Configs
  <2>5. InTheMaking'
    BY <2>2 DEF InTheMaking
  <2>6. RestoreFrom'
    BY <2>1, <2>2, CompleteBackups DEF RestoreFrom
  <2>7. settings' \in Settings /\ ui'.from \in 0..Len(backups')
    BY <1>1, <2>1, <2>2 DEF BackupType
  <2>8. QED
    BY <2>1, <2>2, <2>3, <2>4, <2>5, <2>6, <2>7 DEF BackupType
<1>7. ASSUME backups' = SubSeq(backups, 1, n - 1), ui' = Free, UNCHANGED before
      PROVE  BackupType'
  <2>1. backups' \in Seq(Backups) /\ Complete' = Complete /\ Found' = Found \ {n}
    BY <1>1, <1>7, DropKeeps
  <2>2. ui' \in UiState /\ ui'.from = 0 /\ ui'.pc = "free" /\ ui'.op = "none"
    BY <1>7, UiType
  <2>3. HasLatest'
    BY <1>1, <2>1, <2>2 DEF BackupType, HasLatest
  <2>4. Len(backups') \in Nat
    BY <2>1
  <2>5. InTheMaking' /\ RestoreFrom'
    BY <2>2 DEF InTheMaking, RestoreFrom
  <2>6. settings' \in Settings /\ before' \in Snapshot /\ ui'.from \in 0..Len(backups')
    BY <1>1, <1>7, <2>2, <2>4 DEF BackupType
  <2>7. QED
    BY <2>1, <2>2, <2>3, <2>5, <2>6 DEF BackupType
<1>8. BackupType'
  <2>1. \/ /\ \E f \in Configs : backups' = [backups EXCEPT ![n].files = @ \cup {f}]
           /\ UNCHANGED <<ui, before>>
        \/ /\ backups' = [backups EXCEPT ![n].manifest = "empty"]
           /\ UNCHANGED <<ui, before>>
        \/ /\ backups[n].manifest = "empty"
           /\ backups' = [backups EXCEPT ![n].manifest = "whole"]
           /\ before' = Current
           /\ ui' = AfterBackup
        \/ /\ backups' = SubSeq(backups, 1, n - 1)
           /\ ui' = Free /\ UNCHANGED before
    BY DEF Backup
  <2>2. QED
    BY <1>4, <1>5, <1>6, <1>7, <2>1
<1>9. QED
  BY <1>1, <1>2, <1>8

LEMMA ResettingType ==
    ASSUME TypeParts, ResetSettings \/ Wipe \/ CopyBack \/ FinishRestore
    PROVE  TypeParts' /\ UNCHANGED <<backups, before, listed, crashes>> /\ ui'.pc # "backup"
<1> USE DEF TypeParts, Places
<1>1. /\ ui.pc \in {"settings", "wipe", "copyBack", "setAll"}
      /\ UNCHANGED <<backups, before, listed, crashes>>
      /\ ui.from \in 0..Len(backups) /\ RestoreFrom
  BY DEF ResetSettings, Wipe, CopyBack, FinishRestore, BackupType
<1>2. \/ ui' = ui \/ ui' = Free
      \/ ui.op # "none" /\ \E pc \in {"wipe", "settings"} : ui' = [ui EXCEPT !.pc = pc]
      \/ ui.op = "restore" /\ \E pc \in {"setAll", "copyBack"} : ui' = [ui EXCEPT !.pc = pc]
  <2>1. ui.op \in {"reset", "restore"}
    BY <1>1 DEF RestoreFrom, BackupType, UiState
  <2>2. CASE ResetSettings
    BY <2>1, <2>2 DEF ResetSettings
  <2>3. CASE Wipe
    BY <2>1, <2>3 DEF Wipe
  <2>4. CASE CopyBack
    BY <2>1, <2>4 DEF CopyBack
  <2>5. CASE FinishRestore
    BY <2>5 DEF FinishRestore
  <2>6. QED
    BY <2>2, <2>3, <2>4, <2>5
<1>3. /\ ui' \in UiState /\ ui'.from \in 0..Len(backups) /\ ui'.pc # "backup" /\ RestoreFrom'
  <2>1. Complete' = Complete /\ Found' = Found /\ Len(backups) \in Nat
    BY <1>1, CompleteBackups DEF Complete, Found
  <2>2. CASE ui' = ui
    BY <1>1, <2>1, <2>2 DEF BackupType, RestoreFrom
  <2>3. CASE ui' = Free
    <3>1. ui' \in UiState /\ ui'.from = 0 /\ ui'.pc = "free" /\ ui'.op = "none"
      BY <2>3, UiType
    <3>2. QED
      BY <2>1, <3>1 DEF RestoreFrom
  <2>4. ASSUME NEW pc \in Busy, ui' = [ui EXCEPT !.pc = pc], pc # "backup",
               ui.op # "none", pc \in {"copyBack", "setAll"} => ui.op = "restore"
        PROVE  /\ ui' \in UiState /\ ui'.from \in 0..Len(backups)
               /\ ui'.pc # "backup" /\ RestoreFrom'
    <3>1. ui' \in UiState /\ ui'.from = ui.from /\ ui'.pc = pc /\ ui'.op = ui.op
      BY <2>4, UiType
    <3>2. QED
      BY <1>1, <2>1, <2>4, <3>1 DEF RestoreFrom
  <2>5. QED
    BY <1>2, <2>2, <2>3, <2>4 DEF Busy
<1>4. settings' \in Settings
  <2>1. CASE FinishRestore
    <3>1. ui.from \in Complete
      BY <1>1, <2>1 DEF FinishRestore, RestoreFrom
    <3>2. backups[ui.from].settings \in Settings
      BY <3>1, CompleteBackups DEF Backups
    <3>3. QED
      BY <2>1, <3>2 DEF FinishRestore
  <2>2. CASE ~FinishRestore
    BY <2>2 DEF ResetSettings, Wipe, CopyBack, BackupType, Settings, Defaults
  <2>3. QED
    BY <2>1, <2>2
<1>5. BackupType'
  BY <1>1, <1>3, <1>4, SameBackups
<1>6. ImportType'
  <2>1. CASE ResetSettings
    BY <2>1, SameImport DEF ResetSettings, ImportType
  <2>2. CASE Wipe
    <3>1. DiskType'
      <4>1. CASE disk' = [disk EXCEPT !["configs"] = [there |-> TRUE, files |-> {}]]
        BY <4>1 DEF ImportType, DiskType, Dir
      <4>2. QED
        BY <2>2, <4>1, FileOperations DEF Wipe, ImportType
    <3>2. idles' \in Seq({"imported", "remove", "load"})
      <4>1. idles' \in {idles, Append(idles, "remove")}
        BY <2>2 DEF Wipe
      <4>2. QED
        BY <4>1 DEF ImportType
    <3>5. owned' \in {owned, {}} /\ halted' \in Cuts
      BY <2>2 DEF Wipe, ImportType, Cuts
    <3>3. UNCHANGED <<job, pendingCa>>
      BY <2>2 DEF Wipe
    <3>4. QED
      BY <3>1, <3>2, <3>3, <3>5 DEF ImportType, JobType, SourceKnown, Running
  <2>3. CASE CopyBack
    <3>1. ui.from \in Complete
      BY <1>1, <2>3 DEF CopyBack, RestoreFrom
    <3>2. backups[ui.from].files \subseteq Files
      BY <3>1, CompleteBackups DEF Backups
    <3>3. DiskType'
      <4>1. ASSUME NEW f \in backups[ui.from].files,
                   disk' = [disk EXCEPT !["configs"] = [there |-> TRUE, files |-> @.files \cup {f}]]
            PROVE  DiskType'
        BY <3>2, <4>1 DEF ImportType, DiskType, Dir
      <4>2. CASE UNCHANGED disk
        BY <4>2 DEF ImportType, DiskType
      <4>3. QED
        BY <2>3, <4>1, <4>2 DEF CopyBack
    <3>4. halted' \in Cuts /\ UNCHANGED <<job, pendingCa, idles, owned>>
      BY <2>3 DEF CopyBack, ImportType, Cuts
    <3>5. QED
      BY <3>3, <3>4 DEF ImportType, JobType, SourceKnown, Running
  <2>4. CASE FinishRestore
    <3>1. idles' \in Seq({"imported", "remove", "load"})
      <4>1. <<"remove", "load">> \in Seq({"imported", "remove", "load"})
        OBVIOUS
      <4>2. QED
        BY <2>4, <4>1, ConcatProperties DEF FinishRestore, ImportType
    <3>2. owned' \subseteq Files
      BY <2>4, ListedType DEF FinishRestore
    <3>3. QED
      BY <2>4, <3>1, <3>2, SameImport DEF FinishRestore, ImportType, Cuts
  <2>5. QED
    BY <2>1, <2>2, <2>3, <2>4
<1>7. QED
  BY <1>1, <1>3, <1>5, <1>6

LEMMA NextType == TypeInv /\ [Next]_vars => TypeInv'
<1>0. TypeInv' <=> TypeParts'
  BY TypeIsParts, PTL
<1> SUFFICES ASSUME TypeParts, [Next]_vars PROVE TypeParts'
  BY <1>0, TypeIsParts
<1> USE DEF TypeParts
<1>1. CASE ChooseSource
  <2>1. settings' \in Settings
    BY <1>1 DEF ChooseSource, BackupType, Settings
  <2>2. UNCHANGED <<disk, backups, job, pendingCa, ui, idles, listed, halted,
                    owned, before, crashes>>
    BY <1>1 DEF ChooseSource
  <2>3. ImportType'
    BY <2>2, SameImport DEF ImportType
  <2>4. BackupType'
    <3>1. ui' \in UiState /\ ui'.from \in 0..Len(backups) /\ RestoreFrom'
      BY <2>2 DEF BackupType, RestoreFrom, Complete, Found
    <3>2. QED
      BY <2>1, <2>2, <3>1, SameBackups
  <2>5. QED
    BY <2>2, <2>3, <2>4
<1>2. ASSUME NEW w \in Workers, Import(w) \/ Worker(w)
      PROVE  TypeParts'
  <2>1. settings \in Settings
    BY DEF BackupType
  <2>2. ImportType' /\ UNCHANGED <<backups, settings, ui, listed, before, crashes>>
    BY <1>2, <2>1, ImportKeepsType
  <2>3. BackupType'
    <3>1. ui' \in UiState /\ ui'.from \in 0..Len(backups) /\ RestoreFrom'
      BY <2>2 DEF BackupType, RestoreFrom, Complete, Found
    <3>2. QED
      BY <2>1, <2>2, <3>1, SameBackups
  <2>4. QED
    BY <2>2, <2>3
<1>3. CASE RunIdle
  <2>1. UNCHANGED <<disk, backups, job, ui, halted, owned, before, crashes>>
    BY <1>3 DEF RunIdle
  <2>2. listed' \subseteq Files \ Certs
    BY <1>3, ListedType DEF RunIdle
  <2>3. settings' \in Settings /\ pendingCa' \in Certs \cup {NoCert}
    BY <1>3 DEF RunIdle, BackupType, ImportType, Settings
  <2>4. ImportType'
    <3>1. idles' \in Seq({"imported", "remove", "load"})
      BY <1>3, HeadTailProperties DEF RunIdle, ImportType
    <3>2. QED
      BY <2>1, <2>3, <3>1, SameImport DEF ImportType
  <2>5. BackupType'
    <3>1. ui' \in UiState /\ ui'.from \in 0..Len(backups) /\ RestoreFrom'
      BY <2>1 DEF BackupType, RestoreFrom, Complete, Found
    <3>2. QED
      BY <2>1, <2>3, <3>1, SameBackups
  <2>6. QED
    BY <2>1, <2>2, <2>4, <2>5
<1>4. CASE ResetOrRestore
  BY <1>4, RequestType, BackingUpType, ResettingType DEF ResetOrRestore
<1>5. CASE Crash
  <2>1. UNCHANGED <<disk, backups, settings, owned, before>> /\ halted' \in Cuts
        /\ crashes' = crashes + 1 /\ pendingCa' = NoCert /\ idles' = <<>>
        /\ listed' = OvpnFiles /\ job' = [w \in Workers |-> NoJob] /\ ui' = Free
    BY <1>5 DEF Crash, store, ImportType, Cuts
  <2>2. ImportType'
    <3>1. JobType'
      BY <2>1 DEF JobType, Jobs, NoJob, SourceKnown, Running
    <3>2. DiskType'
      BY <2>1 DEF ImportType, DiskType
    <3>3. idles' \in Seq({"imported", "remove", "load"}) /\ pendingCa' \in Certs \cup {NoCert}
      BY <2>1
    <3>4. owned' \subseteq Files /\ halted' \in Cuts
      BY <2>1 DEF ImportType
    <3>5. QED
      BY <3>1, <3>2, <3>3, <3>4 DEF ImportType
  <2>3. BackupType'
    <3>1. ui' \in UiState /\ ui'.from = 0 /\ ui'.pc = "free" /\ ui'.op = "none"
      BY <2>1, UiType
    <3>2. Len(backups) \in Nat
      BY CompleteBackups
    <3>3. settings' \in Settings /\ RestoreFrom' /\ ui'.from \in 0..Len(backups)
      BY <2>1, <3>1, <3>2 DEF BackupType, RestoreFrom
    <3>4. QED
      BY <2>1, <3>1, <3>3, SameBackups
  <2>4. listed' \subseteq Files \ Certs /\ crashes' \in Nat
    BY <2>1, ListedType
  <2>5. QED
    BY <2>2, <2>3, <2>4
<1>6. CASE UNCHANGED vars
  <2>1. UNCHANGED <<disk, backups, settings, job, pendingCa, ui, idles, listed, halted,
                    owned, before, crashes>>
    BY <1>6 DEF vars, store
  <2>2. ImportType'
    BY <2>1, SameImport DEF ImportType
  <2>3. BackupType'
    <3>1. ui' \in UiState /\ ui'.from \in 0..Len(backups) /\ RestoreFrom' /\ settings' \in Settings
      BY <2>1 DEF BackupType, RestoreFrom, Complete, Found
    <3>2. QED
      BY <2>1, <3>1, SameBackups
  <2>4. QED
    BY <2>1, <2>2, <2>3
<1>7. QED
  BY <1>1, <1>2, <1>3, <1>4, <1>5, <1>6 DEF Next

(* Every variable keeps its type, whatever the user does and whatever      *)
(* fails.                                                                  *)
THEOREM TypeCorrect == Spec => []TypeOK
<1>1. TypeInv => TypeOK
  BY DEF TypeInv
<1>2. QED
  BY <1>1, InitType, NextType, PTL DEF Spec

-----------------------------------------------------------------------------
(* One thing at a time, and the list.                                      *)

(* What a step of an import changes besides the directories.               *)
LEMMA WorkerStep ==
    ASSUME TypeInv, NEW w \in Workers, Worker(w)
    PROVE  /\ Running(w) /\ \A v \in Workers : v # w => job'[v] = job[v]
           /\ UNCHANGED <<backups, settings, ui, listed, before, crashes>>
           /\ \/ Running(w)' /\ UNCHANGED <<idles, pendingCa>>
              \/ job'[w] = NoJob /\ idles' = Append(idles, "imported")
<1> USE DEF Running
<1>1. job \in [Workers -> Jobs]
  BY TypeIsParts DEF TypeParts, ImportType, JobType
<1>2. ASSUME UNCHANGED job \/ \E pc \in Importing : Goto(w, pc), job[w].pc # "off"
      PROVE  Running(w)' /\ \A v \in Workers : v # w => job'[v] = job[v]
  BY <1>1, <1>2 DEF Goto, Jobs, Importing
<1>3. ASSUME Finish(w)
      PROVE  /\ job'[w] = NoJob /\ idles' = Append(idles, "imported")
             /\ \A v \in Workers : v # w => job'[v] = job[v]
  BY <1>1, <1>3 DEF Finish
<1>4. CASE ClearStaging(w)
  BY <1>2, <1>4 DEF ClearStaging, Importing
<1>5. CASE Fetch(w)
  <2>1. Running(w)' /\ \A v \in Workers : v # w => job'[v] = job[v]
    <3>1. ASSUME NEW cert, job' = [job EXCEPT ![w].pc = "dropOld", ![w].cert = cert]
          PROVE  Running(w)' /\ \A v \in Workers : v # w => job'[v] = job[v]
      BY <1>1, <3>1 DEF Jobs
    <3>2. QED
      BY <1>2, <1>5, <3>1 DEF Fetch, Importing
  <2>2. QED
    BY <1>5, <2>1 DEF Fetch
<1>6. CASE DropOld(w)
  BY <1>2, <1>6 DEF DropOld, Remove, Importing
<1>7. CASE MoveOut(w)
  BY <1>2, <1>7 DEF MoveOut, Importing
<1>8. CASE MoveIn(w)
  BY <1>2, <1>8 DEF MoveIn, Importing
<1>9. CASE Tidy(w)
  <2>1. \/ UNCHANGED <<job, idles, pendingCa>> \/ Finish(w)
    BY <1>9 DEF Tidy, Remove
  <2>2. job[w].pc # "off" /\ UNCHANGED <<backups, settings, ui, listed, before, crashes>>
    BY <1>9 DEF Tidy
  <2>3. QED
    BY <1>2, <1>3, <2>1, <2>2
<1>10. CASE Abort(w)
  <2>1. \/ UNCHANGED <<job, idles>> \/ Finish(w)
    BY <1>10 DEF Abort, Remove
  <2>2. job[w].pc # "off" /\ UNCHANGED <<backups, settings, pendingCa, ui, listed, before, crashes>>
    BY <1>10 DEF Abort
  <2>3. QED
    BY <1>2, <1>3, <2>1, <2>2
<1>11. QED
  BY <1>4, <1>5, <1>6, <1>7, <1>8, <1>9, <1>10 DEF Worker

(* What the steps of a reset or restore leave alone.                       *)
LEMMA UiStep ==
    ASSUME ResetOrRestore
    PROVE  /\ UNCHANGED <<job, pendingCa, listed, crashes>>
           /\ ~(Reset \/ Restore) => ui.pc \in Busy
           /\ UNCHANGED idles \/ ui'.pc = "free"
BY DEF ResetOrRestore, Reset, Restore, Backup, ResetSettings, Wipe, CopyBack, FinishRestore,
       Busy, Free

LEMMA InitExclusive == Init => Exclusive
BY DEF Init, Exclusive, Running, NoJob, Free

LEMMA NextExclusive ==
    ASSUME Patient
    PROVE  TypeInv /\ Exclusive /\ [Next]_vars => Exclusive'
<1> SUFFICES ASSUME TypeInv, Exclusive, [Next]_vars PROVE Exclusive'
  OBVIOUS
<1> USE DEF Running
<1>0. ASSUME UNCHANGED <<ui, idles, job>> PROVE Exclusive'
  BY <1>0 DEF Exclusive
<1>1. CASE ChooseSource
  BY <1>0, <1>1 DEF ChooseSource
<1>2. ASSUME NEW w \in Workers, Import(w) PROVE Exclusive'
  <2>1. ui.pc = "free" /\ idles = <<>> /\ \A v \in Workers : job[v].pc = "off"
    BY <1>2 DEF Import, Idle
  <2>2. UNCHANGED <<ui, idles>> /\ \A v \in Workers : v # w => job'[v] = job[v]
    <3>1. job \in [Workers -> Jobs]
      BY TypeIsParts DEF TypeParts, ImportType, JobType
    <3>2. QED
      BY <1>2, <3>1 DEF Import
  <2>3. QED
    BY <2>1, <2>2 DEF Exclusive
<1>3. ASSUME NEW w \in Workers, Worker(w) PROVE Exclusive'
  <2>1. /\ Running(w) /\ \A v \in Workers : v # w => job'[v] = job[v]
        /\ UNCHANGED ui
        /\ (Running(w)' /\ UNCHANGED idles) \/ job'[w] = NoJob
    BY <1>3, WorkerStep
  <2>2. ui.pc = "free" /\ idles = <<>> /\ \A v \in Workers : v # w => ~Running(v)
    BY <2>1 DEF Exclusive
  <2>3. QED
    BY <2>1, <2>2 DEF Exclusive, NoJob
<1>4. CASE RunIdle
  BY <1>4 DEF RunIdle, Exclusive
<1>5. CASE ResetOrRestore
  <2>1. UNCHANGED job /\ (UNCHANGED idles \/ ui'.pc = "free")
    BY <1>5, UiStep
  <2>2. idles = <<>> /\ \A w \in Workers : ~Running(w)
    <3>1. CASE Reset \/ Restore
      BY <3>1 DEF Reset, Restore, Idle
    <3>2. CASE ~(Reset \/ Restore)
      BY <1>5, <3>2, UiStep DEF Exclusive, Busy
    <3>3. QED
      BY <3>1, <3>2
  <2>3. QED
    BY <2>1, <2>2 DEF Exclusive
<1>6. CASE Crash
  BY <1>6 DEF Crash, Exclusive, Free, NoJob
<1>7. CASE UNCHANGED vars
  BY <1>0, <1>7 DEF vars
<1>8. QED
  BY <1>1, <1>2, <1>3, <1>4, <1>5, <1>6, <1>7 DEF Next

LEMMA LastOfTail ==
    ASSUME NEW S, NEW s \in Seq(S), s # <<>>
    PROVE  IF Tail(s) = <<>> THEN Head(s) = s[Len(s)]
           ELSE Tail(s)[Len(Tail(s))] = s[Len(s)]
<1>1. /\ Len(Tail(s)) = Len(s) - 1 /\ Len(s) \in Nat /\ Len(s) # 0 /\ Tail(s) \in Seq(S)
      /\ \A i \in 1..Len(Tail(s)) : Tail(s)[i] = s[i + 1]
  BY HeadTailProperties
<1>2. CASE Tail(s) = <<>>
  <2>1. Len(<<>>) = 0
    OBVIOUS
  <2>2. Len(Tail(s)) = 0
    BY <1>2, <2>1, Zenon
  <2>3. ASSUME NEW n \in Nat, NEW m \in Nat, m = n - 1, m = 0 PROVE n = 1
    BY <2>3
  <2>4. Len(s) = 1
    BY <1>1, <2>2, <2>3, Zenon
  <2>5. QED
    BY <1>2, <2>4
<1>3. CASE Tail(s) # <<>>
  <2> DEFINE t == Tail(s)
  <2>1. Len(t) # 0
    BY <1>1, <1>3
  <2>2. Len(t) \in 1..Len(t) /\ Len(t) + 1 = Len(s)
    BY <1>1, <2>1
  <2>3. t[Len(t)] = s[Len(s)]
    BY <1>1, <2>2
  <2>4. QED
    BY <1>3, <2>3
<1>4. QED
  BY <1>2, <1>3

LEMMA InitList == Init => ListInv
BY DEF Init, ListInv, Idle, OvpnFiles, Configs, Missing, Free

LEMMA NextList ==
    ASSUME Patient
    PROVE  TypeInv /\ Exclusive /\ ListInv /\ [Next]_vars => ListInv'
<1> SUFFICES ASSUME TypeInv, Exclusive, ListInv, [Next]_vars PROVE ListInv'
  OBVIOUS
<1> USE DEF Running
<1>0. idles \in Seq({"imported", "remove", "load"})
  BY DEF TypeInv, TypeOK
<1>1. CASE ChooseSource
  BY <1>1 DEF ChooseSource, ListInv, Idle, OvpnFiles, Configs
<1>2. ASSUME NEW w \in Workers, Import(w) PROVE ListInv'
  <2>1. ~Idle'
    <3>1. job \in [Workers -> Jobs]
      BY TypeIsParts DEF TypeParts, ImportType, JobType
    <3>2. job'[w].pc = "clear"
      BY <1>2, <3>1 DEF Import, NoJob
    <3>3. QED
      BY <3>2 DEF Idle
  <2>2. ui'.pc = "free" /\ idles' = <<>>
    BY <1>2 DEF Import, Idle
  <2>3. QED
    BY <2>1, <2>2 DEF ListInv
<1>3. ASSUME NEW w \in Workers, Worker(w) PROVE ListInv'
  <2>1. ui'.pc = "free" /\ idles = <<>>
    BY <1>3, WorkerStep DEF Exclusive
  <2>2. \/ Running(w)' /\ idles' = <<>>
        \/ idles' # <<>> /\ idles'[Len(idles')] = "imported"
    BY <1>3, <2>1, WorkerStep
  <2>3. ~Idle'
    BY <2>2 DEF Idle
  <2>4. QED
    BY <2>1, <2>2, <2>3 DEF ListInv
<1>4. CASE RunIdle
  <2>1. /\ idles # <<>> /\ idles' = Tail(idles) /\ ui'.pc = "free"
        /\ UNCHANGED <<disk, halted>>
        /\ listed' = IF Head(idles) = "remove" THEN {} ELSE OvpnFiles
    BY <1>4 DEF RunIdle
  <2>2. IF Tail(idles) = <<>> THEN Head(idles) = idles[Len(idles)]
        ELSE Tail(idles)[Len(Tail(idles))] = idles[Len(idles)]
    BY <1>0, <2>1, LastOfTail
  <2>3. idles[Len(idles)] = "remove" => OvpnFiles = {}
    BY <2>1 DEF ListInv
  <2>4. OvpnFiles' = OvpnFiles
    BY <2>1 DEF OvpnFiles, Configs
  <2>5. CASE Tail(idles) = <<>>
    <3>1. listed' = OvpnFiles'
      BY <2>1, <2>2, <2>3, <2>4, <2>5
    <3>2. QED
      BY <2>1, <2>5, <3>1 DEF ListInv
  <2>6. CASE Tail(idles) # <<>>
    <3>1. ~Idle'
      BY <2>1, <2>6 DEF Idle
    <3>2. QED
      BY <2>1, <2>2, <2>3, <2>4, <2>6, <3>1 DEF ListInv
  <2>7. QED
    BY <2>5, <2>6
<1>5. CASE Reset \/ Restore
  <2>1. Idle /\ UNCHANGED <<disk, idles, listed, halted>>
    BY <1>5 DEF Reset, Restore
  <2>2. OvpnFiles' = OvpnFiles
    BY <2>1 DEF OvpnFiles, Configs
  <2>3. QED
    BY <2>1, <2>2 DEF ListInv, Idle
<1>6. CASE Backup
  <2>1. ui.pc = "backup" /\ UNCHANGED <<disk, idles, listed, halted>> /\ idles = <<>>
    BY <1>6 DEF Backup, Exclusive
  <2>2. OvpnFiles' = OvpnFiles
    BY <2>1 DEF OvpnFiles, Configs
  <2>3. QED
    BY <2>1, <2>2 DEF ListInv
<1>7. CASE ResetSettings \/ Wipe \/ CopyBack \/ FinishRestore
  <2>1. ui.pc \in Busy \ {"backup"} /\ idles = <<>>
    BY <1>7 DEF ResetSettings, Wipe, CopyBack, FinishRestore, Exclusive, Busy
  <2>2. ui'.pc # "backup"
    <3>1. TypeParts
      BY TypeIsParts
    <3>2. QED
      BY <1>7, <3>1, ResettingType
  <2>3. CASE ui'.pc # "free" /\ UNCHANGED idles
    BY <2>1, <2>2, <2>3 DEF ListInv, Idle
  <2>4. CASE Wipe /\ idles' = Append(idles, "remove")
    <3>1. idles' # <<>>
      BY <2>1, <2>4
    <3>2. OvpnFiles' = {}
      <4>1. disk' = [disk EXCEPT !["configs"] = [there |-> TRUE, files |-> {}]]
            \/ UNCHANGED disk
        BY <2>4 DEF Wipe
      <4>2. UNCHANGED disk => Configs = {} \/ idles' = idles
        BY <2>4 DEF Wipe
      <4>3. disk \in [Places -> Dir]
        BY DEF TypeInv, DiskType
      <4>4. Configs' = {}
        BY <2>1, <3>1, <4>1, <4>2, <4>3 DEF Configs, Places
      <4>5. QED
        BY <4>4 DEF OvpnFiles
    <3>3. QED
      BY <2>2, <3>1, <3>2 DEF ListInv, Idle
  <2>5. CASE CopyBack /\ ui' = Free /\ UNCHANGED idles
    <3>1. halted' = "failed"
      BY <2>1, <2>5 DEF CopyBack, Free, Busy
    <3>2. QED
      BY <2>1, <2>2, <2>5, <3>1 DEF ListInv
  <2>6. CASE FinishRestore
    <3>1. idles' = <<>> \o <<"remove", "load">>
      BY <2>1, <2>6 DEF FinishRestore
    <3>2. idles' # <<>> /\ idles'[Len(idles')] = "load"
      BY <3>1
    <3>3. QED
      BY <2>2, <3>2 DEF ListInv, Idle
  <2>7. \/ ui'.pc # "free" /\ UNCHANGED idles
        \/ Wipe /\ idles' = Append(idles, "remove")
        \/ CopyBack /\ ui' = Free /\ UNCHANGED idles
        \/ FinishRestore
    <3>1. ui \in UiState
      BY DEF TypeInv
    <3>2. \A pc \in Busy : [ui EXCEPT !.pc = pc].pc = pc
      BY <3>1 DEF UiState
    <3>3. CASE ResetSettings
      BY <3>2, <3>3 DEF ResetSettings, Busy
    <3>4. CASE Wipe
      BY <2>1, <3>2, <3>4 DEF Wipe, Busy
    <3>5. CASE CopyBack
      BY <2>1, <3>2, <3>5 DEF CopyBack, Busy
    <3>6. QED
      BY <1>7, <3>3, <3>4, <3>5
  <2>8. QED
    BY <2>3, <2>4, <2>5, <2>6, <2>7
<1>8. CASE Crash
  <2>1. ui'.pc = "free" /\ idles' = <<>> /\ listed' = OvpnFiles /\ UNCHANGED disk
    BY <1>8 DEF Crash, store, Free
  <2>2. OvpnFiles' = OvpnFiles
    BY <2>1 DEF OvpnFiles, Configs
  <2>3. QED
    BY <2>1, <2>2 DEF ListInv
<1>9. CASE UNCHANGED vars
  BY <1>9 DEF vars, store, ListInv, Idle, OvpnFiles, Configs
<1>10. QED
  BY <1>1, <1>2, <1>3, <1>4, <1>5, <1>6, <1>7, <1>8, <1>9 DEF Next, ResetOrRestore

(* At rest the window lists exactly the configurations on disk, whatever   *)
(* was imported, reset or restored, whatever failed on the way and however *)
(* often the program was killed, unless a restore stopped half way and     *)
(* said so (eovpn_base.py, glib_func; settings_window.py, _apply_reset).   *)
THEOREM ListAlwaysMatches ==
    ASSUME Patient
    PROVE  Spec => []ListMatchesDisk
<1>1. ListInv => ListMatchesDisk
  BY DEF ListInv, ListMatchesDisk
<1>2. Init => TypeInv /\ Exclusive /\ ListInv
  BY InitType, InitExclusive, InitList
<1>3. TypeInv /\ Exclusive /\ ListInv /\ [Next]_vars => (TypeInv /\ Exclusive /\ ListInv)'
  BY NextType, NextExclusive, NextList
<1>4. QED
  BY <1>1, <1>2, <1>3, PTL DEF Spec

-----------------------------------------------------------------------------
(* The staging directory.                                                  *)

(* What an import does to the directories, to what the user owns and to    *)
(* its own place, when every failure to read the source is reported: it    *)
(* works on the staging directory, removes .old, moves CONFIGS away, puts  *)
(* the whole source in its place, or tidies up.                            *)
StagingStep(w) ==
    /\ disk'["configs"] = disk["configs"] /\ disk'["old"] = disk["old"]
    /\ UNCHANGED <<owned, halted>>
    /\ job[w].pc \notin Replacing \cup {"tidy"}
    /\ job'[w].pc \notin {"moveOut", "moveIn", "tidy"}

DropStep(w) ==
    /\ disk'["configs"] = disk["configs"] /\ UNCHANGED <<owned, halted>>
    /\ job[w].pc = "dropOld" /\ job'[w].pc \in {"dropOld", "moveOut"}

OutStep(w) ==
    /\ Configs' = {} /\ disk'["old"].files = Configs /\ UNCHANGED <<owned, halted>>
    /\ job[w].pc = "moveOut" /\ job'[w].pc = "moveIn"

InStep(w) ==
    /\ owned' = Configs'
    /\ job[w].pc = "moveIn" /\ job'[w].pc = "tidy"

TidyStep(w) ==
    /\ disk'["configs"] = disk["configs"] /\ UNCHANGED <<owned, halted>>
    /\ job[w].pc = "tidy" /\ job'[w].pc \in {"tidy", "off"}

LEMMA ImportEffect ==
    ASSUME "silent" \notin Faults, TypeInv, StagingInv, NEW w \in Workers, Worker(w)
    PROVE  /\ Staged(w)'
           /\ StagingStep(w) \/ DropStep(w) \/ OutStep(w) \/ InStep(w) \/ TidyStep(w)
<1> USE DEF Places, Replacing, Importing
<1>1. /\ disk \in [Places -> Dir] /\ \A d \in Places : ~disk[d].there => disk[d].files = {}
      /\ job \in [Workers -> Jobs] /\ Staged(w)
  BY TypeIsParts DEF TypeInv, DiskType, StagingInv, TypeParts, ImportType, JobType
<1>2. \A pc : Goto(w, pc) => job'[w].pc = pc /\ job'[w].src = job[w].src
  BY <1>1 DEF Goto, Jobs
<1>3. CASE ClearStaging(w)
  <2>1. ASSUME NEW f, disk' = [disk EXCEPT !["staging"].files = @ \ {f}], UNCHANGED job
        PROVE  Staged(w)' /\ StagingStep(w)
    BY <1>1, <1>3, <2>1 DEF ClearStaging, Staged, StagingStep
  <2>2. CASE disk' = [disk EXCEPT !["staging"].there = TRUE] /\ Goto(w, "fetch")
             /\ disk["staging"].files = {}
    <3>1. job'[w].pc = "fetch" /\ disk'["staging"].there /\ disk'["staging"].files = {}
      BY <1>1, <1>2, <2>2 DEF Dir
    <3>2. Staged(w)'
      BY <3>1 DEF Staged
    <3>3. QED
      BY <1>1, <1>3, <2>2, <3>1, <3>2 DEF ClearStaging, StagingStep
  <2>3. QED
    BY <1>3, <2>1, <2>2 DEF ClearStaging
<1>4. CASE Fetch(w)
  <2> DEFINE staged == disk["staging"].files
             src == Content[job[w].src]
  <2>1. disk["staging"].there /\ staged \subseteq src /\ job[w].pc = "fetch"
        /\ UNCHANGED <<owned, halted>>
    BY <1>1, <1>4 DEF Fetch, Staged
  <2>2. ASSUME NEW f \in src \ staged, disk' = [disk EXCEPT !["staging"].files = @ \cup {f}],
               UNCHANGED job
        PROVE  Staged(w)' /\ StagingStep(w)
    <3>1. disk'["staging"].there /\ disk'["staging"].files = staged \cup {f}
          /\ disk'["configs"] = disk["configs"] /\ disk'["old"] = disk["old"]
      BY <1>1, <2>1, <2>2 DEF Dir
    <3>2. QED
      BY <2>1, <2>2, <3>1 DEF Staged, StagingStep
  <2>3. ASSUME NEW cert, src \ staged = {}, UNCHANGED disk,
               job' = [job EXCEPT ![w].pc = "dropOld", ![w].cert = cert]
        PROVE  Staged(w)' /\ StagingStep(w)
    <3>1. job'[w].pc = "dropOld" /\ job'[w].src = job[w].src /\ staged = src
      BY <1>1, <2>1, <2>3 DEF Jobs
    <3>2. QED
      BY <2>1, <2>3, <3>1 DEF Staged, StagingStep, Whole
  <2>4. CASE Goto(w, "abort") /\ UNCHANGED disk
    BY <1>2, <2>1, <2>4 DEF Staged, StagingStep
  <2>5. QED
    BY <1>4, <2>2, <2>3, <2>4 DEF Fetch
<1>5. CASE DropOld(w)
  <2>1. job[w].pc = "dropOld" /\ Whole(w) /\ UNCHANGED <<owned, halted>>
    BY <1>1, <1>5 DEF DropOld, Staged
  <2>2. ASSUME NEW f, disk' = [disk EXCEPT !["old"].files = @ \ {f}], UNCHANGED job
        PROVE  Staged(w)' /\ DropStep(w)
    BY <1>1, <2>1, <2>2 DEF Staged, DropStep, Whole
  <2>3. CASE disk' = [disk EXCEPT !["old"] = Missing] /\ Goto(w, "moveOut")
    <3>1. job'[w].pc = "moveOut" /\ job'[w].src = job[w].src
      BY <1>2, <2>3
    <3>2. disk'["old"].files = {} /\ disk'["staging"] = disk["staging"]
          /\ disk'["configs"] = disk["configs"]
      BY <1>1, <2>3 DEF Missing
    <3>3. QED
      BY <2>1, <3>1, <3>2 DEF Staged, DropStep, Whole
  <2>4. QED
    BY <1>5, <2>2, <2>3 DEF DropOld, Remove
<1>6. CASE MoveOut(w)
  <2>1. /\ job[w].pc = "moveOut" /\ Whole(w) /\ disk["old"].files = {}
        /\ UNCHANGED <<owned, halted>>
    BY <1>1, <1>6 DEF MoveOut, Staged
  <2>2. /\ Goto(w, "moveIn")
        /\ (~disk["configs"].there /\ UNCHANGED disk) \/ Rename("configs", "old")
    BY <1>6, <2>1 DEF MoveOut, CanRename
  <2>3. /\ disk'["staging"] = disk["staging"]
        /\ disk'["configs"].files = {} /\ disk'["old"].files = disk["configs"].files
        /\ ~disk'["configs"].there
    BY <1>1, <2>1, <2>2 DEF Rename, Missing
  <2>4. job'[w].pc = "moveIn" /\ job'[w].src = job[w].src
    BY <1>2, <2>2
  <2>5. Staged(w)'
    BY <2>1, <2>3, <2>4 DEF Staged, Whole, Configs
  <2>6. OutStep(w)
    BY <2>1, <2>3, <2>4 DEF OutStep, Configs
  <2>7. QED
    BY <2>5, <2>6
<1>7. CASE MoveIn(w)
  <2>1. job[w].pc = "moveIn" /\ Whole(w) /\ Configs = {}
    BY <1>1, <1>7 DEF MoveIn, Staged
  <2>2. /\ Rename("staging", "configs") /\ Goto(w, "tidy")
        /\ owned' = Content[job[w].src]
    BY <1>7, <2>1 DEF MoveIn, CanRename, Whole, Configs
  <2>3. disk'["configs"] = disk["staging"]
    BY <1>1, <2>2 DEF Rename
  <2>4. job'[w].pc = "tidy"
    BY <1>2, <2>2
  <2>5. InStep(w)
    BY <2>1, <2>2, <2>3, <2>4 DEF InStep, Configs, Whole
  <2>6. QED
    BY <2>4, <2>5 DEF Staged
<1>8. CASE Tidy(w)
  <2>1. job[w].pc = "tidy" /\ UNCHANGED <<owned, halted>>
        /\ disk'["configs"] = disk["configs"]
    BY <1>1, <1>8 DEF Tidy, Remove
  <2>2. job'[w].pc \in {"tidy", "off"}
    BY <1>1, <1>8 DEF Tidy, Remove, Finish, NoJob
  <2>3. QED
    BY <2>1, <2>2 DEF TidyStep, Staged
<1>9. CASE Abort(w)
  <2>1. job[w].pc = "abort" /\ UNCHANGED <<owned, halted>>
        /\ disk'["configs"] = disk["configs"] /\ disk'["old"] = disk["old"]
    BY <1>1, <1>9 DEF Abort, Remove
  <2>2. job'[w].pc \in {"abort", "off"}
    BY <1>1, <1>9 DEF Abort, Remove, Finish, NoJob
  <2>3. QED
    BY <2>1, <2>2 DEF StagingStep, Staged
<1>10. QED
  BY <1>3, <1>4, <1>5, <1>6, <1>7, <1>8, <1>9 DEF Worker

(* Only the steps of the one running import matter here.                   *)
LEMMA OtherSteps ==
    ASSUME Patient, TypeInv, Exclusive, [Next]_vars
    PROVE  \/ \E w \in Workers : /\ Worker(w) /\ UNCHANGED <<backups, settings, ui, before, crashes>>
                                 /\ ui.pc = "free" /\ Running(w)
                                 /\ \A v \in Workers : v # w => ~Running(v) /\ ~Running(v)'
           \/ \E w \in Workers : /\ Import(w) /\ ui.pc = "free"
                                 /\ UNCHANGED <<disk, backups, settings, ui, halted, owned, before, crashes>>
                                 /\ \A v \in Workers : ~Running(v)
                                 /\ \A v \in Workers : job'[v].pc \in {"off", "clear"}
           \/ ChooseSource \/ RunIdle \/ UNCHANGED vars
           \/ /\ ResetOrRestore \/ Crash
              /\ \A w \in Workers : ~Running(w)'
              /\ ResetOrRestore => UNCHANGED <<job, crashes>>
<1> USE DEF Running
<1>1. ASSUME NEW w \in Workers, Worker(w)
      PROVE  /\ UNCHANGED <<backups, settings, ui, before, crashes>> /\ ui.pc = "free" /\ Running(w)
             /\ \A v \in Workers : v # w => ~Running(v) /\ ~Running(v)'
  <2>1. /\ Running(w) /\ \A v \in Workers : v # w => job'[v] = job[v]
        /\ UNCHANGED <<backups, settings, ui, before, crashes>>
    BY <1>1, WorkerStep
  <2>2. ui.pc = "free" /\ \A v \in Workers : v # w => ~Running(v)
    BY <2>1 DEF Exclusive
  <2>3. QED
    BY <2>1, <2>2
<1>2. ASSUME NEW w \in Workers, Import(w)
      PROVE  /\ ui.pc = "free"
             /\ UNCHANGED <<disk, backups, settings, ui, halted, owned, before, crashes>>
             /\ \A v \in Workers : ~Running(v)
             /\ \A v \in Workers : job'[v].pc \in {"off", "clear"}
  <2>1. job \in [Workers -> Jobs]
    BY TypeIsParts DEF TypeParts, ImportType, JobType
  <2>2. \A v \in Workers : ~Running(v)
    BY <1>2 DEF Import, Idle
  <2>3. job'[w].pc = "clear" /\ \A v \in Workers : v # w => job'[v] = job[v]
    BY <1>2, <2>1 DEF Import, NoJob
  <2>4. \A v \in Workers : job'[v].pc \in {"off", "clear"}
    BY <2>2, <2>3
  <2>5. QED
    BY <1>2, <2>2, <2>4 DEF Import, store
<1>3. ASSUME ResetOrRestore
      PROVE  (\A w \in Workers : ~Running(w)') /\ UNCHANGED <<job, crashes>>
  <2>1. UNCHANGED <<job, crashes>> /\ (~(Reset \/ Restore) => ui.pc \in Busy)
    BY <1>3, UiStep
  <2>2. \A w \in Workers : ~Running(w)
    <3>1. CASE Reset \/ Restore
      BY <3>1 DEF Reset, Restore, Idle
    <3>2. CASE ui.pc \in Busy
      BY <3>2 DEF Exclusive, Busy
    <3>3. QED
      BY <2>1, <3>1, <3>2
  <2>3. QED
    BY <2>1, <2>2
<1>4. ASSUME Crash PROVE \A w \in Workers : ~Running(w)'
  BY <1>4 DEF Crash, NoJob
<1>5. QED
  BY <1>1, <1>2, <1>3, <1>4 DEF Next

LEMMA InitStaging == Init => StagingInv
BY DEF Init, StagingInv, Staged, NoJob, Replacing

LEMMA NextStaging ==
    ASSUME Patient, "silent" \notin Faults
    PROVE  TypeInv /\ Exclusive /\ StagingInv /\ [Next]_vars => StagingInv'
<1> SUFFICES ASSUME TypeInv, Exclusive, StagingInv, [Next]_vars PROVE StagingInv'
  OBVIOUS
<1>0. \A v \in Workers : job'[v].pc \in {"off", "clear"} => Staged(v)'
  BY DEF Staged, Replacing
<1>1. ASSUME NEW w \in Workers, Worker(w), \A v \in Workers : v # w => ~Running(v)'
      PROVE  StagingInv'
  <2>1. Staged(w)'
    BY <1>1, ImportEffect
  <2>2. QED
    BY <1>0, <1>1, <2>1 DEF StagingInv, Running
<1>2. ASSUME UNCHANGED <<disk, job>> PROVE StagingInv'
  BY <1>2 DEF StagingInv, Staged, Whole, Configs
<1>3. CASE ChooseSource \/ RunIdle \/ UNCHANGED vars
  BY <1>2, <1>3 DEF ChooseSource, RunIdle, vars, store
<1>4. ASSUME \A v \in Workers : job'[v].pc \in {"off", "clear"} PROVE StagingInv'
  BY <1>0, <1>4 DEF StagingInv
<1>5. CASE \A w \in Workers : ~Running(w)'
  BY <1>4, <1>5 DEF Running
<1>6. QED
  BY <1>1, <1>3, <1>4, <1>5, OtherSteps

-----------------------------------------------------------------------------
(* The backups.                                                            *)

(* A complete backup is never changed again.                               *)
LEMMA CompleteStays ==
    ASSUME TypeInv, [Next]_vars
    PROVE  Complete \subseteq Complete' /\ \A i \in Complete : backups'[i] = backups[i]
<1>1. TypeParts /\ BackupType
  BY TypeIsParts DEF TypeParts
<1>2. CASE UNCHANGED backups
  BY <1>2 DEF Complete
<1>3. CASE Reset \/ Restore
  <2>1. backups' = NewBackup
    BY <1>3 DEF Reset, Restore
  <2>2. QED
    BY <1>1, <2>1, NewBackupKeeps, CompleteBackups
<1>4. CASE Backup
  <2>1. ui.pc = "backup"
    BY <1>4 DEF Backup
  <2>2. ASSUME NEW f \in Configs, backups' = [backups EXCEPT ![Len(backups)].files = @ \cup {f}]
        PROVE  Complete \subseteq Complete' /\ \A i \in Complete : backups'[i] = backups[i]
    <3>1. f \in Files
      BY <1>1, ListedType DEF TypeParts
    <3>2. QED
      BY <1>1, <2>1, <2>2, <3>1, CopyKeeps
  <2>3. CASE backups[Len(backups)].manifest = "empty"
             /\ backups' = [backups EXCEPT ![Len(backups)].manifest = "whole"]
    BY <1>1, <2>1, <2>3, SealKeeps
  <2>4. CASE backups' = SubSeq(backups, 1, Len(backups) - 1)
    BY <1>1, <2>1, <2>4, DropKeeps
  <2>5. CASE backups' = [backups EXCEPT ![Len(backups)].manifest = "empty"]
    BY <1>1, <2>1, <2>5, CreateKeeps
  <2>6. QED
    BY <1>4, <2>2, <2>3, <2>4, <2>5 DEF Backup
<1>5. ASSUME NEW w \in Workers, Import(w) PROVE UNCHANGED backups
  BY <1>5 DEF Import, store
<1>6. ASSUME NEW w \in Workers, Worker(w) PROVE UNCHANGED backups
  BY <1>6, WorkerStep
<1>7. QED
  BY <1>2, <1>3, <1>4, <1>5, <1>6
     DEF Next, ResetOrRestore, ChooseSource, RunIdle, ResetSettings, Wipe, CopyBack,
         FinishRestore, Crash, vars, store

LEMMA InitBackup == Init => BackupInv
BY DEF Init, BackupInv, Complete, Free

(* While nothing is going on in the GTK thread, only the backups matter.   *)
LEMMA FreeBackup ==
    ASSUME BackupInv, UNCHANGED <<backups, before>>, ui'.pc = "free",
           ui'.op = "restore" => UNCHANGED ui
    PROVE  BackupInv'
<1>1. Complete' = Complete /\ \A i : Saved(i)' = Saved(i)
  BY DEF Complete, Saved
<1>2. \A i \in Complete' : (\A j \in Complete' : j <= i) => before' = Saved(i)'
  BY <1>1 DEF BackupInv
<1>3. ui'.op = "restore" /\ ui'.from \in Complete' =>
          ui'.goal = [files |-> backups'[ui'.from].files, settings |-> backups'[ui'.from].settings]
  BY <1>1 DEF BackupInv, Saved
<1>4. QED
  BY <1>2, <1>3 DEF BackupInv, Saved

LEMMA NextBackup ==
    ASSUME Patient
    PROVE  TypeInv /\ Exclusive /\ BackupInv /\ [Next]_vars => BackupInv'
<1> SUFFICES ASSUME TypeInv, Exclusive, BackupInv, [Next]_vars PROVE BackupInv'
  OBVIOUS
<1> DEFINE n == Len(backups)
<1>0. /\ TypeParts /\ BackupType /\ ui \in UiState
      /\ Complete \subseteq 1..n /\ n \in Nat
      /\ \A i \in 1..n : backups[i] \in Backups
      /\ disk \in [Places -> Dir] /\ settings \in Settings
  BY TypeIsParts, CompleteBackups DEF TypeParts, BackupType, TypeInv, DiskType
<1>1. ASSUME NEW w \in Workers, Worker(w) \/ Import(w),
             UNCHANGED <<backups, settings, ui, before>>, ui.pc = "free"
      PROVE  BackupInv'
  BY <1>1, FreeBackup
<1>2. CASE ChooseSource \/ RunIdle
  BY <1>2, FreeBackup DEF ChooseSource, RunIdle
<1>3. CASE UNCHANGED vars
  BY <1>3 DEF vars, store, BackupInv, Complete, Saved, Configs
<1>4. CASE Crash
  <2>1. UNCHANGED <<backups, before>> /\ ui' = Free
    BY <1>4 DEF Crash, store
  <2>2. ui'.pc = "free" /\ ui'.op = "none"
    BY <2>1 DEF Free
  <2>3. QED
    BY <2>1, <2>2, FreeBackup
<1>5. CASE Reset \/ Restore
  <2>1. backups' = NewBackup /\ UNCHANGED <<disk, settings, before>>
    BY <1>5 DEF Reset, Restore
  <2>2. /\ Complete' = Complete /\ \A i \in 1..n : backups'[i] = backups[i]
        /\ backups'[Len(backups')] = [manifest |-> "none", files |-> {}, settings |-> settings]
    BY <1>0, <2>1, NewBackupKeeps
  <2>3. \A i \in Complete : Saved(i)' = Saved(i)
    BY <1>0, <2>2 DEF Saved
  <2>4. \A i \in Complete' : (\A j \in Complete' : j <= i) => before' = Saved(i)'
    BY <2>1, <2>2, <2>3 DEF BackupInv
  <2>5. /\ backups'[Len(backups')].files \subseteq Configs'
        /\ backups'[Len(backups')].manifest # "empty"
        /\ backups'[Len(backups')].settings = settings'
    BY <2>1, <2>2
  <2>6. ui'.pc = "backup"
    BY <1>0, <1>5, RequestType
  <2>7. ui'.op = "restore" /\ ui'.from \in Complete' =>
            ui'.goal = [files |-> backups'[ui'.from].files, settings |-> backups'[ui'.from].settings]
    <3>1. CASE Reset
      BY <3>1 DEF Reset, Free
    <3>2. CASE Restore
      <4>1. /\ LatestBackup \in Found /\ \A j \in Found : j <= LatestBackup
            /\ Complete \subseteq Found
        BY <1>0, <3>2, LatestIsLatest, CompleteBackups DEF Restore
      <4>2. LatestBackup \in Complete => before = Saved(LatestBackup)
        BY <4>1 DEF BackupInv
      <4>3. LatestBackup \in Complete => backups'[LatestBackup] = backups[LatestBackup]
        BY <1>0, <2>2
      <4>4. ui'.goal = before /\ ui'.from = LatestBackup
        BY <3>2 DEF Restore
      <4>5. QED
        BY <2>2, <4>2, <4>3, <4>4 DEF Saved
    <3>3. QED
      BY <1>5, <3>1, <3>2
  <2>8. QED
    BY <2>4, <2>5, <2>6, <2>7 DEF BackupInv, Saved
<1>6. CASE Backup
  <2>1. /\ ui.pc = "backup" /\ UNCHANGED <<disk, settings>>
        /\ backups[n].files \subseteq Configs /\ backups[n].settings = settings
        /\ n \in 1..n /\ n \notin Complete
    BY <1>0, <1>6, CompleteBackups DEF Backup, BackupInv
  <2>2. Configs' = Configs
    BY <2>1 DEF Configs
  <2>3. ASSUME Len(backups') = n, Complete' = Complete,
               \A i \in Complete : backups'[i] = backups[i],
               backups'[n].files \subseteq Configs,
               backups'[n].manifest = "empty" => Configs \subseteq backups'[n].files,
               backups'[n].settings = backups[n].settings,
               UNCHANGED <<ui, before>>
        PROVE  BackupInv'
    <3>1. \A i \in Complete : Saved(i)' = Saved(i)
      BY <2>3 DEF Saved
    <3>2. \A i \in Complete' : (\A j \in Complete' : j <= i) => before' = Saved(i)'
      BY <2>3, <3>1 DEF BackupInv
    <3>3. ui'.op = "restore" /\ ui'.from \in Complete' =>
              ui'.goal = [files |-> backups'[ui'.from].files, settings |-> backups'[ui'.from].settings]
      BY <2>3 DEF BackupInv, Saved
    <3>4. QED
      BY <2>1, <2>2, <2>3, <3>2, <3>3 DEF BackupInv, Saved
  <2>4. ASSUME NEW f \in Configs, backups' = [backups EXCEPT ![n].files = @ \cup {f}],
               UNCHANGED <<ui, before>>
        PROVE  BackupInv'
    <3>1. f \in Files
      BY <1>0, ListedType DEF TypeParts
    <3>2. /\ Len(backups') = n /\ Complete' = Complete
          /\ \A i \in Complete : backups'[i] = backups[i]
          /\ backups'[n].files = backups[n].files \cup {f}
          /\ backups'[n].settings = backups[n].settings
          /\ backups'[n].manifest = backups[n].manifest
      BY <1>0, <2>1, <2>4, <3>1, CopyKeeps
    <3>3. backups'[n].manifest = "empty" => Configs \subseteq backups'[n].files
      BY <2>1, <3>2 DEF BackupInv
    <3>4. QED
      BY <2>1, <2>3, <2>4, <3>2, <3>3
  <2>5. ASSUME Configs \subseteq backups[n].files, UNCHANGED <<ui, before>>,
               backups' = [backups EXCEPT ![n].manifest = "empty"]
        PROVE  BackupInv'
    <3>1. /\ Len(backups') = n /\ Complete' = Complete
          /\ \A i \in Complete : backups'[i] = backups[i]
          /\ backups'[n].files = backups[n].files
          /\ backups'[n].settings = backups[n].settings
      BY <1>0, <2>1, <2>5, CreateKeeps
    <3>2. QED
      BY <2>1, <2>3, <2>5, <3>1
  <2>6. ASSUME backups[n].manifest = "empty", before' = Current, ui' = AfterBackup,
               backups' = [backups EXCEPT ![n].manifest = "whole"]
        PROVE  BackupInv'
    <3>1. /\ Len(backups') = n /\ Complete' = Complete \cup {n}
          /\ \A i \in Complete : backups'[i] = backups[i]
          /\ backups'[n].files = backups[n].files
          /\ backups'[n].settings = backups[n].settings
          /\ \A i \in Complete : i <= n
      BY <1>0, <2>1, <2>6, SealKeeps
    <3>2. backups[n].files = Configs
      BY <2>1, <2>6 DEF BackupInv
    <3>3. before' = [files |-> backups'[n].files, settings |-> backups'[n].settings]
      BY <2>1, <2>6, <3>1, <3>2 DEF Current, Configs
    <3>4. ASSUME NEW i \in Complete', \A j \in Complete' : j <= i PROVE i = n
      <4>1. i \in 1..n /\ i <= n
        <5>1. i \in Complete \/ i = n
          BY <3>1
        <5>2. \A j \in 1..n : j \in Nat /\ j <= n
          BY <1>0
        <5>3. QED
          BY <1>0, <2>1, <5>1, <5>2
      <4>2. n <= i
        BY <3>1, <3>4
      <4>3. QED
        BY <1>0, <4>1, <4>2
    <3>5. \A i \in Complete' : (\A j \in Complete' : j <= i) => before' = Saved(i)'
      BY <3>3, <3>4 DEF Saved
    <3>6. \/ ui'.pc = "free" /\ ui'.op = "none"
          \/ ui'.pc = "settings" /\ ui'.op = "reset"
          \/ /\ ui'.pc = "wipe" /\ ui.op = "restore" /\ ui'.goal = ui.goal
             /\ ui'.from = ui.from /\ ui.from \in Complete
      <4>1. ui.op \in {"reset", "restore"}
        BY <1>0, <2>1 DEF BackupType, RestoreFrom, UiState
      <4>2. QED
        BY <1>0, <2>6, <4>1 DEF AfterBackup, UiState, Free
    <3>7. ui'.op = "restore" /\ ui'.from \in Complete' =>
              ui'.goal = [files |-> backups'[ui'.from].files, settings |-> backups'[ui'.from].settings]
      BY <3>1, <3>6 DEF BackupInv, Saved
    <3>8. ui'.pc \notin {"backup", "copyBack", "setAll"} /\ (ui'.pc = "settings" => ui'.op # "restore")
      BY <3>6
    <3>9. QED
      BY <3>5, <3>7, <3>8 DEF BackupInv, Saved
  <2>7. CASE backups' = SubSeq(backups, 1, n - 1) /\ ui' = Free /\ UNCHANGED before
    <3>1. Complete' = Complete /\ \A i \in Complete : backups'[i] = backups[i]
      BY <1>0, <2>1, <2>7, DropKeeps
    <3>2. \A i \in Complete' : (\A j \in Complete' : j <= i) => before' = Saved(i)'
      <4>1. \A i \in Complete : Saved(i)' = Saved(i)
        BY <3>1 DEF Saved
      <4>2. QED
        BY <2>7, <3>1, <4>1 DEF BackupInv
    <3>3. ui'.pc = "free" /\ ui'.op = "none"
      BY <2>7 DEF Free
    <3>4. QED
      BY <3>2, <3>3 DEF BackupInv
  <2>8. QED
    BY <1>6, <2>4, <2>5, <2>6, <2>7 DEF Backup
<1>7. CASE ResetSettings \/ Wipe \/ CopyBack \/ FinishRestore
  <2>1. UNCHANGED <<backups, before>> /\ ui'.pc # "backup"
    BY <1>0, <1>7, ResettingType
  <2>2. /\ Complete' = Complete
        /\ \A i \in Complete' : (\A j \in Complete' : j <= i) => before' = Saved(i)'
    BY <2>1 DEF BackupInv, Complete, Saved
  <2>3. ASSUME ui' = Free PROVE BackupInv'
    <3>1. ui'.pc = "free" /\ ui'.op = "none"
      BY <2>3 DEF Free
    <3>2. QED
      BY <2>1, <3>1, FreeBackup
  <2>4. ASSUME NEW pc \in Busy, ui' = [ui EXCEPT !.pc = pc],
               ui.op = "restore" /\ pc = "copyBack" => Configs' \subseteq backups[ui.from].files,
               ui.op = "restore" /\ pc \in {"settings", "setAll"} => Configs' = backups[ui.from].files,
               pc = "copyBack" => ui.op = "restore"
        PROVE  BackupInv'
    <3>1. ui'.pc = pc /\ ui'.op = ui.op /\ ui'.from = ui.from /\ ui'.goal = ui.goal
      BY <1>0, <2>4 DEF UiState
    <3>2. ui'.op = "restore" /\ ui'.from \in Complete' =>
              ui'.goal = [files |-> backups'[ui'.from].files, settings |-> backups'[ui'.from].settings]
      BY <2>1, <2>2, <3>1 DEF BackupInv, Saved
    <3>3. ui'.pc = "copyBack" => Configs' \subseteq backups'[ui'.from].files
      BY <2>1, <2>4, <3>1
    <3>4. ui'.pc \in {"settings", "setAll"} /\ ui'.op = "restore" => Configs' = backups'[ui'.from].files
      BY <2>1, <2>4, <3>1
    <3>5. QED
      BY <2>1, <2>2, <3>2, <3>3, <3>4 DEF BackupInv, Saved
  <2>5. CASE ResetSettings
    <3>1. ui.pc = "settings" /\ Configs' = Configs
          /\ ui' = [ui EXCEPT !.pc = IF ui.op = "reset" THEN "wipe" ELSE "setAll"]
      BY <2>5 DEF ResetSettings, Configs
    <3>2. ui.op = "restore" => Configs' = backups[ui.from].files
      BY <3>1 DEF BackupInv
    <3>3. QED
      BY <2>4, <3>1, <3>2 DEF Busy
  <2>6. CASE Wipe
    <3>1. ui.pc = "wipe" /\ (ui.op # "reset" => ui.op = "restore")
      BY <1>0, <2>6 DEF Wipe, BackupType, RestoreFrom, UiState
    <3>2. CASE UNCHANGED ui
      <4>1. ui' = [ui EXCEPT !.pc = "wipe"]
        BY <1>0, <3>1, <3>2 DEF UiState
      <4>2. QED
        BY <2>4, <4>1 DEF Busy
    <3>3. CASE disk' = [disk EXCEPT !["configs"] = [there |-> TRUE, files |-> {}]]
               /\ ui.op # "reset" /\ ui' = [ui EXCEPT !.pc = "copyBack"]
      <4>1. Configs' = {}
        BY <1>0, <3>3 DEF Configs, Places
      <4>2. QED
        BY <2>4, <3>1, <3>3, <4>1 DEF Busy
    <3>4. QED
      BY <2>3, <2>6, <3>2, <3>3 DEF Wipe
  <2>7. CASE CopyBack
    <3>1. ui.pc = "copyBack" /\ Configs \subseteq backups[ui.from].files /\ ui.op = "restore"
      BY <1>0, <2>7 DEF CopyBack, BackupInv, BackupType, RestoreFrom
    <3>2. ASSUME NEW f \in backups[ui.from].files \ Configs, UNCHANGED ui,
                 disk' = [disk EXCEPT !["configs"] = [there |-> TRUE, files |-> @.files \cup {f}]]
          PROVE  BackupInv'
      <4>1. Configs' = Configs \cup {f}
        BY <1>0, <3>2 DEF Configs, Places
      <4>2. ui' = [ui EXCEPT !.pc = "copyBack"]
        BY <1>0, <3>1, <3>2 DEF UiState
      <4>3. Configs' \subseteq backups[ui.from].files
        BY <3>1, <3>2, <4>1
      <4>4. QED
        BY <2>4, <3>1, <4>2, <4>3 DEF Busy
    <3>3. CASE backups[ui.from].files \ Configs = {} /\ UNCHANGED disk
               /\ ui' = [ui EXCEPT !.pc = "settings"]
      <4>1. Configs' = backups[ui.from].files
        BY <3>1, <3>3 DEF Configs
      <4>2. QED
        BY <2>4, <3>3, <4>1 DEF Busy
    <3>4. QED
      BY <2>3, <2>7, <3>2, <3>3 DEF CopyBack
  <2>8. CASE FinishRestore
    BY <2>3, <2>8 DEF FinishRestore
  <2>9. QED
    BY <1>7, <2>5, <2>6, <2>7, <2>8
<1>8. QED
  BY <1>1, <1>2, <1>3, <1>4, <1>5, <1>6, <1>7, OtherSteps DEF ResetOrRestore

(* A restore gives back the files and the settings as they were when the   *)
(* latest complete backup was made, although it makes a backup of its own  *)
(* before it touches anything, however many backups there are and however  *)
(* the program was killed before (settings_window.py, _apply_restore;      *)
(* reset_backup.py).                                                       *)
THEOREM RestoreReturnsBackup ==
    ASSUME Patient
    PROVE  Spec => RestoreGivesBack
<1> DEFINE Inv == TypeInv /\ Exclusive /\ BackupInv
<1>1. ASSUME Inv, [Next]_vars, ui.pc = "setAll", ui'.pc = "free", crashes' = crashes
      PROVE  Current' = ui.goal
  <2>1. FinishRestore
    <3>1. ~Crash
      BY <1>1 DEF Crash, TypeInv, TypeOK
    <3>2. \A w \in Workers : ~Import(w) /\ ~Worker(w)
      BY <1>1, OtherSteps, WorkerStep DEF Import
    <3>3. ~ResetSettings /\ ~Wipe /\ ~CopyBack /\ ~Backup /\ ~Reset /\ ~Restore
      BY <1>1 DEF ResetSettings, Wipe, CopyBack, Backup, Reset, Restore
    <3>4. ~ChooseSource /\ ~RunIdle /\ ~UNCHANGED vars
      BY <1>1 DEF ChooseSource, RunIdle, vars
    <3>5. QED
      BY <1>1, <3>1, <3>2, <3>3, <3>4 DEF Next, ResetOrRestore
  <2>2. /\ ui.op = "restore" /\ Configs = backups[ui.from].files
        /\ ui.from \in Complete /\ ui.goal = Saved(ui.from)
    BY <1>1 DEF TypeInv, RestoreFrom, BackupInv
  <2>3. disk' = disk /\ settings' = backups[ui.from].settings
    BY <2>1 DEF FinishRestore
  <2>4. QED
    BY <2>2, <2>3 DEF Current, Saved, Configs
<1>2. Init => Inv
  BY InitType, InitExclusive, InitBackup
<1>3. Inv /\ [Next]_vars => Inv'
  BY NextType, NextExclusive, NextBackup
<1>4. Inv /\ [Next]_vars =>
        [ui.pc = "setAll" /\ ui'.pc = "free" /\ crashes' = crashes => Current' = ui.goal]_vars
  BY <1>1
<1>5. QED
  BY <1>2, <1>3, <1>4, PTL DEF Spec, RestoreGivesBack

-----------------------------------------------------------------------------
(* What is in place.                                                       *)

LEMMA BackedUpStays ==
    ASSUME TypeInv, [Next]_vars, BackedUp, Configs' \subseteq Configs
    PROVE  BackedUp'
<1>1. PICK i \in Complete : Configs \subseteq backups[i].files
  BY DEF BackedUp
<1>2. i \in Complete' /\ Configs' \subseteq backups'[i].files
  BY <1>1, CompleteStays
<1>3. QED
  BY <1>2 DEF BackedUp

LEMMA InitPlace == Init => PlaceInv
BY DEF Init, PlaceInv, Settled, Configs, Missing, Free, Emptied

(* A crash leaves what InPlace allows, and what was cut short on record.   *)
LEMMA CrashPlace ==
    ASSUME TypeInv, StagingInv, PlaceInv, [Next]_vars, Crash
    PROVE  Settled'
<1>1. /\ UNCHANGED <<disk, backups, owned>>
      /\ halted' = IF Wiping THEN "killed"
                   ELSE IF Swapping THEN "swap"
                   ELSE IF halted = "failed" THEN "killed"
                   ELSE halted
  BY DEF Crash, store
<1>2. Configs' = Configs /\ disk'["configs"] = disk["configs"]
  BY <1>1 DEF Configs
<1>3. BackedUp => BackedUp'
  BY <1>2, BackedUpStays
<1>4. CASE Wiping
  <2>1. ui.pc \in Emptied
    BY <1>4 DEF Wiping, Emptied
  <2>2. QED
    BY <1>1, <1>3, <1>4, <2>1 DEF PlaceInv, Settled
<1>5. CASE ~Wiping /\ Swapping
  BY <1>1, <1>2, <1>5 DEF Settled, Swapping
<1>6. CASE ~Wiping /\ ~Swapping
  <2>1. ui.op \in {"none", "reset", "restore"} /\ (ui.pc # "free" => ui.op # "none")
        /\ ui.pc \in {"free"} \cup Busy /\ (ui.pc = "setAll" => ui.op = "restore")
    BY DEF TypeInv, UiState, RestoreFrom
  <2>2. Untouched
    BY <1>6, <2>1 DEF Wiping, Untouched, Busy
  <2>3. ~Moving
    BY <1>6 DEF StagingInv, Staged, Moving, Swapping
  <2>4. Settled
    BY <2>2, <2>3 DEF PlaceInv
  <2>5. halted' = IF halted = "failed" THEN "killed" ELSE halted
    BY <1>1, <1>6
  <2>6. QED
    BY <1>1, <1>2, <1>3, <2>4, <2>5 DEF Settled
<1>7. QED
  BY <1>4, <1>5, <1>6

LEMMA NextPlace ==
    ASSUME Patient, "silent" \notin Faults
    PROVE  TypeInv /\ Exclusive /\ StagingInv /\ BackupInv /\ PlaceInv /\ [Next]_vars => PlaceInv'
<1> SUFFICES ASSUME TypeInv, Exclusive, StagingInv, BackupInv, PlaceInv, [Next]_vars
             PROVE  PlaceInv'
  OBVIOUS
<1>0. ui \in UiState /\ disk \in [Places -> Dir] /\ RestoreFrom
  BY DEF TypeInv, DiskType
<1>1. BackedUp /\ Configs' \subseteq Configs => BackedUp'
  BY BackedUpStays
<1>2. Settled /\ UNCHANGED <<owned, halted>> /\ disk'["configs"] = disk["configs"] => Settled'
  BY <1>1 DEF Settled, Configs
<1>3. ASSUME disk'["configs"] = disk["configs"], UNCHANGED <<ui, owned, halted>>, Moving => Moving'
      PROVE  PlaceInv'
  BY <1>1, <1>2, <1>3 DEF PlaceInv, Untouched, Configs
<1>4. ASSUME NEW w \in Workers, Worker(w), UNCHANGED ui, ui.pc = "free",
             \A v \in Workers : v # w => ~Running(v) /\ ~Running(v)'
      PROVE  PlaceInv'
  <2>1. /\ Moving <=> job[w].pc = "moveIn"
        /\ Moving' <=> job'[w].pc = "moveIn"
    BY <1>4 DEF Moving, Running
  <2>2. CASE StagingStep(w)
    BY <1>3, <1>4, <2>1, <2>2 DEF StagingStep, Replacing
  <2>3. CASE DropStep(w)
    BY <1>3, <1>4, <2>1, <2>3 DEF DropStep
  <2>4. CASE OutStep(w)
    BY <1>4, <2>1, <2>4 DEF OutStep, PlaceInv, Emptied
  <2>5. CASE InStep(w)
    BY <1>4, <2>5 DEF InStep, PlaceInv, Settled, Emptied
  <2>6. CASE TidyStep(w)
    BY <1>3, <1>4, <2>1, <2>6 DEF TidyStep
  <2>7. QED
    BY <1>4, <2>2, <2>3, <2>4, <2>5, <2>6, ImportEffect
<1>5. CASE ChooseSource \/ RunIdle \/ UNCHANGED vars
  BY <1>3, <1>5 DEF ChooseSource, RunIdle, vars, store, Moving
<1>6. ASSUME \A v \in Workers : ~Running(v),
             UNCHANGED <<disk, ui, halted, owned>>
      PROVE  PlaceInv'
  BY <1>3, <1>6 DEF Moving, Running
<1>7. CASE Crash
  <2>1. ui'.pc = "free"
    BY <1>7 DEF Crash, Free
  <2>2. QED
    BY <1>7, <2>1, CrashPlace DEF PlaceInv, Emptied
<1>8. ASSUME ResetOrRestore, UNCHANGED job
      PROVE  PlaceInv'
  <2>1. ~Moving
    <3>1. CASE Reset \/ Restore
      BY <3>1 DEF Reset, Restore, Idle, Moving
    <3>2. CASE ui.pc \in Busy
      BY <3>2 DEF Exclusive, Busy, Moving, Running
    <3>3. QED
      BY <1>8, <3>1, <3>2, UiStep
  <2>2. \A pc : [ui EXCEPT !.pc = pc].pc = pc /\ [ui EXCEPT !.pc = pc].op = ui.op
    BY <1>0 DEF UiState
  <2>3. Free.pc = "free"
    BY DEF Free
  <2>4. CASE Reset \/ Restore
    <3>1. ui.pc = "free" /\ UNCHANGED <<disk, halted, owned>>
      BY <2>4 DEF Reset, Restore
    <3>2. ui'.pc = "backup"
      BY <2>4, RequestType, TypeIsParts
    <3>3. Settled'
      BY <1>2, <2>1, <3>1 DEF PlaceInv, Untouched
    <3>4. QED
      BY <3>2, <3>3 DEF PlaceInv, Emptied
  <2>5. CASE Backup
    <3>1. ui.pc = "backup" /\ UNCHANGED <<disk, halted, owned>>
      BY <2>5 DEF Backup
    <3>2. Settled'
      BY <1>2, <2>1, <3>1 DEF PlaceInv, Untouched
    <3>3. CASE UNCHANGED ui \/ ui' = Free
      BY <2>3, <3>1, <3>2, <3>3 DEF PlaceInv, Emptied
    <3>4. CASE /\ backups[Len(backups)].manifest = "empty"
               /\ backups' = [backups EXCEPT ![Len(backups)].manifest = "whole"]
      <4>1. /\ Complete' = Complete \cup {Len(backups)}
            /\ backups'[Len(backups)].files = backups[Len(backups)].files
        BY <3>1, <3>4, SealKeeps, TypeIsParts DEF TypeParts
      <4>2. Configs' \subseteq backups'[Len(backups)].files
        BY <3>1, <3>4, <4>1 DEF BackupInv, Configs
      <4>3. BackedUp'
        BY <4>1, <4>2 DEF BackedUp
      <4>4. QED
        BY <3>2, <4>3 DEF PlaceInv
    <3>5. QED
      BY <2>5, <3>3, <3>4 DEF Backup
  <2>6. CASE ResetSettings
    <3>1. ui.pc = "settings" /\ UNCHANGED disk
      BY <2>6 DEF ResetSettings
    <3>2. ui'.pc \in {"wipe", "setAll"}
      BY <2>2, <2>6 DEF ResetSettings
    <3>3. BackedUp'
      BY <1>1, <3>1 DEF PlaceInv, Emptied, Configs
    <3>4. QED
      BY <3>2, <3>3 DEF PlaceInv, Untouched
  <2>7. CASE Wipe
    <3>1. Configs' \subseteq Configs /\ (Configs = {} => Configs' = {})
      <4>1. ASSUME NEW f, disk' = [disk EXCEPT !["configs"].files = @ \ {f}]
            PROVE  Configs' = Configs \ {f}
        BY <1>0, <4>1 DEF Configs, Places
      <4>2. ASSUME disk' = [disk EXCEPT !["configs"] = [there |-> TRUE, files |-> {}]]
            PROVE  Configs' = {}
        BY <1>0, <4>2 DEF Configs, Places
      <4>3. QED
        BY <2>7, <4>1, <4>2 DEF Wipe
    <3>2. BackedUp' /\ ui.pc = "wipe"
      BY <1>1, <2>7, <3>1 DEF Wipe, PlaceInv, Emptied
    <3>3. CASE UNCHANGED ui
      BY <3>2, <3>3 DEF PlaceInv, Untouched
    <3>4. CASE ui' = [ui EXCEPT !.pc = "copyBack"]
      <4>1. ui'.pc = "copyBack"
        BY <2>2, <3>4
      <4>2. QED
        BY <3>2, <4>1 DEF PlaceInv, Untouched
    <3>5. CASE Configs = {} /\ owned' = {}
      BY <3>1, <3>2, <3>5 DEF PlaceInv, Settled
    <3>6. QED
      BY <2>7, <3>3, <3>4, <3>5 DEF Wipe
  <2>8. CASE CopyBack
    <3>1. /\ ui.pc = "copyBack" /\ ui.op = "restore" /\ ui.from \in Complete
          /\ Configs \subseteq backups[ui.from].files /\ UNCHANGED backups
      BY <1>0, <2>8 DEF CopyBack, RestoreFrom, BackupInv
    <3>2. Configs' \subseteq backups[ui.from].files
      <4>1. ASSUME NEW f \in backups[ui.from].files,
                   disk' = [disk EXCEPT !["configs"] = [there |-> TRUE, files |-> @.files \cup {f}]]
            PROVE  Configs' \subseteq backups[ui.from].files
        <5>1. Configs' = Configs \cup {f}
          BY <1>0, <4>1 DEF Configs, Places
        <5>2. QED
          BY <3>1, <5>1
      <4>2. CASE UNCHANGED disk
        BY <3>1, <4>2 DEF Configs
      <4>3. QED
        BY <2>8, <4>1, <4>2 DEF CopyBack
    <3>3. BackedUp'
      BY <3>1, <3>2 DEF BackedUp, Complete
    <3>4. CASE UNCHANGED ui
      BY <3>1, <3>3, <3>4 DEF PlaceInv, Untouched
    <3>5. CASE ui' = [ui EXCEPT !.pc = "settings"]
      <4>1. ui'.pc = "settings" /\ ui'.op = "restore"
        BY <2>2, <3>1, <3>5
      <4>2. QED
        BY <3>3, <4>1 DEF PlaceInv, Untouched
    <3>6. CASE ui' = Free /\ halted' = "failed"
      BY <2>3, <3>3, <3>6 DEF PlaceInv, Settled
    <3>7. QED
      BY <2>8, <3>4, <3>5, <3>6 DEF CopyBack
  <2>9. CASE FinishRestore
    <3>1. ui' = Free /\ owned' = Configs' /\ UNCHANGED disk
      BY <2>9 DEF FinishRestore, Configs
    <3>2. QED
      BY <2>3, <3>1 DEF PlaceInv, Settled, Emptied
  <2>10. QED
    BY <1>8, <2>4, <2>5, <2>6, <2>7, <2>8, <2>9 DEF ResetOrRestore
<1>9. QED
  BY <1>4, <1>5, <1>6, <1>7, <1>8, OtherSteps

(* All or nothing, but for what was cut short: whatever was imported, reset*)
(* or restored, whatever failed on the way and however often the program   *)
(* was killed, what is in place at rest is the last set of files that was  *)
(* put there whole; or nothing at all, where an import was killed between  *)
(* its two renames (eovpn_base.py, validate_and_load); or a part of what a *)
(* complete backup holds, where a wiping or a copying back was killed or   *)
(* failed (settings_window.py, _apply_reset, _apply_restore).  The         *)
(* hypotheses are the two ways in which the code breaks it: an operation   *)
(* started during another one, and a source read in part without an error. *)
THEOREM AllOrNothing ==
    ASSUME Patient, "silent" \notin Faults
    PROVE  Spec => []InPlace
<1> DEFINE Inv == TypeInv /\ Exclusive /\ StagingInv /\ BackupInv /\ PlaceInv
<1>1. Inv => InPlace
  BY DEF PlaceInv, Settled, BackedUp, Untouched, InPlace, Idle, Moving
<1>2. Init => Inv
  BY InitType, InitExclusive, InitStaging, InitBackup, InitPlace
<1>3. Inv /\ [Next]_vars => Inv'
  BY NextType, NextExclusive, NextStaging, NextBackup, NextPlace
<1>4. QED
  BY <1>1, <1>2, <1>3, PTL DEF Spec

-----------------------------------------------------------------------------
(* What the user owns.                                                     *)

LEMMA InBackupStays ==
    ASSUME TypeInv, [Next]_vars, UNCHANGED owned, InBackup
    PROVE  InBackup'
<1>1. PICK i \in Complete : backups[i].files = owned
  BY DEF InBackup
<1>2. i \in Complete' /\ backups'[i].files = owned'
  BY <1>1, CompleteStays
<1>3. QED
  BY <1>2 DEF InBackup

LEMMA InitKept == Init => KeptInv
BY DEF Init, KeptInv, Moving, NoJob, Free, Emptied

LEMMA NextKept ==
    ASSUME Patient, "silent" \notin Faults, MaxCrashes <= 1
    PROVE  TypeInv /\ Exclusive /\ StagingInv /\ BackupInv /\ KeptInv /\ [Next]_vars => KeptInv'
<1> SUFFICES ASSUME TypeInv, Exclusive, StagingInv, BackupInv, KeptInv, [Next]_vars PROVE KeptInv'
  OBVIOUS
<1> USE DEF Running
<1> DEFINE old == disk["old"].files
           NoSwap == \A v \in Workers : job[v].pc \notin Replacing
<1>0. ui \in UiState /\ disk \in [Places -> Dir]
  BY DEF TypeInv, DiskType
(* Nothing moves: the backups may only grow.                               *)
<1>1. ASSUME UNCHANGED <<disk, owned, job, crashes>>,
             ui'.pc \in {"free", "backup"}, ui.pc \in {"free", "backup"}
      PROVE  KeptInv'
  <2>1. InBackup => InBackup'
    BY <1>1, InBackupStays
  <2>2. Moving' = Moving /\ Configs' = Configs
    BY <1>1 DEF Moving, Configs
  <2>3. ui'.pc \notin Emptied
    BY <1>1 DEF Emptied
  <2>4. NoSwap' => owned' \in {{}, Configs', old'} \/ InBackup'
    BY <1>1, <2>1, <2>2 DEF KeptInv
  <2>5. \A w \in Workers : job'[w].pc = "tidy" => Configs' = owned'
    BY <1>1, <2>2 DEF KeptInv
  <2>6. crashes' = 0 =>
          \/ owned' = {} \/ InBackup'
          \/ ui'.pc \in {"free", "backup"} /\ owned' = IF Moving' THEN old' ELSE Configs'
    BY <1>1, <2>1, <2>2 DEF KeptInv
  <2>7. QED
    BY <2>3, <2>4, <2>5, <2>6 DEF KeptInv
<1>2. CASE ChooseSource
  <2>1. UNCHANGED <<disk, owned, job, crashes, ui>> /\ ui.pc = "free"
    BY <1>2 DEF ChooseSource
  <2>2. QED
    BY <1>1, <2>1
<1>3. CASE RunIdle
  <2>1. UNCHANGED <<disk, owned, job, crashes, ui>> /\ ui.pc = "free"
    BY <1>3 DEF RunIdle
  <2>2. QED
    BY <1>1, <2>1
<1>4. CASE UNCHANGED vars
  <2>1. UNCHANGED <<disk, backups, owned, job, crashes, ui>>
    BY <1>4 DEF vars, store
  <2>2. QED
    BY <2>1 DEF KeptInv, InBackup, Complete, Moving, Configs
<1>5. ASSUME NEW w \in Workers, Import(w), ui.pc = "free",
             UNCHANGED <<disk, backups, ui, owned, crashes>>,
             \A v \in Workers : ~Running(v),
             \A v \in Workers : job'[v].pc \in {"off", "clear"}
      PROVE  KeptInv'
  <2>1. NoSwap /\ ~Moving /\ ~Moving' /\ \A v \in Workers : job'[v].pc # "tidy"
    BY <1>5 DEF Replacing, Moving
  <2>2. (InBackup' <=> InBackup) /\ Configs' = Configs /\ ui'.pc \notin Emptied
    BY <1>5 DEF InBackup, Complete, Configs, Emptied
  <2>3. owned' \in {{}, Configs', old'} \/ InBackup'
    BY <1>5, <2>1, <2>2 DEF KeptInv
  <2>4. crashes' = 0 =>
          \/ owned' = {} \/ InBackup'
          \/ ui'.pc \in {"free", "backup"} /\ owned' = IF Moving' THEN old' ELSE Configs'
    BY <1>5, <2>1, <2>2 DEF KeptInv
  <2>5. QED
    BY <2>1, <2>2, <2>3, <2>4 DEF KeptInv
<1>6. ASSUME NEW w \in Workers, Worker(w), UNCHANGED <<backups, ui, crashes>>, ui.pc = "free",
             \A v \in Workers : v # w => ~Running(v) /\ ~Running(v)'
      PROVE  KeptInv'
  <2>1. /\ Moving <=> job[w].pc = "moveIn"
        /\ Moving' <=> job'[w].pc = "moveIn"
        /\ NoSwap <=> job[w].pc \notin Replacing
        /\ NoSwap' <=> job'[w].pc \notin Replacing
        /\ \A v \in Workers : job'[v].pc = "tidy" => v = w
    BY <1>6 DEF Moving, Replacing
  <2>2. UNCHANGED owned => (InBackup => InBackup')
    BY InBackupStays
  <2>3. ui'.pc = "free" /\ ui'.pc \notin Emptied
    BY <1>6 DEF Emptied
  <2>4. CASE StagingStep(w)
    <3>1. NoSwap /\ ~Moving /\ ~Moving' /\ job'[w].pc # "tidy" /\ UNCHANGED owned
          /\ Configs' = Configs /\ old' = old
      BY <2>1, <2>4 DEF StagingStep, Replacing, Configs
    <3>2. owned' \in {{}, Configs', old'} \/ InBackup'
      BY <2>2, <3>1 DEF KeptInv
    <3>3. crashes' = 0 => owned' = {} \/ InBackup' \/ owned' = Configs'
      BY <1>6, <2>2, <3>1 DEF KeptInv
    <3>4. QED
      BY <2>1, <2>3, <3>1, <3>2, <3>3 DEF KeptInv
  <2>5. CASE DropStep(w)
    <3>1. ~NoSwap' /\ ~Moving /\ ~Moving' /\ job'[w].pc # "tidy" /\ UNCHANGED owned
          /\ Configs' = Configs
      BY <2>1, <2>5 DEF DropStep, Replacing, Configs
    <3>2. crashes' = 0 => owned' = {} \/ InBackup' \/ owned' = Configs'
      BY <1>6, <2>2, <3>1 DEF KeptInv
    <3>3. QED
      BY <2>1, <2>3, <3>1, <3>2 DEF KeptInv
  <2>6. CASE OutStep(w)
    <3>1. ~NoSwap' /\ ~Moving /\ Moving' /\ job'[w].pc # "tidy" /\ UNCHANGED owned
          /\ old' = Configs
      BY <2>1, <2>6 DEF OutStep, Replacing
    <3>2. crashes' = 0 => owned' = {} \/ InBackup' \/ owned' = old'
      BY <1>6, <2>2, <3>1 DEF KeptInv
    <3>3. QED
      BY <2>1, <2>3, <3>1, <3>2 DEF KeptInv
  <2>7. CASE InStep(w)
    <3>1. owned' = Configs' /\ ~Moving'
      BY <2>1, <2>7 DEF InStep
    <3>2. QED
      BY <2>1, <2>3, <3>1 DEF KeptInv
  <2>8. CASE TidyStep(w)
    <3>1. owned = Configs /\ UNCHANGED owned /\ Configs' = Configs /\ ~Moving'
      BY <2>1, <2>8 DEF TidyStep, KeptInv, Configs
    <3>2. owned' = Configs'
      BY <3>1
    <3>3. QED
      BY <2>1, <2>3, <3>1, <3>2 DEF KeptInv
  <2>9. QED
    BY <1>6, <2>4, <2>5, <2>6, <2>7, <2>8, ImportEffect
<1>7. CASE Crash
  <2>1. crashes \in Nat /\ crashes < MaxCrashes /\ crashes' = crashes + 1 /\ MaxCrashes \in Nat
    BY <1>7, StoreAssumption DEF Crash, TypeInv, TypeOK
  <2>2. crashes = 0 /\ crashes' # 0
    BY <2>1
  <2>3. UNCHANGED <<disk, backups, owned>> /\ ui'.pc = "free"
        /\ \A w \in Workers : job'[w].pc = "off"
    BY <1>7 DEF Crash, store, Free, NoJob
  <2>4. (InBackup' <=> InBackup) /\ Configs' = Configs /\ old' = old
    BY <2>3 DEF InBackup, Complete, Configs
  <2>5. owned' \in {{}, Configs', old'} \/ InBackup'
    BY <2>2, <2>3, <2>4 DEF KeptInv
  <2>6. QED
    BY <2>2, <2>3, <2>5 DEF KeptInv, Emptied
<1>8. ASSUME ResetOrRestore, \A w \in Workers : ~Running(w)', UNCHANGED <<job, crashes>>
      PROVE  KeptInv'
  <2>1. /\ \A w \in Workers : job'[w].pc = "off" /\ job[w].pc = "off"
        /\ ~Moving /\ ~Moving' /\ NoSwap
    BY <1>8 DEF Moving, Replacing
  <2>2. UNCHANGED owned => (InBackup => InBackup')
    BY InBackupStays
  <2>3. CASE Reset \/ Restore
    <3>1. UNCHANGED <<disk, owned>> /\ ui.pc = "free"
      BY <2>3 DEF Reset, Restore
    <3>2. ui'.pc = "backup"
      BY <2>3, RequestType, TypeIsParts
    <3>3. QED
      BY <1>1, <1>8, <3>1, <3>2
  <2>4. CASE Backup
    <3>1. UNCHANGED <<disk, owned>> /\ ui.pc = "backup"
      BY <2>4 DEF Backup
    <3>2. CASE UNCHANGED ui \/ ui' = Free
      <4>1. ui'.pc \in {"free", "backup"}
        BY <3>1, <3>2 DEF Free
      <4>2. QED
        BY <1>1, <1>8, <3>1, <4>1
    <3>3. CASE /\ backups[Len(backups)].manifest = "empty"
               /\ backups' = [backups EXCEPT ![Len(backups)].manifest = "whole"]
      <4>1. /\ Complete' = Complete \cup {Len(backups)}
            /\ backups'[Len(backups)].files = backups[Len(backups)].files
        BY <3>1, <3>3, SealKeeps, TypeIsParts DEF TypeParts
      <4>2. backups'[Len(backups)].files = Configs
        BY <3>1, <3>3, <4>1 DEF BackupInv
      <4>3. owned = Configs => InBackup'
        BY <3>1, <4>1, <4>2 DEF InBackup
      <4>4. old' = old
        BY <3>1
      <4>5. owned' \in {{}, old'} \/ InBackup'
        BY <2>1, <2>2, <3>1, <4>3, <4>4 DEF KeptInv
      <4>6. crashes' = 0 => owned' = {} \/ InBackup'
        BY <1>8, <2>1, <2>2, <3>1, <4>3 DEF KeptInv
      <4>7. QED
        BY <2>1, <4>5, <4>6 DEF KeptInv
    <3>4. QED
      BY <2>4, <3>2, <3>3 DEF Backup
  <2>5. CASE ResetSettings \/ Wipe \/ CopyBack \/ FinishRestore
    <3>1. ui.pc \in Emptied /\ ui.pc \notin {"free", "backup"}
      BY <2>5 DEF ResetSettings, Wipe, CopyBack, FinishRestore, Emptied
    <3>2. disk'["old"] = disk["old"]
      <4>1. \/ UNCHANGED disk \/ \E d : disk' = [disk EXCEPT !["configs"] = d]
            \/ \E f : disk' = [disk EXCEPT !["configs"].files = @ \ {f}]
        BY <2>5 DEF ResetSettings, Wipe, CopyBack, FinishRestore
      <4>2. QED
        BY <1>0, <4>1 DEF Places
    <3>3. CASE UNCHANGED owned
      <4>1. owned' \in {{}, old'} \/ InBackup'
        BY <2>2, <3>1, <3>2, <3>3 DEF KeptInv
      <4>2. crashes' = 0 => owned' = {} \/ InBackup'
        BY <1>8, <2>2, <3>1, <3>3 DEF KeptInv
      <4>3. QED
        BY <2>1, <4>1, <4>2 DEF KeptInv
    <3>4. CASE (Wipe /\ owned' = {}) \/ FinishRestore
      <4>1. owned' = {} \/ (ui'.pc = "free" /\ owned' = Configs')
        <5>1. ASSUME FinishRestore PROVE ui'.pc = "free" /\ owned' = Configs'
          <6>1. ui' = Free /\ owned' = disk["configs"].files /\ disk' = disk
            BY <5>1 DEF FinishRestore, Configs
          <6>2. ui'.pc = "free"
            BY <6>1 DEF Free
          <6>3. QED
            BY <6>1, <6>2 DEF Configs
        <5>2. QED
          BY <3>4, <5>1
      <4>2. ui'.pc \in Emptied => owned' \in {{}, old'} \/ InBackup'
        BY <4>1 DEF Emptied
      <4>3. owned' \in {{}, Configs', old'} \/ InBackup'
        BY <4>1
      <4>4. crashes' = 0 =>
              \/ owned' = {} \/ InBackup'
              \/ ui'.pc \in {"free", "backup"} /\ owned' = IF Moving' THEN old' ELSE Configs'
        BY <2>1, <4>1
      <4>5. QED
        BY <2>1, <4>2, <4>3, <4>4 DEF KeptInv
    <3>5. UNCHANGED owned \/ (Wipe /\ owned' = {}) \/ FinishRestore
      BY <2>5 DEF ResetSettings, Wipe, CopyBack
    <3>6. QED
      BY <3>3, <3>4, <3>5
  <2>6. QED
    BY <1>8, <2>3, <2>4, <2>5 DEF ResetOrRestore
<1>9. QED
  BY <1>2, <1>3, <1>4, <1>5, <1>6, <1>7, <1>8, OtherSteps

LEMMA KeptIsKept == TypeInv /\ StagingInv /\ KeptInv => NothingLost
<1> SUFFICES ASSUME TypeInv, StagingInv, KeptInv PROVE NothingLost
  OBVIOUS
<1>1. CASE \A w \in Workers : job[w].pc \notin Replacing
  BY <1>1 DEF KeptInv, NothingLost, InBackup
<1>2. ASSUME NEW w \in Workers, job[w].pc \in Replacing PROVE NothingLost
  BY <1>2 DEF StagingInv, Staged, Whole, Replacing, NothingLost
<1>3. QED
  BY <1>1, <1>2

(* The files the user owns are never lost, wherever the process is killed: *)
(* they are in place, in CONFIGS.old, in a complete reset backup, or being *)
(* replaced by a source that was read whole (eovpn_base.py,                *)
(* validate_and_load; settings_window.py, _apply_reset, _apply_restore).   *)
(* Killed twice they may be: the second import removes CONFIGS.old, where  *)
(* the first one left them.                                                *)
THEOREM OneCrashLosesNothing ==
    ASSUME Patient, "silent" \notin Faults, MaxCrashes <= 1
    PROVE  Spec => []NothingLost
<1> DEFINE Inv == TypeInv /\ Exclusive /\ StagingInv /\ BackupInv /\ KeptInv
<1>1. Inv => NothingLost
  BY KeptIsKept
<1>2. Init => Inv
  BY InitType, InitExclusive, InitStaging, InitBackup, InitKept
<1>3. Inv /\ [Next]_vars => Inv'
  BY NextType, NextExclusive, NextStaging, NextBackup, NextKept
<1>4. QED
  BY <1>1, <1>2, <1>3, PTL DEF Spec

=============================================================================
