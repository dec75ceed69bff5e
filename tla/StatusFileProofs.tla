-------------------------- MODULE StatusFileProofs --------------------------
(***************************************************************************)
(* Crash safety of the status file, for every number of versions, days and *)
(* restarts, as long as a single goroutine saves and nobody else touches   *)
(* the files.                                                              *)
(***************************************************************************)
EXTENDS StatusFile, TLAPS

SingleSaver == \A s, t \in Savers : s = t
Untouched == Damage = {}

(* A saver that is writing has the temporary file for itself. *)
SaverOwnsTmp(s) ==
    /\ stage[s] = "opened" => tmp # 0 /\ fd[s] = tmp /\ content[tmp] = Empty
    /\ stage[s] = "written" => tmp # 0 /\ content[tmp] = data[s]

(* What it is about to write is no older than what is on the disk. *)
SaverIsFresh(s) ==
    /\ stage[s] \in {"copied", "opened", "written"} =>
         data[s] \in Versions /\ data[s] <= mem /\ Recovered <= data[s]
    /\ stage[s] = "renamed" => main # 0 /\ content[main] = data[s]
    /\ stage[s] \in {"backup", "backupOpened"} => main # 0
    /\ stage[s] # "idle" => up

(* Backups are copies of the main file. *)
NoBackupBeforeMain == main = 0 => \A d \in 0 .. MaxDay : backups[d] = Absent

IInv ==
    /\ TypeOK
    /\ tmp # 0 => tmp # main
    /\ \A s \in Savers : SaverOwnsTmp(s) /\ SaverIsFresh(s)
    /\ NoBackupBeforeMain
    /\ MainWhole
    /\ AckedSurvives
    /\ up => Recovered <= mem

(* What load recovers, when the main file is whole if there is one, and    *)
(* there are no backups otherwise.                                         *)
LEMMA LoadIs ==
    ASSUME NEW m \in Inodes \cup {0}, NEW c, NEW b \in [0 .. MaxDay -> Bytes \cup {Absent}],
           m # 0 => Whole(c[m]),
           m = 0 => \A d \in 0 .. MaxDay : b[d] = Absent
    PROVE  Load(m, c, b) = IF m = 0 THEN 0 ELSE c[m]
<1>1. CASE m = 0
  <2>1. {d \in DOMAIN b : b[d] # Absent} = {} BY <1>1
  <2>2. LatestBackup(b) = Absent BY <2>1 DEF LatestBackup
  <2>3. ~Whole(Absent) BY DEF Whole, Absent
  <2> QED BY <1>1, <2>2, <2>3 DEF Load, WholeOr
<1>2. CASE m # 0 BY <1>2 DEF Load, WholeOr
<1> QED BY <1>1, <1>2

LEMMA RecoveredIs ==
    ASSUME IInv PROVE Recovered = IF main = 0 THEN 0 ELSE content[main]
BY LoadIs DEF IInv, TypeOK, MainWhole, NoBackupBeforeMain, Recovered

(* A step that leaves the files alone leaves what would be recovered. *)
LEMMA SameFiles ==
    ASSUME UNCHANGED <<main, content, backups>> PROVE Recovered' = Recovered
BY DEF Recovered

LEMMA SameMain ==
    ASSUME UNCHANGED <<main, backups>>, main # 0 => content'[main] = content[main]
    PROVE  Recovered' = Recovered
BY DEF Recovered, Load

(* A whole main file is what is recovered, whatever the backups hold. *)
LEMMA MainDecides ==
    ASSUME main' # 0, Whole(content'[main']) PROVE Recovered' = content'[main']
BY DEF Recovered, Load, WholeOr

LEMMA InitIInv == Init => IInv
<1> SUFFICES ASSUME Init PROVE IInv OBVIOUS
<1> USE DEF Init
<1>0. 0 \notin Inodes /\ 0 \in Versions /\ 0 \in 0 .. MaxDay /\ MaxVersion \in Nat
      /\ FailThreshold \in Nat
  BY EnoughInodes, Bounds DEF Versions
<1>1. TypeOK
  <2>1. 0 \in 0 .. FailThreshold BY <1>0
  <2> QED BY <1>0, <2>1 DEF TypeOK, Bytes, Stages
<1>2. Recovered = 0
  BY <1>0, LoadIs DEF Recovered, Bytes
<1>3. \A s \in Savers : SaverOwnsTmp(s) /\ SaverIsFresh(s)
  BY DEF SaverOwnsTmp, SaverIsFresh
<1> QED BY <1>1, <1>2, <1>3 DEF IInv, NoBackupBeforeMain, MainWhole, AckedSurvives

(* Every step keeps the types. *)
LEMMA TypeStep ==
    ASSUME IInv, [Next]_vars
    PROVE  TypeOK'
<1> USE DEF IInv, TypeOK, process, goroutines, files
<1>0. /\ 0 \notin Inodes /\ MaxVersion \in Nat /\ MaxDay \in Nat
      /\ FailThreshold \in Nat \ {0} /\ restarts + 1 \in Nat
      /\ Empty \in Bytes /\ Torn \in Bytes /\ 0 \in Versions
      /\ Versions \subseteq Bytes
  BY EnoughInodes, Bounds DEF Bytes, Versions
<1>1. CASE Push BY <1>0, <1>1 DEF Push, Versions
<1>2. ASSUME NEW s \in Savers, SaveCopies(s) PROVE TypeOK'
  BY <1>0, <1>2 DEF SaveCopies, Go, Stages
<1>3. ASSUME NEW s \in Savers, SaveOpens(s) PROVE TypeOK'
  BY <1>0, <1>3 DEF SaveOpens, Go, Stages
<1>4. ASSUME NEW s \in Savers, SaveWrites(s) PROVE TypeOK'
  BY <1>0, <1>4 DEF SaveWrites, Overwritten, Go, Stages
<1>5. ASSUME NEW s \in Savers, SaveWriteFails(s) PROVE TypeOK'
  BY <1>0, <1>5 DEF SaveWriteFails, Go, Stages
<1>6. ASSUME NEW s \in Savers, SaveRenames(s) PROVE TypeOK'
  BY <1>0, <1>6 DEF SaveRenames, Go, Stages
<1>7. ASSUME NEW s \in Savers, SaveFails(s) PROVE TypeOK'
  BY <1>0, <1>7 DEF SaveFails, Go, Stages
<1>8. ASSUME NEW s \in Savers, SaveReturns(s) PROVE TypeOK'
  <2>1. writeFails' \in 0 .. FailThreshold
    BY <1>0, <1>8 DEF SaveReturns, RecordWriteResult
  <2>2. acked' \in Versions
    <3>1. stage[s] = "renamed" => data[s] \in Versions
      BY DEF SaverIsFresh, MainWhole, Whole, Bytes, Empty, Torn
    <3> QED BY <1>8, <3>1 DEF SaveReturns
  <2> QED BY <1>0, <1>8, <2>1, <2>2 DEF SaveReturns, Go, Rest, Stages
<1>9. CASE BackupReads BY <1>0, <1>9 DEF BackupReads, Go, Stages
<1>10. CASE BackupOpens BY <1>0, <1>10 DEF BackupOpens, Go, Stages
<1>11. CASE BackupWrites
  BY <1>0, <1>11 DEF BackupWrites, Pruned, Go, Stages
<1>12. CASE BackupFails BY <1>0, <1>12 DEF BackupFails, Go, Stages
<1>13. CASE Crash
  <2>1. /\ stage' \in [Savers -> Stages] /\ data' \in [Savers -> Bytes]
        /\ fd' \in [Savers -> Inodes \cup {0}]
        /\ \A s \in Savers : fd[s]' = 0 /\ stage[s]' = "idle"
    BY <1>0, <1>13 DEF Crash, Stages
  <2>2. writeFails' \in 0 .. FailThreshold BY <1>0, <1>13 DEF Crash
  <2> QED BY <1>0, <1>13, <2>1, <2>2 DEF Crash
<1>14. CASE Start
  <2>1. Recovered \in Versions
    BY <1>0, RecoveredIs DEF MainWhole, Whole, Bytes, Empty, Torn
  <2> QED BY <1>0, <1>14, <2>1 DEF Start
<1>15. CASE Environment
  <2>1. CASE DiskChanges BY <2>1 DEF DiskChanges
  <2>2. CASE NextDay BY <1>0, <2>2 DEF NextDay
  <2>3. CASE Corrupt BY <1>0, <2>3 DEF Corrupt
  <2>4. CASE Wipe BY <1>0, <2>4 DEF Wipe
  <2> QED BY <1>15, <2>1, <2>2, <2>3, <2>4 DEF Environment
<1>16. CASE UNCHANGED vars BY <1>16 DEF vars
<1> QED
  BY <1>1, <1>2, <1>3, <1>4, <1>5, <1>6, <1>7, <1>8, <1>9, <1>10, <1>11, <1>12,
     <1>13, <1>14, <1>15, <1>16 DEF Next, Save, Backup

(* The rest of the invariant, in one formula. *)
Rests ==
    /\ tmp # 0 => tmp # main
    /\ \A s \in Savers : SaverOwnsTmp(s) /\ SaverIsFresh(s)
    /\ NoBackupBeforeMain
    /\ MainWhole
    /\ AckedSurvives
    /\ up => Recovered <= mem
    
(* Every step of a single saver keeps it, and never makes what would be    *)
(* recovered older.                                                        *)
LEMMA CrashStep ==
    ASSUME IInv, TypeOK', [Next]_vars, SingleSaver, Untouched
    PROVE  Rests' /\ Recovered <= Recovered'
<1> USE DEF Rests, SaverOwnsTmp, SaverIsFresh, NoBackupBeforeMain, MainWhole,
            AckedSurvives, process, goroutines, files
<1>0. /\ 0 \notin Inodes /\ MaxVersion \in Nat /\ MaxDay \in Nat
      /\ Versions = 0 .. MaxVersion /\ Empty = -1 /\ Torn = -2
      /\ \A x : Whole(x) <=> x >= 0
  BY EnoughInodes, Bounds DEF Versions, Empty, Torn, Whole
<1>r. Recovered = IF main = 0 THEN 0 ELSE content[main]
  BY RecoveredIs
<1>n. Recovered \in Versions
  BY <1>0, <1>r DEF IInv, TypeOK, Bytes
<1>1. CASE Push
  BY <1>0, <1>1, <1>n, SameFiles DEF Push, IInv, TypeOK
<1>2. ASSUME NEW s \in Savers, SaveCopies(s) PROVE Rests' /\ Recovered <= Recovered'
  BY <1>0, <1>2, <1>n, SameFiles DEF SaveCopies, Go, IInv, TypeOK, SingleSaver
<1>3. ASSUME NEW s \in Savers, SaveOpens(s) PROVE Rests' /\ Recovered <= Recovered'
  <2> PICK i \in Inodes :
        /\ IF tmp = 0 THEN NewFile(i) ELSE i = tmp
        /\ content' = [content EXCEPT ![i] = Empty]
        /\ fd' = [fd EXCEPT ![s] = i]
        /\ tmp' = i
    BY <1>3 DEF SaveOpens
  <2>1. i # 0 /\ i # main BY <1>0 DEF NewFile, Free, IInv
  <2>2. Recovered' = Recovered
    BY <1>3, <2>1, SameMain DEF SaveOpens, IInv, TypeOK
  <2> QED BY <1>0, <1>3, <1>n, <2>1, <2>2 DEF SaveOpens, Go, IInv, TypeOK, SingleSaver
<1>4. ASSUME NEW s \in Savers, SaveWrites(s) PROVE Rests' /\ Recovered <= Recovered'
  <2>1. fd[s] = tmp /\ tmp # 0 /\ tmp # main /\ tmp \in Inodes
    BY <1>4 DEF SaveWrites, IInv, TypeOK
  <2>2. content' = [content EXCEPT ![tmp] = data[s]]
    BY <1>4, <2>1 DEF SaveWrites, Overwritten, IInv
  <2>3. Recovered' = Recovered
    BY <1>4, <2>1, <2>2, SameMain DEF SaveWrites, IInv, TypeOK
  <2> QED BY <1>0, <1>4, <1>n, <2>1, <2>2, <2>3
          DEF SaveWrites, Go, IInv, TypeOK, SingleSaver
<1>5. ASSUME NEW s \in Savers, SaveWriteFails(s) PROVE Rests' /\ Recovered <= Recovered'
  <2>1. fd[s] = tmp /\ tmp # 0 /\ tmp # main /\ tmp \in Inodes
    BY <1>5 DEF SaveWriteFails, IInv, TypeOK
  <2>2. Recovered' = Recovered
    BY <1>5, <2>1, SameMain DEF SaveWriteFails, IInv, TypeOK
  <2> QED BY <1>0, <1>5, <1>n, <2>1, <2>2
          DEF SaveWriteFails, Go, IInv, TypeOK, SingleSaver
<1>6. ASSUME NEW s \in Savers, SaveRenames(s) PROVE Rests' /\ Recovered <= Recovered'
  <2>1. /\ main' # 0 /\ content'[main'] = data[s]
        /\ data[s] \in Versions /\ Recovered <= data[s] /\ data[s] <= mem
    BY <1>6 DEF SaveRenames, IInv
  <2>2. Recovered' = data[s] BY <1>0, <2>1, MainDecides
  <2> QED BY <1>0, <1>6, <1>n, <2>1, <2>2
          DEF SaveRenames, Go, IInv, TypeOK, SingleSaver
<1>7. ASSUME NEW s \in Savers, SaveFails(s) PROVE Rests' /\ Recovered <= Recovered'
  BY <1>0, <1>7, <1>n, SameFiles DEF SaveFails, Go, IInv, TypeOK, SingleSaver
<1>8. ASSUME NEW s \in Savers, SaveReturns(s) PROVE Rests' /\ Recovered <= Recovered'
  <2>1. Recovered' = Recovered BY <1>8, SameFiles DEF SaveReturns
  <2>2. acked' <= Recovered
    BY <1>0, <1>8, <1>n, <1>r DEF SaveReturns, IInv, TypeOK
  <2> QED BY <1>0, <1>8, <1>n, <2>1, <2>2
          DEF SaveReturns, Go, Rest, IInv, TypeOK, SingleSaver
<1>9. CASE BackupReads
  BY <1>0, <1>9, <1>n, SameFiles DEF BackupReads, Go, IInv, TypeOK, SingleSaver
<1>10. CASE BackupOpens
  <2>1. main # 0 /\ Recovered' = Recovered
    BY <1>10, <1>r, MainDecides DEF BackupOpens, IInv
  <2> QED BY <1>0, <1>10, <1>n, <2>1 DEF BackupOpens, Go, IInv, TypeOK, SingleSaver
<1>11. CASE BackupWrites
  <2>1. main # 0 /\ Recovered' = Recovered
    BY <1>11, <1>r, MainDecides DEF BackupWrites, IInv
  <2> QED BY <1>0, <1>11, <1>n, <2>1 DEF BackupWrites, Go, IInv, TypeOK, SingleSaver
<1>12. CASE BackupFails
  <2>1. main # 0 /\ Recovered' = Recovered
    BY <1>12, <1>r, MainDecides DEF BackupFails, IInv
  <2> QED BY <1>0, <1>12, <1>n, <2>1 DEF BackupFails, Go, IInv, TypeOK, SingleSaver
<1>13. CASE Crash
  BY <1>0, <1>13, <1>n, SameFiles DEF Crash, IInv, TypeOK
<1>14. CASE Start
  BY <1>0, <1>14, <1>n, SameFiles DEF Start, IInv, TypeOK
<1>15. CASE Environment
  <2>1. DiskChanges \/ NextDay
    BY <1>15 DEF Environment, Corrupt, Wipe, Untouched
  <2> QED BY <1>0, <1>n, <2>1, SameFiles DEF DiskChanges, NextDay, IInv, TypeOK
<1>16. CASE UNCHANGED vars
  BY <1>0, <1>16, <1>n, SameFiles DEF vars, IInv, TypeOK
<1> QED
  BY <1>1, <1>2, <1>3, <1>4, <1>5, <1>6, <1>7, <1>8, <1>9, <1>10, <1>11, <1>12,
     <1>13, <1>14, <1>15, <1>16 DEF Next, Save, Backup

-----------------------------------------------------------------------------

(* Both parts of the invariant hold for ever. *)
LEMMA Inductive == SingleSaver /\ Untouched /\ Spec => []IInv
<1>1. IInv /\ SingleSaver /\ Untouched /\ [Next]_vars => IInv'
  <2> SUFFICES ASSUME IInv, SingleSaver, Untouched, [Next]_vars PROVE IInv'
    OBVIOUS
  <2>1. TypeOK' BY TypeStep
  <2>2. Rests' BY <2>1, CrashStep
  <2> QED BY <2>1, <2>2 DEF IInv, Rests
<1>2. SingleSaver /\ Untouched => [](SingleSaver /\ Untouched)
  <2>1. SingleSaver /\ Untouched => (SingleSaver /\ Untouched)'
    BY DEF SingleSaver, Untouched
  <2> QED BY <2>1, PTL
<1> QED BY InitIInv, <1>1, <1>2, PTL DEF Spec

(* With one saver and files nobody else touches, status.json is whole and  *)
(* holds every acknowledged save, wherever a crash or a failed write       *)
(* strikes.                                                                *)
THEOREM CrashSafe ==
    SingleSaver /\ Untouched /\ Spec => [](TypeOK /\ MainWhole /\ AckedSurvives)
<1>1. IInv => TypeOK /\ MainWhole /\ AckedSurvives BY DEF IInv
<1> QED BY Inductive, <1>1, PTL

(* In particular, what a Save acknowledged survives every later crash.     *)
COROLLARY AckedKept == SingleSaver /\ Untouched /\ Spec => []AckedSurvives
BY CrashSafe, PTL

(* And what a restart would recover never gets older. *)
THEOREM NeverRegresses ==
    SingleSaver /\ Untouched /\ Spec => RecoveryNeverRegresses
<1>1. IInv /\ SingleSaver /\ Untouched /\ [Next]_vars => [Recovered' >= Recovered]_vars
  <2> SUFFICES ASSUME IInv, SingleSaver, Untouched, [Next]_vars
               PROVE  Recovered' >= Recovered
    OBVIOUS
  <2>1. TypeOK' BY TypeStep
  <2>2. Recovered <= Recovered' BY <2>1, CrashStep
  <2> QED BY <2>2
<1>2. SingleSaver /\ Untouched => [](SingleSaver /\ Untouched)
  <2>1. SingleSaver /\ Untouched => (SingleSaver /\ Untouched)'
    BY DEF SingleSaver, Untouched
  <2> QED BY <2>1, PTL
<1> QED BY Inductive, <1>1, <1>2, PTL DEF Spec, RecoveryNeverRegresses

-----------------------------------------------------------------------------
(* The files as one durable value. *)

Saving == {"copied", "opened", "written", "renamed"}

(* With one saver, at most one save is under way. *)
LEMMA PendingIs ==
    ASSUME SingleSaver, NEW s \in Savers
    PROVE  /\ Pending = IF stage[s] \in Saving THEN {data[s]} ELSE {}
           /\ Pending' = IF stage'[s] \in Saving THEN {data'[s]} ELSE {}
<1>1. \A t \in Savers : t = s BY DEF SingleSaver
<1> QED BY <1>1 DEF Pending, Saving

LEMMA SamePending ==
    ASSUME UNCHANGED <<stage, data>> PROVE Pending' = Pending
BY DEF Pending

(* A step that changes neither what is stored nor what is pending, nor any *)
(* variable the two modules share, is invisible.                           *)
LEMMA Invisible ==
    ASSUME UNCHANGED <<up, mem, acked>>, Recovered' = Recovered, Pending' = Pending
    PROVE  UNCHANGED Durable!vars
BY DEF Durable!vars

(* Every step of the detailed specification is a step of the abstract one  *)
(* or invisible: the rename is the Commit.                                 *)
LEMMA DurableStep ==
    ASSUME IInv, [Next]_vars, SingleSaver, Untouched
    PROVE  [Durable!Next]_(Durable!vars)
<1> USE DEF process, goroutines, files
<1>0. /\ 0 \notin Inodes /\ MaxVersion \in Nat /\ Versions = 0 .. MaxVersion
      /\ \A x : Whole(x) <=> x >= 0
  BY EnoughInodes, Bounds DEF Versions, Whole
<1>r. Recovered = IF main = 0 THEN 0 ELSE content[main] BY RecoveredIs
<1>n. Recovered \in Versions /\ acked \in Versions /\ acked <= Recovered
  BY <1>0, <1>r DEF IInv, TypeOK, MainWhole, AckedSurvives, Bytes, Empty, Torn
<1>1. CASE Push
  <2>1. Recovered' = Recovered /\ Pending' = Pending
    BY <1>1, SameFiles, SamePending DEF Push
  <2>2. Durable!Push BY <1>1, <2>1 DEF Push, Durable!Push
  <2> QED BY <2>2 DEF Durable!Next
<1>2. ASSUME NEW s \in Savers, SaveCopies(s) PROVE [Durable!Next]_(Durable!vars)
  <2>1. Recovered' = Recovered BY <1>2, SameFiles DEF SaveCopies
  <2>2. /\ up /\ stage[s] = "idle" /\ data'[s] = mem /\ UNCHANGED <<up, mem, acked>>
        /\ stage'[s] = IF diskOk THEN "copied" ELSE "failed"
    BY <1>2 DEF SaveCopies, Go, IInv, TypeOK
  <2>3. Pending = {} BY <2>2, PendingIs DEF Saving
  <2>4. CASE diskOk
    <3>1. Pending' = {mem} BY <2>2, <2>4, PendingIs DEF Saving
    <3>2. Durable!SaveBegins BY <2>1, <2>2, <2>3, <3>1 DEF Durable!SaveBegins
    <3> QED BY <3>2 DEF Durable!Next
  <2>5. CASE ~diskOk
    <3>1. Pending' = {} BY <2>2, <2>5, PendingIs DEF Saving
    <3> QED BY <2>1, <2>2, <2>3, <3>1, Invisible
  <2> QED BY <2>4, <2>5
<1>3. ASSUME NEW s \in Savers, SaveOpens(s) PROVE [Durable!Next]_(Durable!vars)
  <2> PICK i \in Inodes :
        /\ IF tmp = 0 THEN NewFile(i) ELSE i = tmp
        /\ content' = [content EXCEPT ![i] = Empty]
    BY <1>3 DEF SaveOpens
  <2>1. i # main BY DEF NewFile, Free, IInv
  <2>2. Recovered' = Recovered BY <1>3, <2>1, SameMain DEF SaveOpens, IInv, TypeOK
  <2>3. stage[s] = "copied" /\ stage'[s] = "opened" /\ UNCHANGED <<data, up, mem, acked>>
    BY <1>3 DEF SaveOpens, Go, IInv, TypeOK
  <2>4. Pending' = Pending BY <2>3, PendingIs DEF Saving
  <2> QED BY <2>2, <2>3, <2>4, Invisible
<1>4. ASSUME NEW s \in Savers, SaveWrites(s) PROVE [Durable!Next]_(Durable!vars)
  <2>1. fd[s] = tmp /\ tmp # main /\ tmp \in Inodes
    BY <1>4 DEF SaveWrites, IInv, TypeOK, SaverOwnsTmp
  <2>2. Recovered' = Recovered BY <1>4, <2>1, SameMain DEF SaveWrites, IInv, TypeOK
  <2>3. stage[s] = "opened" /\ stage'[s] = "written" /\ UNCHANGED <<data, up, mem, acked>>
    BY <1>4 DEF SaveWrites, Go, IInv, TypeOK
  <2>4. Pending' = Pending BY <2>3, PendingIs DEF Saving
  <2> QED BY <2>2, <2>3, <2>4, Invisible
<1>5. ASSUME NEW s \in Savers, SaveWriteFails(s) PROVE [Durable!Next]_(Durable!vars)
  <2>1. fd[s] = tmp /\ tmp # main /\ tmp \in Inodes
    BY <1>5 DEF SaveWriteFails, IInv, TypeOK, SaverOwnsTmp
  <2>2. Recovered' = Recovered BY <1>5, <2>1, SameMain DEF SaveWriteFails, IInv, TypeOK
  <2>3. stage[s] = "opened" /\ stage'[s] = "failed" /\ UNCHANGED <<up, mem, acked>>
    BY <1>5 DEF SaveWriteFails, Go, IInv, TypeOK
  <2>4. Pending # {} /\ Pending' = {} BY <2>3, PendingIs DEF Saving
  <2>5. Durable!SaveFails BY <2>2, <2>3, <2>4 DEF Durable!SaveFails
  <2> QED BY <2>5 DEF Durable!Next
<1>6. ASSUME NEW s \in Savers, SaveRenames(s) PROVE [Durable!Next]_(Durable!vars)
  <2>1. /\ main' # 0 /\ content'[main'] = data[s]
        /\ data[s] \in Versions /\ Recovered <= data[s]
    BY <1>6 DEF SaveRenames, IInv, SaverOwnsTmp, SaverIsFresh
  <2>2. Recovered' = data[s] BY <1>0, <2>1, MainDecides
  <2>3. stage[s] = "written" /\ stage'[s] = "renamed" /\ UNCHANGED <<data, up, mem, acked>>
    BY <1>6 DEF SaveRenames, Go, IInv, TypeOK
  <2>4. Pending = {data[s]} /\ Pending' = Pending BY <2>3, PendingIs DEF Saving
  <2>5. data[s] >= Recovered BY <1>0, <1>n, <2>1
  <2>6. Durable!Commit BY <2>2, <2>3, <2>4, <2>5 DEF Durable!Commit
  <2> QED BY <2>6 DEF Durable!Next
<1>7. ASSUME NEW s \in Savers, SaveFails(s) PROVE [Durable!Next]_(Durable!vars)
  <2>1. Recovered' = Recovered BY <1>7, SameFiles DEF SaveFails
  <2>2. /\ stage[s] \in {"copied", "written"} /\ stage'[s] = "failed"
        /\ UNCHANGED <<up, mem, acked>>
    BY <1>7 DEF SaveFails, Go, IInv, TypeOK
  <2>3. Pending # {} /\ Pending' = {} BY <2>2, PendingIs DEF Saving
  <2>4. Durable!SaveFails BY <2>1, <2>2, <2>3 DEF Durable!SaveFails
  <2> QED BY <2>4 DEF Durable!Next
<1>8. ASSUME NEW s \in Savers, SaveReturns(s) PROVE [Durable!Next]_(Durable!vars)
  <2>1. Recovered' = Recovered BY <1>8, SameFiles DEF SaveReturns
  <2>2. /\ stage[s] \in {"renamed", "failed"} /\ stage'[s] \in {"over", "idle"}
        /\ UNCHANGED <<up, mem>>
        /\ acked' = IF stage[s] = "renamed" /\ data[s] > acked THEN data[s] ELSE acked
    BY <1>8 DEF SaveReturns, Go, Rest, IInv, TypeOK
  <2>3. Pending' = {} BY <2>2, PendingIs DEF Saving
  <2>4. CASE stage[s] = "renamed"
    <3>1. data[s] = Recovered BY <1>r, <2>4 DEF IInv, SaverIsFresh
    <3>2. Pending = {Recovered} BY <2>4, <3>1, PendingIs DEF Saving
    <3>3. acked' = Recovered BY <1>0, <1>n, <2>2, <2>4, <3>1
    <3>4. Durable!SaveSucceeds BY <2>1, <2>2, <2>3, <3>2, <3>3 DEF Durable!SaveSucceeds
    <3> QED BY <3>4 DEF Durable!Next
  <2>5. CASE stage[s] = "failed"
    <3>1. Pending = {} BY <2>5, PendingIs DEF Saving
    <3> QED BY <2>1, <2>2, <2>3, <2>5, <3>1, Invisible
  <2> QED BY <2>2, <2>4, <2>5
<1>9. CASE Backup
  <2>1. Recovered' = Recovered
    <3>1. CASE BackupReads BY <3>1, SameFiles DEF BackupReads
    <3>2. CASE BackupOpens \/ BackupWrites \/ BackupFails
      <4>1. main # 0 /\ Whole(content[main]) /\ UNCHANGED <<main, content>>
        BY <3>2 DEF BackupOpens, BackupWrites, BackupFails, IInv, SaverIsFresh, MainWhole
      <4> QED BY <1>r, <4>1, MainDecides
    <3> QED BY <1>9, <3>1, <3>2 DEF Backup
  <2>2. /\ "ticker" \in Savers /\ UNCHANGED <<up, mem, acked>>
        /\ stage["ticker"] \in {"idle", "backup", "backupOpened"}
        /\ stage'["ticker"] \in {"idle", "backup", "backupOpened"}
    BY <1>9 DEF Backup, BackupReads, BackupOpens, BackupWrites, BackupFails, Go, IInv, TypeOK
  <2>3. Pending = {} /\ Pending' = {} BY <2>2, PendingIs DEF Saving
  <2> QED BY <2>1, <2>2, <2>3, Invisible
<1>10. CASE Crash
  <2>1. Recovered' = Recovered BY <1>10, SameFiles DEF Crash
  <2>2. Pending' = {} BY <1>10 DEF Crash, Pending
  <2>3. Durable!Crash BY <1>10, <2>1, <2>2 DEF Crash, Durable!Crash
  <2> QED BY <2>3 DEF Durable!Next
<1>11. CASE Start
  <2>1. Recovered' = Recovered /\ Pending' = Pending
    BY <1>11, SameFiles, SamePending DEF Start
  <2>2. Durable!Start BY <1>11, <2>1 DEF Start, Durable!Start
  <2> QED BY <2>2 DEF Durable!Next
<1>12. CASE Environment
  <2>1. DiskChanges \/ NextDay BY <1>12 DEF Environment, Corrupt, Wipe, Untouched
  <2>2. UNCHANGED <<up, mem, acked, main, content, backups, stage, data>>
    BY <2>1 DEF DiskChanges, NextDay
  <2> QED BY <2>2, SameFiles, SamePending, Invisible
<1>13. CASE UNCHANGED vars
  <2>1. UNCHANGED <<up, mem, acked, main, content, backups, stage, data>> BY <1>13 DEF vars
  <2> QED BY <2>1, SameFiles, SamePending, Invisible
<1> QED
  BY <1>1, <1>2, <1>3, <1>4, <1>5, <1>6, <1>7, <1>8, <1>9, <1>10, <1>11, <1>12, <1>13
  DEF Next, Save

LEMMA DurableInit == Init => Durable!Init
<1> SUFFICES ASSUME Init PROVE Durable!Init OBVIOUS
<1>1. IInv BY InitIInv
<1>2. Recovered = 0 BY <1>1, RecoveredIs DEF Init
<1>3. Pending = {} BY DEF Init, Pending
<1> QED BY <1>2, <1>3 DEF Init, Durable!Init

(* With one saver and files nobody else touches, the files implement a     *)
(* single durable value: whenever the process ends, in the middle of a     *)
(* write, between the write and the rename or during a backup, the next    *)
(* one continues from a state that some save began with.                   *)
THEOREM FilesImplementDurable == SingleSaver /\ Untouched /\ Spec => ImplementsDurable
<1>1. IInv /\ SingleSaver /\ Untouched /\ [Next]_vars => [Durable!Next]_(Durable!vars)
  BY DurableStep
<1>2. SingleSaver /\ Untouched => [](SingleSaver /\ Untouched)
  <2>1. SingleSaver /\ Untouched => (SingleSaver /\ Untouched)'
    BY DEF SingleSaver, Untouched
  <2> QED BY <2>1, PTL
<1> QED BY Inductive, DurableInit, <1>1, <1>2, PTL DEF Spec, ImplementsDurable, Durable!Spec
=============================================================================
