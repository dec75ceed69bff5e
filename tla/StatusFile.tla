----------------------------- MODULE StatusFile -----------------------------
(***************************************************************************)
(* Persistence of the status store (internal/status/store.go, from Save to *)
(* tryLoadData) on a file system, with its callers in cmd/worker.go.       *)
(*                                                                         *)
(* Save copies the store, writes the copy to status.json.tmp and renames   *)
(* that to status.json.  Two goroutines call it: the save ticker, which    *)
(* also makes the daily backups, and runWorker itself after a signal.  The *)
(* process may be killed at any moment; a new one loads the file, or else  *)
(* the latest backup.                                                      *)
(*                                                                         *)
(* The content of the store is reduced to its version, the number of       *)
(* results it holds.  A file is an inode, because a goroutine that has     *)
(* opened the temporary file keeps writing to it after another one has     *)
(* renamed it.                                                             *)
(***************************************************************************)
EXTENDS Integers, FiniteSets

CONSTANTS
    Savers,        \* the goroutines that save: "ticker", "main"
    Inodes,        \* identities of files
    FailThreshold, \* writeFailureThreshold (5 in the code)
    Retention,     \* backupRetention in days (90 in the code)
    Damage,        \* what may befall the files from outside: "corrupt", "wipe"
    MaxVersion,    \* bound: results pushed
    MaxDay,        \* bound: days
    MaxRestarts    \* bound: restarts of the process

ASSUME SaversKnown == Savers \subseteq {"ticker", "main"}
ASSUME EnoughInodes == /\ IsFiniteSet(Inodes)
                       /\ Inodes \subseteq Nat \ {0}
                       /\ Cardinality(Inodes) >= 2 + Cardinality(Savers)
ASSUME Bounds == /\ FailThreshold \in Nat \ {0}
                 /\ Retention \in Nat \ {0}
                 /\ Damage \subseteq {"corrupt", "wipe"}
                 /\ {MaxVersion, MaxDay, MaxRestarts} \subseteq Nat

VARIABLES
    up,         \* the process runs
    restarts,   \* how often it was started again
    mem,        \* version of the store in memory
    stage,      \* where each saver is
    data,       \* the bytes each saver is about to write
    fd,         \* the inode each saver has open, 0 if none
    content,    \* what each inode holds
    main,       \* inode named status.json, 0 if there is none
    tmp,        \* inode named status.json.tmp, 0 if there is none
    backups,    \* the dated backups: day -> content, Absent if there is none
    backupDay,  \* the day in the name of the backup being written
    day,        \* today
    diskOk,     \* writes to the data directory succeed
    writeFails, \* consecutiveWriteFail, counted up to FailThreshold
    acked       \* history: latest version whose Save returned nil

process == <<up, restarts>>
goroutines == <<stage, data, fd>>
files == <<content, main, tmp, backups>>
vars == <<process, mem, goroutines, files, backupDay, day, diskOk, writeFails, acked>>

(* What a file holds: a whole store of some version, nothing, or bytes     *)
(* that do not parse.                                                      *)
Empty == -1
Torn == -2
Absent == -3
Versions == 0 .. MaxVersion
Bytes == Versions \cup {Empty, Torn}
Whole(bytes) == bytes >= 0

Stages == {"idle", "copied", "opened", "written", "renamed", "failed", "over",
           "backup", "backupOpened"}

Init ==
    /\ up = TRUE
    /\ restarts = 0
    /\ mem = 0
    /\ stage = [s \in Savers |-> "idle"]
    /\ data = [s \in Savers |-> Empty]
    /\ fd = [s \in Savers |-> 0]
    /\ content = [i \in Inodes |-> Empty]
    /\ main = 0
    /\ tmp = 0
    /\ backups = [d \in 0 .. MaxDay |-> Absent]
    /\ backupDay = 0
    /\ day = 0
    /\ diskOk = TRUE
    /\ writeFails = 0
    /\ acked = 0

Go(s, to) == stage' = [stage EXCEPT ![s] = to]

-----------------------------------------------------------------------------
(* Save *)

(* A result is pushed into the store in memory. *)
Push ==
    /\ up /\ mem < MaxVersion
    /\ mem' = mem + 1
    /\ UNCHANGED <<process, goroutines, files, backupDay, day, diskOk, writeFails, acked>>

SaveCopies_OnlyHealthy(s) ==
    /\ up /\ stage[s] = "idle" /\ writeFails < FailThreshold
    /\ data' = [data EXCEPT ![s] = mem]
    /\ Go(s, IF diskOk THEN "copied" ELSE "failed")
    /\ UNCHANGED <<process, mem, fd, files, backupDay, day, diskOk, writeFails, acked>>

SaveCopies_OnlyDirty(s) ==
    /\ up /\ stage[s] = "idle" /\ mem > acked
    /\ data' = [data EXCEPT ![s] = mem]
    /\ Go(s, IF diskOk THEN "copied" ELSE "failed")
    /\ UNCHANGED <<process, mem, fd, files, backupDay, day, diskOk, writeFails, acked>>

(* save copies the store under its lock and makes sure the directory is    *)
(* there.                                                                  *)
SaveCopies(s) ==
    /\ up /\ stage[s] = "idle"
    /\ data' = [data EXCEPT ![s] = mem]
    /\ Go(s, IF diskOk THEN "copied" ELSE "failed")
    /\ UNCHANGED <<process, mem, fd, files, backupDay, day, diskOk, writeFails, acked>>

(* A new file: the first inode with no name that nobody has open. *)
Free == Inodes \ ({main, tmp} \cup {fd[s] : s \in Savers})
NewFile(i) == i \in Free /\ \A j \in Free : i <= j

SaveOpens_InPlace(s) ==
    /\ stage[s] = "copied" /\ diskOk
    /\ \E i \in Inodes :
          /\ IF main = 0 THEN NewFile(i) ELSE i = main
          /\ content' = [content EXCEPT ![i] = Empty]
          /\ fd' = [fd EXCEPT ![s] = i]
          /\ main' = i
    /\ Go(s, "opened")
    /\ UNCHANGED <<process, mem, data, tmp, backups, backupDay, day, diskOk,
                   writeFails, acked>>

(* WriteFile opens the temporary file, truncating it if it exists. *)
SaveOpens(s) ==
    /\ stage[s] = "copied" /\ diskOk
    /\ \E i \in Inodes :
          /\ IF tmp = 0 THEN NewFile(i) ELSE i = tmp
          /\ content' = [content EXCEPT ![i] = Empty]
          /\ fd' = [fd EXCEPT ![s] = i]
          /\ tmp' = i
    /\ Go(s, "opened")
    /\ UNCHANGED <<process, mem, data, main, backups, backupDay, day, diskOk,
                   writeFails, acked>>

(* What a file holds once new has been written from its start: over other  *)
(* bytes that another goroutine wrote the result need not parse, since a   *)
(* longer tail stays.                                                      *)
Overwritten(old, new) == IF old \in {Empty, new} THEN {new} ELSE {new, Torn}

(* WriteFile writes and closes the file. *)
SaveWrites(s) ==
    /\ stage[s] = "opened" /\ diskOk
    /\ \E bytes \in Overwritten(content[fd[s]], data[s]) :
          content' = [content EXCEPT ![fd[s]] = bytes]
    /\ fd' = [fd EXCEPT ![s] = 0]
    /\ Go(s, "written")
    /\ UNCHANGED <<process, mem, data, main, tmp, backups, backupDay, day, diskOk,
                   writeFails, acked>>

SaveWriteFails_Ignored(s) ==
    /\ stage[s] = "opened" /\ ~diskOk
    /\ content' = [content EXCEPT ![fd[s]] = Torn]
    /\ fd' = [fd EXCEPT ![s] = 0]
    /\ Go(s, "written")
    /\ UNCHANGED <<process, mem, data, main, tmp, backups, backupDay, day, diskOk,
                   writeFails, acked>>

(* A write that fails, for want of space for example, may have written a   *)
(* part; the temporary file stays.                                         *)
SaveWriteFails(s) ==
    /\ stage[s] = "opened" /\ ~diskOk
    /\ content' = [content EXCEPT ![fd[s]] = Torn]
    /\ fd' = [fd EXCEPT ![s] = 0]
    /\ Go(s, "failed")
    /\ UNCHANGED <<process, mem, data, main, tmp, backups, backupDay, day, diskOk,
                   writeFails, acked>>

SaveRenames(s) ==
    /\ stage[s] = "written" /\ diskOk /\ tmp # 0
    /\ main' = tmp
    /\ tmp' = 0
    /\ Go(s, "renamed")
    /\ UNCHANGED <<process, mem, data, fd, content, backups, backupDay, day, diskOk,
                   writeFails, acked>>

(* The open or the rename fails: the disk refuses it, or another saver has *)
(* already renamed the temporary file.                                     *)
SaveFails(s) ==
    /\ \/ stage[s] = "copied" /\ ~diskOk
       \/ stage[s] = "written" /\ (~diskOk \/ tmp = 0)
    /\ Go(s, "failed")
    /\ UNCHANGED <<process, mem, data, fd, files, backupDay, day, diskOk, writeFails, acked>>

(* After its save runWorker goes on to shut down; the ticker waits for the *)
(* next tick.                                                              *)
Rest(s) == IF s = "main" THEN "over" ELSE "idle"

RecordWriteResult_NoReset(s) ==
    writeFails' = IF stage[s] = "failed" /\ writeFails < FailThreshold
                    THEN writeFails + 1 ELSE writeFails

RecordWriteResult(s) ==
    writeFails' = IF stage[s] = "failed"
                    THEN (IF writeFails < FailThreshold THEN writeFails + 1
                                                        ELSE writeFails)
                    ELSE 0

(* recordWriteResult, and Save returns. *)
SaveReturns(s) ==
    /\ stage[s] \in {"renamed", "failed"}
    /\ RecordWriteResult(s)
    /\ acked' = IF stage[s] = "renamed" /\ data[s] > acked THEN data[s] ELSE acked
    /\ data' = [data EXCEPT ![s] = Empty]
    /\ Go(s, Rest(s))
    /\ UNCHANGED <<process, mem, fd, files, backupDay, day, diskOk>>

WriteHealthy == writeFails < FailThreshold

Save(s) ==
    \/ SaveCopies(s)
    \/ SaveOpens(s)
    \/ SaveWrites(s)
    \/ SaveWriteFails(s)
    \/ SaveRenames(s)
    \/ SaveFails(s)
    \/ SaveReturns(s)

-----------------------------------------------------------------------------
(* SaveBackup, in the goroutine of the ticker. *)

(* It reads the main file and returns if there is none, or if there is a   *)
(* backup of today.                                                        *)
BackupReads ==
    /\ "ticker" \in Savers
    /\ up /\ stage["ticker"] = "idle"
    /\ main # 0 /\ backups[day] = Absent
    /\ data' = [data EXCEPT !["ticker"] = content[main]]
    /\ backupDay' = day
    /\ Go("ticker", "backup")
    /\ UNCHANGED <<process, mem, fd, files, day, diskOk, writeFails, acked>>

BackupOpens ==
    /\ "ticker" \in Savers
    /\ stage["ticker"] = "backup" /\ diskOk
    /\ backups' = [backups EXCEPT ![backupDay] = Empty]
    /\ Go("ticker", "backupOpened")
    /\ UNCHANGED <<process, mem, data, fd, content, main, tmp, backupDay, day, diskOk,
                   writeFails, acked>>

(* pruneBackups removes what is older than the retention. *)
Pruned(b) == [d \in DOMAIN b |-> IF d + Retention <= day THEN Absent ELSE b[d]]

BackupWrites ==
    /\ "ticker" \in Savers
    /\ stage["ticker"] = "backupOpened" /\ diskOk
    /\ backups' = Pruned([backups EXCEPT ![backupDay] = data["ticker"]])
    /\ data' = [data EXCEPT !["ticker"] = Empty]
    /\ Go("ticker", "idle")
    /\ UNCHANGED <<process, mem, fd, content, main, tmp, backupDay, day, diskOk,
                   writeFails, acked>>

(* Either step fails: the backup is given up, a part of it may stay.       *)
BackupFails ==
    /\ "ticker" \in Savers
    /\ stage["ticker"] \in {"backup", "backupOpened"} /\ ~diskOk
    /\ backups' = IF stage["ticker"] = "backupOpened"
                    THEN [backups EXCEPT ![backupDay] = Torn] ELSE backups
    /\ data' = [data EXCEPT !["ticker"] = Empty]
    /\ Go("ticker", "idle")
    /\ UNCHANGED <<process, mem, fd, content, main, tmp, backupDay, day, diskOk,
                   writeFails, acked>>

Backup == BackupReads \/ BackupOpens \/ BackupWrites \/ BackupFails

-----------------------------------------------------------------------------
(* The end of a process and the start of the next. *)

(* The process is killed, or returns from runWorker: memory is gone, files *)
(* stay as they are.                                                       *)
Crash ==
    /\ up
    /\ up' = FALSE
    /\ mem' = 0
    /\ stage' = [s \in Savers |-> "idle"]
    /\ data' = [s \in Savers |-> Empty]
    /\ fd' = [s \in Savers |-> 0]
    /\ writeFails' = 0
    /\ UNCHANGED <<restarts, files, backupDay, day, diskOk, acked>>

(* latestBackup: the backup with the latest date, whatever it holds. *)
LatestBackup(b) ==
    LET days == {d \in DOMAIN b : b[d] # Absent}
    IN  IF days = {} THEN Absent
                     ELSE b[CHOOSE d \in days : \A e \in days : e <= d]

WholeOr(bytes, otherwise) == IF Whole(bytes) THEN bytes ELSE otherwise

(* load: the main file if it parses, else the latest backup if that does,  *)
(* else an empty store.                                                    *)
Load(m, c, b) ==
    LET fallback == WholeOr(LatestBackup(b), 0)
    IN  IF m = 0 THEN fallback ELSE WholeOr(c[m], fallback)

(* What a process started now would load. *)
Recovered == Load(main, content, backups)

Start ==
    /\ ~up /\ restarts < MaxRestarts
    /\ up' = TRUE
    /\ restarts' = restarts + 1
    /\ mem' = Recovered
    /\ UNCHANGED <<goroutines, files, backupDay, day, diskOk, writeFails, acked>>

-----------------------------------------------------------------------------
(* The environment. *)

DiskChanges ==
    /\ diskOk' = ~diskOk
    /\ UNCHANGED <<process, mem, goroutines, files, backupDay, day, writeFails, acked>>

NextDay ==
    /\ day < MaxDay
    /\ day' = day + 1
    /\ UNCHANGED <<process, mem, goroutines, files, backupDay, diskOk, writeFails, acked>>

(* The main file is damaged from outside. *)
Corrupt ==
    /\ "corrupt" \in Damage /\ main # 0
    /\ content' = [content EXCEPT ![main] = Torn]
    /\ UNCHANGED <<process, mem, goroutines, main, tmp, backups, backupDay, day,
                   diskOk, writeFails, acked>>

(* The operator follows docs/migrating.md: with the worker stopped, remove *)
(* status.json and status.json.bak.*, a pattern no backup matches.         *)
Wipe ==
    /\ "wipe" \in Damage /\ ~up /\ main # 0
    /\ main' = 0
    /\ UNCHANGED <<process, mem, goroutines, content, tmp, backups, backupDay, day,
                   diskOk, writeFails, acked>>

Environment == DiskChanges \/ NextDay \/ Corrupt \/ Wipe

Next ==
    \/ Push
    \/ \E s \in Savers : Save(s)
    \/ Backup
    \/ Crash
    \/ Start
    \/ Environment

(* A goroutine that has begun a save or a backup goes on.  The save ticker *)
(* keeps ticking and select serves it even when the backup ticker is ready *)
(* each time, hence strong fairness of starting a save.  No signal, crash  *)
(* or restart need ever come.                                              *)
Fairness ==
    /\ \A s \in Savers : WF_vars(stage[s] # "idle" /\ Save(s))
    /\ WF_vars(BackupOpens \/ BackupWrites \/ BackupFails)
    /\ SF_vars("ticker" \in Savers /\ SaveCopies("ticker"))

Spec == Init /\ [][Next]_vars
FairSpec == Spec /\ Fairness

-----------------------------------------------------------------------------
(* Properties *)

(* Types; and a saver has a file open exactly while it writes it.          *)
TypeOK ==
    /\ up \in BOOLEAN /\ diskOk \in BOOLEAN
    /\ restarts \in Nat
    /\ mem \in Versions /\ acked \in Versions
    /\ stage \in [Savers -> Stages]
    /\ data \in [Savers -> Bytes]
    /\ fd \in [Savers -> Inodes \cup {0}]
    /\ content \in [Inodes -> Bytes]
    /\ main \in Inodes \cup {0} /\ tmp \in Inodes \cup {0}
    /\ backups \in [0 .. MaxDay -> Bytes \cup {Absent}]
    /\ backupDay \in 0 .. MaxDay /\ day \in 0 .. MaxDay
    /\ writeFails \in 0 .. FailThreshold
    /\ \A s \in Savers : fd[s] # 0 <=> stage[s] = "opened"

(* status.json is never seen half written, whenever the process is killed  *)
(* and whichever write fails: save writes elsewhere and renames            *)
(* (store.go 713-719).                                                     *)
MainWhole == main # 0 => Whole(content[main])

(* What a Save reported as done is still there after a crash at any later  *)
(* moment (store.go 664-721, 854-875).                                     *)
AckedSurvives == acked <= Recovered

(* A restart never takes the status page further back than the last one    *)
(* would have: what load would recover only ever gets newer, through       *)
(* saves, failed saves, backups, crashes and restarts.                     *)
RecoveryNeverRegresses == [][Recovered' >= Recovered]_vars

(* /health tells the truth in the long run (store.go 723-759, worker.go    *)
(* 143-152): it reports a disk that stays unwritable, and it recovers with *)
(* the disk.                                                               *)
HealthFollowsDisk ==
    /\ <>[](up /\ ~diskOk) => <>[]~WriteHealthy
    /\ <>[](up /\ diskOk) => <>[]WriteHealthy

(* Every result pushed into the store reaches the disk unless the process  *)
(* or the disk fails first (worker.go 226-244).                            *)
PushesPersist ==
    \A v \in 1 .. MaxVersion :
        (up /\ mem >= v) ~> (Recovered >= v \/ ~up \/ ~diskOk)

(* A worker that keeps running replaces a missing or damaged status.json   *)
(* by a whole one, even when no new result arrives (worker.go 233-237).    *)
DamageHeals ==
    up ~> ((main # 0 /\ Whole(content[main])) \/ ~up \/ ~diskOk)

(* What the save under way is to store, until its Save is bound to fail. *)
Pending == {data[s] : s \in {t \in Savers : stage[t] \in {"copied", "opened", "written",
                                                          "renamed"}}}

Durable == INSTANCE DurableStore WITH stored <- Recovered, pending <- Pending

(* To the rest of the worker the directory with status.json, its temporary *)
(* file and its backups is a single value that a save replaces atomically  *)
(* and a start continues from (store.go 660-721, 822-875).                 *)
ImplementsDurable == Durable!Spec

-----------------------------------------------------------------------------
(* A statement of the repository that the code does not keep. *)

(* store.go 660: "Save writes the current store state to disk. Safe to     *)
(* call concurrently."  Once every Save has returned, the file is no older *)
(* than any state a Save reported as written.                              *)
ConcurrentSavesSafe ==
    (\A s \in Savers : stage[s] \in {"idle", "over"}) => acked <= Recovered
=============================================================================
