------------------------------- MODULE Backup -------------------------------
(***************************************************************************)
(* backup-to-nas.sh: a snapshot of the sources is copied into a directory  *)
(* of its own, which gets its final name when the copy is done, and old    *)
(* snapshots are pruned.  A lock keeps a second backup from running; the   *)
(* trap of every exit removes the lock's file.  Processes of the script    *)
(* run at the same time, may get a signal and may be killed.               *)
(***************************************************************************)
EXTENDS Naturals, FiniteSetsExt

CONSTANTS Process,      \* processes of the script; one that ended may be a new one
          Starts,       \* bound: how often the script is started
          Sources,      \* how many directories are copied
          KeepCount,    \* KEEP_COUNT
          RetainDays,   \* RETENTION_DAYS
          PerDay,       \* timestamps of a day
          LastStamp     \* bound: the clock

ASSUME BackupAssumption ==
    /\ {Starts, KeepCount, RetainDays} \subseteq Nat
    /\ {Sources, PerDay, LastStamp} \subseteq Nat \ {0}

VARIABLES stamp,     \* date +%Y%m%d-%H%M%S
          starts,
          lockFile,  \* the inode at LOCK_FILE, 0 if there is none
          inode,     \* the last one created
          script,    \* what each process does
          partial,   \* the directories TIMESTAMP.partial
          snapshot,  \* the directories TIMESTAMP
          promoted   \* history: the snapshots that got their final name

backupVars == <<stamp, starts, lockFile, inode, script, partial, snapshot, promoted>>

\* fd is the inode LOCK_FD is open on, 0 if unset; holds is its flock; of is
\* TIMESTAMP; ok is an exit code of 0; twice is a trap that runs for a signal
\* and then for the exit.
Ended == [at |-> "ended", fd |-> 0, holds |-> FALSE, of |-> 0, left |-> 0, failed |-> 0,
          prunes |-> {}, ok |-> TRUE, twice |-> FALSE]

Working == {"space", "sync", "promote", "prune", "remove"}

BackupTypeOK ==
    /\ stamp \in 1..LastStamp /\ starts \in 0..Starts
    /\ inode \in 0..Starts /\ lockFile \in 0..inode
    /\ {partial, snapshot, promoted} \subseteq SUBSET (1..LastStamp)
    /\ \A p \in Process :
         /\ script[p].at \in Working \union {"ended", "open", "lock", "dry", "trap", "rm"}
         /\ script[p].fd \in 0..inode /\ script[p].of \in 0..LastStamp
         /\ script[p].left \in 0..Sources /\ script[p].failed \in 0..Sources + 1
         /\ script[p].prunes \subseteq 1..LastStamp
         /\ {script[p].holds, script[p].ok, script[p].twice} \subseteq BOOLEAN

BackupInit ==
    /\ stamp = 1 /\ starts = 0 /\ lockFile = 0 /\ inode = 0
    /\ script = [p \in Process |-> Ended]
    /\ partial = {} /\ snapshot = {} /\ promoted = {}

Does(p, s) == script' = [script EXCEPT ![p] = s]

\* The trap looks at the exit code only if there is a snapshot to clean up.
Trapped(s, ok, signal) ==
    [Ended EXCEPT !.at = "trap", !.fd = s.fd, !.holds = s.holds, !.of = s.of,
                  !.ok = ok \/ s.of = 0, !.twice = signal]

Exits(p, ok) == Does(p, Trapped(script[p], ok, FALSE))

\* The script starts: it exits on its arguments, or runs without a lock (a dry
\* run, which makes no snapshot but has its name), or wants the lock.
StartScript(p) ==
    /\ script[p].at = "ended" /\ starts < Starts /\ starts' = starts + 1
    /\ \/ \E of \in {0, stamp} : Does(p, [Ended EXCEPT !.at = "dry", !.of = of])
       \/ Does(p, [Ended EXCEPT !.at = "open"])
    /\ UNCHANGED <<stamp, lockFile, inode, partial, snapshot, promoted>>

DryRunEnds(p) ==
    /\ script[p].at = "dry"
    /\ \E ok \in BOOLEAN : Exits(p, ok)
    /\ UNCHANGED <<stamp, starts, lockFile, inode, partial, snapshot, promoted>>

\* acquire_lock opens the file, which creates it ...
OpenLock(p) ==
    /\ script[p].at = "open"
    /\ \/ lockFile # 0 /\ UNCHANGED <<lockFile, inode>>
       \/ lockFile = 0 /\ inode' = inode + 1 /\ lockFile' = inode'
    /\ Does(p, [script[p] EXCEPT !.at = "lock", !.fd = lockFile'])
    /\ UNCHANGED <<stamp, starts, partial, snapshot, promoted>>

Free(i) == \A p \in Process : ~(script[p].holds /\ script[p].fd = i)

\* ... and locks what it opened, or dies.
Lock(p) ==
    /\ script[p].at = "lock"
    /\ \/ Free(script[p].fd) /\ Does(p, [script[p] EXCEPT !.at = "space", !.holds = TRUE])
       \/ ~Free(script[p].fd) /\ Exits(p, FALSE)
    /\ UNCHANGED <<stamp, starts, lockFile, inode, partial, snapshot, promoted>>

\* check_space, and the directory of this snapshot.
Prepare(p) ==
    /\ script[p].at = "space"
    /\ \/ /\ Does(p, [script[p] EXCEPT !.at = "sync", !.of = stamp, !.left = Sources])
          /\ partial' = partial \union {stamp}
       \/ Exits(p, FALSE) /\ UNCHANGED partial
    /\ UNCHANGED <<stamp, starts, lockFile, inode, snapshot, promoted>>

\* rsync of one source, which fails when its directory is gone.
Sync(p) ==
    /\ script[p].at = "sync" /\ script[p].left > 0
    /\ \E fails \in {TRUE, script[p].of \notin partial} :
         Does(p, [script[p] EXCEPT !.left = @ - 1, !.failed = @ + IF fails THEN 1 ELSE 0])
    /\ UNCHANGED <<stamp, starts, lockFile, inode, partial, snapshot, promoted>>

\* run_verify, if asked for: a mismatch counts like a source that failed.
VerifyCopy(p) ==
    /\ script[p].at = "sync" /\ script[p].left = 0
    /\ \E mismatch \in 0..1 :
         Does(p, [script[p] EXCEPT !.at = "promote", !.failed = @ + mismatch])
    /\ UNCHANGED <<stamp, starts, lockFile, inode, partial, snapshot, promoted>>

\* The snapshot is discarded, or gets its final name; mv fails when the
\* directory is gone, and moves it into a snapshot of the same second.
Promote(p) ==
    LET t == script[p].of IN
    /\ script[p].at = "promote"
    /\ partial' = partial \ {t}
    /\ \/ /\ script[p].failed = Sources
          /\ Does(p, Trapped([script[p] EXCEPT !.of = 0], FALSE, FALSE))
          /\ UNCHANGED <<snapshot, promoted>>
       \/ /\ script[p].failed # Sources /\ t \in partial
          /\ Does(p, [script[p] EXCEPT !.at = "prune", !.of = 0, !.failed = 0])
          /\ snapshot' = snapshot \union {t} /\ promoted' = promoted \union {t}
       \/ /\ script[p].failed # Sources /\ t \notin partial
          /\ Exits(p, FALSE) /\ UNCHANGED <<snapshot, promoted>>
    /\ UNCHANGED <<stamp, starts, lockFile, inode>>

OldEnough(s) == (stamp \div PerDay) - (s \div PerDay) >= RetainDays

PrunedFromTheOldest ==
    {s \in snapshot : OldEnough(s) /\ Cardinality({n \in snapshot : n < s}) >= KeepCount}

\* Snapshots to prune: all but the newest KeepCount, when old enough.
Pruned == {s \in snapshot : OldEnough(s) /\ Cardinality({n \in snapshot : n > s}) >= KeepCount}

ListSnapshots(p) ==
    /\ script[p].at = "prune"
    /\ Does(p, [script[p] EXCEPT !.at = "remove", !.prunes = Pruned])
    /\ UNCHANGED <<stamp, starts, lockFile, inode, partial, snapshot, promoted>>

RemoveSnapshot(p) ==
    /\ script[p].at = "remove" /\ script[p].prunes # {}
    /\ LET s == Max(script[p].prunes) IN
         /\ snapshot' = snapshot \ {s}
         /\ Does(p, [script[p] EXCEPT !.prunes = @ \ {s}])
    /\ UNCHANGED <<stamp, starts, lockFile, inode, partial, promoted>>

\* Report, state file, notification, exit.
Report(p) ==
    /\ script[p].at = "remove" /\ script[p].prunes = {}
    /\ Exits(p, TRUE)
    /\ UNCHANGED <<stamp, starts, lockFile, inode, partial, snapshot, promoted>>

-----------------------------------------------------------------------------
(* cleanup, the trap of EXIT, INT and TERM. *)

\* A signal: the trap has the exit code of the last command, and exits.
Signalled(p) ==
    /\ script[p].at \notin {"ended", "trap", "rm"}
    /\ \E ok \in BOOLEAN : Does(p, Trapped(script[p], ok, TRUE))
    /\ UNCHANGED <<stamp, starts, lockFile, inode, partial, snapshot, promoted>>

Unlock(p) ==
    /\ script[p].at = "trap"
    /\ Does(p, [script[p] EXCEPT !.at = "rm", !.holds = FALSE, !.fd = 0])
    /\ UNCHANGED <<stamp, starts, lockFile, inode, partial, snapshot, promoted>>

\* rm -f of the file, whoever's lock it is, and of an unfinished snapshot.
RemoveLock(p) ==
    /\ script[p].at = "rm"
    /\ lockFile' = 0
    /\ partial' = IF script[p].ok THEN partial ELSE partial \ {script[p].of}
    /\ Does(p, IF script[p].twice THEN [script[p] EXCEPT !.at = "trap", !.twice = FALSE]
                                  ELSE Ended)
    /\ UNCHANGED <<stamp, starts, inode, snapshot, promoted>>

\* A crash or SIGKILL runs no trap: the lock is gone, its file stays.
ScriptKilled(p) ==
    /\ script[p].at # "ended" /\ Does(p, Ended)
    /\ UNCHANGED <<stamp, starts, lockFile, inode, partial, snapshot, promoted>>

StampPasses ==
    /\ stamp < LastStamp /\ stamp' = stamp + 1
    /\ UNCHANGED <<starts, lockFile, inode, script, partial, snapshot, promoted>>

BackupNext ==
    \/ StampPasses
    \/ \E p \in Process :
         \/ StartScript(p) \/ DryRunEnds(p) \/ OpenLock(p) \/ Lock(p) \/ Prepare(p) \/ Sync(p)
         \/ VerifyCopy(p) \/ Promote(p) \/ ListSnapshots(p) \/ RemoveSnapshot(p) \/ Report(p)
         \/ Signalled(p) \/ Unlock(p) \/ RemoveLock(p) \/ ScriptKilled(p)

BackupSpec == BackupInit /\ [][BackupNext]_backupVars

-----------------------------------------------------------------------------
(* Properties. *)

\* Pruning keeps the newest snapshots: the KeepCount latest of all that were
\* ever finished are there, whatever backups overlap, fail, prune by a listing
\* of before or are killed.
NewestStay ==
    {s \in promoted : Cardinality({n \in promoted : n > s}) < KeepCount} \subseteq snapshot

\* "Another backup instance is already running": while one process is between
\* its lock and its trap no other is.
BackupsAlone ==
    \A p, q \in Process : script[p].at \in Working /\ script[q].at \in Working => p = q
=============================================================================
