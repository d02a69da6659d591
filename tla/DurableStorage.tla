--------------------------- MODULE DurableStorage ---------------------------
(***************************************************************************)
(* DurableStorage (native/src/storage.cpp): the controller's key-value     *)
(* store, one file that is replaced as a whole by every setter and         *)
(* deleter, and the directory protocol that makes the replacement survive  *)
(* a crash: a temporary file, an intent marker, a rename, and the fsync of *)
(* the directory between them.                                             *)
(*                                                                         *)
(* The disk has two views.  `dir' is what a process sees; `durable' is     *)
(* what the last fsync of the directory made permanent.  A killed process  *)
(* leaves `dir' as it is.  After a power loss every entry is, each by      *)
(* itself, the one of `dir' or the one of `durable', and a file whose data *)
(* was not synced may be torn.  Every system call of Commit is a step of   *)
(* its own, so both crashes happen between any two of them.                *)
(***************************************************************************)
EXTENDS Naturals, FiniteSets

CONSTANTS
  Processes,             \* host processes that open the store
  Keys,                  \* SDK and authority keys
  Values,                \* opaque values
  NoValue,               \* a key without a value
  MaximumKeys,           \* kMaximumKeys, 4096
  NoFile,                \* no directory entry
  NoProcess,             \* nobody holds the lock
  CommitLimit,           \* bound of the model: commits begun
  CrashLimit             \* bound of the model: kills and power losses

ASSUME StorageAssumption ==
  /\ NoValue \notin Values
  /\ MaximumKeys \in Nat
  /\ NoProcess \notin Processes
  /\ CommitLimit \in Nat
  /\ CrashLimit \in Nat

VARIABLES
  directory,             \* the storage directory: "absent" or "present"
  mkdir_durable,         \* its own entry has reached the disk
  dir,                   \* entries of the directory as processes see them
  durable,               \* entries the last directory fsync made permanent
  holder,                \* the process that holds the flock
  pc,                    \* per process: where it is
  creating,              \* per process: Open was called with CreateNew
  values,                \* per process: values_
  next,                  \* per process: the snapshot Commit was called with
  poisoned,              \* per process: poisoned_
  vanished,              \* a power loss has undone the mkdir of the store
  commits,
  crashes

disk == <<directory, mkdir_durable, dir, durable>>
process == <<holder, pc, creating, values, next, poisoned>>
bounds == <<commits, crashes>>
vars == <<disk, process, vanished, bounds>>

Names == {"state", "temporary", "intent", "lock"}
Snapshots == [Keys -> Values \cup {NoValue}]
Empty == [k \in Keys |-> NoValue]

\* A file with its data; an unsynced one may be torn by a power loss.
Files == [data : Snapshots, whole : BOOLEAN, synced : BOOLEAN]
File(data, synced) == [data |-> data, whole |-> TRUE, synced |-> synced]
Marker == File(Empty, TRUE)
Torn(file) == [file EXCEPT !.whole = FALSE]

ASSUME NoFileAssumption == NoFile \notin Files /\ NoFile \notin Snapshots

Init ==
  /\ directory = "absent"
  /\ mkdir_durable = FALSE
  /\ dir = [n \in Names |-> NoFile]
  /\ durable = [n \in Names |-> NoFile]
  /\ holder = NoProcess
  /\ pc = [p \in Processes |-> "closed"]
  /\ creating = [p \in Processes |-> FALSE]
  /\ values = [p \in Processes |-> Empty]
  /\ next = [p \in Processes |-> Empty]
  /\ poisoned = [p \in Processes |-> FALSE]
  /\ vanished = FALSE
  /\ commits = 0
  /\ crashes = 0

Goto(p, place) == pc' = [pc EXCEPT ![p] = place]

\* The destructor, or the end of the process: the lock is released.
Leave(p) ==
  /\ Goto(p, "closed")
  /\ holder' = IF holder = p THEN NoProcess ELSE holder

-----------------------------------------------------------------------------
(* Open.                                                                   *)

\* CreateNew: the path must not exist.
MakeDirectory(p) ==
  /\ pc[p] = "closed"
  /\ directory = "absent"
  /\ directory' = "present"
  /\ creating' = [creating EXCEPT ![p] = TRUE]
  /\ Goto(p, "lockfile")
  /\ UNCHANGED <<mkdir_durable, dir, durable, holder, values, next, poisoned,
                 vanished, bounds>>

\* OpenLock, CreateNew: the lock file is created exclusively.
CreateLock(p) ==
  /\ pc[p] = "lockfile"
  /\ dir["lock"] = NoFile
  /\ dir' = [dir EXCEPT !["lock"] = Marker]
  /\ Goto(p, "flock")
  /\ UNCHANGED <<directory, mkdir_durable, durable, holder, creating, values,
                 next, poisoned, vanished, bounds>>

\* OpenLock, OpenExisting: the lock file must exist.
OpenLock(p) ==
  /\ pc[p] = "closed"
  /\ directory = "present"
  /\ dir["lock"] # NoFile
  /\ creating' = [creating EXCEPT ![p] = FALSE]
  /\ Goto(p, "flock")
  /\ UNCHANGED <<disk, holder, values, next, poisoned, vanished, bounds>>

\* OpenLock: flock does not wait.
Flock(p) ==
  /\ pc[p] = "flock"
  /\ IF holder = NoProcess THEN holder' = p /\ Goto(p, "load")
                           ELSE Goto(p, "closed") /\ UNCHANGED holder
  /\ UNCHANGED <<disk, creating, values, next, poisoned, vanished, bounds>>

CleanCommitState == dir["temporary"] = NoFile /\ dir["intent"] = NoFile

\* CleanCommitState, ReadState and ParseState of an existing store.
Readable == CleanCommitState /\ dir["state"] # NoFile /\ dir["state"].whole

LoadExisting(p) ==
  /\ pc[p] = "load" /\ ~creating[p]
  /\ Readable
  /\ values' = [values EXCEPT ![p] = dir["state"].data]
  /\ poisoned' = [poisoned EXCEPT ![p] = FALSE]
  /\ Goto(p, "idle")
  /\ UNCHANGED <<disk, holder, creating, next, vanished, bounds>>

LoadRefused(p) ==
  /\ pc[p] = "load"
  /\ IF creating[p] THEN ~CleanCommitState ELSE ~Readable
  /\ Leave(p)
  /\ UNCHANGED <<disk, creating, values, next, poisoned, vanished, bounds>>

\* Commit is called with a snapshot.
BeginCommit(p, snapshot) ==
  /\ commits < CommitLimit
  /\ commits' = commits + 1
  /\ next' = [next EXCEPT ![p] = snapshot]
  /\ Goto(p, "open")

\* CreateNew: the first snapshot is empty and is committed.
LoadNew(p) ==
  /\ pc[p] = "load" /\ creating[p]
  /\ CleanCommitState
  /\ values' = [values EXCEPT ![p] = Empty]
  /\ poisoned' = [poisoned EXCEPT ![p] = FALSE]
  /\ BeginCommit(p, Empty)
  /\ UNCHANGED <<disk, holder, creating, vanished, crashes>>

-----------------------------------------------------------------------------
(* Setters, deleters and Commit.                                           *)

Serving(p) == pc[p] = "idle" /\ ~poisoned[p]

CountOf(snapshot) == Cardinality({k \in Keys : snapshot[k] # NoValue})

SyncSetKeyValue(p, k, v) ==
  /\ Serving(p)
  /\ values[p][k] = NoValue => CountOf(values[p]) < MaximumKeys
  /\ BeginCommit(p, [values[p] EXCEPT ![k] = v])
  /\ UNCHANGED <<disk, holder, creating, values, poisoned, vanished, crashes>>

SyncDeleteKeyValue(p, k) ==
  /\ Serving(p)
  /\ values[p][k] # NoValue
  /\ BeginCommit(p, [values[p] EXCEPT ![k] = NoValue])
  /\ UNCHANGED <<disk, holder, creating, values, poisoned, vanished, crashes>>

\* One system call of Commit: the entry it changes, and where it goes on.
Call(p, from, to, entries) ==
  /\ pc[p] = from
  /\ dir' = entries
  /\ Goto(p, to)
  /\ UNCHANGED <<directory, mkdir_durable, durable, holder, creating, values,
                 next, poisoned, vanished, bounds>>

OpenTemporary(p) ==
  /\ CleanCommitState
  /\ Call(p, "open", "write",
          [dir EXCEPT !["temporary"] = Torn(File(next[p], FALSE))])

WriteTemporary(p) ==
  Call(p, "write", "sync", [dir EXCEPT !["temporary"] = File(next[p], FALSE)])

SyncTemporary(p) ==
  Call(p, "sync", "intent", [dir EXCEPT !["temporary"] = File(next[p], TRUE)])

WriteIntent(p) == Call(p, "intent", "syncintent", [dir EXCEPT !["intent"] = Marker])

\* fsync of the directory.
SyncDirectory(p, from, to) ==
  /\ pc[p] = from
  /\ durable' = dir
  /\ Goto(p, to)
  /\ UNCHANGED <<directory, mkdir_durable, dir, holder, creating, values, next,
                 poisoned, vanished, bounds>>

SyncIntent(p) == SyncDirectory(p, "syncintent", "rename")

RenameState(p) ==
  Call(p, "rename", "syncstate",
       [dir EXCEPT !["state"] = dir["temporary"], !["temporary"] = NoFile])

SyncState(p) == SyncDirectory(p, "syncstate", "unlink")

UnlinkIntent(p) == Call(p, "unlink", "syncfinal", [dir EXCEPT !["intent"] = NoFile])

\* Mutant of SyncFinal: success is returned without the last fsync.
SyncFinalSkipped(p) ==
  /\ pc[p] = "syncfinal"
  /\ values' = [values EXCEPT ![p] = next[p]]
  /\ creating' = [creating EXCEPT ![p] = FALSE]
  /\ Goto(p, "idle")
  /\ UNCHANGED <<disk, holder, next, poisoned, vanished, bounds>>

\* Commit succeeds and the caller takes the snapshot.
SyncFinal(p) ==
  /\ pc[p] = "syncfinal"
  /\ durable' = dir
  /\ values' = [values EXCEPT ![p] = next[p]]
  /\ creating' = [creating EXCEPT ![p] = FALSE]
  /\ Goto(p, "idle")
  /\ UNCHANGED <<directory, mkdir_durable, dir, holder, next, poisoned,
                 vanished, bounds>>

CommitStages == {"open", "write", "sync", "intent", "syncintent", "rename",
                 "syncstate", "unlink", "syncfinal"}

\* A call of Commit fails: the store is poisoned and nothing is undone.  A
\* store that was being created is not returned.
CommitFails(p) ==
  /\ pc[p] \in CommitStages
  /\ poisoned' = [poisoned EXCEPT ![p] = TRUE]
  /\ IF creating[p] THEN Leave(p) ELSE Goto(p, "idle") /\ UNCHANGED holder
  /\ UNCHANGED <<disk, creating, values, next, vanished, bounds>>

Close(p) ==
  /\ pc[p] = "idle"
  /\ Leave(p)
  /\ UNCHANGED <<disk, creating, values, next, poisoned, vanished, bounds>>

-----------------------------------------------------------------------------
(* Crashes.                                                                *)

Kill(p) ==
  /\ pc[p] # "closed"
  /\ crashes < CrashLimit
  /\ crashes' = crashes + 1
  /\ Leave(p)
  /\ UNCHANGED <<disk, creating, values, next, poisoned, vanished, commits>>

\* What may be left of a file.
Remains(file) ==
  IF file = NoFile \/ file.synced THEN {file}
  ELSE {[file EXCEPT !.synced = TRUE], [Torn(file) EXCEPT !.synced = TRUE]}

Survives(entries) ==
  \A n \in Names : entries[n] \in Remains(dir[n]) \cup Remains(durable[n])

Outcomes == {e \in [Names -> UNION {Remains(dir[n]) \cup Remains(durable[n]) : n \in Names}] :
               Survives(e)}

PowerLoss ==
  /\ crashes < CrashLimit
  /\ crashes' = crashes + 1
  /\ \/ /\ \E entries \in Outcomes : dir' = entries /\ durable' = entries
        /\ mkdir_durable' = (directory = "present")
        /\ UNCHANGED <<directory, vanished>>
     \/ /\ directory = "present" /\ ~mkdir_durable
        /\ vanished' = TRUE
        /\ directory' = "absent"
        /\ dir' = [n \in Names |-> NoFile]
        /\ durable' = [n \in Names |-> NoFile]
        /\ UNCHANGED mkdir_durable
  /\ pc' = [p \in Processes |-> "closed"]
  /\ holder' = NoProcess
  /\ UNCHANGED <<creating, values, next, poisoned, commits>>

-----------------------------------------------------------------------------
Opening(p) == MakeDirectory(p) \/ CreateLock(p) \/ OpenLock(p) \/ Flock(p) \/
              LoadExisting(p) \/ LoadRefused(p) \/ LoadNew(p)

Commit(p) == OpenTemporary(p) \/ WriteTemporary(p) \/ SyncTemporary(p) \/
             WriteIntent(p) \/ SyncIntent(p) \/ RenameState(p) \/ SyncState(p) \/
             UnlinkIntent(p) \/ SyncFinal(p) \/ CommitFails(p)

Setters(p) ==
  \/ \E k \in Keys, v \in Values : SyncSetKeyValue(p, k, v)
  \/ \E k \in Keys : SyncDeleteKeyValue(p, k)

Next ==
  \/ \E p \in Processes : Opening(p) \/ Setters(p) \/ Commit(p) \/ Close(p) \/ Kill(p)
  \/ PowerLoss

Spec == Init /\ [][Next]_vars
-----------------------------------------------------------------------------
(* The store as its callers see it.                                        *)

\* What a power loss now could leave of an entry.
Left(n) == Remains(dir[n]) \cup Remains(durable[n])

\* The snapshots that an Open can find, now or after a power loss.
Content ==
  IF NoFile \in Left("temporary") \cap Left("intent")
    THEN {file.data : file \in {f \in Left("state") \ {NoFile} : f.whole}}
    ELSE {}

\* What a power loss finds of a commit is what the directory shows.
Synced ==
  \A n \in {"state", "temporary", "intent"} :
    durable[n] = dir[n] /\ (dir[n] = NoFile \/ dir[n].synced)

Store == INSTANCE AtomicStore WITH
  None <- NoFile,
  content <- Content,
  firm <- IF Synced THEN Content ELSE {},
  lost <- vanished,
  reader <- [p \in Processes |-> IF Serving(p) THEN values[p] ELSE NoFile],
  writing <- [p \in Processes |-> IF pc[p] \in CommitStages THEN next[p] ELSE NoFile]

\* The directory protocol implements the atomic register: whatever fails or
\* crashes between any two system calls, Open never succeeds with an older,
\* a torn or a foreign snapshot, a setter returns success only when no power
\* loss can take its write back but one that undoes the mkdir of the store,
\* and no two processes are in the store.
StoreIsAtomic == Store!Spec
=============================================================================
