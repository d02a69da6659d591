------------------------- MODULE RootAuthority_proofs -------------------------
(***************************************************************************)
(* Proofs about DurableStorage and the RootAuthority on it, for every set  *)
(* of processes, keys and values and any number of commits and crashes:    *)
(* the store implements the atomic register, and an identity that a caller *)
(* was given is kept.                                                      *)
(***************************************************************************)
EXTENDS RootAuthority, TLAPS

-----------------------------------------------------------------------------
(* The store.                                                              *)

\* Places where a process holds the lock.
Inside == CommitStages \cup {"load", "idle"}

TypeOK ==
  /\ directory \in {"absent", "present"}
  /\ dir \in [Names -> Files \cup {NoFile}]
  /\ durable \in [Names -> Files \cup {NoFile}]
  /\ pc \in [Processes -> Inside \cup {"closed", "lockfile", "flock"}]
  /\ creating \in [Processes -> BOOLEAN]
  /\ values \in [Processes -> Snapshots]
  /\ next \in [Processes -> Snapshots]
  /\ poisoned \in [Processes -> BOOLEAN]

\* The lock.
Locked == \A p \in Processes : pc[p] \in Inside => holder = p

\* The state file is whole and synced, and where the two views of it differ
\* the marker is in both.
Settled ==
  /\ dir["state"] # NoFile => dir["state"].whole /\ dir["state"].synced
  /\ durable["state"] # NoFile => durable["state"].whole /\ durable["state"].synced
  /\ dir["state"] # durable["state"] => dir["intent"] # NoFile /\ durable["intent"] # NoFile

\* A store that is served is clean and holds what is served.
Served ==
  \A p \in Processes : Serving(p) =>
    /\ CleanCommitState
    /\ dir["state"] = File(values[p], TRUE)

\* What a commit has done to the directory before each of its calls.
Progressing ==
  \A p \in Processes :
    /\ pc[p] \in CommitStages => ~poisoned[p]
    /\ pc[p] \in {"write", "sync", "intent"} =>
         dir["temporary"] # NoFile /\ dir["intent"] = NoFile
    /\ pc[p] = "sync" => dir["temporary"] = File(next[p], FALSE)
    /\ pc[p] \in {"intent", "syncintent", "rename"} =>
         dir["temporary"] = File(next[p], TRUE)
    /\ pc[p] \in {"syncintent", "rename", "syncstate", "unlink"} => dir["intent"] # NoFile
    /\ pc[p] \in {"rename", "syncstate"} => durable["intent"] # NoFile
    /\ pc[p] \in {"syncstate", "unlink", "syncfinal"} =>
         dir["state"] = File(next[p], TRUE) /\ dir["temporary"] = NoFile
    /\ pc[p] \in {"unlink", "syncfinal"} => durable["state"] = dir["state"]
    /\ pc[p] = "syncfinal" => dir["intent"] = NoFile

\* A store that is being created has no state yet, and nobody else is in it;
\* without the directory there is nothing.
Fresh ==
  /\ directory = "absent" =>
       /\ dir = [n \in Names |-> NoFile] /\ durable = [n \in Names |-> NoFile]
       /\ \A p \in Processes : pc[p] = "closed"
  /\ \A p \in Processes : creating[p] /\ pc[p] \in {"lockfile", "flock", "load"} =>
       /\ dir["state"] = NoFile /\ durable["state"] = NoFile
       /\ \A q \in Processes \ {p} :
            pc[q] # "closed" => ~creating[q] /\ pc[q] \in {"flock", "load"}

SInv == TypeOK /\ Locked /\ Settled /\ Served /\ Progressing /\ Fresh
-----------------------------------------------------------------------------
(* The authority.                                                          *)

\* The three values of a snapshot are those of one generation.
Of(s, g) == s[RootKey] = g /\ s[RootCertificate] = g /\ s[Ipk] = g

\* No two values of different generations.
Uniform(s) ==
  \A k, l \in {RootKey, RootCertificate, Ipk} :
    s[k] # NoValue /\ s[l] # NoValue => s[k] = s[l]

\* The snapshot a process works on: the one it writes, or the one it serves.
Current(p) == IF pc[p] \in CommitStages THEN next[p] ELSE values[p]

Working(p) == pc[p] \in CommitStages \/ Serving(p)

ATypeOK ==
  /\ authority \in [Processes -> Values \cup {0}]
  /\ step \in [Processes -> 0..4]
  /\ made \in [Processes -> BOOLEAN]
  /\ minted \in Nat
  /\ established \in Values \cup {0}
  /\ \A p \in Processes : pc[p] \notin CommitStages \cup {"idle"} => authority[p] = 0 /\ step[p] = 0
  /\ \A p \in Processes : step[p] # 0 => authority[p] = 0 /\ made[p] /\ minted \in Values

\* Every snapshot that is or may become the state is uniform.
OneGeneration ==
  /\ dir["state"] # NoFile => Uniform(dir["state"].data)
  /\ durable["state"] # NoFile => Uniform(durable["state"].data)
  /\ \A p \in Processes : Working(p) => Uniform(Current(p))

\* How far Create has come.
Creation ==
  \A p \in Processes : Working(p) /\ step[p] # 0 =>
    \A i \in 1..3 : Current(p)[Written[i]] = IF i < step[p] THEN minted ELSE NoValue

\* An authority is that of the snapshot it came with.
Owned == \A p \in Processes : Working(p) /\ authority[p] # 0 => Of(Current(p), authority[p])

\* An identity that was given out is in every snapshot a later host can see.
Kept ==
  established # 0 /\ ~vanished =>
    /\ directory = "present"
    /\ dir["state"] # NoFile /\ Of(dir["state"].data, established)
    /\ durable["state"] # NoFile /\ Of(durable["state"].data, established)
    /\ \A p \in Processes : Working(p) => Of(Current(p), established)
    /\ \A p \in Processes : authority[p] # 0 => authority[p] = established

\* Nobody is the owner of an authority before one was given out.
Given == established = 0 => \A p \in Processes : authority[p] = 0

AInv == SInv /\ ATypeOK /\ OneGeneration /\ Creation /\ Owned /\ Kept /\ Given
-----------------------------------------------------------------------------
(* Files.                                                                  *)

\* Files are not the missing entry, and have the fields they are given.
LEMMA FileIs ==
  ASSUME NEW d \in Snapshots, NEW b \in BOOLEAN
  PROVE  /\ File(d, b) \in Files /\ File(d, b) # NoFile
         /\ File(d, b).data = d /\ File(d, b).whole /\ File(d, b).synced = b
         /\ Torn(File(d, b)) \in Files /\ Torn(File(d, b)) # NoFile
  <1>1. File(d, b) \in Files BY DEF File, Files
  <1>2. Torn(File(d, b)) \in Files BY DEF File, Torn, Files
  <1>3. File(d, b).data = d /\ File(d, b).whole BY DEF File
  <1>4. File(d, b).synced = b BY Zenon DEF File
  <1> QED BY <1>1, <1>2, <1>3, <1>4, NoFileAssumption

\* The empty snapshot and the marker.
LEMMA MarkerIs == Empty \in Snapshots /\ Marker \in Files /\ Marker # NoFile
  <1>1. Empty \in Snapshots BY DEF Empty, Snapshots
  <1> QED BY <1>1, FileIs DEF Marker

\* What a power loss leaves of a file: nothing that was not there, all of it
\* synced, and a synced file as it was.
LEMMA RemainsIs ==
  ASSUME NEW f \in Files \cup {NoFile}
  PROVE  /\ Remains(f) \subseteq Files \cup {NoFile}
         /\ NoFile \in Remains(f) <=> f = NoFile
         /\ f = NoFile => Remains(f) = {NoFile}
         /\ f # NoFile /\ f.synced => Remains(f) = {f}
         /\ \A r \in Remains(f) : r # NoFile => r.synced
  <1>1. CASE f = NoFile BY <1>1 DEF Remains
  <1>2. CASE f # NoFile
    <2>1. f \in Files BY <1>2
    <2>2. CASE f.synced BY <1>2, <2>1, <2>2, NoFileAssumption DEF Remains
    <2>3. CASE ~f.synced
      <3> DEFINE a == [f EXCEPT !.synced = TRUE]
                 b == [Torn(f) EXCEPT !.synced = TRUE]
      <3>1. a \in Files /\ a.synced BY <2>1 DEF Files
      <3>2. b \in Files /\ b.synced BY <2>1 DEF Files, Torn
      <3>3. Remains(f) = {a, b} BY <1>2, <2>3 DEF Remains
      <3> QED BY <1>2, <2>3, <3>1, <3>2, <3>3, NoFileAssumption
    <2> QED BY <2>2, <2>3
  <1> QED BY <1>1, <1>2

-----------------------------------------------------------------------------
(* The invariant of the store.                                             *)

\* No store yet.
LEMMA InitSInv == Init => SInv
  <1> SUFFICES ASSUME Init PROVE SInv OBVIOUS
  <1> USE DEF Init
  <1>1. TypeOK BY MarkerIs DEF TypeOK, Names
  <1>2. Locked BY DEF Locked, Inside, CommitStages
  <1>3. Settled BY DEF Settled, Names
  <1>4. Served BY DEF Served, Serving
  <1>5. Progressing BY DEF Progressing, CommitStages
  <1>6. Fresh BY DEF Fresh
  <1> QED BY <1>1, <1>2, <1>3, <1>4, <1>5, <1>6 DEF SInv

\* Who is inside is alone there.
LEMMA AloneInside ==
  ASSUME SInv, NEW p \in Processes, pc[p] \in Inside
  PROVE  holder = p /\ \A q \in Processes \ {p} : pc[q] \notin Inside
  BY DEF SInv, Locked

USE DEF disk, process, bounds, Goto

\* Open, up to the first commit.
LEMMA OpeningStep ==
  ASSUME SInv, NEW p \in Processes, Opening(p)
  PROVE  SInv'
  <1> USE DEF SInv
  <1>1. CASE MakeDirectory(p)
    <2> USE <1>1 DEF MakeDirectory
    <2>1. TypeOK' BY DEF TypeOK
    <2>2. Locked' BY DEF Locked, TypeOK, Inside, CommitStages
    <2>3. Settled' BY DEF Settled
    <2>4. Served' BY DEF Served, TypeOK, Serving, CleanCommitState
    <2>5. Progressing' BY DEF Progressing, TypeOK, CommitStages
    <2>6. Fresh' BY DEF Fresh, TypeOK, Names
    <2> QED BY <2>1, <2>2, <2>3, <2>4, <2>5, <2>6
  <1>2. CASE CreateLock(p)
    <2> USE <1>2 DEF CreateLock
    <2>0. /\ dir'["state"] = dir["state"] /\ dir'["intent"] = dir["intent"]
          /\ dir'["temporary"] = dir["temporary"]
      BY DEF TypeOK, Names
    <2>1. TypeOK' BY MarkerIs DEF TypeOK
    <2>2. Locked' BY DEF Locked, TypeOK, Inside, CommitStages
    <2>3. Settled' BY <2>0 DEF Settled
    <2>4. Served' BY <2>0 DEF Served, TypeOK, Serving, CleanCommitState
    <2>5. Progressing' BY <2>0 DEF Progressing, TypeOK, CommitStages
    <2>6. Fresh' BY <2>0 DEF Fresh, TypeOK
    <2> QED BY <2>1, <2>2, <2>3, <2>4, <2>5, <2>6
  <1>3. CASE OpenLock(p)
    <2> USE <1>3 DEF OpenLock
    <2>1. TypeOK' BY DEF TypeOK
    <2>2. Locked' BY DEF Locked, TypeOK, Inside, CommitStages
    <2>3. Settled' BY DEF Settled
    <2>4. Served' BY DEF Served, TypeOK, Serving, CleanCommitState
    <2>5. Progressing' BY DEF Progressing, TypeOK, CommitStages
    <2>6. Fresh' BY DEF Fresh, TypeOK
    <2> QED BY <2>1, <2>2, <2>3, <2>4, <2>5, <2>6
  <1>4. CASE Flock(p)
    <2> USE <1>4 DEF Flock
    <2>1. TypeOK' BY DEF TypeOK, Inside
    <2>2. Locked' BY StorageAssumption DEF Locked, TypeOK, Inside, CommitStages
    <2>3. Settled' BY DEF Settled
    <2>4. Served' BY DEF Served, TypeOK, Serving, CleanCommitState
    <2>5. Progressing'
      <3>1. UNCHANGED <<dir, durable, next, poisoned>> OBVIOUS
      <3>2. \A q \in Processes : pc'[q] \in CommitStages => pc'[q] = pc[q]
        BY DEF TypeOK, CommitStages
      <3> QED BY <3>1, <3>2 DEF Progressing, CommitStages
    <2>6. Fresh' BY DEF Fresh, TypeOK
    <2> QED BY <2>1, <2>2, <2>3, <2>4, <2>5, <2>6
  <1>5. CASE LoadExisting(p)
    <2> USE <1>5 DEF LoadExisting
    <2>0. /\ dir["state"] \in Files /\ dir["state"].whole /\ dir["state"].synced
          /\ dir["state"].data \in Snapshots /\ CleanCommitState
      BY DEF TypeOK, Names, Readable, Settled, Files
    <2>1. TypeOK' BY <2>0 DEF TypeOK, Inside
    <2>2. Locked' BY DEF Locked, TypeOK, Inside, CommitStages
    <2>3. Settled' BY DEF Settled
    <2>4. Served'
      <3>1. dir["state"] = File(dir["state"].data, TRUE) BY <2>0 DEF Files, File
      <3>2. \A q \in Processes \ {p} : ~Serving(q)
        BY AloneInside DEF Inside, Serving
      <3> QED BY <2>0, <3>1, <3>2 DEF Served, TypeOK, Serving, CleanCommitState
    <2>5. Progressing' BY DEF Progressing, TypeOK, CommitStages
    <2>6. Fresh'
      <3>1. directory = "present" /\ dir["state"] # NoFile BY DEF Fresh, TypeOK, Readable
      <3> QED BY <3>1 DEF Fresh, TypeOK
    <2> QED BY <2>1, <2>2, <2>3, <2>4, <2>5, <2>6
  <1>6. CASE LoadRefused(p)
    <2> USE <1>6 DEF LoadRefused, Leave
    <2>1. TypeOK' BY DEF TypeOK
    <2>2. Locked' BY AloneInside DEF Locked, TypeOK, Inside, CommitStages
    <2>3. Settled' BY DEF Settled
    <2>4. Served' BY DEF Served, TypeOK, Serving, CleanCommitState
    <2>5. Progressing' BY DEF Progressing, TypeOK, CommitStages
    <2>6. Fresh' BY DEF Fresh, TypeOK
    <2> QED BY <2>1, <2>2, <2>3, <2>4, <2>5, <2>6
  <1>7. CASE LoadNew(p)
    <2> USE <1>7 DEF LoadNew, BeginCommit
    <2>1. TypeOK' BY MarkerIs DEF TypeOK, Inside, CommitStages
    <2>2. Locked' BY DEF Locked, TypeOK, Inside, CommitStages
    <2>3. Settled' BY DEF Settled
    <2>4. Served' BY DEF Served, TypeOK, Serving, CleanCommitState
    <2>5. Progressing' BY DEF Progressing, TypeOK, CommitStages
    <2>6. Fresh'
      <3>1. directory = "present" BY DEF Fresh, TypeOK
      <3>2. \A q \in Processes \ {p} : pc[q] # "closed" => ~creating[q]
        BY DEF Fresh
      <3> QED BY <3>1, <3>2 DEF Fresh, TypeOK
    <2> QED BY <2>1, <2>2, <2>3, <2>4, <2>5, <2>6
  <1> QED BY <1>1, <1>2, <1>3, <1>4, <1>5, <1>6, <1>7 DEF Opening

\* A setter or a deleter begins a commit.
LEMMA SetterStep ==
  ASSUME SInv, NEW p \in Processes, Setters(p)
  PROVE  SInv'
  <1> USE DEF SInv
  <1>1. PICK snapshot \in Snapshots :
          /\ Serving(p)
          /\ BeginCommit(p, snapshot)
          /\ UNCHANGED <<disk, holder, creating, values, poisoned, vanished, crashes>>
    <2>1. values[p] \in Snapshots BY DEF TypeOK
    <2>2. CASE \E k \in Keys, v \in Values : SyncSetKeyValue(p, k, v)
      <3>1. PICK k \in Keys, v \in Values : SyncSetKeyValue(p, k, v) BY <2>2
      <3>2. [values[p] EXCEPT ![k] = v] \in Snapshots BY <2>1 DEF Snapshots
      <3> QED BY <3>1, <3>2 DEF SyncSetKeyValue
    <2>3. CASE \E k \in Keys : SyncDeleteKeyValue(p, k)
      <3>1. PICK k \in Keys : SyncDeleteKeyValue(p, k) BY <2>3
      <3>2. [values[p] EXCEPT ![k] = NoValue] \in Snapshots BY <2>1 DEF Snapshots
      <3> QED BY <3>1, <3>2 DEF SyncDeleteKeyValue
    <2> QED BY <2>2, <2>3 DEF Setters
  <1> USE <1>1 DEF BeginCommit, Serving
  <1>2. TypeOK' BY DEF TypeOK, Inside, CommitStages
  <1>3. Locked' BY DEF Locked, TypeOK, Inside, CommitStages
  <1>4. Settled' BY DEF Settled
  <1>5. Served' BY DEF Served, TypeOK, CleanCommitState
  <1>6. Progressing' BY DEF Progressing, TypeOK, CommitStages
  <1>7. Fresh' BY DEF Fresh, TypeOK
  <1> QED BY <1>2, <1>3, <1>4, <1>5, <1>6, <1>7

\* A call of Commit by the process that holds the lock changes the disk only.
LEMMA CommitFrame ==
  ASSUME SInv, NEW p \in Processes, NEW from \in CommitStages, NEW to \in CommitStages,
         pc[p] = from, pc' = [pc EXCEPT ![p] = to],
         UNCHANGED <<directory, holder, creating, values, next, poisoned>>
  PROVE  /\ Locked' /\ Served'
         /\ \A q \in Processes : pc'[q] \in CommitStages <=> q = p
         /\ \A q \in Processes \ {p} : pc'[q] = pc[q] /\ ~(creating[q] /\ pc[q] \in {"lockfile", "flock", "load"})
         /\ directory = "present" /\ ~poisoned[p]
         /\ pc'[p] = to /\ next[p] \in Snapshots
  <1> USE DEF SInv
  <1>1. /\ holder = p /\ \A q \in Processes \ {p} : pc[q] \notin Inside
    BY AloneInside DEF Inside
  <1>2. pc[p] = from /\ pc'[p] = to /\ \A q \in Processes \ {p} : pc'[q] = pc[q]
    BY DEF TypeOK
  <1>3. Locked' BY <1>1, <1>2 DEF Locked, Inside
  <1>4. \A q \in Processes : ~Serving(q)'
    BY <1>1, <1>2 DEF Serving, Inside, CommitStages
  <1>5. \A q \in Processes : pc'[q] \in CommitStages <=> q = p
    BY <1>1, <1>2 DEF Inside
  <1>6. \A q \in Processes \ {p} : ~(creating[q] /\ pc[q] \in {"lockfile", "flock", "load"})
    BY DEF Fresh, CommitStages
  <1>7. directory = "present" /\ ~poisoned[p] /\ next[p] \in Snapshots
    BY DEF Fresh, Progressing, TypeOK, CommitStages
  <1> QED BY <1>2, <1>3, <1>4, <1>5, <1>6, <1>7 DEF Served

\* The calls of Commit.
LEMMA CommitStep ==
  ASSUME SInv, NEW p \in Processes,
         \/ OpenTemporary(p) \/ WriteTemporary(p) \/ SyncTemporary(p) \/ WriteIntent(p)
         \/ SyncIntent(p) \/ RenameState(p) \/ SyncState(p) \/ UnlinkIntent(p)
  PROVE  SInv'
  <1> USE DEF SInv
  <1>1. CASE OpenTemporary(p)
    <2>1. /\ pc[p] = "open" /\ pc' = [pc EXCEPT ![p] = "write"]
          /\ UNCHANGED <<directory, holder, creating, values, next, poisoned>>
          /\ CleanCommitState /\ durable' = durable
          /\ dir' = [dir EXCEPT !["temporary"] = Torn(File(next[p], FALSE))]
      BY <1>1 DEF OpenTemporary, Call, SyncDirectory
    <2>2. "open" \in CommitStages /\ "write" \in CommitStages BY DEF CommitStages
    <2>3. /\ Locked' /\ Served'
          /\ \A q \in Processes : pc'[q] \in CommitStages <=> q = p
          /\ \A q \in Processes \ {p} : pc'[q] = pc[q] /\ ~(creating[q] /\ pc[q] \in {"lockfile", "flock", "load"})
          /\ directory = "present" /\ ~poisoned[p]
          /\ pc'[p] = "write" /\ next[p] \in Snapshots
      BY <2>1, <2>2, CommitFrame
    <2>4. /\ dir' \in [Names -> Files \cup {NoFile}] /\ dir'["temporary"] # NoFile
          /\ dir'["state"] = dir["state"] /\ dir'["intent"] = dir["intent"] /\ dir["intent"] = NoFile
      BY <2>1, <2>3, FileIs DEF TypeOK, Names, CleanCommitState
    <2>5. TypeOK' BY <2>1, <2>2, <2>4 DEF TypeOK, Inside
    <2>6. Settled' BY <2>1, <2>4 DEF Settled, Progressing
    <2>7. Progressing' BY <2>1, <2>2, <2>3, <2>4 DEF Progressing, CommitStages
    <2>8. Fresh' BY <2>1, <2>3 DEF Fresh
    <2> QED BY <2>3, <2>5, <2>6, <2>7, <2>8
  <1>2. CASE WriteTemporary(p)
    <2>1. /\ pc[p] = "write" /\ pc' = [pc EXCEPT ![p] = "sync"]
          /\ UNCHANGED <<directory, holder, creating, values, next, poisoned>>
          /\ durable' = durable
          /\ dir' = [dir EXCEPT !["temporary"] = File(next[p], FALSE)]
      BY <1>2 DEF WriteTemporary, Call, SyncDirectory
    <2>2. "write" \in CommitStages /\ "sync" \in CommitStages BY DEF CommitStages
    <2>3. /\ Locked' /\ Served'
          /\ \A q \in Processes : pc'[q] \in CommitStages <=> q = p
          /\ \A q \in Processes \ {p} : pc'[q] = pc[q] /\ ~(creating[q] /\ pc[q] \in {"lockfile", "flock", "load"})
          /\ directory = "present" /\ ~poisoned[p]
          /\ pc'[p] = "sync" /\ next[p] \in Snapshots
      BY <2>1, <2>2, CommitFrame
    <2>4. /\ dir' \in [Names -> Files \cup {NoFile}] /\ dir'["temporary"] = File(next[p], FALSE) /\ dir'["temporary"] # NoFile
          /\ dir'["state"] = dir["state"] /\ dir'["intent"] = dir["intent"]
      BY <2>1, <2>3, FileIs DEF TypeOK, Names
    <2>5. TypeOK' BY <2>1, <2>2, <2>4 DEF TypeOK, Inside
    <2>6. Settled' BY <2>1, <2>4 DEF Settled, Progressing
    <2>7. Progressing' BY <2>1, <2>2, <2>3, <2>4 DEF Progressing, CommitStages
    <2>8. Fresh' BY <2>1, <2>3 DEF Fresh
    <2> QED BY <2>3, <2>5, <2>6, <2>7, <2>8
  <1>3. CASE SyncTemporary(p)
    <2>1. /\ pc[p] = "sync" /\ pc' = [pc EXCEPT ![p] = "intent"]
          /\ UNCHANGED <<directory, holder, creating, values, next, poisoned>>
          /\ durable' = durable
          /\ dir' = [dir EXCEPT !["temporary"] = File(next[p], TRUE)]
      BY <1>3 DEF SyncTemporary, Call, SyncDirectory
    <2>2. "sync" \in CommitStages /\ "intent" \in CommitStages BY DEF CommitStages
    <2>3. /\ Locked' /\ Served'
          /\ \A q \in Processes : pc'[q] \in CommitStages <=> q = p
          /\ \A q \in Processes \ {p} : pc'[q] = pc[q] /\ ~(creating[q] /\ pc[q] \in {"lockfile", "flock", "load"})
          /\ directory = "present" /\ ~poisoned[p]
          /\ pc'[p] = "intent" /\ next[p] \in Snapshots
      BY <2>1, <2>2, CommitFrame
    <2>4. /\ dir' \in [Names -> Files \cup {NoFile}] /\ dir'["temporary"] = File(next[p], TRUE) /\ dir'["temporary"] # NoFile
          /\ dir'["state"] = dir["state"] /\ dir'["intent"] = dir["intent"]
      BY <2>1, <2>3, FileIs DEF TypeOK, Names
    <2>5. TypeOK' BY <2>1, <2>2, <2>4 DEF TypeOK, Inside
    <2>6. Settled' BY <2>1, <2>4 DEF Settled, Progressing
    <2>7. Progressing' BY <2>1, <2>2, <2>3, <2>4 DEF Progressing, CommitStages
    <2>8. Fresh' BY <2>1, <2>3 DEF Fresh
    <2> QED BY <2>3, <2>5, <2>6, <2>7, <2>8
  <1>4. CASE WriteIntent(p)
    <2>1. /\ pc[p] = "intent" /\ pc' = [pc EXCEPT ![p] = "syncintent"]
          /\ UNCHANGED <<directory, holder, creating, values, next, poisoned>>
          /\ durable' = durable
          /\ dir' = [dir EXCEPT !["intent"] = Marker]
      BY <1>4 DEF WriteIntent, Call, SyncDirectory
    <2>2. "intent" \in CommitStages /\ "syncintent" \in CommitStages BY DEF CommitStages
    <2>3. /\ Locked' /\ Served'
          /\ \A q \in Processes : pc'[q] \in CommitStages <=> q = p
          /\ \A q \in Processes \ {p} : pc'[q] = pc[q] /\ ~(creating[q] /\ pc[q] \in {"lockfile", "flock", "load"})
          /\ directory = "present" /\ ~poisoned[p]
          /\ pc'[p] = "syncintent" /\ next[p] \in Snapshots
      BY <2>1, <2>2, CommitFrame
    <2>4. /\ dir' \in [Names -> Files \cup {NoFile}] /\ dir'["intent"] # NoFile
          /\ dir'["state"] = dir["state"] /\ dir'["temporary"] = dir["temporary"] /\ dir["intent"] = NoFile
      BY <2>1, MarkerIs DEF TypeOK, Names, Progressing
    <2>5. TypeOK' BY <2>1, <2>2, <2>4 DEF TypeOK, Inside
    <2>6. Settled' BY <2>1, <2>4 DEF Settled, Progressing
    <2>7. Progressing' BY <2>1, <2>2, <2>3, <2>4 DEF Progressing, CommitStages
    <2>8. Fresh' BY <2>1, <2>3 DEF Fresh
    <2> QED BY <2>3, <2>5, <2>6, <2>7, <2>8
  <1>5. CASE SyncIntent(p)
    <2>1. /\ pc[p] = "syncintent" /\ pc' = [pc EXCEPT ![p] = "rename"]
          /\ UNCHANGED <<directory, holder, creating, values, next, poisoned>>
          /\ durable' = dir /\ dir' = dir
      BY <1>5 DEF SyncIntent, Call, SyncDirectory
    <2>2. "syncintent" \in CommitStages /\ "rename" \in CommitStages BY DEF CommitStages
    <2>3. /\ Locked' /\ Served'
          /\ \A q \in Processes : pc'[q] \in CommitStages <=> q = p
          /\ \A q \in Processes \ {p} : pc'[q] = pc[q] /\ ~(creating[q] /\ pc[q] \in {"lockfile", "flock", "load"})
          /\ directory = "present" /\ ~poisoned[p]
          /\ pc'[p] = "rename" /\ next[p] \in Snapshots
      BY <2>1, <2>2, CommitFrame
    <2>4. dir["intent"] # NoFile BY <2>1 DEF Progressing
    <2>5. TypeOK' BY <2>1, <2>2, <2>4 DEF TypeOK, Inside
    <2>6. Settled' BY <2>1, <2>4 DEF Settled, Progressing
    <2>7. Progressing' BY <2>1, <2>2, <2>3, <2>4 DEF Progressing, CommitStages
    <2>8. Fresh' BY <2>1, <2>3 DEF Fresh
    <2> QED BY <2>3, <2>5, <2>6, <2>7, <2>8
  <1>6. CASE RenameState(p)
    <2>1. /\ pc[p] = "rename" /\ pc' = [pc EXCEPT ![p] = "syncstate"]
          /\ UNCHANGED <<directory, holder, creating, values, next, poisoned>>
          /\ durable' = durable
          /\ dir' = [dir EXCEPT !["state"] = dir["temporary"], !["temporary"] = NoFile]
      BY <1>6 DEF RenameState, Call, SyncDirectory
    <2>2. "rename" \in CommitStages /\ "syncstate" \in CommitStages BY DEF CommitStages
    <2>3. /\ Locked' /\ Served'
          /\ \A q \in Processes : pc'[q] \in CommitStages <=> q = p
          /\ \A q \in Processes \ {p} : pc'[q] = pc[q] /\ ~(creating[q] /\ pc[q] \in {"lockfile", "flock", "load"})
          /\ directory = "present" /\ ~poisoned[p]
          /\ pc'[p] = "syncstate" /\ next[p] \in Snapshots
      BY <2>1, <2>2, CommitFrame
    <2>4. /\ dir' \in [Names -> Files \cup {NoFile}] /\ dir'["state"] = File(next[p], TRUE)
          /\ dir'["temporary"] = NoFile /\ dir'["intent"] = dir["intent"]
          /\ dir'["state"].whole /\ dir'["state"].synced
          /\ dir["intent"] # NoFile /\ durable["intent"] # NoFile
      <3>1. /\ dir["temporary"] = File(next[p], TRUE)
            /\ dir["intent"] # NoFile /\ durable["intent"] # NoFile
        BY <2>1 DEF Progressing
      <3>2. dir' \in [Names -> Files \cup {NoFile}] BY <2>1 DEF TypeOK, Names
      <3>3. /\ dir'["state"] = dir["temporary"] /\ dir'["temporary"] = NoFile
            /\ dir'["intent"] = dir["intent"]
        BY <2>1 DEF TypeOK, Names
      <3>4. File(next[p], TRUE).whole /\ File(next[p], TRUE).synced BY <2>3, FileIs
      <3> QED BY <3>1, <3>2, <3>3, <3>4
    <2>5. TypeOK' BY <2>1, <2>2, <2>4 DEF TypeOK, Inside
    <2>6. Settled' BY <2>1, <2>4 DEF Settled, Progressing
    <2>7. Progressing' BY <2>1, <2>2, <2>3, <2>4 DEF Progressing, CommitStages
    <2>8. Fresh' BY <2>1, <2>3 DEF Fresh
    <2> QED BY <2>3, <2>5, <2>6, <2>7, <2>8
  <1>7. CASE SyncState(p)
    <2>1. /\ pc[p] = "syncstate" /\ pc' = [pc EXCEPT ![p] = "unlink"]
          /\ UNCHANGED <<directory, holder, creating, values, next, poisoned>>
          /\ durable' = dir /\ dir' = dir
      BY <1>7 DEF SyncState, Call, SyncDirectory
    <2>2. "syncstate" \in CommitStages /\ "unlink" \in CommitStages BY DEF CommitStages
    <2>3. /\ Locked' /\ Served'
          /\ \A q \in Processes : pc'[q] \in CommitStages <=> q = p
          /\ \A q \in Processes \ {p} : pc'[q] = pc[q] /\ ~(creating[q] /\ pc[q] \in {"lockfile", "flock", "load"})
          /\ directory = "present" /\ ~poisoned[p]
          /\ pc'[p] = "unlink" /\ next[p] \in Snapshots
      BY <2>1, <2>2, CommitFrame
    <2>4. dir["intent"] # NoFile BY <2>1 DEF Progressing
    <2>5. TypeOK' BY <2>1, <2>2, <2>4 DEF TypeOK, Inside
    <2>6. Settled' BY <2>1, <2>4 DEF Settled, Progressing
    <2>7. Progressing' BY <2>1, <2>2, <2>3, <2>4 DEF Progressing, CommitStages
    <2>8. Fresh' BY <2>1, <2>3 DEF Fresh
    <2> QED BY <2>3, <2>5, <2>6, <2>7, <2>8
  <1>8. CASE UnlinkIntent(p)
    <2>1. /\ pc[p] = "unlink" /\ pc' = [pc EXCEPT ![p] = "syncfinal"]
          /\ UNCHANGED <<directory, holder, creating, values, next, poisoned>>
          /\ durable' = durable
          /\ dir' = [dir EXCEPT !["intent"] = NoFile]
      BY <1>8 DEF UnlinkIntent, Call, SyncDirectory
    <2>2. "unlink" \in CommitStages /\ "syncfinal" \in CommitStages BY DEF CommitStages
    <2>3. /\ Locked' /\ Served'
          /\ \A q \in Processes : pc'[q] \in CommitStages <=> q = p
          /\ \A q \in Processes \ {p} : pc'[q] = pc[q] /\ ~(creating[q] /\ pc[q] \in {"lockfile", "flock", "load"})
          /\ directory = "present" /\ ~poisoned[p]
          /\ pc'[p] = "syncfinal" /\ next[p] \in Snapshots
      BY <2>1, <2>2, CommitFrame
    <2>4. /\ dir' \in [Names -> Files \cup {NoFile}] /\ dir'["intent"] = NoFile
          /\ dir'["state"] = dir["state"] /\ dir'["temporary"] = dir["temporary"] /\ durable["state"] = dir["state"]
      BY <2>1 DEF TypeOK, Names, Progressing
    <2>5. TypeOK' BY <2>1, <2>2, <2>4 DEF TypeOK, Inside
    <2>6. Settled' BY <2>1, <2>4 DEF Settled, Progressing
    <2>7. Progressing' BY <2>1, <2>2, <2>3, <2>4 DEF Progressing, CommitStages
    <2>8. Fresh' BY <2>1, <2>3 DEF Fresh
    <2> QED BY <2>3, <2>5, <2>6, <2>7, <2>8
  <1> QED BY <1>1, <1>2, <1>3, <1>4, <1>5, <1>6, <1>7, <1>8

\* The end of a commit, of a process, or of all of them.
LEMMA EndStep ==
  ASSUME SInv, NEW p \in Processes,
         SyncFinal(p) \/ CommitFails(p) \/ Close(p) \/ Kill(p)
  PROVE  SInv'
  <1> USE DEF SInv
  <1>1. CASE SyncFinal(p)
    <2> USE <1>1 DEF SyncFinal
    <2>0. \A q \in Processes \ {p} : pc[q] \notin Inside
      BY AloneInside DEF Inside, CommitStages
    <2>1. /\ dir["state"] = File(next[p], TRUE) /\ dir["temporary"] = NoFile
          /\ dir["intent"] = NoFile /\ ~poisoned[p] /\ next[p] \in Snapshots
      BY DEF Progressing, CommitStages, TypeOK
    <2>2. TypeOK' BY <2>1 DEF TypeOK, Inside
    <2>3. Locked' BY <2>0 DEF Locked, TypeOK, Inside, CommitStages
    <2>4. Settled' BY <2>1 DEF Settled
    <2>5. Served' BY <2>0, <2>1 DEF Served, TypeOK, Serving, CleanCommitState, Inside
    <2>6. Progressing' BY <2>0 DEF Progressing, TypeOK, CommitStages, Inside
    <2>7. Fresh' BY DEF Fresh, TypeOK
    <2> QED BY <2>2, <2>3, <2>4, <2>5, <2>6, <2>7
  <1>2. CASE CommitFails(p)
    <2> USE <1>2 DEF CommitFails, Leave
    <2>0. /\ holder = p /\ \A q \in Processes \ {p} : pc[q] \notin Inside
      BY AloneInside DEF Inside
    <2>1. pc'[p] \in {"closed", "idle"} /\ \A q \in Processes \ {p} : pc'[q] = pc[q]
      BY DEF TypeOK
    <2>2. TypeOK' BY DEF TypeOK, Inside
    <2>3. Locked' BY <2>0, <2>1 DEF Locked, TypeOK, Inside, CommitStages
    <2>4. Settled' BY DEF Settled
    <2>5. Served' BY <2>0, <2>1 DEF Served, TypeOK, Serving, Inside
    <2>6. Progressing'
      <3>1. \A q \in Processes : pc'[q] \notin CommitStages
        BY <2>0, <2>1 DEF CommitStages, Inside
      <3> QED BY <3>1 DEF Progressing, CommitStages
    <2>7. Fresh' BY <2>1 DEF Fresh, TypeOK, CommitStages
    <2> QED BY <2>2, <2>3, <2>4, <2>5, <2>6, <2>7
  <1>3. CASE Close(p) \/ Kill(p)
    <2>1. /\ Leave(p)
          /\ UNCHANGED <<disk, creating, values, next, poisoned, vanished, commits>>
      BY <1>3 DEF Close, Kill
    <2> USE <2>1 DEF Leave
    <2>2. TypeOK' BY DEF TypeOK
    <2>3. Locked' BY DEF Locked, TypeOK, Inside, CommitStages
    <2>4. Settled' BY DEF Settled
    <2>5. Served' BY DEF Served, TypeOK, Serving, CleanCommitState
    <2>6. Progressing' BY DEF Progressing, TypeOK, CommitStages
    <2>7. Fresh' BY DEF Fresh, TypeOK
    <2> QED BY <2>2, <2>3, <2>4, <2>5, <2>6, <2>7
  <1> QED BY <1>1, <1>2, <1>3

\* What a power loss may leave of the directory.
LEMMA OutcomeIs ==
  ASSUME SInv, NEW entries \in Outcomes
  PROVE  /\ entries \in [Names -> Files \cup {NoFile}]
         /\ \A n \in Names : entries[n] # NoFile => entries[n].synced
         /\ \A n \in Names : entries[n] = NoFile => dir[n] = NoFile \/ durable[n] = NoFile
         /\ entries["state"] \in {dir["state"], durable["state"]}
         /\ (\A n \in Names : dir[n] = NoFile /\ durable[n] = NoFile) =>
              entries = [n \in Names |-> NoFile]
  <1>1. \A n \in Names : /\ dir[n] \in Files \cup {NoFile}
                         /\ durable[n] \in Files \cup {NoFile}
                         /\ entries[n] \in Remains(dir[n]) \cup Remains(durable[n])
    BY DEF Outcomes, Survives, SInv, TypeOK
  <1>2. \E D : entries \in [Names -> D] BY DEF Outcomes
  <1>3. entries \in [Names -> Files \cup {NoFile}] BY <1>1, <1>2, RemainsIs
  <1>4. \A n \in Names : entries[n] # NoFile => entries[n].synced
    BY <1>1, RemainsIs
  <1>5. \A n \in Names : entries[n] = NoFile => dir[n] = NoFile \/ durable[n] = NoFile
    BY <1>1, RemainsIs
  <1>6. entries["state"] \in {dir["state"], durable["state"]}
    <2>1. "state" \in Names BY DEF Names
    <2>2. /\ Remains(dir["state"]) = {dir["state"]}
          /\ Remains(durable["state"]) = {durable["state"]}
      BY <1>1, <2>1, RemainsIs DEF SInv, Settled
    <2> QED BY <1>1, <2>1, <2>2
  <1>7. ASSUME \A n \in Names : dir[n] = NoFile /\ durable[n] = NoFile
        PROVE  entries = [n \in Names |-> NoFile]
    <2>1. \A n \in Names : entries[n] = NoFile BY <1>1, <1>7, RemainsIs
    <2> QED BY <1>2, <2>1
  <1> QED BY <1>3, <1>4, <1>5, <1>6, <1>7

\* A power loss.
LEMMA PowerStep == ASSUME SInv, PowerLoss PROVE SInv'
  <1>0. /\ pc' = [q \in Processes |-> "closed"] /\ holder' = NoProcess
        /\ UNCHANGED <<creating, values, next, poisoned>>
    BY DEF PowerLoss
  <1>1. /\ Locked' /\ Served' /\ Progressing'
    BY <1>0 DEF Locked, Served, Progressing, Serving, Inside, CommitStages
  <1>2. CASE \E entries \in Outcomes :
               dir' = entries /\ durable' = entries /\ UNCHANGED directory
    <2>1. PICK entries \in Outcomes :
            dir' = entries /\ durable' = entries /\ UNCHANGED directory
      BY <1>2
    <2>2. TypeOK' BY <1>0, <2>1, OutcomeIs DEF SInv, TypeOK
    <2>3. Settled' BY <2>1, OutcomeIs DEF SInv, Settled
    <2>4. directory = "absent" => entries = [n \in Names |-> NoFile]
      BY OutcomeIs DEF SInv, Fresh
    <2>5. Fresh' BY <1>0, <2>1, <2>4 DEF Fresh
    <2> QED BY <1>1, <2>2, <2>3, <2>5 DEF SInv
  <1>3. CASE /\ directory' = "absent"
             /\ dir' = [n \in Names |-> NoFile] /\ durable' = [n \in Names |-> NoFile]
    <2>1. TypeOK' BY <1>0, <1>3 DEF SInv, TypeOK
    <2>2. Settled' BY <1>3 DEF Settled, Names
    <2>3. Fresh' BY <1>0, <1>3 DEF Fresh
    <2> QED BY <1>1, <2>1, <2>2, <2>3 DEF SInv
  <1> QED BY <1>2, <1>3 DEF PowerLoss

\* Every system call and every crash keeps the invariant of the store.
LEMMA SInvStep == SInv /\ [Next]_vars => SInv'
  <1> SUFFICES ASSUME SInv, [Next]_vars PROVE SInv' OBVIOUS
  <1>1. ASSUME NEW p \in Processes, Opening(p) PROVE SInv' BY <1>1, OpeningStep
  <1>2. ASSUME NEW p \in Processes, Setters(p) PROVE SInv' BY <1>2, SetterStep
  <1>3. ASSUME NEW p \in Processes, Commit(p) PROVE SInv'
    BY <1>3, CommitStep, EndStep DEF Commit
  <1>4. ASSUME NEW p \in Processes, Close(p) \/ Kill(p) PROVE SInv' BY <1>4, EndStep
  <1>5. CASE PowerLoss BY <1>5, PowerStep
  <1>6. CASE UNCHANGED vars
    BY <1>6 DEF vars, SInv, TypeOK, Locked, Settled, Served, Progressing, Fresh, Serving,
                CleanCommitState
  <1> QED BY <1>1, <1>2, <1>3, <1>4, <1>5, <1>6 DEF Next

-----------------------------------------------------------------------------
(* The refinement of the atomic register.                                  *)

\* A power loss can leave a directory that looks clean.
MayBeClean ==
  /\ dir["temporary"] = NoFile \/ durable["temporary"] = NoFile
  /\ dir["intent"] = NoFile \/ durable["intent"] = NoFile

\* The content of the register: the one state file, or nothing.
OneContent ==
  /\ MayBeClean /\ dir["state"] # NoFile => Content = {dir["state"].data}
  /\ dir["state"] = NoFile => Content = {}
  /\ ~MayBeClean => Content = {}
  /\ MayBeClean => dir["state"] = durable["state"]
  /\ Content \subseteq Snapshots

\* What a power loss cannot take from the register.
Firm == IF Synced THEN Content ELSE {}

\* The directory never shows two contents.
LEMMA ContentIs == SInv => OneContent
  <1> SUFFICES ASSUME SInv PROVE OneContent OBVIOUS
  <1>1. \A n \in Names : /\ dir[n] \in Files \cup {NoFile}
                         /\ durable[n] \in Files \cup {NoFile}
    BY DEF SInv, TypeOK
  <1>2. "state" \in Names /\ "temporary" \in Names /\ "intent" \in Names BY DEF Names
  <1>3. /\ Remains(dir["state"]) = {dir["state"]}
        /\ Remains(durable["state"]) = {durable["state"]}
    BY <1>1, <1>2, RemainsIs DEF SInv, Settled
  <1>4. MayBeClean <=> NoFile \in Left("temporary") \cap Left("intent")
    BY <1>1, <1>2, RemainsIs DEF MayBeClean, Left
  <1>5. Left("state") = {dir["state"], durable["state"]} BY <1>3 DEF Left
  <1>6. MayBeClean => dir["state"] = durable["state"]
    BY DEF MayBeClean, SInv, Settled
  <1>7. ~MayBeClean => Content = {} BY <1>4 DEF Content
  <1>8. ASSUME MayBeClean, dir["state"] # NoFile PROVE Content = {dir["state"].data}
    <2>1. {f \in Left("state") \ {NoFile} : f.whole} = {dir["state"]}
      BY <1>5, <1>6, <1>8 DEF SInv, Settled
    <2> QED BY <1>4, <1>8, <2>1 DEF Content
  <1>9. ASSUME dir["state"] = NoFile PROVE Content = {}
    <2>1. CASE MayBeClean
      <3>1. Left("state") \ {NoFile} = {} BY <1>5, <1>6, <1>9, <2>1
      <3> QED BY <1>4, <2>1, <3>1 DEF Content
    <2> QED BY <1>7, <2>1
  <1>10. Content \subseteq Snapshots
    <2>1. CASE MayBeClean /\ dir["state"] # NoFile
      BY <1>1, <1>2, <1>8, <2>1 DEF Files
    <2> QED BY <1>7, <1>9, <2>1
  <1> QED BY <1>6, <1>7, <1>8, <1>9, <1>10 DEF OneContent

\* The same of the next state.
LEMMA ContentNext == SInv' => OneContent'
  BY ContentIs, PTL

\* Steps that neither the content nor the users of the register notice.
LEMMA Unnoticed ==
  ASSUME SInv, NEW p \in Processes,
         UNCHANGED <<durable, values, next, poisoned, vanished>>,
         pc' = [pc EXCEPT ![p] = pc'[p]],
         \A n \in {"state", "temporary", "intent"} : dir'[n] = dir[n],
         pc[p] \notin CommitStages \cup {"idle"}, pc'[p] \notin CommitStages \cup {"idle"}
  PROVE  UNCHANGED Store!avars
  <1>1. Content' = Content /\ Firm' = Firm BY DEF Content, Left, Firm, Synced
  <1>2. pc \in [Processes -> Inside \cup {"closed", "lockfile", "flock"}] BY DEF SInv, TypeOK
  <1>3. \A q \in Processes : (pc'[q] = "idle" <=> pc[q] = "idle") /\
                               (pc'[q] \in CommitStages <=> pc[q] \in CommitStages)
    BY <1>2
  <1>4. [q \in Processes |-> IF Serving(q) THEN values[q] ELSE NoFile]' =
          [q \in Processes |-> IF Serving(q) THEN values[q] ELSE NoFile]
    BY <1>3 DEF Serving
  <1>5. [q \in Processes |-> IF pc[q] \in CommitStages THEN next[q] ELSE NoFile]' =
          [q \in Processes |-> IF pc[q] \in CommitStages THEN next[q] ELSE NoFile]
    BY <1>3
  <1> QED BY <1>1, <1>4, <1>5 DEF Store!avars, Firm

\* The users of the register, as Store sees them.
Reader == [q \in Processes |-> IF Serving(q) THEN values[q] ELSE NoFile]
Writing == [q \in Processes |-> IF pc[q] \in CommitStages THEN next[q] ELSE NoFile]

\* The users of the register before and after a step of p alone.
LEMMA Users ==
  ASSUME SInv, SInv', NEW p \in Processes,
         pc' = [pc EXCEPT ![p] = pc'[p]],
         values' = [values EXCEPT ![p] = values'[p]],
         next' = [next EXCEPT ![p] = next'[p]],
         poisoned' = [poisoned EXCEPT ![p] = poisoned'[p]]
  PROVE  /\ Reader' = [Reader EXCEPT ![p] = IF Serving(p)' THEN values'[p] ELSE NoFile]
         /\ Writing' = [Writing EXCEPT ![p] = IF pc'[p] \in CommitStages THEN next'[p] ELSE NoFile]
         /\ Reader[p] = IF Serving(p) THEN values[p] ELSE NoFile
         /\ Writing[p] = IF pc[p] \in CommitStages THEN next[p] ELSE NoFile
         /\ Writing'[p] = IF pc'[p] \in CommitStages THEN next'[p] ELSE NoFile
         /\ values[p] \in Snapshots /\ next[p] \in Snapshots
         /\ values'[p] \in Snapshots /\ next'[p] \in Snapshots
  <1>1. /\ pc \in [Processes -> Inside \cup {"closed", "lockfile", "flock"}]
        /\ values \in [Processes -> Snapshots] /\ next \in [Processes -> Snapshots]
        /\ poisoned \in [Processes -> BOOLEAN]
        /\ values' \in [Processes -> Snapshots] /\ next' \in [Processes -> Snapshots]
    BY DEF SInv, TypeOK
  <1>2. \A q \in Processes \ {p} :
          /\ pc'[q] = pc[q] /\ values'[q] = values[q] /\ next'[q] = next[q]
          /\ Serving(q)' <=> Serving(q)
    BY <1>1 DEF Serving
  <1>3. Reader' = [Reader EXCEPT ![p] = IF Serving(p)' THEN values'[p] ELSE NoFile]
    BY <1>2 DEF Reader
  <1>4. Writing' = [Writing EXCEPT ![p] = IF pc'[p] \in CommitStages THEN next'[p] ELSE NoFile]
    BY <1>2 DEF Writing
  <1> QED BY <1>1, <1>3, <1>4 DEF Reader, Writing

\* Nobody uses the register while a process that neither reads nor writes it
\* is inside.
LEMMA NobodyElse ==
  ASSUME SInv, NEW p \in Processes, pc[p] \in Inside,
         ~Serving(p), pc[p] \notin CommitStages
  PROVE  \A q \in Processes : Reader[q] = NoFile /\ Writing[q] = NoFile
  <1>1. \A q \in Processes \ {p} : pc[q] \notin Inside BY AloneInside
  <1> QED BY <1>1 DEF Reader, Writing, Serving, Inside

\* Open implements Open and Begin of the register, or is not noticed.
LEMMA OpeningRefines ==
  ASSUME SInv, SInv', NEW p \in Processes, Opening(p)
  PROVE  Store!Open(p) \/ Store!Begin(p) \/ UNCHANGED Store!avars
  <1>0. pc \in [Processes -> Inside \cup {"closed", "lockfile", "flock"}]
    BY DEF SInv, TypeOK
  <1>1. CASE MakeDirectory(p) \/ OpenLock(p) \/ Flock(p) \/ LoadRefused(p)
    <2>1. /\ UNCHANGED <<dir, durable, values, next, poisoned, vanished>>
          /\ \E place \in {"lockfile", "flock", "load", "closed"} : pc' = [pc EXCEPT ![p] = place]
          /\ pc[p] \in {"closed", "flock", "load"}
      BY <1>1 DEF MakeDirectory, OpenLock, Flock, LoadRefused, Leave
    <2>2. pc' = [pc EXCEPT ![p] = pc'[p]] /\ pc'[p] \in {"lockfile", "flock", "load", "closed"}
      BY <1>0, <2>1
    <2> QED BY <2>1, <2>2, Unnoticed DEF CommitStages
  <1>2. CASE CreateLock(p)
    <2>1. /\ UNCHANGED <<durable, values, next, poisoned, vanished>>
          /\ pc' = [pc EXCEPT ![p] = "flock"] /\ pc[p] = "lockfile"
          /\ \A n \in {"state", "temporary", "intent"} : dir'[n] = dir[n]
      BY <1>2 DEF CreateLock, SInv, TypeOK, Names
    <2>2. pc' = [pc EXCEPT ![p] = pc'[p]] /\ pc'[p] = "flock" BY <1>0, <2>1
    <2> QED BY <2>1, <2>2, Unnoticed DEF CommitStages
  <1>3. CASE LoadExisting(p)
    <2> DEFINE s == dir["state"].data
    <2>1. /\ UNCHANGED <<dir, durable, next, vanished>> /\ CleanCommitState /\ dir["state"] # NoFile
          /\ values' = [values EXCEPT ![p] = s] /\ poisoned' = [poisoned EXCEPT ![p] = FALSE]
          /\ pc' = [pc EXCEPT ![p] = "idle"] /\ pc[p] = "load"
      BY <1>3 DEF LoadExisting, Readable
    <2>2. /\ pc'[p] = "idle" /\ values'[p] = s /\ ~poisoned'[p]
          /\ pc' = [pc EXCEPT ![p] = pc'[p]] /\ values' = [values EXCEPT ![p] = values'[p]]
          /\ next' = [next EXCEPT ![p] = next'[p]]
          /\ poisoned' = [poisoned EXCEPT ![p] = poisoned'[p]]
      BY <2>1 DEF SInv, TypeOK
    <2>3. Content = {s} /\ Content' = Content /\ Firm' = Firm /\ vanished' = vanished
      BY <2>1, ContentIs DEF OneContent, MayBeClean, CleanCommitState, Content, Left,
         Firm, Synced
    <2>4. \A q \in Processes : Reader[q] = NoFile /\ Writing[q] = NoFile
      BY <2>1, NobodyElse DEF Serving, Inside, CommitStages
    <2> HIDE DEF s
    <2>5. Reader' = [Reader EXCEPT ![p] = s] /\ Serving(p)'
      BY <2>2, Users DEF Serving
    <2>6. Writing' = Writing
      <3>1. Writing' = [Writing EXCEPT ![p] = NoFile]
        BY <2>2, Users DEF CommitStages
      <3> QED BY <2>4, <3>1 DEF Writing
    <2> QED BY <2>3, <2>4, <2>5, <2>6 DEF Store!Open, Store!Idle, Reader, Writing, Firm
  <1>4. CASE LoadNew(p)
    <2>1. /\ UNCHANGED <<dir, durable, vanished>> /\ next' = [next EXCEPT ![p] = Empty]
          /\ values' = [values EXCEPT ![p] = Empty] /\ poisoned' = [poisoned EXCEPT ![p] = FALSE]
          /\ pc' = [pc EXCEPT ![p] = "open"] /\ pc[p] = "load" /\ creating[p]
      BY <1>4 DEF LoadNew, BeginCommit
    <2>2. /\ pc'[p] = "open"
          /\ pc' = [pc EXCEPT ![p] = pc'[p]] /\ values' = [values EXCEPT ![p] = values'[p]]
          /\ next' = [next EXCEPT ![p] = next'[p]]
          /\ poisoned' = [poisoned EXCEPT ![p] = poisoned'[p]]
      BY <2>1 DEF SInv, TypeOK
    <2>3. Content = {} /\ Content' = Content /\ Firm' = Firm /\ vanished' = vanished
      <3>1. dir["state"] = NoFile BY <2>1 DEF SInv, Fresh
      <3> QED BY <2>1, <3>1, ContentIs DEF OneContent, Content, Left, Firm, Synced
    <2>4. \A q \in Processes : Reader[q] = NoFile /\ Writing[q] = NoFile
      BY <2>1, NobodyElse DEF Serving, Inside, CommitStages
    <2>5. Reader' = [Reader EXCEPT ![p] = NoFile]
      BY <2>2, Users DEF Serving
    <2>6. Writing' = [Writing EXCEPT ![p] = Writing'[p]] /\ Writing'[p] \in Snapshots
      BY <2>2, Users DEF CommitStages
    <2> QED BY <2>3, <2>4, <2>5, <2>6 DEF Store!Begin, Store!Idle, Reader, Writing, Firm
  <1> QED BY <1>1, <1>2, <1>3, <1>4 DEF Opening

\* A setter or deleter is a Begin of the register.
LEMMA SetterRefines ==
  ASSUME SInv, SInv', NEW p \in Processes, Setters(p)
  PROVE  Store!Begin(p)
  <1>1. /\ Serving(p) /\ \E s : next' = [next EXCEPT ![p] = s]
        /\ pc' = [pc EXCEPT ![p] = "open"]
        /\ UNCHANGED <<dir, durable, values, poisoned, vanished>>
    BY DEF Setters, SyncSetKeyValue, SyncDeleteKeyValue, BeginCommit
  <1>2. /\ pc'[p] = "open"
        /\ pc' = [pc EXCEPT ![p] = pc'[p]] /\ values' = [values EXCEPT ![p] = values'[p]]
        /\ next' = [next EXCEPT ![p] = next'[p]]
        /\ poisoned' = [poisoned EXCEPT ![p] = poisoned'[p]]
    BY <1>1 DEF SInv, TypeOK
  <1>3. Content' = Content /\ Firm' = Firm /\ vanished' = vanished
    BY <1>1 DEF Content, Left, Firm, Synced
  <1>4. Reader[p] # NoFile BY <1>1, <1>2, Users, NoFileAssumption
  <1>5. Reader' = [Reader EXCEPT ![p] = NoFile] BY <1>2, Users DEF Serving
  <1>6. Writing' = [Writing EXCEPT ![p] = Writing'[p]] /\ Writing'[p] \in Snapshots
    BY <1>2, Users DEF CommitStages
  <1> QED BY <1>3, <1>4, <1>5, <1>6 DEF Store!Begin, Reader, Writing, Firm

\* A call of Commit that does not end it is a Progress of the register.
LEMMA CallRefines ==
  ASSUME SInv, SInv', NEW p \in Processes,
         pc[p] \in CommitStages, pc'[p] \in CommitStages, pc' = [pc EXCEPT ![p] = pc'[p]],
         UNCHANGED <<values, next, poisoned, vanished>>,
         Content' = Content \/ Content' \in {{}, {next[p]}}
  PROVE  Store!Progress(p)
  <1>1. /\ values' = [values EXCEPT ![p] = values'[p]]
        /\ next' = [next EXCEPT ![p] = next'[p]]
        /\ poisoned' = [poisoned EXCEPT ![p] = poisoned'[p]]
    BY DEF SInv, TypeOK
  <1>2. ~Serving(p) /\ ~Serving(p)' BY DEF Serving, CommitStages
  <1>3. Reader' = Reader
    <2>1. Reader' = [Reader EXCEPT ![p] = NoFile] /\ Reader[p] = NoFile
      BY <1>1, <1>2, Users
    <2> QED BY <2>1 DEF Reader
  <1>4. Writing' = Writing
    <2>1. Writing' = [Writing EXCEPT ![p] = next[p]] /\ Writing[p] = next[p]
      BY <1>1, Users
    <2> QED BY <2>1 DEF Writing
  <1>5. Writing[p] # NoFile /\ Writing[p] = next[p]
    BY <1>1, Users, NoFileAssumption
  <1>6. Firm' \subseteq Content' BY DEF Firm
  <1> QED BY <1>3, <1>4, <1>5, <1>6 DEF Store!Progress, Reader, Writing, Firm

\* The point of no return of a commit is the fsync of the intent, and the
\* point where it takes effect is the unlink of the intent.
LEMMA CommitRefines ==
  ASSUME SInv, SInv', NEW p \in Processes,
         \/ OpenTemporary(p) \/ WriteTemporary(p) \/ SyncTemporary(p) \/ WriteIntent(p)
         \/ SyncIntent(p) \/ RenameState(p) \/ SyncState(p) \/ UnlinkIntent(p)
  PROVE  Store!Progress(p)
  <1>1. /\ pc[p] \in CommitStages /\ UNCHANGED <<values, next, poisoned, vanished>>
        /\ \E to \in CommitStages : pc' = [pc EXCEPT ![p] = to]
    BY DEF OpenTemporary, WriteTemporary, SyncTemporary, WriteIntent, SyncIntent, RenameState,
           SyncState, UnlinkIntent, Call, SyncDirectory, CommitStages
  <1>2. pc'[p] \in CommitStages /\ pc' = [pc EXCEPT ![p] = pc'[p]]
    BY <1>1 DEF SInv, TypeOK
  <1>3. SUFFICES Content' = Content \/ Content' \in {{}, {next[p]}}
    BY <1>1, <1>2, CallRefines
  <1>4. dir \in [Names -> Files \cup {NoFile}] /\ next[p] \in Snapshots BY DEF SInv, TypeOK
  <1> USE ContentIs, ContentNext DEF OneContent, MayBeClean
  <1>5. CASE OpenTemporary(p)
    <2>1. /\ dir'["state"] = dir["state"] /\ durable' = durable /\ CleanCommitState
      BY <1>4, <1>5 DEF OpenTemporary, Call, Names
    <2> QED BY <2>1 DEF CleanCommitState
  <1>6. CASE WriteTemporary(p) \/ SyncTemporary(p)
    <2>1. /\ dir'["state"] = dir["state"] /\ dir'["intent"] = dir["intent"]
          /\ durable' = durable /\ dir'["temporary"] # NoFile
      BY <1>4, <1>6, FileIs DEF WriteTemporary, SyncTemporary, Call, Names
    <2>2. dir["temporary"] # NoFile
      BY <1>6, FileIs DEF WriteTemporary, SyncTemporary, Call, SInv, Progressing
    <2> QED BY <2>1, <2>2
  <1>7. CASE WriteIntent(p)
    <2>1. /\ dir'["state"] = dir["state"] /\ dir'["temporary"] = dir["temporary"]
          /\ durable' = durable /\ dir["intent"] = NoFile
      BY <1>4, <1>7 DEF WriteIntent, Call, Names, SInv, Progressing
    <2> QED BY <2>1
  <1>8. CASE SyncIntent(p) \/ SyncState(p)
    <2>1. dir' = dir /\ durable' = dir /\ dir["intent"] # NoFile
      BY <1>8 DEF SyncIntent, SyncState, SyncDirectory, SInv, Progressing
    <2> QED BY <2>1
  <1>9. CASE RenameState(p)
    <2>1. dir'["intent"] # NoFile /\ durable'["intent"] # NoFile
      BY <1>4, <1>9 DEF RenameState, Call, Names, SInv, Progressing
    <2> QED BY <2>1
  <1>10. CASE UnlinkIntent(p)
    <2>1. /\ dir'["state"] = File(next[p], TRUE) /\ dir'["temporary"] = NoFile
          /\ dir'["intent"] = NoFile
      BY <1>4, <1>10 DEF UnlinkIntent, Call, Names, SInv, Progressing
    <2>2. dir'["state"] # NoFile /\ dir'["state"].data = next[p]
      BY <1>4, <2>1, FileIs
    <2> QED BY <2>1, <2>2
  <1> QED BY <1>5, <1>6, <1>7, <1>8, <1>9, <1>10

\* The end of a commit acknowledges it; every other end leaves the register.
LEMMA EndRefines ==
  ASSUME SInv, SInv', NEW p \in Processes,
         SyncFinal(p) \/ CommitFails(p) \/ Close(p) \/ Kill(p)
  PROVE  Store!Acknowledge(p) \/ Store!Leave(p)
  <1>1. CASE SyncFinal(p)
    <2>1. /\ pc[p] = "syncfinal" /\ pc' = [pc EXCEPT ![p] = "idle"] /\ durable' = dir
          /\ values' = [values EXCEPT ![p] = next[p]] /\ UNCHANGED <<dir, next, poisoned, vanished>>
      BY <1>1 DEF SyncFinal
    <2>2. /\ pc'[p] = "idle" /\ values'[p] = next[p]
          /\ pc' = [pc EXCEPT ![p] = pc'[p]] /\ values' = [values EXCEPT ![p] = values'[p]]
          /\ next' = [next EXCEPT ![p] = next'[p]]
          /\ poisoned' = [poisoned EXCEPT ![p] = poisoned'[p]]
      BY <2>1 DEF SInv, TypeOK
    <2>3. /\ dir["state"] = File(next[p], TRUE) /\ dir["temporary"] = NoFile
          /\ dir["intent"] = NoFile /\ ~poisoned[p] /\ next[p] \in Snapshots
      BY <2>1 DEF SInv, Progressing, CommitStages, TypeOK
    <2>4. dir["state"] # NoFile /\ dir["state"].data = next[p] BY <2>3, FileIs
    <2>5. Content = {next[p]} /\ Content' = Content
      BY <2>1, <2>3, <2>4, ContentIs, ContentNext DEF OneContent, MayBeClean
    <2>6. Serving(p)' BY <2>1, <2>2, <2>3 DEF Serving
    <2>7. Reader' = [Reader EXCEPT ![p] = next[p]] BY <2>2, <2>6, Users
    <2>8. Writing' = [Writing EXCEPT ![p] = NoFile] /\ Writing[p] = next[p] /\ Writing[p] # NoFile
      <3>1. pc'[p] \notin CommitStages /\ pc[p] \in CommitStages
        BY <2>1, <2>2 DEF CommitStages
      <3>2. Writing' = [Writing EXCEPT ![p] = NoFile] /\ Writing[p] = next[p]
        BY <2>2, <3>1, Users
      <3> QED BY <2>3, <3>2, NoFileAssumption
    <2>9. Firm' = {next[p]}
      <3>1. dir["state"].synced BY <2>3, FileIs
      <3>2. Synced' BY <3>1, <2>1, <2>3 DEF Synced
      <3> QED BY <3>2, <2>5 DEF Firm
    <2> QED BY <2>1, <2>5, <2>7, <2>8, <2>9 DEF Store!Acknowledge, Reader, Writing, Firm
  <1>2. CASE CommitFails(p) \/ Close(p) \/ Kill(p)
    <2>1. /\ \E to \in {"closed", "idle"} : pc' = [pc EXCEPT ![p] = to] /\
                                            (to = "idle" => poisoned' = [poisoned EXCEPT ![p] = TRUE])
          /\ UNCHANGED <<dir, durable, values, next, vanished>>
          /\ poisoned' = [poisoned EXCEPT ![p] = TRUE] \/ poisoned' = poisoned
      BY <1>2 DEF CommitFails, Close, Kill, Leave
    <2>2. /\ pc'[p] \in {"closed", "idle"} /\ (pc'[p] = "idle" => poisoned'[p])
          /\ pc' = [pc EXCEPT ![p] = pc'[p]] /\ values' = [values EXCEPT ![p] = values'[p]]
          /\ next' = [next EXCEPT ![p] = next'[p]]
          /\ poisoned' = [poisoned EXCEPT ![p] = poisoned'[p]]
      BY <2>1 DEF SInv, TypeOK
    <2>3. Content' = Content /\ Firm' = Firm /\ vanished' = vanished
      BY <2>1 DEF Content, Left, Firm, Synced
    <2>4. Reader' = [Reader EXCEPT ![p] = NoFile] BY <2>2, Users DEF Serving
    <2>5. Writing' = [Writing EXCEPT ![p] = NoFile] BY <2>2, Users DEF CommitStages
    <2> QED BY <2>3, <2>4, <2>5 DEF Store!Leave, Reader, Writing, Firm
  <1> QED BY <1>1, <1>2

\* A power loss leaves what is synced as it is.
LEMMA KeptWhenSynced ==
  ASSUME SInv, Synced, NEW entries \in Outcomes
  PROVE  \A n \in {"state", "temporary", "intent"} : entries[n] = dir[n]
  <1> SUFFICES ASSUME NEW n \in {"state", "temporary", "intent"} PROVE entries[n] = dir[n]
    OBVIOUS
  <1>1. n \in Names BY DEF Names
  <1>2. /\ dir[n] \in Files \cup {NoFile} /\ durable[n] = dir[n]
        /\ dir[n] = NoFile \/ dir[n].synced
        /\ entries[n] \in Remains(dir[n]) \cup Remains(durable[n])
    BY <1>1 DEF Synced, Outcomes, Survives, SInv, TypeOK
  <1> QED BY <1>2, RemainsIs

\* A power loss of the disk is a power loss of the register.
LEMMA PowerRefines == ASSUME SInv, SInv', PowerLoss PROVE Store!PowerLoss
  <1>1. pc' = [q \in Processes |-> "closed"] BY DEF PowerLoss
  <1>2. Reader' = [q \in Processes |-> NoFile] /\ Writing' = [q \in Processes |-> NoFile]
    BY <1>1 DEF Reader, Writing, Serving, CommitStages
  <1>3. Content' \subseteq Content
    <2> USE ContentIs, ContentNext DEF OneContent
    <2>1. CASE \E entries \in Outcomes : dir' = entries /\ durable' = entries
      <3>1. PICK entries \in Outcomes : dir' = entries /\ durable' = entries BY <2>1
      <3>2. MayBeClean' => MayBeClean
        BY <3>1, OutcomeIs DEF MayBeClean, Names
      <3>3. MayBeClean => dir'["state"] = dir["state"]
        BY <3>1, OutcomeIs
      <3> QED BY <3>2, <3>3
    <2>2. CASE dir' = [n \in Names |-> NoFile]
      BY <2>2 DEF Names
    <2> QED BY <2>1, <2>2 DEF PowerLoss
  <1>4. Firm' = Content'
    <2>1. CASE \E entries \in Outcomes : dir' = entries /\ durable' = entries
      <3>1. Synced' BY <2>1, OutcomeIs DEF Synced, Names
      <3> QED BY <3>1 DEF Firm
    <2>2. CASE dir' = [n \in Names |-> NoFile] /\ durable' = [n \in Names |-> NoFile]
      <3>1. Synced' BY <2>2 DEF Synced, Names
      <3> QED BY <3>1 DEF Firm
    <2> QED BY <2>1, <2>2 DEF PowerLoss
  <1>5. vanished' \in {vanished, TRUE} BY DEF PowerLoss
  <1>6. Firm \subseteq Content' \/ (vanished' /\ Content' = {})
    <2>1. CASE \E entries \in Outcomes : dir' = entries /\ durable' = entries
      <3>1. PICK entries \in Outcomes : dir' = entries /\ durable' = entries BY <2>1
      <3>2. CASE Synced
        <4>1. \A n \in {"state", "temporary", "intent"} : dir'[n] = dir[n] /\ durable'[n] = dir[n]
          BY <3>1, <3>2, KeptWhenSynced
        <4>2. Content' = Content BY <4>1, <3>2 DEF Content, Left, Synced
        <4> QED BY <4>2 DEF Firm
      <3> QED BY <3>2 DEF Firm
    <2>2. CASE vanished' = TRUE /\ dir' = [n \in Names |-> NoFile]
      <3>1. Content' = {} BY <2>2, ContentNext DEF OneContent, Names
      <3> QED BY <2>2, <3>1
    <2> QED BY <2>1, <2>2 DEF PowerLoss
  <1> QED BY <1>2, <1>3, <1>4, <1>5, <1>6 DEF Store!PowerLoss, Reader, Writing, Firm

\* Every step of the store is a step of the register, or none.
LEMMA StoreStep == SInv /\ SInv' /\ [Next]_vars => [Store!Next]_(Store!avars)
  <1> SUFFICES ASSUME SInv, SInv', [Next]_vars PROVE [Store!Next]_(Store!avars) OBVIOUS
  <1>1. ASSUME NEW p \in Processes, Opening(p) PROVE [Store!Next]_(Store!avars)
    BY <1>1, OpeningRefines DEF Store!Next
  <1>2. ASSUME NEW p \in Processes, Setters(p) PROVE [Store!Next]_(Store!avars)
    BY <1>2, SetterRefines DEF Store!Next
  <1>3. ASSUME NEW p \in Processes, Commit(p) PROVE [Store!Next]_(Store!avars)
    BY <1>3, CommitRefines, EndRefines DEF Store!Next, Commit
  <1>4. ASSUME NEW p \in Processes, Close(p) \/ Kill(p) PROVE [Store!Next]_(Store!avars)
    BY <1>4, EndRefines DEF Store!Next
  <1>5. CASE PowerLoss BY <1>5, PowerRefines DEF Store!Next
  <1>6. CASE UNCHANGED vars
    <2>1. UNCHANGED <<dir, durable, pc, poisoned, values, next, vanished>> BY <1>6 DEF vars
    <2>2. Content' = Content /\ Firm' = Firm BY <2>1 DEF Content, Left, Firm, Synced
    <2> QED BY <2>1, <2>2 DEF Store!avars, Serving, Firm
  <1> QED BY <1>1, <1>2, <1>3, <1>4, <1>5, <1>6 DEF Next

\* The directory protocol of DurableStorage implements the atomic register,
\* for any number of processes, keys, commits and crashes.
THEOREM StoreRefines == Spec => StoreIsAtomic
  <1>1. Init => Store!Init
    <2> SUFFICES ASSUME Init PROVE Store!Init OBVIOUS
    <2>1. Content = {}
      <3>1. SInv /\ dir["state"] = NoFile BY InitSInv DEF Init, Names
      <3> QED BY <3>1, ContentIs DEF OneContent
    <2>2. \A q \in Processes : ~Serving(q) /\ pc[q] \notin CommitStages
      BY DEF Init, Serving, CommitStages
    <2>3. ~vanished BY DEF Init
    <2> QED BY <2>1, <2>2, <2>3 DEF Store!Init
  <1> QED BY <1>1, InitSInv, SInvStep, StoreStep, PTL DEF Spec, StoreIsAtomic, Store!Spec

\* A snapshot that a process serves is the only one that a later Open can
\* find, also after a power loss, and nobody else reads or writes the store
\* meanwhile: what is served is never exchanged for an older or for a
\* foreign snapshot (storage.cpp, Open and Commit).
THEOREM ServedLasts == Spec => []Store!ReadIsLasting
  <1>1. ASSUME SInv PROVE Store!ReadIsLasting
    <2> SUFFICES ASSUME NEW p \in Processes, Serving(p)
                 PROVE  /\ Content = {values[p]}
                        /\ \A q \in Processes \ {p} : ~Serving(q) /\ pc[q] \notin CommitStages
      BY DEF Store!ReadIsLasting
    <2>1. CleanCommitState /\ dir["state"] = File(values[p], TRUE)
      BY <1>1 DEF SInv, Served
    <2>2. values[p] \in Snapshots BY <1>1 DEF SInv, TypeOK
    <2>3. dir["state"] # NoFile /\ dir["state"].data = values[p] BY <2>1, <2>2, FileIs
    <2>4. MayBeClean BY <2>1 DEF CleanCommitState, MayBeClean
    <2>5. Content = {values[p]} BY <1>1, <2>3, <2>4, ContentIs DEF OneContent
    <2>6. pc[p] \in Inside BY DEF Serving, Inside
    <2>7. \A q \in Processes \ {p} : pc[q] \notin Inside BY <1>1, <2>6, AloneInside
    <2> QED BY <2>5, <2>7 DEF Serving, Inside
  <1> QED BY <1>1, InitSInv, SInvStep, PTL DEF Spec

-----------------------------------------------------------------------------
(* The authority.                                                          *)

\* The keys of the authority by place.
LEMMA WrittenIs ==
  /\ Written[1] = RootKey /\ Written[2] = RootCertificate /\ Written[3] = Ipk
  /\ RootKey \in Keys /\ RootCertificate \in Keys /\ Ipk \in Keys
  BY AuthorityAssumption DEF Written

\* A process that works is alone in doing so, on a snapshot.
LEMMA OneWorks ==
  ASSUME SInv, NEW p \in Processes, Working(p)
  PROVE  /\ Current(p) \in Snapshots /\ pc[p] \in CommitStages \cup {"idle"}
         /\ \A q \in Processes \ {p} : ~Working(q)
  <1>1. pc[p] \in Inside BY DEF Working, Serving, Inside
  <1>2. \A q \in Processes \ {p} : pc[q] \notin Inside BY <1>1, AloneInside
  <1> QED BY <1>2 DEF Working, Serving, Inside, Current, SInv, TypeOK

\* A served snapshot is the state in both views of the directory.
LEMMA ServedIs ==
  ASSUME SInv, NEW p \in Processes, Serving(p)
  PROVE  /\ Working(p) /\ Current(p) = values[p] /\ values[p] \in Snapshots
         /\ directory = "present"
         /\ dir["state"] # NoFile /\ dir["state"].data = values[p]
         /\ durable["state"] = dir["state"]
  <1>1. values[p] \in Snapshots BY DEF SInv, TypeOK
  <1>2. dir["state"] = File(values[p], TRUE) /\ CleanCommitState BY DEF SInv, Served
  <1>3. durable["state"] = dir["state"] BY <1>2 DEF SInv, Settled, CleanCommitState
  <1>4. directory = "present" BY DEF SInv, Fresh, TypeOK, Serving
  <1> QED BY <1>1, <1>2, <1>3, <1>4, FileIs DEF Working, Current, Serving, CommitStages

\* No host, no store, no authority.
LEMMA InitAInv == AInit => AInv
  <1> SUFFICES ASSUME AInit PROVE AInv OBVIOUS
  <1>1. SInv BY InitSInv DEF AInit
  <1>2. ATypeOK BY DEF AInit, ATypeOK
  <1>3. \A p \in Processes : ~Working(p)
    BY DEF AInit, Init, Working, Serving, CommitStages
  <1>4. dir["state"] = NoFile /\ durable["state"] = NoFile BY DEF AInit, Init, Names
  <1> QED BY <1>1, <1>2, <1>3, <1>4
          DEF AInit, AInv, OneGeneration, Creation, Owned, Kept, Given

\* Steps of the store itself carry the authority along: the state files come
\* from state files and from what was being written, and who works goes on,
\* or begins with the state or with a new store.
FilesCarried ==
  /\ vanished => vanished'
  /\ directory' = directory \/ directory = "absent" \/ vanished'
  /\ \A f \in {dir'["state"], durable'["state"]} :
       \/ f \in {dir["state"], durable["state"]}
       \/ \E q \in Processes : Working(q) /\ f = File(Current(q), TRUE)
       \/ f = NoFile /\ vanished'

WorkCarried ==
  \A q \in Processes :
    /\ Working(q)' =>
         \/ Working(q) /\ Current(q)' = Current(q)
         \/ /\ authority[q] = 0 /\ step[q] = 0
            /\ \/ dir["state"] # NoFile /\ Current(q)' = dir["state"].data
               \/ dir["state"] = NoFile /\ Current(q)' = Empty
    /\ pc'[q] \notin CommitStages \cup {"idle", "closed"} =>
         pc[q] \notin CommitStages \cup {"idle"}

\* Such a step keeps the invariant of the authority.
LEMMA Carry ==
  ASSUME AInv, SInv', Forget, FilesCarried, WorkCarried
  PROVE  AInv'
  <1> USE DEF Forget, FilesCarried, WorkCarried
  <1>1. /\ minted' = minted /\ established' = established
        /\ \A q \in Processes : authority'[q] \in {0, authority[q]} /\ step'[q] \in {0, step[q]}
    OBVIOUS
  <1>2. ATypeOK'
    <2>1. authority' \in [Processes -> Values \cup {0}] /\ step' \in [Processes -> 0..4]
      BY DEF AInv, ATypeOK
    <2>2. made' \in [Processes -> BOOLEAN] OBVIOUS
    <2>3. minted' \in Nat /\ established' \in Values \cup {0} BY <1>1 DEF AInv, ATypeOK
    <2>4. ASSUME NEW q \in Processes, pc'[q] \notin CommitStages \cup {"idle"}
          PROVE  authority'[q] = 0 /\ step'[q] = 0
      <3>1. CASE pc'[q] = "closed" BY <3>1
      <3>2. CASE pc'[q] # "closed" BY <1>1, <2>4, <3>2 DEF AInv, ATypeOK
      <3> QED BY <3>1, <3>2
    <2>5. \A q \in Processes : step'[q] # 0 => authority'[q] = 0 /\ made'[q] /\ minted' \in Values
      BY <1>1 DEF AInv, ATypeOK
    <2> QED BY <2>1, <2>2, <2>3, <2>4, <2>5 DEF ATypeOK
  <1>3. \A q \in Processes : Working(q) =>
          /\ File(Current(q), TRUE) # NoFile
          /\ File(Current(q), TRUE).data = Current(q)
    BY OneWorks, FileIs DEF AInv
  <1>4. Uniform(Empty)
    BY AuthorityAssumption DEF Uniform, Empty
  <1>5. OneGeneration'
    <2>1. \A f \in {dir'["state"], durable'["state"]} : f # NoFile => Uniform(f.data)
      BY <1>3 DEF AInv, OneGeneration
    <2>2. \A q \in Processes : Working(q)' => Uniform(Current(q)')
      BY <1>4 DEF AInv, OneGeneration
    <2> QED BY <2>1, <2>2 DEF OneGeneration, Uniform
  <1>6. Creation'
    <2> SUFFICES ASSUME NEW q \in Processes, Working(q)', step'[q] # 0
                 PROVE  \A i \in 1..3 : Current(q)'[Written[i]] = IF i < step'[q] THEN minted' ELSE NoValue
      BY DEF Creation
    <2>1. step'[q] = step[q] /\ step[q] # 0 BY <1>1
    <2>2. Working(q) /\ Current(q)' = Current(q) BY <2>1
    <2> QED BY <1>1, <2>1, <2>2 DEF AInv, Creation
  <1>7. Owned'
    <2> SUFFICES ASSUME NEW q \in Processes, Working(q)', authority'[q] # 0
                 PROVE  Of(Current(q)', authority'[q])
      BY DEF Owned, Of
    <2>1. authority'[q] = authority[q] /\ authority[q] # 0 BY <1>1
    <2>2. Working(q) /\ Current(q)' = Current(q) BY <2>1
    <2> QED BY <2>1, <2>2 DEF AInv, Owned
  <1>8. Kept'
    <2> SUFFICES ASSUME established # 0, ~vanished'
                 PROVE  /\ directory' = "present"
                        /\ dir'["state"] # NoFile /\ Of(dir'["state"].data, established)
                        /\ durable'["state"] # NoFile /\ Of(durable'["state"].data, established)
                        /\ \A q \in Processes : Working(q)' => Of(Current(q)', established)
                        /\ \A q \in Processes : authority'[q] # 0 => authority'[q] = established
      BY <1>1 DEF Kept, Of
    <2>1. /\ directory = "present"
          /\ dir["state"] # NoFile /\ Of(dir["state"].data, established)
          /\ durable["state"] # NoFile /\ Of(durable["state"].data, established)
          /\ \A q \in Processes : Working(q) => Of(Current(q), established)
          /\ \A q \in Processes : authority[q] # 0 => authority[q] = established
      BY DEF AInv, Kept
    <2>2. \A f \in {dir'["state"], durable'["state"]} : f # NoFile /\ Of(f.data, established)
      BY <1>3, <2>1
    <2>3. \A q \in Processes : Working(q)' => Of(Current(q)', established)
      BY <2>1
    <2>4. \A q \in Processes : authority'[q] # 0 => authority'[q] = established
      BY <1>1, <2>1
    <2>5. directory' = "present" BY <2>1
    <2> QED BY <2>2, <2>3, <2>4, <2>5
  <1>9. Given' BY <1>1 DEF AInv, Given
  <1> QED BY <1>2, <1>5, <1>6, <1>7, <1>8, <1>9 DEF AInv

\* Open, Commit, the ends of a process and a power loss carry the authority.
LEMMA StoreCarries ==
  ASSUME AInv, SInv', Forget,
         \/ PowerLoss
         \/ \E p \in Processes : Opening(p) \/ Commit(p) \/ Close(p) \/ Kill(p)
  PROVE  AInv'
  <1>0. SInv BY DEF AInv
  <1>1. CASE PowerLoss
    <2>1. \A q \in Processes : pc'[q] = "closed" /\ ~Working(q)'
      BY <1>1 DEF PowerLoss, Working, Serving, CommitStages
    <2>2. /\ vanished => vanished'
          /\ directory' = directory \/ vanished'
          /\ \A f \in {dir'["state"], durable'["state"]} :
               f \in {dir["state"], durable["state"]} \/ (f = NoFile /\ vanished')
      <3>1. CASE \E entries \in Outcomes : dir' = entries /\ durable' = entries
                   /\ UNCHANGED <<directory, vanished>>
        BY <1>0, <3>1, OutcomeIs
      <3>2. CASE /\ vanished' = TRUE
                 /\ dir' = [n \in Names |-> NoFile] /\ durable' = [n \in Names |-> NoFile]
        BY <3>2 DEF Names
      <3> QED BY <1>1, <3>1, <3>2 DEF PowerLoss
    <2>3. FilesCarried BY <2>2 DEF FilesCarried
    <2>4. WorkCarried BY <2>1 DEF WorkCarried
    <2> QED BY <2>3, <2>4, Carry
  <1>2. ASSUME NEW p \in Processes,
               Opening(p) \/ Commit(p) \/ Close(p) \/ Kill(p)
        PROVE  AInv'
    <2>0. /\ vanished' = vanished
          /\ directory' = directory \/ directory = "absent"
      BY <1>2 DEF Opening, MakeDirectory, CreateLock, OpenLock, Flock, LoadExisting, LoadRefused,
         LoadNew, BeginCommit, Commit, OpenTemporary, WriteTemporary, SyncTemporary, WriteIntent,
         SyncIntent, RenameState, SyncState, UnlinkIntent, SyncFinal, CommitFails, Call,
         SyncDirectory, Close, Kill
    <2>1. pc \in [Processes -> Inside \cup {"closed", "lockfile", "flock"}]
          /\ dir \in [Names -> Files \cup {NoFile}]
          /\ values \in [Processes -> Snapshots] /\ next \in [Processes -> Snapshots]
          /\ poisoned \in [Processes -> BOOLEAN]
      BY <1>0 DEF SInv, TypeOK
    <2>2. CASE MakeDirectory(p) \/ OpenLock(p) \/ Flock(p) \/ LoadRefused(p) \/ CreateLock(p)
      <3>1. /\ UNCHANGED <<durable, values, next, poisoned>> /\ dir'["state"] = dir["state"]
            /\ \E to \in {"lockfile", "flock", "load", "closed"} : pc' = [pc EXCEPT ![p] = to]
            /\ pc[p] \in {"closed", "lockfile", "flock", "load"}
        BY <2>1, <2>2 DEF MakeDirectory, OpenLock, Flock, LoadRefused, CreateLock, Leave, Names
      <3>2. \A q \in Processes :
              /\ Working(q)' => Working(q) /\ Current(q)' = Current(q)
              /\ pc'[q] \notin CommitStages \cup {"idle", "closed"} =>
                   pc[q] \notin CommitStages \cup {"idle"}
        BY <2>1, <3>1 DEF Working, Serving, Current, CommitStages
      <3>8. FilesCarried BY <2>0, <3>1 DEF FilesCarried
      <3>9. WorkCarried BY <3>2 DEF WorkCarried
      <3> QED BY <3>8, <3>9, Carry
    <2>3. CASE LoadExisting(p)
      <3>1. /\ UNCHANGED <<dir, durable, next>> /\ pc[p] = "load" /\ dir["state"] # NoFile
            /\ pc' = [pc EXCEPT ![p] = "idle"]
            /\ values' = [values EXCEPT ![p] = dir["state"].data]
            /\ poisoned' = [poisoned EXCEPT ![p] = FALSE]
        BY <2>3 DEF LoadExisting, Readable
      <3>2. authority[p] = 0 /\ step[p] = 0
        BY <3>1 DEF AInv, ATypeOK, CommitStages
      <3>3. Current(p)' = dir["state"].data /\ pc'[p] = "idle"
        BY <2>1, <3>1 DEF Current, CommitStages
      <3>4. \A q \in Processes \ {p} :
              pc'[q] = pc[q] /\ (Working(q)' => Working(q)) /\ Current(q)' = Current(q)
        BY <2>1, <3>1 DEF Working, Serving, Current
      <3>8. FilesCarried BY <2>0, <3>1 DEF FilesCarried
      <3>9. WorkCarried BY <3>1, <3>2, <3>3, <3>4 DEF WorkCarried
      <3> QED BY <3>8, <3>9, Carry
    <2>4. CASE LoadNew(p)
      <3>1. /\ UNCHANGED <<dir, durable>> /\ pc[p] = "load" /\ creating[p]
            /\ pc' = [pc EXCEPT ![p] = "open"] /\ next' = [next EXCEPT ![p] = Empty]
            /\ values' = [values EXCEPT ![p] = Empty]
            /\ poisoned' = [poisoned EXCEPT ![p] = FALSE]
        BY <2>4 DEF LoadNew, BeginCommit
      <3>2. authority[p] = 0 /\ step[p] = 0 /\ dir["state"] = NoFile
        BY <1>0, <3>1 DEF AInv, ATypeOK, CommitStages, SInv, Fresh
      <3>3. Current(p)' = Empty /\ pc'[p] \in CommitStages
        BY <2>1, <3>1 DEF Current, CommitStages
      <3>4. \A q \in Processes \ {p} :
              pc'[q] = pc[q] /\ (Working(q)' => Working(q)) /\ Current(q)' = Current(q)
        BY <2>1, <3>1 DEF Working, Serving, Current
      <3>8. FilesCarried BY <2>0, <3>1 DEF FilesCarried
      <3>9. WorkCarried BY <3>1, <3>2, <3>3, <3>4 DEF WorkCarried
      <3> QED BY <3>8, <3>9, Carry
    <2>5. CASE \/ OpenTemporary(p) \/ WriteTemporary(p) \/ SyncTemporary(p) \/ WriteIntent(p)
               \/ SyncIntent(p) \/ RenameState(p) \/ SyncState(p) \/ UnlinkIntent(p)
      <3>1. /\ pc[p] \in CommitStages /\ UNCHANGED <<values, next, poisoned>>
            /\ \E to \in CommitStages : pc' = [pc EXCEPT ![p] = to]
        BY <2>5 DEF OpenTemporary, WriteTemporary, SyncTemporary, WriteIntent, SyncIntent,
           RenameState, SyncState, UnlinkIntent, Call, SyncDirectory, CommitStages
      <3>2. /\ \A q \in Processes : pc'[q] \in CommitStages <=> pc[q] \in CommitStages
            /\ \A q \in Processes : pc[q] \notin CommitStages => pc'[q] = pc[q]
        BY <2>1, <3>1
      <3>3. \A q \in Processes :
              /\ Working(q)' => Working(q) /\ Current(q)' = Current(q)
              /\ pc'[q] \notin CommitStages \cup {"idle", "closed"} =>
                   pc[q] \notin CommitStages \cup {"idle"}
        BY <3>1, <3>2 DEF Working, Serving, Current
      <3>4. \A f \in {dir'["state"], durable'["state"]} :
              f \in {dir["state"], durable["state"]} \/ f = File(next[p], TRUE)
        <4>1. CASE RenameState(p)
          <5>1. dir'["state"] = dir["temporary"] /\ durable' = durable
            BY <2>1, <4>1 DEF RenameState, Call, Names
          <5>2. dir["temporary"] = File(next[p], TRUE)
            BY <1>0, <4>1 DEF RenameState, Call, SInv, Progressing
          <5> QED BY <5>1, <5>2
        <4>2. CASE SyncIntent(p) \/ SyncState(p)
          BY <4>2 DEF SyncIntent, SyncState, SyncDirectory
        <4>3. CASE \/ OpenTemporary(p) \/ WriteTemporary(p) \/ SyncTemporary(p)
                   \/ WriteIntent(p) \/ UnlinkIntent(p)
          BY <2>1, <4>3 DEF OpenTemporary, WriteTemporary, SyncTemporary, WriteIntent,
             UnlinkIntent, Call, Names
        <4> QED BY <2>5, <4>1, <4>2, <4>3
      <3>5. Working(p) /\ Current(p) = next[p] BY <3>1 DEF Working, Current
      <3>8. FilesCarried BY <2>0, <3>4, <3>5 DEF FilesCarried
      <3>9. WorkCarried BY <3>3 DEF WorkCarried
      <3> QED BY <3>8, <3>9, Carry
    <2>6. CASE SyncFinal(p)
      <3>1. /\ UNCHANGED <<dir, next, poisoned>> /\ durable' = dir /\ pc[p] = "syncfinal"
            /\ pc' = [pc EXCEPT ![p] = "idle"] /\ values' = [values EXCEPT ![p] = next[p]]
        BY <2>6 DEF SyncFinal
      <3>2. Working(p) /\ Current(p) = next[p] /\ Current(p)' = next[p] /\ pc'[p] = "idle"
        BY <2>1, <3>1 DEF Working, Current, CommitStages
      <3>3. \A q \in Processes \ {p} :
              pc'[q] = pc[q] /\ (Working(q)' => Working(q)) /\ Current(q)' = Current(q)
        BY <2>1, <3>1 DEF Working, Serving, Current
      <3>8. FilesCarried BY <2>0, <3>1 DEF FilesCarried
      <3>9. WorkCarried BY <3>2, <3>3 DEF WorkCarried
      <3> QED BY <3>8, <3>9, Carry
    <2>7. CASE CommitFails(p) \/ Close(p) \/ Kill(p)
      <3>1. /\ \E to \in {"closed", "idle"} : pc' = [pc EXCEPT ![p] = to] /\
                                              (to = "idle" => poisoned' = [poisoned EXCEPT ![p] = TRUE])
            /\ UNCHANGED <<dir, durable, values, next>>
            /\ poisoned' = [poisoned EXCEPT ![p] = TRUE] \/ poisoned' = poisoned
        BY <2>7 DEF CommitFails, Close, Kill, Leave
      <3>2. pc'[p] \in {"closed", "idle"} /\ (pc'[p] = "idle" => poisoned'[p])
        BY <2>1, <3>1
      <3>3. ~Working(p)' BY <3>2 DEF Working, Serving, CommitStages
      <3>4. \A q \in Processes \ {p} :
              pc'[q] = pc[q] /\ (Working(q)' => Working(q)) /\ Current(q)' = Current(q)
        BY <2>1, <3>1 DEF Working, Serving, Current
      <3>8. FilesCarried BY <2>0, <3>1 DEF FilesCarried
      <3>9. WorkCarried BY <3>1, <3>2, <3>3, <3>4 DEF WorkCarried
      <3> QED BY <3>8, <3>9, Carry
    <2> QED BY <1>2, <2>2, <2>3, <2>4, <2>5, <2>6, <2>7 DEF Opening, Commit
  <1> QED BY <1>1, <1>2

\* Where the IPK is missing, nothing was given out from this store.
LEMMA NotGivenYet ==
  ASSUME AInv, NEW p \in Processes, Working(p), Current(p)[Ipk] = NoValue
  PROVE  established = 0 \/ vanished
  BY StorageAssumption DEF AInv, Kept, Of, ATypeOK

\* Create generates a root: the count of its writes begins.
LEMMA CreateStep ==
  ASSUME AInv, SInv', NEW p \in Processes, CreateAuthority(p)
  PROVE  AInv'
  <1>1. /\ \A q \in Processes : /\ Working(q)' <=> Working(q)
                                /\ Current(q)' = Current(q) /\ pc'[q] = pc[q]
        /\ UNCHANGED <<vars, authority, made, established>>
        /\ \A q \in Processes \ {p} : step'[q] = step[q]
        /\ step' \in [Processes -> 0..4] /\ step'[p] = 1 /\ minted' \in Values /\ minted' \in Nat
    BY DEF CreateAuthority, AInv, ATypeOK, Working, Serving, Current, vars, process, disk
  <1>2. Working(p) /\ Current(p) = values[p] /\ authority[p] = 0 /\ made[p] /\ pc[p] = "idle"
    BY ServedIs DEF CreateAuthority, AInv, Serving
  <1>3. \A q \in Processes \ {p} : ~Working(q) BY <1>2, OneWorks DEF AInv
  <1>4. ATypeOK' BY <1>1, <1>2 DEF AInv, ATypeOK
  <1>5. OneGeneration' BY <1>1 DEF AInv, OneGeneration, Uniform, vars, disk
  <1>6. Creation'
    <2>1. \A i \in 1..3 : Current(p)[Written[i]] = NoValue BY <1>2 DEF CreateAuthority
    <2> QED BY <1>1, <1>3, <2>1 DEF Creation
  <1>7. Owned' BY <1>1 DEF AInv, Owned, Of
  <1>8. Kept' BY <1>1 DEF AInv, Kept, Of, vars, disk
  <1>9. Given' BY <1>1 DEF AInv, Given
  <1> QED BY <1>4, <1>5, <1>6, <1>7, <1>8, <1>9 DEF AInv

\* A commit begun by a served process leaves the directory as it is; the
\* process works on the new snapshot, and nobody else works.
LEMMA Begun ==
  ASSUME SInv, NEW p \in Processes, NEW k \in Keys, NEW v \in Values \cup {NoValue},
         Serving(p), BeginCommit(p, [values[p] EXCEPT ![k] = v]),
         UNCHANGED <<disk, holder, creating, values, poisoned, vanished, crashes>>
  PROVE  /\ Working(p) /\ Working(p)' /\ pc[p] = "idle" /\ pc'[p] \in CommitStages
         /\ Current(p) = values[p] /\ values[p] \in Snapshots
         /\ Current(p)' = [values[p] EXCEPT ![k] = v]
         /\ \A q \in Processes \ {p} : ~Working(q) /\ ~Working(q)' /\ pc'[q] = pc[q]
  <1>1. /\ pc' = [pc EXCEPT ![p] = "open"] /\ next' = [next EXCEPT ![p] = [values[p] EXCEPT ![k] = v]]
        /\ pc[p] = "idle"
    BY DEF BeginCommit, Goto, Serving
  <1>2. pc'[p] = "open" /\ next'[p] = [values[p] EXCEPT ![k] = v]
    BY <1>1 DEF SInv, TypeOK
  <1>3. Working(p) /\ Current(p) = values[p] /\ values[p] \in Snapshots BY ServedIs
  <1>4. \A q \in Processes \ {p} : ~Working(q) BY <1>3, OneWorks
  <1>5. \A q \in Processes \ {p} : pc'[q] = pc[q] BY <1>1 DEF SInv, TypeOK
  <1>6. \A q \in Processes \ {p} : ~Working(q)'
    BY <1>4, <1>5 DEF Working, Serving
  <1>7. Working(p)' /\ pc'[p] \in CommitStages BY <1>2 DEF Working, CommitStages
  <1>8. Current(p)' = [values[p] EXCEPT ![k] = v] BY <1>2 DEF Current, CommitStages
  <1> QED BY <1>1, <1>3, <1>4, <1>5, <1>6, <1>7, <1>8

\* Create writes the next of its three values.
LEMMA WriteStep ==
  ASSUME AInv, SInv', NEW p \in Processes, WriteAuthority(p)
  PROVE  AInv'
  <1> DEFINE k == Written[step[p]]
  <1>0. SInv /\ ATypeOK /\ step[p] \in 1..3 BY DEF AInv, WriteAuthority
  <1>1. minted \in Values /\ authority[p] = 0 BY <1>0 DEF ATypeOK
  <1>2. k \in Keys BY <1>0, WrittenIs
  <1>3. /\ Serving(p) /\ BeginCommit(p, [values[p] EXCEPT ![k] = minted])
        /\ UNCHANGED <<disk, holder, creating, values, poisoned, vanished, crashes>>
        /\ UNCHANGED <<authority, made, minted, established>>
        /\ step' = [step EXCEPT ![p] = @ + 1]
    BY DEF WriteAuthority, SyncSetKeyValue
  <1>4. /\ Working(p) /\ Working(p)' /\ pc[p] = "idle" /\ pc'[p] \in CommitStages
        /\ Current(p) = values[p] /\ values[p] \in Snapshots
        /\ Current(p)' = [values[p] EXCEPT ![k] = minted]
        /\ \A q \in Processes \ {p} : ~Working(q) /\ ~Working(q)' /\ pc'[q] = pc[q]
    BY <1>0, <1>1, <1>2, <1>3, Begun
  <1>5. step' \in [Processes -> 0..4] /\ step'[p] = step[p] + 1
        /\ \A q \in Processes \ {p} : step'[q] = step[q]
    BY <1>0, <1>3 DEF ATypeOK
  <1>6. \A i \in 1..3 : values[p][Written[i]] = IF i < step[p] THEN minted ELSE NoValue
    BY <1>0, <1>4 DEF AInv, Creation
  <1>7. \A i \in 1..3 : Current(p)'[Written[i]] = IF i < step[p] + 1 THEN minted ELSE NoValue
    <2>1. Current(p)'[k] = minted BY <1>2, <1>4 DEF Snapshots
    <2>2. \A l \in Keys \ {k} : Current(p)'[l] = values[p][l] BY <1>4 DEF Snapshots
    <2>3. CASE step[p] = 1 BY <1>6, <2>1, <2>2, <2>3, WrittenIs, AuthorityAssumption
    <2>4. CASE step[p] = 2 BY <1>6, <2>1, <2>2, <2>4, WrittenIs, AuthorityAssumption
    <2>5. CASE step[p] = 3 BY <1>6, <2>1, <2>2, <2>5, WrittenIs, AuthorityAssumption
    <2> QED BY <1>0, <2>3, <2>4, <2>5
  <1>8. established = 0 \/ vanished
    <2>1. values[p][Ipk] = NoValue BY <1>0, <1>6, WrittenIs
    <2> QED BY <1>4, <2>1, NotGivenYet
  <1>9. ATypeOK' BY <1>0, <1>1, <1>3, <1>4, <1>5 DEF ATypeOK
  <1>10. OneGeneration'
    <2>1. \A l \in {RootKey, RootCertificate, Ipk} : Current(p)'[l] \in {minted, NoValue}
      BY <1>7, WrittenIs
    <2>2. Uniform(Current(p)') BY <2>1 DEF Uniform
    <2> QED BY <1>3, <1>4, <2>2 DEF AInv, OneGeneration, Uniform, disk
  <1>11. Creation' BY <1>3, <1>4, <1>5, <1>7 DEF Creation
  <1>12. Owned' BY <1>1, <1>3, <1>4 DEF Owned
  <1>13. Kept' BY <1>3, <1>8 DEF Kept
  <1>14. Given' BY <1>3 DEF AInv, Given
  <1> QED BY <1>9, <1>10, <1>11, <1>12, <1>13, <1>14 DEF AInv

\* An authority is handed out with the snapshot that has all of it.
LEMMA OpenedStep ==
  ASSUME AInv, SInv', NEW p \in Processes, NEW g \in Values, Serving(p), authority[p] = 0,
         Opened(p, g), Of(values[p], g), step' \in [Processes -> 0..4],
         \A q \in Processes \ {p} : step'[q] = step[q], step'[p] = 0
  PROVE  AInv'
  <1>0. SInv /\ ATypeOK BY DEF AInv
  <1>1. /\ \A q \in Processes : /\ Working(q)' <=> Working(q)
                                /\ Current(q)' = Current(q) /\ pc'[q] = pc[q]
        /\ UNCHANGED <<vars, made, minted>>
        /\ \A q \in Processes \ {p} : authority'[q] = authority[q]
        /\ authority' \in [Processes -> Values \cup {0}] /\ authority'[p] = g
        /\ established' = IF established = 0 THEN g ELSE established
    BY <1>0 DEF Opened, ATypeOK, Working, Serving, Current, vars, process, disk
  <1>2. /\ Working(p) /\ Current(p) = values[p] /\ pc[p] = "idle"
        /\ directory = "present" /\ dir["state"] # NoFile
        /\ dir["state"].data = values[p] /\ durable["state"] = dir["state"]
    BY <1>0, ServedIs DEF Serving
  <1>3. \A q \in Processes \ {p} : ~Working(q) BY <1>0, <1>2, OneWorks
  <1>4. g # 0 BY AuthorityAssumption
  <1>5. ATypeOK' BY <1>0, <1>1, <1>2 DEF ATypeOK
  <1>6. OneGeneration' BY <1>1 DEF AInv, OneGeneration, Uniform, vars, disk
  <1>7. Creation' BY <1>1, <1>3 DEF Creation
  <1>8. Owned' BY <1>1, <1>2, <1>3 DEF Owned, Of
  <1>9. Kept'
    <2> SUFFICES ASSUME ~vanished' PROVE Kept' BY DEF Kept
    <2>1. UNCHANGED <<directory, dir, durable, vanished>> BY <1>1 DEF vars, disk
    <2>2. established' = g
      BY <1>1, <1>2, <2>1 DEF AInv, Kept, Of
    <2>3. \A q \in Processes : authority'[q] # 0 => authority'[q] = g
      BY <1>1, <2>1, <2>2 DEF AInv, Kept, Given
    <2> QED BY <1>1, <1>2, <1>3, <2>1, <2>2, <2>3 DEF Kept, Of
  <1>10. Given' BY <1>1, <1>4 DEF Given
  <1> QED BY <1>5, <1>6, <1>7, <1>8, <1>9, <1>10 DEF AInv

\* The SDK's own keys leave the authority as it is.
LEMMA SdkStep ==
  ASSUME AInv, SInv', NEW p \in Processes, SdkWrites(p)
  PROVE  AInv'
  <1>0. SInv /\ ATypeOK BY DEF AInv
  <1>1. PICK k \in Keys \ {RootKey, RootCertificate, Ipk}, v \in Values \cup {NoValue} :
          /\ Serving(p) /\ BeginCommit(p, [values[p] EXCEPT ![k] = v])
          /\ UNCHANGED <<disk, holder, creating, values, poisoned, vanished, crashes>>
    BY AuthorityAssumption DEF SdkWrites, SyncSetKeyValue, SyncDeleteKeyValue
  <1>2. /\ Working(p) /\ Working(p)' /\ pc[p] = "idle" /\ pc'[p] \in CommitStages
        /\ Current(p) = values[p] /\ values[p] \in Snapshots
        /\ Current(p)' = [values[p] EXCEPT ![k] = v]
        /\ \A q \in Processes \ {p} : ~Working(q) /\ ~Working(q)' /\ pc'[q] = pc[q]
    BY <1>0, <1>1, Begun
  <1>3. UNCHANGED authorities /\ authority[p] # 0 BY DEF SdkWrites
  <1>4. \A l \in {RootKey, RootCertificate, Ipk} : Current(p)'[l] = Current(p)[l]
    BY <1>2, WrittenIs DEF Snapshots
  <1>5. ATypeOK' BY <1>0, <1>2, <1>3 DEF ATypeOK, authorities
  <1>6. OneGeneration'
    <2>1. Uniform(Current(p)') BY <1>2, <1>4 DEF AInv, OneGeneration, Uniform
    <2> QED BY <1>1, <1>2, <2>1 DEF AInv, OneGeneration, Uniform, disk
  <1>7. Creation'
    <2>1. step'[p] = 0 BY <1>0, <1>3 DEF ATypeOK, authorities
    <2> QED BY <1>2, <2>1 DEF Creation
  <1>8. Owned' BY <1>2, <1>3, <1>4 DEF AInv, Owned, Of, authorities
  <1>9. Kept' BY <1>1, <1>2, <1>3, <1>4 DEF AInv, Kept, Of, authorities, disk
  <1>10. Given' BY <1>3 DEF AInv, Given, authorities
  <1> QED BY <1>5, <1>6, <1>7, <1>8, <1>9, <1>10 DEF AInv

\* Every step of the authority is one of the store, or leaves it alone.
LEMMA AuthorityOnStore == AInv /\ [ANext]_avars => [Next]_vars
  <1> SUFFICES ASSUME AInv, [ANext]_avars PROVE [Next]_vars OBVIOUS
  <1>1. ASSUME NEW p \in Processes, WriteAuthority(p) PROVE Next
    <2>1. Written[step[p]] \in Keys /\ minted \in Values
      BY <1>1, WrittenIs DEF AInv, ATypeOK, WriteAuthority
    <2> QED BY <1>1, <2>1 DEF WriteAuthority, Next, Setters
  <1>2. ASSUME NEW p \in Processes, SdkWrites(p) PROVE Next
    BY <1>2, AuthorityAssumption DEF SdkWrites, Next, Setters
  <1>3. ASSUME NEW p \in Processes,
               CreateAuthority(p) \/ AuthorityCreated(p) \/ LoadAuthority(p)
        PROVE  UNCHANGED vars
    BY <1>3 DEF CreateAuthority, AuthorityCreated, LoadAuthority, Opened
  <1>4. ASSUME NEW p \in Processes,
               \/ Opening(p) \/ Commit(p) \/ Kill(p)
               \/ AuthorityInvalid(p) \/ CloseController(p)
        PROVE  Next
    BY <1>4 DEF AuthorityInvalid, CloseController, Next
  <1>5. CASE PowerLoss BY <1>5 DEF Next
  <1>6. CASE UNCHANGED avars BY <1>6 DEF avars
  <1> QED BY <1>1, <1>2, <1>3, <1>4, <1>5, <1>6 DEF ANext

\* The invariant of the authority is inductive.
LEMMA AInvStep == AInv /\ [ANext]_avars => AInv'
  <1> SUFFICES ASSUME AInv, [ANext]_avars PROVE AInv' OBVIOUS
  <1>0. SInv' BY AuthorityOnStore, SInvStep DEF AInv
  <1>1. CASE PowerLoss /\ Forget BY <1>0, <1>1, StoreCarries
  <1>2. ASSUME NEW p \in Processes, (Opening(p) \/ Commit(p) \/ Kill(p)) /\ Forget
        PROVE  AInv'
    BY <1>0, <1>2, StoreCarries
  <1>3. ASSUME NEW p \in Processes, AuthorityInvalid(p) \/ CloseController(p)
        PROVE  AInv'
    BY <1>0, <1>3, StoreCarries DEF AuthorityInvalid, CloseController
  <1>4. ASSUME NEW p \in Processes, CreateAuthority(p) PROVE AInv'
    BY <1>0, <1>4, CreateStep
  <1>5. ASSUME NEW p \in Processes, WriteAuthority(p) PROVE AInv'
    BY <1>0, <1>5, WriteStep
  <1>6. ASSUME NEW p \in Processes, AuthorityCreated(p) PROVE AInv'
    <2>1. Serving(p) /\ step[p] = 4 /\ Opened(p, minted) /\ step' = [step EXCEPT ![p] = 0]
      BY <1>6 DEF AuthorityCreated
    <2>2. minted \in Values /\ authority[p] = 0 BY <2>1 DEF AInv, ATypeOK
    <2>3. Working(p) /\ Current(p) = values[p] BY <2>1, ServedIs DEF AInv
    <2>4. Of(values[p], minted) BY <2>1, <2>3, WrittenIs DEF AInv, Creation, Of
    <2>5. /\ step' \in [Processes -> 0..4] /\ step'[p] = 0
          /\ \A q \in Processes \ {p} : step'[q] = step[q]
      BY <2>1 DEF AInv, ATypeOK
    <2> QED BY <1>0, <2>1, <2>2, <2>4, <2>5, OpenedStep
  <1>7. ASSUME NEW p \in Processes, LoadAuthority(p) PROVE AInv'
    <2>1. /\ Serving(p) /\ authority[p] = 0 /\ Complete(values[p])
          /\ Opened(p, values[p][RootKey]) /\ step' = step
      BY <1>7 DEF LoadAuthority
    <2>2. Working(p) /\ Current(p) = values[p] /\ values[p] \in Snapshots
      BY <2>1, ServedIs DEF AInv
    <2>3. values[p][RootKey] \in Values /\ Of(values[p], values[p][RootKey])
      BY <2>1, <2>2, WrittenIs DEF AInv, OneGeneration, Uniform, Complete, Snapshots, Of
    <2>4. step[p] = 0 BY <1>7 DEF LoadAuthority, AInv, ATypeOK
    <2> QED BY <1>0, <2>1, <2>3, <2>4, OpenedStep DEF AInv, ATypeOK
  <1>8. ASSUME NEW p \in Processes, SdkWrites(p) PROVE AInv'
    BY <1>0, <1>8, SdkStep
  <1>9. CASE UNCHANGED avars
    <2>1. UNCHANGED <<directory, dir, durable, vanished, pc, values, next, poisoned,
                      authority, step, made, minted, established>>
      BY <1>9 DEF avars, vars, disk, process, authorities
    <2> QED BY <1>0, <2>1 DEF AInv, ATypeOK, OneGeneration, Uniform, Creation, Owned,
               Kept, Given, Of, Working, Serving, Current
  <1> QED BY <1>1, <1>2, <1>3, <1>4, <1>5, <1>6, <1>7, <1>8, <1>9 DEF ANext

\* The authority uses the store as its setters and deleters allow: what is
\* proved of the store for every caller holds for this one.
THEOREM AuthorityStoreAtomic == ASpec => StoreIsAtomic
  <1>1. ASpec => Spec
    <2>1. AInit => Init BY DEF AInit
    <2> QED BY <2>1, InitAInv, AInvStep, AuthorityOnStore, PTL DEF ASpec, Spec
  <1> QED BY <1>1, StoreRefines, PTL

\* An open controller has the three values of one generation, wherever
\* creation was cut short.
THEOREM WholeAuthorityCorrect == ASpec => []WholeAuthority
  <1>1. AInv => WholeAuthority
    <2> SUFFICES ASSUME AInv, NEW p \in Processes, authority[p] # 0, Serving(p), NEW i \in 1..3
                 PROVE  values[p][Written[i]] = authority[p]
      BY DEF WholeAuthority
    <2>1. Working(p) /\ Current(p) = values[p] BY ServedIs DEF AInv
    <2> QED BY <2>1, WrittenIs DEF AInv, Owned, Of
  <1> QED BY <1>1, InitAInv, AInvStep, PTL DEF ASpec

\* Identity retention across crashes, restarts and creations.
THEOREM IdentityCorrect == ASpec => []IdentityKept
  <1>1. AInv => IdentityKept
    BY DEF AInv, IdentityKept, Kept, Given
  <1> QED BY <1>1, InitAInv, AInvStep, PTL DEF ASpec
=============================================================================
