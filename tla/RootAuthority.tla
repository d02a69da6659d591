--------------------------- MODULE RootAuthority ---------------------------
(***************************************************************************)
(* RootAuthority (native/src/authority.cpp) on DurableStorage: the root    *)
(* key, the root certificate and the IPK are three values of the store,    *)
(* written by three commits when the controller is created and read back   *)
(* by every later host process.  A value is the number of the key          *)
(* generation it comes from.                                               *)
(***************************************************************************)
EXTENDS DurableStorage, Sequences

CONSTANTS
  RootKey,               \* kRootKey
  RootCertificate,       \* kRootCertificate
  Ipk,                   \* kIpk
  SdkValues              \* values of the SDK's own keys

ASSUME AuthorityAssumption ==
  /\ {RootKey, RootCertificate, Ipk} \subseteq Keys
  /\ RootKey # RootCertificate /\ RootKey # Ipk /\ RootCertificate # Ipk
  /\ Values \subseteq Nat \ {0}
  /\ SdkValues \subseteq Values

VARIABLES
  authority,             \* per process: generation of the authority, 0 before
  step,                  \* per process: values Create has written, 0 outside
  made,                  \* per process: GenerateRoot mode, this Open created
  minted,                \* key generations made so far
  established            \* the first generation a caller was given, 0 before

authorities == <<authority, step, made, minted, established>>
avars == <<vars, authorities>>

Written == <<RootKey, RootCertificate, Ipk>>

AInit ==
  /\ Init
  /\ authority = [p \in Processes |-> 0]
  /\ step = [p \in Processes |-> 0]
  /\ made = [p \in Processes |-> FALSE]
  /\ minted = 0
  /\ established = 0

\* The memory of a process that leaves the store is gone.
Forget ==
  /\ authority' = [p \in Processes |-> IF pc'[p] = "closed" THEN 0 ELSE authority[p]]
  /\ step' = [p \in Processes |-> IF pc'[p] = "closed" THEN 0 ELSE step[p]]
  /\ made' = [p \in Processes |-> IF pc'[p] = "closed" THEN FALSE
                                  ELSE made[p] \/ creating'[p]]
  /\ UNCHANGED <<minted, established>>

\* Mutant of CreateAuthority: a root that is not found is made in memory,
\* also by a process that did not create the store.
CreateAuthorityInMemory(p) ==
  /\ Serving(p)
  /\ authority[p] = 0 /\ step[p] = 0
  /\ \A i \in 1..3 : values[p][Written[i]] = NoValue
  /\ minted + 1 \in Values
  /\ minted' = minted + 1
  /\ authority' = [authority EXCEPT ![p] = minted + 1]
  /\ established' = IF established = 0 THEN minted + 1 ELSE established
  /\ UNCHANGED <<vars, made, step>>

\* Create: none of the three keys may exist; a new root key is generated.
CreateAuthority(p) ==
  /\ Serving(p) /\ made[p]
  /\ authority[p] = 0 /\ step[p] = 0
  /\ \A i \in 1..3 : values[p][Written[i]] = NoValue
  /\ minted + 1 \in Values
  /\ minted' = minted + 1
  /\ step' = [step EXCEPT ![p] = 1]
  /\ UNCHANGED <<vars, authority, made, established>>

\* Create: the next of its three writes.
WriteAuthority(p) ==
  /\ step[p] \in 1..3
  /\ SyncSetKeyValue(p, Written[step[p]], minted)
  /\ step' = [step EXCEPT ![p] = @ + 1]
  /\ UNCHANGED <<authority, made, minted, established>>

\* The controller is open with this authority.
Opened(p, generation) ==
  /\ authority' = [authority EXCEPT ![p] = generation]
  /\ established' = IF established = 0 THEN generation ELSE established
  /\ UNCHANGED <<vars, made, minted>>

AuthorityCreated(p) ==
  /\ Serving(p)
  /\ step[p] = 4
  /\ Opened(p, minted)
  /\ step' = [step EXCEPT ![p] = 0]

\* Mutant of Complete: an incomplete authority is filled up.
CompletePartly(snapshot) == snapshot[RootKey] # NoValue

\* Load: all three values exist, and the certificate is of the key.
Complete(snapshot) ==
  /\ \A i \in 1..3 : snapshot[Written[i]] # NoValue
  /\ snapshot[RootCertificate] = snapshot[RootKey]

LoadAuthority(p) ==
  /\ Serving(p) /\ ~made[p]
  /\ authority[p] = 0
  /\ Complete(values[p])
  /\ Opened(p, values[p][RootKey])
  /\ UNCHANGED step

\* An authority that cannot be loaded or written fails the open; Cleanup
\* closes the store.
AuthorityInvalid(p) ==
  /\ pc[p] = "idle"
  /\ authority[p] = 0
  /\ poisoned[p] \/ (~made[p] /\ ~Complete(values[p]))
  /\ Close(p)
  /\ Forget

\* The SDK writes its own keys once the controller is open.
SdkWrites(p) ==
  /\ authority[p] # 0
  /\ \E k \in Keys \ {RootKey, RootCertificate, Ipk} :
       (\E v \in SdkValues : SyncSetKeyValue(p, k, v)) \/ SyncDeleteKeyValue(p, k)
  /\ UNCHANGED authorities

CloseController(p) ==
  /\ authority[p] # 0
  /\ Close(p)
  /\ Forget

ANext ==
  \/ \E p \in Processes :
       \/ (Opening(p) \/ Commit(p) \/ Kill(p)) /\ Forget
       \/ CreateAuthority(p) \/ WriteAuthority(p) \/ AuthorityCreated(p)
       \/ LoadAuthority(p) \/ AuthorityInvalid(p)
       \/ SdkWrites(p) \/ CloseController(p)
  \/ PowerLoss /\ Forget

ASpec == AInit /\ [][ANext]_avars
-----------------------------------------------------------------------------
(* Properties.                                                             *)

\* An open controller has all three values of one generation: a creation
\* that a crash cut short, or a value lost between two commits, is never
\* taken for an authority (Create against Load).
WholeAuthority ==
  \A p \in Processes :
    authority[p] # 0 /\ Serving(p) =>
      \A i \in 1..3 : values[p][Written[i]] = authority[p]

\* Identity retention: once a caller has been given an authority, no crash,
\* restart or second creation makes a controller open with another one,
\* unless the directory itself was lost with its entry in the parent, which
\* Open never syncs.
IdentityKept ==
  \A p \in Processes : authority[p] # 0 => authority[p] = established \/ vanished
=============================================================================
