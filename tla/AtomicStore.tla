----------------------------- MODULE AtomicStore -----------------------------
(***************************************************************************)
(* What the controller's store promises the code above it, without files,  *)
(* renames or fsyncs: a register that one process at a time reads and      *)
(* replaces.  A replacement may take effect, or destroy the register, at   *)
(* any time between its begin and its end, but a process is never shown a  *)
(* snapshot that nobody wrote, and a write that was acknowledged survives  *)
(* every power loss but one that loses the whole store.                    *)
(***************************************************************************)
CONSTANTS
  Processes,
  Snapshots,
  None                   \* no snapshot

VARIABLES
  content,               \* the snapshots a later Open may find
  firm,                  \* those that it will find, whatever crashes
  reader,                \* per process: the snapshot it serves, or None
  writing,               \* per process: the snapshot it is writing, or None
  lost                   \* a power loss has taken the whole store

avars == <<content, firm, reader, writing, lost>>

Init ==
  /\ content = {}
  /\ firm = {}
  /\ lost = FALSE
  /\ reader = [p \in Processes |-> None]
  /\ writing = [p \in Processes |-> None]

Idle == \A p \in Processes : reader[p] = None /\ writing[p] = None

Open(p) ==
  /\ Idle
  /\ \E s \in content : content = {s} /\ reader' = [reader EXCEPT ![p] = s]
  /\ UNCHANGED <<content, firm, writing, lost>>

\* A creation, or a change by the process that serves the store.
Begin(p) ==
  /\ (Idle /\ content = {}) \/ reader[p] # None
  /\ writing'[p] \in Snapshots
  /\ writing' = [writing EXCEPT ![p] = writing'[p]]
  /\ reader' = [reader EXCEPT ![p] = None]
  /\ UNCHANGED <<content, firm, lost>>

\* The write puts what was firm at risk, reaches its point of no return, or
\* takes effect.
Progress(p) ==
  /\ writing[p] # None
  /\ content' \in {content, {}, {writing[p]}}
  /\ firm' \subseteq content'
  /\ UNCHANGED <<reader, writing, lost>>

\* The caller is told that its write succeeded, once it is firm.
Acknowledge(p) ==
  /\ writing[p] # None
  /\ content = {writing[p]}
  /\ firm' = {writing[p]}
  /\ reader' = [reader EXCEPT ![p] = writing[p]]
  /\ writing' = [writing EXCEPT ![p] = None]
  /\ UNCHANGED <<content, lost>>

\* A process closes the store, fails in its write or is killed.
Leave(p) ==
  /\ reader' = [reader EXCEPT ![p] = None]
  /\ writing' = [writing EXCEPT ![p] = None]
  /\ UNCHANGED <<content, firm, lost>>

\* A power loss ends every process.  It takes what is firm only with the
\* whole store; what it leaves is firm.
PowerLoss ==
  /\ reader' = [p \in Processes |-> None]
  /\ writing' = [p \in Processes |-> None]
  /\ content' \subseteq content
  /\ lost' \in {lost, TRUE}
  /\ firm \subseteq content' \/ (lost' /\ content' = {})
  /\ firm' = content'

Next ==
  \/ \E p \in Processes : Open(p) \/ Begin(p) \/ Progress(p) \/ Acknowledge(p) \/ Leave(p)
  \/ PowerLoss

Spec == Init /\ [][Next]_avars
-----------------------------------------------------------------------------
\* Type invariant of the register.
TypeOK ==
  /\ content \in SUBSET Snapshots
  /\ firm \in SUBSET content
  /\ lost \in BOOLEAN
  /\ reader \in [Processes -> Snapshots \cup {None}]
  /\ writing \in [Processes -> Snapshots \cup {None}]

\* What a process serves is the only thing a later Open can find, and it is
\* alone in the store.
ReadIsLasting ==
  \A p \in Processes :
    reader[p] # None =>
      /\ content = {reader[p]}
      /\ \A q \in Processes \ {p} : reader[q] = None /\ writing[q] = None
=============================================================================
