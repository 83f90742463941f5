------------------------------- MODULE RWLock -------------------------------
(***************************************************************************)
(* What the DataSpaces lock API promises an application group, whatever   *)
(* strategy the server runs: a group asks for the lock for reading or for  *)
(* writing, is granted it only when no other group writes and, for a      *)
(* write, when no group reads, holds it, and gives it back.  Grants are    *)
(* what the groups see (dcg_lock_on_read / dcg_lock_on_write returning),   *)
(* not the server's own record.                                            *)
(***************************************************************************)
EXTENDS Naturals, FiniteSets

CONSTANTS
  Groups,      \* the application groups using the lock
  ReaderCap    \* how many groups may hold it for reading at once

VARIABLES
  rdAsk,       \* groups waiting for a read grant
  wrAsk,       \* groups waiting for a write grant
  readers,     \* groups holding the lock for reading
  writers      \* groups holding the lock for writing

avars == <<rdAsk, wrAsk, readers, writers>>

Idle(g) == g \notin rdAsk \cup wrAsk \cup readers \cup writers

AInit == rdAsk = {} /\ wrAsk = {} /\ readers = {} /\ writers = {}

RequestRead(g) ==
  /\ Idle(g)
  /\ rdAsk' = rdAsk \cup {g}
  /\ UNCHANGED <<wrAsk, readers, writers>>

RequestWrite(g) ==
  /\ Idle(g)
  /\ wrAsk' = wrAsk \cup {g}
  /\ UNCHANGED <<rdAsk, readers, writers>>

GrantRead(g) ==
  /\ g \in rdAsk
  /\ writers = {}
  /\ Cardinality(readers) < ReaderCap
  /\ rdAsk' = rdAsk \ {g}
  /\ readers' = readers \cup {g}
  /\ UNCHANGED <<wrAsk, writers>>

GrantWrite(g) ==
  /\ g \in wrAsk
  /\ writers = {} /\ readers = {}
  /\ wrAsk' = wrAsk \ {g}
  /\ writers' = {g}
  /\ UNCHANGED <<rdAsk, readers>>

ReleaseRead(g) ==
  /\ g \in readers
  /\ readers' = readers \ {g}
  /\ UNCHANGED <<rdAsk, wrAsk, writers>>

ReleaseWrite(g) ==
  /\ g \in writers
  /\ writers' = {}
  /\ UNCHANGED <<rdAsk, wrAsk, readers>>

ANext ==
  \E g \in Groups :
    \/ RequestRead(g) \/ RequestWrite(g)
    \/ GrantRead(g) \/ GrantWrite(g)
    \/ ReleaseRead(g) \/ ReleaseWrite(g)

\* Only safety is stated by the abstract lock; that every queued get is
\* eventually granted is LockEventuallyGranted, stated of LockService.
ASpec == AInit /\ [][ANext]_avars
=============================================================================
