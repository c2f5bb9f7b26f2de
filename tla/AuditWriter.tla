---------------------------- MODULE AuditWriter ----------------------------
(***************************************************************************)
(* common/audit/audit.go, the audit writer: Emit puts events into a        *)
(* buffered channel without ever blocking the caller, one goroutine        *)
(* collects them into batches and inserts these into audit_events, and     *)
(* Shutdown closes the channel and waits until the rest is written.        *)
(***************************************************************************)
EXTENDS Integers, FiniteSets

CONSTANTS
  Events,      \* calls of Emit, each from a goroutine of its own
  Capacity,    \* of the channel (1024)
  BatchSize    \* events per insert (100)

ASSUME SizesAssumption == Capacity \in Nat \ {0} /\ BatchSize \in Nat \ {0}

VARIABLES
  at,        \* where each event is
  closed,    \* Writer.closed; the channel is closed in the same critical section
  writer,    \* what the writer goroutine does
  shutdown   \* what the caller of Shutdown does

auditVars == <<at, closed, writer, shutdown>>

Queued  == {e \in Events : at[e] = "queued"}
Batched == {e \in Events : at[e] = "batched"}
Move(S, place) == at' = [e \in Events |-> IF e \in S THEN place ELSE at[e]]

AuditInit ==
  /\ at = [e \in Events |-> "new"]
  /\ closed = FALSE
  /\ writer = "wait"
  /\ shutdown = "no"

-----------------------------------------------------------------------------
(* Emit *)

\* The check of closed, under the mutex; the mutex is free again when it sends.
Check(e) ==
  /\ at[e] = "new"
  /\ Move({e}, IF closed THEN "refused" ELSE "sending")
  /\ UNCHANGED <<closed, writer, shutdown>>

HasRoom == Cardinality(Queued) < Capacity

\* The non-blocking send.  A send on a closed channel panics.
Send(e) ==
  /\ at[e] = "sending"
  /\ Move({e}, IF closed THEN "panicked" ELSE IF HasRoom THEN "queued" ELSE "dropped")
  /\ UNCHANGED <<closed, writer, shutdown>>

-----------------------------------------------------------------------------
(* The writer goroutine *)

Full(S) == Cardinality(S) >= BatchSize

\* Nothing below tells the events apart: the order of the channel is left out.
Receive(e) ==
  /\ writer = "wait" /\ e \in Queued
  /\ Move({e}, "batched")
  /\ writer' = IF Full(Batched \cup {e}) THEN "flush" ELSE "wait"
  /\ UNCHANGED <<closed, shutdown>>

Due == Batched # {}

TickerFires ==
  /\ writer = "wait" /\ Due
  /\ writer' = "flush"
  /\ UNCHANGED <<at, closed, shutdown>>

\* Fault: a closed channel ends the loop although events are still buffered.
AsSoonAsClosed == closed
Drained        == closed /\ Queued = {}

LastFlush ==
  /\ writer = "wait" /\ Drained
  /\ writer' = "last"
  /\ UNCHANGED <<at, closed, shutdown>>

\* The insert, with a timeout of its own.  On an error, for example because main has
\* closed the database meanwhile, the batch is given up.
Flush(ok) ==
  /\ writer \in {"flush", "last"}
  /\ Move(Batched, IF ok THEN "stored" ELSE "lost")
  /\ writer' = IF writer = "last" THEN "done" ELSE "wait"
  /\ UNCHANGED <<closed, shutdown>>

-----------------------------------------------------------------------------
(* Shutdown, once, from the end of main *)

Shutdown ==
  /\ shutdown = "no"
  /\ closed' = TRUE
  /\ shutdown' = "waiting"
  /\ UNCHANGED <<at, writer>>

\* The writer is done, or time is up; the database is closed soon after.
ShutdownReturns(inTime) ==
  /\ shutdown = "waiting"
  /\ inTime => writer = "done"
  /\ shutdown' = "returned"
  /\ UNCHANGED <<at, closed, writer>>

-----------------------------------------------------------------------------
WriterStep ==
  \/ \E e \in Events : Receive(e)
  \/ TickerFires
  \/ LastFlush
  \/ \E ok \in BOOLEAN : Flush(ok)

AuditNext ==
  \/ \E e \in Events : Check(e) \/ Send(e)
  \/ WriterStep
  \/ Shutdown
  \/ \E inTime \in BOOLEAN : ShutdownReturns(inTime)

\* The writer goroutine and its ticker run; when events come and whether the process
\* is ever shut down is left open.
AuditSpec == AuditInit /\ [][AuditNext]_auditVars /\ WF_auditVars(WriterStep)

-----------------------------------------------------------------------------
(* Properties *)

\* An accepted event is inserted, or given up after a failed insert, while the
\* process lives, even if no further event ever comes.
AcceptedIsHandled ==
  \A e \in Events :
    at[e] = "queued" ~> (at[e] \in {"stored", "lost"} \/ shutdown = "returned")
=============================================================================
