----------------------------- MODULE AuditExport -----------------------------
(***************************************************************************)
(* common/audit/export.go: audit_events as CSV, page by page behind a      *)
(* cursor.  One goroutine queries and writes each row into two pipes, one  *)
(* after the other: the handler copies the first one to the client, the    *)
(* second one is uploaded to MinIO.  A write waits until its reader has    *)
(* taken it.  Meanwhile the audit writers of all processes go on inserting *)
(* rows, whose time was taken before they are visible.                     *)
(***************************************************************************)
EXTENDS Integers, Sequences, FiniteSets

CONSTANTS
  Logged,      \* the rows, numbered in the order of (created_at, event_id)
  CreatedAt,   \* the time of each
  Filters,     \* the sets of rows that event_type, from and to may select
  Limits,      \* the values of limit; 0 is none
  PageSize     \* exportBatchSize (500)

ASSUME ExportAssumption ==
  /\ Logged \subseteq Nat \ {0} /\ CreatedAt \in [Logged -> Nat]
  /\ \A d, e \in Logged : d < e => CreatedAt[d] <= CreatedAt[e]
  /\ Filters \subseteq SUBSET Logged /\ Limits \subseteq Nat
  /\ PageSize \in Nat \ {0}

VARIABLES
  table,      \* the rows of audit_events that are visible
  filter,     \* what the client asks for,
  limit,      \* its limit,
  cursor,     \* and the row to go on after; 0 at the beginning
  export,     \* what the exporting goroutine does
  page,       \* the rows of the last query it has not written yet
  lastPage,   \* the last query found less than it asked for
  count,      \* rows written
  ending,     \* how it closed the pipes
  client,     \* the client, and the handler that copies to it
  got,        \* the rows the client has, of this call and those it resumes
  upload,     \* the goroutine that uploads
  object,     \* the rows it has taken
  known,      \* history: what was visible when the client began,
  due         \* and what of it this call should export

request    == <<filter, limit, known, due>>
exporter   == <<cursor, export, page, lastPage, count, ending>>
exportVars == <<table, request, exporter, client, got, upload, object>>

Least(S) == CHOOSE e \in S : \A d \in S : e <= d
Newest(s) == IF s = <<>> THEN 0 ELSE s[Len(s)]

ExportInit ==
  /\ table = {} /\ filter = {} /\ limit = 0 /\ known = {} /\ due = {}
  /\ cursor = 0 /\ export = "none" /\ page = {} /\ lastPage = FALSE /\ count = 0
  /\ ending = "open" /\ client = "none" /\ got = <<>> /\ upload = "off" /\ object = {}

\* An audit writer commits a row, possibly an older one than others did before.
Insert(e) ==
  /\ e \notin table /\ table' = table \cup {e}
  /\ UNCHANGED <<request, exporter, client, got, upload, object>>

-----------------------------------------------------------------------------
(* applyExportFilter *)

\* Fault: the cursor is the time alone.
LaterThan(c) == {e \in Logged : c = 0 \/ CreatedAt[e] > CreatedAt[c]}
\* The rows after the cursor; the event id tells those of one time apart.
After(c) ==
  {e \in Logged : c = 0 \/ CreatedAt[e] > CreatedAt[c] \/ (CreatedAt[e] = CreatedAt[c] /\ e > c)}

\* ORDER BY created_at, event_id LIMIT n
First(S, n) == {e \in S : Cardinality({d \in S : d < e}) < n}

-----------------------------------------------------------------------------
(* ExportCSVHandler *)

\* The pipes are made, and with MinIO the upload starts.
Start(minio) ==
  /\ export' = "query" /\ page' = {} /\ lastPage' = FALSE /\ count' = 0 /\ ending' = "open"
  /\ client' = "reads" /\ object' = {}
  /\ upload' = IF minio THEN "reads" ELSE "off"
  /\ UNCHANGED table

Begin(f, n, minio) ==
  /\ client = "none" /\ Start(minio)
  /\ filter' = f /\ limit' = n /\ known' = table
  /\ cursor' = 0 /\ got' = <<>> /\ due' = table \cap f

\* A client without an answer under way goes on behind the last row it has: next_cursor.
\* What its last call may have left waiting in a pipe has nothing to do with the new one.
Resume(minio) ==
  /\ client \in {"left", "gone", "answered"} /\ Start(minio)
  /\ cursor' = Newest(got) /\ due' = table \cap filter \cap After(Newest(got))
  /\ UNCHANGED <<filter, limit, known, got>>

-----------------------------------------------------------------------------
(* ExportCSV, in a goroutine of its own *)

\* Fault: the pipes are closed as if all were well.
Whatever(ok) == "eof"
\* Fault: the pipes are closed only at the end of the rows.
WhenDone(ok) == IF ok THEN "eof" ELSE "open"
\* CloseWithError, on the one pipe and the other.
EndOf(ok) == IF ok THEN "eof" ELSE "error"
Close(ok) == export' = "ended" /\ ending' = EndOf(ok)

BatchLimit == IF limit > 0 /\ limit - count < PageSize THEN limit - count ELSE PageSize
Reached(n) == limit > 0 /\ n >= limit
IsLast     == lastPage \/ Reached(count + 1)

Query ==
  LET found == First(table \cap filter \cap After(cursor), BatchLimit) IN
  /\ export = "query"
  /\ page' = found /\ lastPage' = (Cardinality(found) < BatchLimit)
  /\ IF found = {} THEN Close(TRUE) ELSE export' = "client" /\ UNCHANGED ending
  /\ UNCHANGED <<table, request, cursor, count, client, got, upload, object>>

\* The query fails, or the context of the request ended with its client.
QueryFails ==
  /\ export = "query" /\ Close(FALSE)
  /\ UNCHANGED <<table, request, cursor, page, lastPage, count, client, got, upload, object>>

\* A row has gone through both pipes.
NextRow(e) ==
  /\ page' = page \ {e} /\ cursor' = e /\ count' = count + 1
  /\ \/ page # {e} /\ export' = "client" /\ UNCHANGED ending
     \/ page = {e} /\ ~IsLast /\ export' = "query" /\ UNCHANGED ending
     \/ page = {e} /\ IsLast /\ Close(TRUE)
  /\ UNCHANGED lastPage

\* The handler takes a row and passes it on.  When the connection is broken that fails,
\* and nobody reads the pipe from then on.
WriteToClient ==
  LET e == Least(page) IN
  /\ export = "client"
  /\ \/ client = "reads" /\ got' = Append(got, e) /\ UNCHANGED client
     \/ client = "left" /\ client' = "gone" /\ UNCHANGED got
  /\ IF upload = "off"
     THEN NextRow(e)
     ELSE export' = "object" /\ UNCHANGED <<cursor, page, lastPage, count, ending>>
  /\ UNCHANGED <<table, request, upload, object>>

\* The upload takes the row; once it has failed nobody reads this pipe either.
WriteToObject ==
  LET e == Least(page) IN
  /\ export = "object" /\ upload = "reads"
  /\ object' = object \cup {e} /\ NextRow(e)
  /\ UNCHANGED <<table, request, client, got, upload>>

-----------------------------------------------------------------------------
(* The readers of the pipes *)

\* The end of the answer; an error only ends it earlier, the status was sent long ago.
Answered ==
  /\ client = "reads" /\ ending # "open" /\ client' = "answered"
  /\ UNCHANGED <<table, request, exporter, got, upload, object>>

\* The connection breaks; of what was sent the client has a part.
Disconnect ==
  /\ client = "reads" /\ client' = "left"
  /\ \E n \in 0..Len(got) : got' = SubSeq(got, 1, n)
  /\ UNCHANGED <<table, request, exporter, upload, object>>

\* The handler notices it at the end of the pipe, or not at all.
Notice ==
  /\ client = "left" /\ ending # "open" /\ client' = "gone"
  /\ UNCHANGED <<table, request, exporter, got, upload, object>>

UploadEnds ==
  /\ upload = "reads" /\ ending # "open"
  /\ upload' = IF ending = "eof" THEN "stored" ELSE "failed"
  /\ UNCHANGED <<table, request, exporter, client, got, object>>

UploadFails ==
  /\ upload = "reads" /\ upload' = "failed"
  /\ UNCHANGED <<table, request, exporter, client, got, object>>

-----------------------------------------------------------------------------
Exporter == Query \/ QueryFails \/ WriteToClient \/ WriteToObject
Pipes    == Answered \/ Notice \/ UploadEnds

ExportNext ==
  \/ \E e \in Logged : Insert(e)
  \/ \E minio \in BOOLEAN : Resume(minio) \/ \E f \in Filters, n \in Limits : Begin(f, n, minio)
  \/ Exporter \/ Pipes \/ Disconnect \/ UploadFails

\* The database answers, and who reads a pipe goes on reading it.
ExportSpec == ExportInit /\ [][ExportNext]_exportVars /\ WF_exportVars(Exporter) /\ WF_exportVars(Pipes)
-----------------------------------------------------------------------------
(* Properties *)

\* What a client puts together from one call or from several, each resumed behind the
\* last row of the one before, has no row twice, and up to its end every row that was
\* there when it began, however the inserts of other rows fall between the pages.
NothingSkipped ==
  /\ \A i, j \in 1..Len(got) : i < j => got[i] < got[j]
  /\ \A e \in known \cap filter : e <= Newest(got) => \E i \in 1..Len(got) : got[i] = e

\* An object that was stored is the whole export: an export that failed half-way, or
\* whose client left, leaves none.
StoredIsWhole ==
  upload = "stored" =>
    \A e \in due : e \in object \/ (Reached(Cardinality(object)) /\ \A d \in object : d < e)

\* A client that stays gets to the end of its answer, after an error too; unless the
\* upload fails, and the goroutine waits in the second pipe with the first one open.
AnswerEnds == client = "reads" ~> (client # "reads" \/ upload = "failed")
=============================================================================
