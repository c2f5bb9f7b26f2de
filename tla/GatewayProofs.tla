----------------------------- MODULE GatewayProofs -----------------------------
(***************************************************************************)
(* The ways in from outside: the circuit breaker, alone and behind the     *)
(* pool of the gateway, the shutdown, and the export of the audit events,  *)
(* for any number of requests and calls, any limits and times, any rows,   *)
(* filters and page size.                                                  *)
(***************************************************************************)
EXTENDS Gateway, AuditExport, FiniteSetTheorems, WellFoundedInduction, TLAPS

-----------------------------------------------------------------------------
(* The circuit breaker *)

BreakerInv == TypeOK /\ ClosedBelowLimit

\* The breaker starts closed with no failure and ages stay within their range.
LEMMA BreakerInitInv == Init => BreakerInv
  BY MaxFailuresAssumption, TimeoutAssumption
  DEF Init, BreakerInv, TypeOK, ClosedBelowLimit, States, Ages, Old

\* Every step keeps the type of the state, and closed apart from the limit.
LEMMA BreakerStepInv == BreakerInv /\ [Next]_vars => BreakerInv'
<1>. SUFFICES ASSUME BreakerInv, [Next]_vars PROVE BreakerInv'
  OBVIOUS
<1>. USE MaxFailuresAssumption, TimeoutAssumption
         DEF BreakerInv, TypeOK, ClosedBelowLimit, States, Ages, Old
<1>1. CASE Tick
  <2>1. \A a \in Ages : Older(a) \in Ages
    BY DEF Older
  <2>2. age' \in Ages /\ saw' \in [Requests -> [state : States, age : Ages]]
    BY <1>1, <2>1 DEF Tick
  <2>. QED  BY <1>1, <2>2 DEF Tick
<1>2. ASSUME NEW r \in Requests, ReadState(r) PROVE BreakerInv'
  BY <1>2 DEF ReadState
<1>3. ASSUME NEW r \in Requests, Answer(r) PROVE BreakerInv'
  BY <1>3 DEF Answer, Admit, Probe, Reject
<1>4. ASSUME NEW r \in Requests, ReportFailure(r) PROVE BreakerInv'
  BY <1>4 DEF ReportFailure, Trips
<1>5. ASSUME NEW r \in Requests, ReportSuccess(r) PROVE BreakerInv'
  BY <1>5 DEF ReportSuccess, Forgiven
<1>6. ASSUME NEW r \in Requests, Panic(r) PROVE BreakerInv'
  BY <1>6 DEF Panic
<1>7. CASE UNCHANGED vars
  BY <1>7 DEF vars
<1>. QED  BY <1>1, <1>2, <1>3, <1>4, <1>5, <1>6, <1>7 DEF Next

\* For any number of requests, limit and cooling time, the breaker is closed exactly
\* while fewer failures than the limit were reported since the last success.
THEOREM BreakerClosedBelowLimit == Spec => []ClosedBelowLimit
<1>1. BreakerInv => ClosedBelowLimit
  BY DEF BreakerInv
<1>. QED  BY BreakerInitInv, BreakerStepInv, <1>1, PTL DEF Spec

\* The breaker's variables keep their types for any constants.
THEOREM BreakerTypeCorrect == Spec => []TypeOK
<1>1. BreakerInv => TypeOK
  BY DEF BreakerInv
<1>. QED  BY BreakerInitInv, BreakerStepInv, <1>1, PTL DEF Spec

-----------------------------------------------------------------------------
(* The gateway *)

\* To the breaker a step of the gateway is one of its own or none.
LEMMA GatewayStepsBreaker == [GatewayNext]_gatewayVars => [Next]_vars
<1> SUFFICES ASSUME [GatewayNext]_gatewayVars PROVE [Next]_vars
  OBVIOUS
<1>1. ASSUME NEW r \in Requests, Request(r) PROVE [Next]_vars
  BY <1>1 DEF Request, Accept, Submit, TurnAway, Enter, Leave, Inside, Next
<1>2. CASE GracefulShutdown
  BY <1>2 DEF GracefulShutdown, Signal, Deadline, PoolDeadline, HttpStops, GrpcStops,
              AuditStops, PoolsStop, Pass
<1>3. CASE WorkerRests \/ \E c \in Rpcs : CallRpc(c) \/ ReturnRpc(c)
  BY <1>3 DEF WorkerRests, CallRpc, ReturnRpc
<1> QED
  BY <1>1, <1>2, <1>3 DEF GatewayNext, Next, gatewayVars

\* Behind the pool, and while the process shuts down, the breaker does what it does by
\* itself: what holds of it holds in the gateway.
THEOREM GatewayRunsBreaker == GatewaySpec => Spec
<1>1. GatewayInit => Init
  BY DEF GatewayInit
<1> QED
  BY <1>1, GatewayStepsBreaker, PTL DEF GatewaySpec, Spec

\* Once a step of the shutdown has ended, what it waits for is gone, unless its time was
\* over, and does not come back: no request is taken after the signal, no call after the
\* server has stopped, no task once the pool is released.
GatewayInv ==
  /\ gate \in [Requests -> {"away", "submit", "task", "inside"}]
  /\ closing \in {"nothing", "http", "grpc", "audit", "pools", "closed"}
  /\ closing \notin {"nothing", "http"} /\ Active # {} => late = TRUE
  /\ closing \in {"audit", "pools", "closed"} /\ rpc # {} => late = TRUE
  /\ closing = "closed" /\ Tasks # {} => poolLate = TRUE

\* It begins with nobody to wait for.
LEMMA GatewayInitInv == GatewayInit => GatewayInv
  BY DEF GatewayInit, GatewayInv

\* A step of the gateway that is none of the shutdown brings nobody in who was waited for.
LEMMA NobodyComesIn ==
  ASSUME GatewayInv, UNCHANGED <<closing, late, poolLate>>,
         gate' \in [Requests -> {"away", "submit", "task", "inside"}],
         closing \notin {"nothing", "http"} => Active' \subseteq Active,
         closing \in {"audit", "pools", "closed"} => rpc' \subseteq rpc,
         closing = "closed" => Tasks' \subseteq Tasks
  PROVE  GatewayInv'
BY DEF GatewayInv

\* No step lets anybody in who was waited for.
LEMMA GatewayStepInv == GatewayInv /\ [GatewayNext]_gatewayVars => GatewayInv'
<1> SUFFICES ASSUME GatewayInv, [GatewayNext]_gatewayVars PROVE GatewayInv'
  OBVIOUS
<1>1. ASSUME UNCHANGED <<gate, closing, late, poolLate>>,
             closing \in {"audit", "pools", "closed"} => rpc' \subseteq rpc
      PROVE  GatewayInv'
  BY <1>1 DEF GatewayInv, Active, Tasks
<1>2. ASSUME NEW r \in Requests, Request(r) PROVE GatewayInv'
  <2>1. CASE Accept(r)
    BY <2>1, NobodyComesIn DEF Accept, GatewayInv
  <2>2. CASE Submit(r) \/ TurnAway(r) \/ Enter(r) \/ Leave(r)
    <3>1. /\ UNCHANGED <<closing, late, poolLate, rpc>> /\ gate[r] # "away"
          /\ gate' \in [Requests -> {"away", "submit", "task", "inside"}]
          /\ \A q \in Requests \ {r} : gate'[q] = gate[q]
          /\ closing = "closed" /\ gate'[r] \in {"task", "inside"}
               => gate[r] \in {"task", "inside"}
      BY <2>2 DEF Submit, TurnAway, Enter, Leave, Released, GatewayInv
    <3>2. Active' \subseteq Active /\ (closing = "closed" => Tasks' \subseteq Tasks)
      BY <3>1 DEF Active, Tasks
    <3> QED
      BY <3>1, <3>2, NobodyComesIn
  <2>3. CASE UNCHANGED gateVars
    BY <1>1, <2>3 DEF gateVars
  <2> QED
    BY <1>2, <2>1, <2>2, <2>3 DEF Request
<1>3. CASE WorkerRests \/ \E c \in Rpcs : CallRpc(c) \/ ReturnRpc(c)
  BY <1>1, <1>3 DEF WorkerRests, CallRpc, ReturnRpc
<1>4. CASE GracefulShutdown
  <2>1. gate' = gate /\ rpc' = rpc
    BY <1>4 DEF GracefulShutdown, Signal, Deadline, PoolDeadline, HttpStops, GrpcStops,
                AuditStops, PoolsStop, Pass
  <2>2. Active' = Active /\ Tasks' = Tasks
    BY <2>1 DEF Active, Tasks
  <2>3. CASE Signal \/ Deadline \/ PoolDeadline
    BY <2>1, <2>2, <2>3 DEF Signal, Deadline, PoolDeadline, GatewayInv
  <2>4. CASE HttpStops \/ GrpcStops \/ AuditStops \/ PoolsStop
    BY <2>1, <2>2, <2>4 DEF HttpStops, GrpcStops, AuditStops, PoolsStop, Pass, MayPass,
                            GatewayInv
  <2> QED
    BY <1>4, <2>3, <2>4 DEF GracefulShutdown
<1>5. CASE (Tick /\ UNCHANGED gateVars) \/ UNCHANGED gatewayVars
  BY <1>1, <1>5 DEF gateVars, gatewayVars
<1> QED
  BY <1>2, <1>3, <1>4, <1>5 DEF GatewayNext

\* For any requests, calls and pool, what requests and calls use is closed after the
\* last of them, or after the time they had.
THEOREM GatewayClosesLast == GatewaySpec => []ClosesLast
<1>1. GatewayInv => ClosesLast
  BY DEF GatewayInv, ClosesLast, Active, Tasks
<1> QED
  BY GatewayInitInv, GatewayStepInv, <1>1, PTL DEF GatewaySpec

-----------------------------------------------------------------------------
(* The order of the rows *)

\* A set of row numbers has a least one.
LEMMA LeastExists ==
  ASSUME NEW S \in SUBSET Nat, S # {}
  PROVE  Least(S) \in S /\ \A d \in S : Least(S) <= d
<1> DEFINE R == {ss \in Nat \X Nat : ss[1] < ss[2]}
<1>1. IsWellFoundedOn(R, Nat)
  BY NatLessThanWellFounded DEF OpToRel
<1> HIDE DEF R
<1>2. PICK x \in S : \A y \in S : ~(<<y, x>> \in R)
  BY <1>1, WFMin
<1>3. ASSUME NEW y \in S PROVE x <= y
  <2>1. ~(y < x)
    BY <1>2, <1>3 DEF R
  <2> QED
    BY <2>1
<1> QED
  BY <1>3 DEF Least

\* The cursor selects the rows behind it.
LEMMA AfterIsLater ==
  ASSUME NEW c \in Logged \cup {0}, NEW e \in Logged
  PROVE  e \in After(c) <=> e > c
<1>1. CASE c = 0
  BY <1>1, ExportAssumption DEF After
<1>2. CASE c \in Logged
  <2>1. c \in Nat /\ e \in Nat /\ c # 0 /\ CreatedAt[c] \in Nat /\ CreatedAt[e] \in Nat
    BY <1>2, ExportAssumption
  <2>2. /\ c < e => CreatedAt[c] <= CreatedAt[e]
        /\ e < c => CreatedAt[e] <= CreatedAt[c]
    BY <1>2, ExportAssumption
  <2> QED
    BY <1>2, <2>1, <2>2 DEF After
<1> QED
  BY <1>1, <1>2

\* The part of a set before one of its members is finite.
LEMMA BeforeIsFinite ==
  ASSUME NEW S \in SUBSET Nat, NEW e \in Nat
  PROVE  IsFiniteSet({d \in S : d < e}) /\ Cardinality({d \in S : d < e}) \in Nat
<1> DEFINE B == {d \in S : d < e}
<1>1. B \in SUBSET Nat
  OBVIOUS
<1>2. \A d \in B : d <= e
  OBVIOUS
<1> HIDE DEF B
<1>3. IsFiniteSet(B)
  BY <1>1, <1>2, FS_BoundedSetOfNaturals
<1>4. Cardinality(B) \in Nat
  BY <1>3, FS_CardinalityType
<1> QED
  BY <1>3, <1>4 DEF B

\* A page is the earliest part of what was found.
LEMMA FirstIsEarliest ==
  ASSUME NEW S \in SUBSET Nat, NEW n \in Int, NEW e \in S, e \notin First(S, n),
         NEW d \in First(S, n)
  PROVE  d < e
<1> SUFFICES ASSUME d >= e PROVE FALSE
  BY DEF First
<1>1. d \in S /\ Cardinality({x \in S : x < d}) < n /\ ~(Cardinality({x \in S : x < e}) < n)
  BY DEF First
<1>2. \A x \in S : x < e => x < d
  BY <1>1
<1>3. {x \in S : x < e} \in SUBSET {x \in S : x < d}
  BY <1>2
<1> QED
  BY <1>1, <1>3, BeforeIsFinite, FS_Subset

\* A page with room left is all that was found.
LEMMA ShortIsAll ==
  ASSUME NEW S \in SUBSET Nat, NEW n \in Int, IsFiniteSet(First(S, n)),
         Cardinality(First(S, n)) < n
  PROVE  First(S, n) = S
<1> DEFINE Rest == S \ First(S, n)
<1> SUFFICES ASSUME Rest # {} PROVE FALSE
  BY DEF First
<1>1. PICK e \in Rest : \A d \in Rest : e <= d
  BY LeastExists
<1>2. \A d \in S : d < e => d \in First(S, n)
  BY <1>1
<1>3. Cardinality({d \in S : d < e}) <= Cardinality(First(S, n))
  BY <1>2, FS_Subset, Zenon
<1>4. ~(Cardinality({d \in S : d < e}) < n)
  BY <1>1 DEF First
<1>5. Cardinality(First(S, n)) \in Nat /\ Cardinality({d \in S : d < e}) \in Nat
  BY <1>1, BeforeIsFinite, FS_CardinalityType
<1> QED
  BY <1>3, <1>4, <1>5

-----------------------------------------------------------------------------
(* The types *)

\* The values of the variables; a query that found rows is what writes rows out.
ExportType ==
  /\ table \in SUBSET Logged /\ IsFiniteSet(table)
  /\ filter \in SUBSET Logged /\ known \in SUBSET table /\ due \in SUBSET (table \cap filter)
  /\ limit \in Nat /\ count \in Nat /\ cursor \in Logged \cup {0}
  /\ page \in SUBSET (table \cap filter) /\ object \in SUBSET Logged /\ got \in Seq(Logged)
  /\ export \in {"client", "object"} => page # {}
  /\ ending # "open" => export = "ended"

\* The newest row of a sequence is a row, or 0 when there is none.
LEMMA NewestType ==
  ASSUME NEW s \in Seq(Logged)
  PROVE  Newest(s) \in Logged \cup {0} /\ Newest(s) \in Nat
<1>1. CASE s = <<>>
  BY <1>1 DEF Newest
<1>2. CASE s # <<>>
  <2>1. s[Len(s)] \in Logged
    BY <1>2
  <2>2. s[Len(s)] \in Nat
    BY <2>1, ExportAssumption
  <2> QED
    BY <1>2, <2>1, <2>2 DEF Newest
<1> QED
  BY <1>1, <1>2

\* What a query finds, and that the least row of a page is one of it.
LEMMA PageType ==
  ASSUME ExportType, page # {}
  PROVE  Least(page) \in page /\ Least(page) \in Logged /\ \A d \in page : Least(page) <= d
<1>1. page \in SUBSET Nat
  BY ExportAssumption DEF ExportType
<1>2. Least(page) \in page /\ \A d \in page : Least(page) <= d
  BY <1>1, LeastExists
<1> QED
  BY <1>2 DEF ExportType

\* A row that has gone through.
RowDone(e) ==
  /\ page' = page \ {e} /\ cursor' = e /\ count' = count + 1 /\ lastPage' = lastPage
  /\ \/ export' = "client" /\ page' # {} /\ ending' = ending
     \/ export' = "query" /\ page' = {} /\ ~IsLast /\ ending' = ending
     \/ export' = "ended" /\ page' = {} /\ IsLast /\ ending' = "eof"

\* A row that both writers have taken leaves the page and becomes the cursor.
LEMMA RowGoesThrough ==
  ASSUME ExportType, NEW e \in page, NextRow(e)
  PROVE  RowDone(e)
<1>1. page' = page \ {e} /\ cursor' = e /\ count' = count + 1 /\ lastPage' = lastPage
  BY DEF NextRow
<1>2. page' = {} <=> page = {e}
  BY <1>1
<1> QED
  BY <1>1, <1>2 DEF NextRow, RowDone, Close, EndOf

\* The types hold in every state.
LEMMA TypesHold == ExportSpec => []ExportType
<1>1. ExportInit => ExportType
  BY FS_EmptySet DEF ExportInit, ExportType
<1>2. ExportType /\ [ExportNext]_exportVars => ExportType'
  <2> SUFFICES ASSUME ExportType, [ExportNext]_exportVars PROVE ExportType'
    OBVIOUS
  <2> USE DEF ExportType
  <2>1. ASSUME NEW e \in Logged, Insert(e) PROVE ExportType'
    <3>1. IsFiniteSet(table')
      BY <2>1, FS_AddElement DEF Insert
    <3> QED
      BY <2>1, <3>1 DEF Insert, request, exporter
  <2>2. ASSUME NEW f \in Filters, NEW n \in Limits, NEW minio \in BOOLEAN, Begin(f, n, minio)
        PROVE  ExportType'
    BY <2>2, ExportAssumption DEF Begin, Start
  <2>3. ASSUME NEW minio \in BOOLEAN, Resume(minio) PROVE ExportType'
    BY <2>3, NewestType DEF Resume, Start
  <2>4. CASE Query
    <3>1. page' \in SUBSET (table \cap filter)
      BY <2>4 DEF Query, First
    <3>2. /\ UNCHANGED <<table, filter, limit, known, due, cursor, count, got, object>>
          /\ IF page' = {} THEN Close(TRUE) ELSE export' = "client" /\ UNCHANGED ending
      BY <2>4 DEF Query, request
    <3> QED
      BY <2>4, <3>1, <3>2 DEF Query, Close
  <2>5. CASE QueryFails
    BY <2>5 DEF QueryFails, Close, request
  <2>6. CASE WriteToClient
    <3>1. Least(page) \in page /\ Least(page) \in Logged
      BY <2>6, PageType DEF WriteToClient
    <3>2. got' \in Seq(Logged)
      BY <2>6, <3>1 DEF WriteToClient
    <3>3. UNCHANGED <<table, filter, limit, known, due, object>>
      BY <2>6 DEF WriteToClient, request
    <3>4. CASE upload = "off"
      <4>1. export = "client" /\ RowDone(Least(page))
        BY <2>6, <3>1, <3>4, RowGoesThrough DEF WriteToClient
      <4> QED
        BY <3>1, <3>2, <3>3, <4>1 DEF RowDone
    <3>5. CASE upload # "off"
      BY <2>6, <3>2, <3>3, <3>5 DEF WriteToClient
    <3> QED
      BY <3>4, <3>5
  <2>7. CASE WriteToObject
    <3>1. Least(page) \in page /\ Least(page) \in Logged
      BY <2>7, PageType DEF WriteToObject
    <3>2. export = "object" /\ RowDone(Least(page))
      BY <2>7, <3>1, RowGoesThrough DEF WriteToObject
    <3>3. UNCHANGED <<table, filter, limit, known, due, got>> /\ object' \in SUBSET Logged
      BY <2>7, <3>1 DEF WriteToObject, request
    <3> QED
      BY <3>1, <3>2, <3>3 DEF RowDone
  <2>8. CASE Answered \/ Notice \/ UploadEnds \/ UploadFails
    BY <2>8 DEF Answered, Notice, UploadEnds, UploadFails, request, exporter
  <2>9. CASE Disconnect
    <3>1. got' \in Seq(Logged)
      BY <2>9 DEF Disconnect
    <3> QED
      BY <2>9, <3>1 DEF Disconnect, request, exporter
  <2>10. CASE UNCHANGED exportVars
    BY <2>10 DEF exportVars, request, exporter
  <2> QED
    BY <2>1, <2>2, <2>3, <2>4, <2>5, <2>6, <2>7, <2>8, <2>9, <2>10
    DEF ExportNext, Exporter, Pipes
<1> QED
  BY <1>1, <1>2, PTL DEF ExportSpec

-----------------------------------------------------------------------------
(* The page *)

\* The rows that the export owes to the client or to the object.
Wanted == (known \cap filter) \cup due

\* The page is what follows the cursor, without a gap.
PageInv ==
  /\ \A e \in page : e > cursor
  /\ \A e \in Wanted : e > cursor /\ e \notin page => \A d \in page : d < e

\* A query puts the first rows behind the cursor on the page.
LEMMA QueryFinds ==
  ASSUME ExportType, Query
  PROVE  LET found == table \cap filter \cap After(cursor) IN
         /\ found \in SUBSET Nat /\ BatchLimit \in Int
         /\ page' = First(found, BatchLimit) /\ IsFiniteSet(page')
         /\ Cardinality(page') \in Nat
         /\ \A e \in found : e > cursor
         /\ \A e \in Wanted : e > cursor => e \in found
<1> DEFINE found == table \cap filter \cap After(cursor)
<1>1. found \in SUBSET Nat /\ BatchLimit \in Int
  <2>1. table \in SUBSET Nat
    BY ExportAssumption DEF ExportType
  <2>2. BatchLimit \in Int
    BY ExportAssumption DEF ExportType, BatchLimit
  <2> QED
    BY <2>1, <2>2
<1>2. page' = First(found, BatchLimit)
  BY DEF Query
<1>3. page' \in SUBSET table
  BY <1>2 DEF First
<1>4. IsFiniteSet(page') /\ Cardinality(page') \in Nat
  BY <1>3, FS_Subset, FS_CardinalityType DEF ExportType
<1>5. \A e \in Logged : e \in After(cursor) <=> e > cursor
  BY AfterIsLater DEF ExportType
<1>6. /\ \A e \in found : e > cursor
      /\ \A e \in Wanted : e > cursor => e \in found
  BY <1>5 DEF ExportType, Wanted
<1> QED
  BY <1>1, <1>2, <1>4, <1>6

\* The next row goes, the page stays without a gap.
LEMMA NextRowKeepsPage ==
  ASSUME ExportType, PageInv, page # {}, RowDone(Least(page)), Wanted' = Wanted
  PROVE  PageInv'
<1>1. /\ Least(page) \in page /\ Least(page) \in Nat
      /\ \A d \in page : d \in Nat /\ Least(page) <= d
  BY PageType, ExportAssumption DEF ExportType
<1>2. Wanted \in SUBSET Nat /\ cursor \in Nat
  BY ExportAssumption DEF ExportType, Wanted
<1>3. cursor' = Least(page) /\ page' = page \ {Least(page)}
  BY DEF RowDone
<1>4. \A e \in page' : e > cursor'
  BY <1>1, <1>3
<1>5. ASSUME NEW e \in Wanted, e > cursor', e \notin page' PROVE \A d \in page' : d < e
  <2>1. e > cursor /\ e \notin page
    BY <1>1, <1>2, <1>3, <1>5 DEF PageInv
  <2> QED
    BY <1>3, <2>1, <1>5 DEF PageInv
<1> QED
  BY <1>4, <1>5 DEF PageInv

\* The page is always what follows the cursor without a gap.
LEMMA PageHolds == ExportSpec => []PageInv
<1>1. ExportInit => PageInv
  BY DEF ExportInit, PageInv
<1>2. ExportType /\ ExportType' /\ PageInv /\ [ExportNext]_exportVars => PageInv'
  <2> SUFFICES ASSUME ExportType, ExportType', PageInv, [ExportNext]_exportVars PROVE PageInv'
    OBVIOUS
  <2>1. ASSUME NEW f \in Filters, NEW n \in Limits, NEW minio \in BOOLEAN, Begin(f, n, minio)
        PROVE  PageInv'
    BY <2>1 DEF Begin, Start, PageInv
  <2>2. ASSUME NEW minio \in BOOLEAN, Resume(minio) PROVE PageInv'
    BY <2>2 DEF Resume, Start, PageInv
  <2>3. CASE Query
    <3> DEFINE found == table \cap filter \cap After(cursor)
    <3>1. UNCHANGED <<cursor, Wanted>>
      BY <2>3 DEF Query, request, Wanted
    <3>2. \A e \in page' : e \in found
      BY <2>3, QueryFinds DEF First
    <3>3. ASSUME NEW e \in Wanted, e > cursor, e \notin page', NEW d \in page' PROVE d < e
      BY <2>3, <3>3, QueryFinds, FirstIsEarliest
    <3> QED
      BY <2>3, <3>1, <3>2, <3>3, QueryFinds DEF PageInv
  <2>4. CASE WriteToClient
    <3>1. Wanted' = Wanted /\ page # {}
      BY <2>4 DEF WriteToClient, request, Wanted, ExportType
    <3>2. CASE upload = "off"
      <4>1. RowDone(Least(page))
        BY <2>4, <3>1, <3>2, PageType, RowGoesThrough DEF WriteToClient
      <4> QED
        BY <3>1, <4>1, NextRowKeepsPage
    <3>3. CASE upload # "off"
      BY <2>4, <3>1, <3>3 DEF WriteToClient, PageInv
    <3> QED
      BY <3>2, <3>3
  <2>5. CASE WriteToObject
    <3>1. Wanted' = Wanted /\ page # {}
      BY <2>5 DEF WriteToObject, request, Wanted, ExportType
    <3>2. RowDone(Least(page))
      BY <2>5, <3>1, PageType, RowGoesThrough DEF WriteToObject
    <3> QED
      BY <3>1, <3>2, NextRowKeepsPage
  <2>6. CASE \/ \E e \in Logged : Insert(e)
             \/ QueryFails \/ Answered \/ Notice \/ UploadEnds \/ UploadFails \/ Disconnect
             \/ UNCHANGED exportVars
    BY <2>6 DEF Insert, QueryFails, Answered, Notice, UploadEnds, UploadFails, Disconnect,
                exportVars, request, exporter, PageInv, Wanted
  <2> QED
    BY <2>1, <2>2, <2>3, <2>4, <2>5, <2>6 DEF ExportNext, Exporter, Pipes
<1> QED
  BY <1>1, <1>2, TypesHold, PTL DEF ExportSpec

-----------------------------------------------------------------------------
(* What the client has *)

\* A sequence of rows in their order, and membership in a sequence.
Increasing(s)  == \A i, j \in 1..Len(s) : i < j => s[i] < s[j]
Contains(s, e) == \E i \in 1..Len(s) : s[i] = e

\* The newest row of rows in order is the last one and the greatest.
LEMMA NewestIsGreatest ==
  ASSUME NEW s \in Seq(Logged), Increasing(s), NEW i \in 1..Len(s)
  PROVE  s[i] <= Newest(s) /\ Newest(s) = s[Len(s)]
<1>1. s # <<>> /\ Len(s) \in 1..Len(s)
  OBVIOUS
<1>2. s[i] \in Nat /\ s[Len(s)] \in Nat
  BY <1>1, ExportAssumption
<1>3. CASE i = Len(s)
  BY <1>1, <1>2, <1>3 DEF Newest
<1>4. CASE i # Len(s)
  BY <1>1, <1>2, <1>4 DEF Newest, Increasing
<1> QED
  BY <1>3, <1>4

\* A newer row at the end keeps the order and every row that was there.
LEMMA AppendIncreases ==
  ASSUME NEW s \in Seq(Logged), Increasing(s), NEW e \in Logged, Newest(s) < e
  PROVE  /\ Increasing(Append(s, e)) /\ Newest(Append(s, e)) = e
         /\ Contains(Append(s, e), e)
         /\ \A d : Contains(s, d) => Contains(Append(s, e), d)
<1> DEFINE t == Append(s, e)
<1>1. t \in Seq(Logged) /\ Len(t) = Len(s) + 1 /\ Len(s) \in Nat
  OBVIOUS
<1>2. t[Len(t)] = e /\ \A i \in 1..Len(s) : t[i] = s[i]
  OBVIOUS
<1> HIDE DEF t
<1>3. t # <<>>
  BY <1>1
<1>4. \A i \in 1..Len(s) : s[i] < e
  <2> SUFFICES ASSUME NEW i \in 1..Len(s) PROVE s[i] < e
    OBVIOUS
  <2>1. s[i] \in Logged
    OBVIOUS
  <2>2. s[i] \in Nat /\ e \in Nat
    BY <2>1, ExportAssumption
  <2> QED
    BY <2>2, NewestType, NewestIsGreatest
<1>5. Increasing(t)
  <2> SUFFICES ASSUME NEW i \in 1..Len(t), NEW j \in 1..Len(t), i < j PROVE t[i] < t[j]
    BY DEF Increasing
  <2>1. CASE j = Len(t)
    BY <1>1, <1>2, <1>4, <2>1
  <2>2. CASE j # Len(t)
    BY <1>1, <1>2, <2>2 DEF Increasing
  <2> QED
    BY <2>1, <2>2
<1>6. Newest(t) = e /\ Contains(t, e)
  BY <1>1, <1>2, <1>3 DEF Newest, Contains
<1>7. ASSUME NEW d, Contains(s, d) PROVE Contains(t, d)
  BY <1>1, <1>2, <1>7 DEF Contains
<1> QED
  BY <1>5, <1>6, <1>7 DEF t

\* A part from the front holds what it reaches to.
LEMMA FrontKeeps ==
  ASSUME NEW s \in Seq(Logged), Increasing(s), NEW n \in 0..Len(s)
  PROVE  /\ Increasing(SubSeq(s, 1, n))
         /\ \A d \in Logged : d <= Newest(SubSeq(s, 1, n)) /\ Contains(s, d)
                                => Contains(SubSeq(s, 1, n), d)
         /\ Newest(SubSeq(s, 1, n)) <= Newest(s)
<1> DEFINE t == SubSeq(s, 1, n)
<1>1. t \in Seq(Logged) /\ Len(t) = n /\ \A i \in 1..n : t[i] = s[i]
  OBVIOUS
<1> HIDE DEF t
<1>2. Increasing(t)
  BY <1>1 DEF Increasing
<1>3. ASSUME NEW d \in Logged, d <= Newest(t), Contains(s, d) PROVE Contains(t, d)
  <2>1. PICK i \in 1..Len(s) : s[i] = d
    BY <1>3 DEF Contains
  <2>2. d \in Nat /\ d # 0
    BY ExportAssumption
  <2>3. n # 0
    BY <1>1, <1>3, <2>2 DEF Newest
  <2>4. Newest(t) = s[n]
    BY <1>1, <2>3 DEF Newest
  <2>5. i <= n
    <3>1. s[n] \in Logged
      BY <2>3
    <3>2. s[n] \in Nat
      BY <3>1, ExportAssumption
    <3> QED
      BY <1>3, <2>1, <2>2, <2>3, <2>4, <3>2 DEF Increasing
  <2> QED
    BY <1>1, <2>1, <2>5 DEF Contains
<1>4. Newest(t) <= Newest(s)
  <2>1. Newest(s) \in Nat
    BY NewestType, ExportAssumption
  <2>2. CASE n = 0
    BY <1>1, <2>1, <2>2 DEF Newest
  <2>3. CASE n # 0
    BY <1>1, <2>3, NewestIsGreatest DEF Newest
  <2> QED
    BY <2>2, <2>3
<1> QED
  BY <1>2, <1>3, <1>4 DEF t

\* The client is where the cursor is, or a row ahead of it.
GotInv ==
  /\ Increasing(got)
  /\ \A e \in known \cap filter : e <= Newest(got) => Contains(got, e)
  /\ client = "reads" =>
       /\ export \in {"query", "client"} => Newest(got) = cursor
       /\ export = "object" => Newest(got) = Least(page)

\* The least row of the page is what the client has to get next.
LEMMA RowComesNext ==
  ASSUME ExportType, PageInv, GotInv, client = "reads", export = "client",
         got' = Append(got, Least(page)), known' = known, filter' = filter
  PROVE  /\ Increasing(got') /\ Newest(got') = Least(page)
         /\ \A e \in known' \cap filter' : e <= Newest(got') => Contains(got', e)
<1> DEFINE e == Least(page)
<1>1. e \in page /\ e \in Logged /\ (\A d \in page : e <= d) /\ Newest(got) < e
  BY PageType DEF ExportType, PageInv, GotInv
<1>2. /\ Increasing(got') /\ Newest(got') = e /\ Contains(got', e)
      /\ \A d : Contains(got, d) => Contains(got', d)
  BY <1>1, AppendIncreases DEF ExportType, GotInv
<1> HIDE DEF e
<1>3. ASSUME NEW d \in known \cap filter, d <= e PROVE Contains(got', d)
  <2>1. d \in Nat /\ e \in Nat /\ cursor \in Nat /\ Newest(got) = cursor
    BY <1>1, ExportAssumption DEF ExportType, GotInv
  <2>2. CASE d <= cursor
    BY <1>2, <2>1, <2>2 DEF GotInv
  <2>3. CASE d > cursor
    <3>1. d \in page
      BY <1>1, <1>3, <2>1, <2>3 DEF PageInv, Wanted
    <3> QED
      BY <1>1, <1>2, <1>3, <2>1, <3>1
  <2> QED
    BY <2>1, <2>2, <2>3
<1> QED
  BY <1>2, <1>3 DEF e

\* The client always has what is wanted up to the newest row it got.
LEMMA GotHolds == ExportSpec => []GotInv
<1>1. ExportInit => GotInv
  BY DEF ExportInit, GotInv, Increasing
<1>2. ExportType /\ PageInv /\ GotInv /\ [ExportNext]_exportVars => GotInv'
  <2> SUFFICES ASSUME ExportType, PageInv, GotInv, [ExportNext]_exportVars PROVE GotInv'
    OBVIOUS
  <2>1. ASSUME NEW f \in Filters, NEW n \in Limits, NEW minio \in BOOLEAN, Begin(f, n, minio)
        PROVE  GotInv'
    <3>1. /\ got' = <<>> /\ export' = "query" /\ cursor' = 0
          /\ known' \in SUBSET Logged
      BY <2>1 DEF Begin, Start, ExportType
    <3>2. Newest(got') = 0 /\ Increasing(got')
      BY <3>1 DEF Newest, Increasing
    <3>3. \A e \in known' : ~(e <= 0)
      BY <3>1, ExportAssumption
    <3> QED
      BY <3>1, <3>2, <3>3 DEF GotInv
  <2>2. ASSUME NEW minio \in BOOLEAN, Resume(minio) PROVE GotInv'
    BY <2>2 DEF Resume, Start, GotInv
  <2>3. CASE Query
    BY <2>3 DEF Query, Close, request, GotInv
  <2>4. CASE WriteToClient
    <3>1. export = "client" /\ page # {} /\ UNCHANGED <<known, filter>>
      BY <2>4 DEF WriteToClient, request, ExportType
    <3>2. CASE client = "left"
      BY <2>4, <3>1, <3>2 DEF WriteToClient, GotInv
    <3>3. CASE client = "reads"
      <4>1. got' = Append(got, Least(page)) /\ client' = client
        BY <2>4, <3>3 DEF WriteToClient
      <4>2. /\ Increasing(got') /\ Newest(got') = Least(page)
            /\ \A e \in known' \cap filter' : e <= Newest(got') => Contains(got', e)
        BY <3>1, <3>3, <4>1, RowComesNext
      <4>3. CASE upload = "off"
        <5>1. RowDone(Least(page))
          BY <2>4, <3>1, <4>3, PageType, RowGoesThrough DEF WriteToClient
        <5> QED
          BY <4>2, <5>1 DEF RowDone, GotInv
      <4>4. CASE upload # "off"
        BY <2>4, <4>2, <4>4 DEF WriteToClient, GotInv
      <4> QED
        BY <4>3, <4>4
    <3> QED
      BY <2>4, <3>2, <3>3 DEF WriteToClient
  <2>5. CASE WriteToObject
    <3>1. export = "object" /\ page # {} /\ UNCHANGED <<known, filter, got, client>>
      BY <2>5 DEF WriteToObject, request, ExportType
    <3>2. RowDone(Least(page))
      BY <2>5, <3>1, PageType, RowGoesThrough DEF WriteToObject
    <3> QED
      BY <3>1, <3>2 DEF RowDone, GotInv
  <2>6. CASE Disconnect
    <3>1. PICK n \in 0..Len(got) : got' = SubSeq(got, 1, n)
      BY <2>6 DEF Disconnect
    <3>2. client' = "left" /\ UNCHANGED <<known, filter>>
      BY <2>6 DEF Disconnect, request
    <3>3. /\ Increasing(got') /\ Newest(got') <= Newest(got)
          /\ \A d \in Logged : d <= Newest(got') /\ Contains(got, d) => Contains(got', d)
      BY <3>1, FrontKeeps DEF ExportType, GotInv
    <3>4. got' \in Seq(Logged)
      BY <3>1 DEF ExportType
    <3>5. Newest(got') \in Nat /\ Newest(got) \in Nat
      BY <3>4, NewestType DEF ExportType
    <3>6. \A e \in known \cap filter : e \in Logged /\ e \in Nat
      BY ExportAssumption DEF ExportType
    <3>7. \A e \in known \cap filter : e <= Newest(got') => Contains(got', e)
      BY <3>3, <3>5, <3>6 DEF GotInv
    <3> QED
      BY <3>2, <3>3, <3>7 DEF GotInv
  <2>7. CASE \/ \E e \in Logged : Insert(e)
             \/ QueryFails \/ Answered \/ Notice \/ UploadEnds \/ UploadFails
             \/ UNCHANGED exportVars
    BY <2>7 DEF Insert, QueryFails, Close, Answered, Notice, UploadEnds, UploadFails,
                exportVars, request, exporter, GotInv
  <2> QED
    BY <2>1, <2>2, <2>3, <2>4, <2>5, <2>6, <2>7 DEF ExportNext, Exporter, Pipes
<1> QED
  BY <1>1, <1>2, TypesHold, PageHolds, PTL DEF ExportSpec

\* What a client puts together has no row twice and, up to its end, every row that was
\* there when it began, whatever is inserted meanwhile and however often the answer
\* breaks off and is resumed.
THEOREM ExportNothingSkipped == ExportSpec => []NothingSkipped
<1>1. GotInv => NothingSkipped
  BY DEF GotInv, NothingSkipped, Increasing, Contains
<1> QED
  BY <1>1, GotHolds, PTL

-----------------------------------------------------------------------------
(* What is stored *)

\* While it has not failed, the upload has what is due up to the cursor; and the
\* exporter ends well only at the end of the rows or of the limit.
ObjectInv ==
  /\ export = "query" => ~Reached(count)
  /\ lastPage => \A e \in due : e > cursor => e \in page
  /\ ending = "eof" => (\A e \in due : e <= cursor) \/ Reached(count)
  /\ upload \in {"reads", "stored"} =>
       /\ IsFiniteSet(object) /\ Cardinality(object) = count
       /\ \A e \in object : e <= cursor
       /\ \A e \in due : e <= cursor => e \in object
  /\ upload = "stored" => ending = "eof"

\* The query that finds nothing, or less than it asked for, has found the end.
LEMMA QueryEnds ==
  ASSUME ExportType, ObjectInv, Query
  PROVE  /\ page' = {} => \A e \in due : e <= cursor
         /\ lastPage' => \A e \in due : e > cursor => e \in page'
<1> DEFINE found == table \cap filter \cap After(cursor)
<1>1. /\ found \in SUBSET Nat /\ BatchLimit \in Int /\ page' = First(found, BatchLimit)
      /\ IsFiniteSet(page') /\ Cardinality(page') \in Nat
      /\ \A e \in due : e > cursor => e \in found
  BY QueryFinds DEF Wanted
<1>2. BatchLimit > 0
  BY ExportAssumption DEF Query, ObjectInv, Reached, BatchLimit, ExportType
<1>3. lastPage' <=> Cardinality(page') < BatchLimit
  BY DEF Query
<1> HIDE DEF found
<1>4. Cardinality(page') < BatchLimit => page' = found
  BY <1>1, ShortIsAll
<1>5. page' = {} => Cardinality(page') < BatchLimit
  BY <1>1, <1>2, FS_EmptySet
<1>6. \A e \in due : e \in Nat /\ cursor \in Nat
  BY ExportAssumption DEF ExportType
<1> QED
  BY <1>1, <1>3, <1>4, <1>5, <1>6

\* A row that has gone through both pipes.
LEMMA RowIsTaken ==
  ASSUME ExportType, PageInv, ObjectInv, page # {}, RowDone(Least(page)),
         UNCHANGED <<limit, due, upload>>, export \in {"client", "object"},
         upload = "off" \/ (upload = "reads" /\ object' = object \cup {Least(page)})
  PROVE  ObjectInv'
<1> DEFINE e == Least(page)
<1>1. e \in page /\ e \in Nat /\ e > cursor /\ \A d \in page : d \in Nat /\ e <= d
  BY PageType, ExportAssumption DEF ExportType, PageInv
<1>2. /\ cursor \in Nat /\ count \in Nat /\ limit \in Nat
      /\ \A d \in due : d \in Nat
      /\ \A d \in object : d \in Nat
  BY ExportAssumption DEF ExportType
<1>3. /\ page' = page \ {e} /\ cursor' = e /\ count' = count + 1 /\ lastPage' = lastPage
      /\ UNCHANGED <<limit, due, upload>> /\ ending = "open"
      /\ \/ export' = "client" /\ page' # {} /\ ending' = ending
         \/ export' = "query" /\ page' = {} /\ ~IsLast /\ ending' = ending
         \/ export' = "ended" /\ page' = {} /\ IsLast /\ ending' = "eof"
  BY DEF RowDone, ExportType
<1> HIDE DEF e
<1>4. \A d \in due : d <= e => d <= cursor \/ d = e
  <2> SUFFICES ASSUME NEW d \in due, d <= e, ~(d <= cursor) PROVE d = e
    OBVIOUS
  <2>1. d \in Wanted /\ d > cursor
    BY <1>2 DEF Wanted
  <2>2. d \in page
    BY <1>1, <1>2, <2>1 DEF PageInv
  <2> QED
    BY <1>1, <1>2, <2>2
<1>5. export' = "query" => ~Reached(count')
  BY <1>3 DEF IsLast, Reached
<1>6. lastPage' => \A d \in due' : d > cursor' => d \in page'
  BY <1>1, <1>2, <1>3 DEF ObjectInv
<1>7. ending' = "eof" => (\A d \in due' : d <= cursor') \/ Reached(count')
  <2> SUFFICES ASSUME ending' = "eof" PROVE (\A d \in due' : d <= cursor') \/ Reached(count')
    OBVIOUS
  <2>1. IsLast /\ page' = {}
    BY <1>3
  <2>2. CASE lastPage
    BY <1>2, <1>3, <1>6, <1>1, <2>1, <2>2
  <2>3. CASE Reached(count + 1)
    BY <1>3, <2>3 DEF Reached
  <2> QED
    BY <2>1, <2>2, <2>3 DEF IsLast
<1>8. ASSUME upload = "reads"
      PROVE  /\ IsFiniteSet(object') /\ Cardinality(object') = count'
             /\ \A d \in object' : d <= cursor'
             /\ \A d \in due' : d <= cursor' => d \in object'
  <2>1. object' = object \cup {e} /\ e \notin object
    BY <1>1, <1>2, <1>8 DEF ObjectInv, e
  <2>2. IsFiniteSet(object) /\ Cardinality(object) = count
    BY <1>8 DEF ObjectInv
  <2>3. IsFiniteSet(object') /\ Cardinality(object') = count'
    BY <1>3, <2>1, <2>2, FS_AddElement
  <2>4. \A d \in object' : d <= cursor'
    BY <1>1, <1>2, <1>3, <1>8, <2>1 DEF ObjectInv
  <2>5. \A d \in due' : d <= cursor' => d \in object'
    BY <1>3, <1>4, <1>8, <2>1 DEF ObjectInv
  <2> QED
    BY <2>3, <2>4, <2>5
<1> QED
  BY <1>3, <1>5, <1>6, <1>7, <1>8 DEF ObjectInv, Reached

\* The upload always has what is due up to the cursor.
LEMMA ObjectHolds == ExportSpec => []ObjectInv
<1>1. ExportInit => ObjectInv
  BY DEF ExportInit, ObjectInv
<1>2. ExportType /\ ExportType' /\ PageInv /\ ObjectInv /\ [ExportNext]_exportVars => ObjectInv'
  <2> SUFFICES ASSUME ExportType, ExportType', PageInv, ObjectInv, [ExportNext]_exportVars
               PROVE  ObjectInv'
    OBVIOUS
  <2>1. ASSUME NEW minio \in BOOLEAN, Start(minio), limit' \in Nat,
               \A e \in due' : ~(e <= cursor')
        PROVE  ObjectInv'
    BY <2>1, FS_EmptySet DEF Start, ObjectInv, Reached
  <2>2. ASSUME NEW f \in Filters, NEW n \in Limits, NEW minio \in BOOLEAN, Begin(f, n, minio)
        PROVE  ObjectInv'
    <3>1. cursor' = 0 /\ \A e \in due' : e \in Nat \ {0}
      BY <2>2, ExportAssumption DEF Begin, ExportType
    <3>2. \A e \in due' : ~(e <= cursor')
      BY <3>1
    <3> QED
      BY <2>1, <2>2, <3>2 DEF Begin, ExportType
  <2>3. ASSUME NEW minio \in BOOLEAN, Resume(minio) PROVE ObjectInv'
    <3>1. /\ cursor' = Newest(got) /\ due' \in SUBSET After(cursor') /\ due' \in SUBSET Logged
          /\ Start(minio)
      BY <2>3 DEF Resume, ExportType
    <3>2. \A e \in due' : e > cursor' /\ e \in Nat /\ cursor' \in Nat
      BY <3>1, NewestType, AfterIsLater, ExportAssumption DEF ExportType
    <3>3. \A e \in due' : ~(e <= cursor')
      BY <3>2
    <3> QED
      BY <2>1, <3>1, <3>3 DEF ExportType
  <2>4. CASE Query
    <3>1. /\ UNCHANGED <<cursor, count, limit, due, object, upload>> /\ ending = "open"
          /\ export' # "query"
          /\ ending' # ending => page' = {} /\ ending' = "eof"
      BY <2>4 DEF Query, request, Close, EndOf, ExportType
    <3>2. /\ page' = {} => \A e \in due : e <= cursor
          /\ lastPage' => \A e \in due : e > cursor => e \in page'
      BY <2>4, QueryEnds
    <3> QED
      BY <3>1, <3>2 DEF ObjectInv, Reached
  <2>5. CASE QueryFails
    BY <2>5 DEF QueryFails, Close, EndOf, request, ObjectInv, ExportType, Reached
  <2>6. CASE WriteToClient
    <3>1. export = "client" /\ page # {} /\ UNCHANGED <<limit, due, upload, object>>
      BY <2>6 DEF WriteToClient, request, ExportType
    <3>2. CASE upload = "off"
      <4>1. RowDone(Least(page))
        BY <2>6, <3>1, <3>2, PageType, RowGoesThrough DEF WriteToClient
      <4> QED
        BY <3>1, <3>2, <4>1, RowIsTaken
    <3>3. CASE upload # "off"
      BY <2>6, <3>1, <3>3 DEF WriteToClient, ObjectInv, Reached
    <3> QED
      BY <3>2, <3>3
  <2>7. CASE WriteToObject
    <3>1. export = "object" /\ page # {} /\ UNCHANGED <<limit, due, upload>>
      BY <2>7 DEF WriteToObject, request, ExportType
    <3>2. RowDone(Least(page))
      BY <2>7, <3>1, PageType, RowGoesThrough DEF WriteToObject
    <3> QED
      BY <2>7, <3>1, <3>2, RowIsTaken DEF WriteToObject
  <2>8. CASE UploadEnds \/ UploadFails
    BY <2>8 DEF UploadEnds, UploadFails, request, exporter, ObjectInv, Reached
  <2>9. CASE \/ \E e \in Logged : Insert(e)
             \/ Answered \/ Notice \/ Disconnect \/ UNCHANGED exportVars
    BY <2>9 DEF Insert, Answered, Notice, Disconnect, exportVars, request, exporter,
                ObjectInv, Reached
  <2> QED
    BY <2>2, <2>3, <2>4, <2>5, <2>6, <2>7, <2>8, <2>9 DEF ExportNext, Exporter, Pipes
<1> QED
  BY <1>1, <1>2, TypesHold, PageHolds, PTL DEF ExportSpec

\* An object that was stored is a whole export, up to its limit, whatever failed and
\* whoever left meanwhile.
THEOREM ExportStoredIsWhole == ExportSpec => []StoredIsWhole
<1>1. ExportType /\ ObjectInv => StoredIsWhole
  <2> SUFFICES ASSUME ExportType, ObjectInv, upload = "stored", NEW e \in due, e \notin object
               PROVE  Reached(Cardinality(object)) /\ \A d \in object : d < e
    BY DEF StoredIsWhole
  <2>1. /\ Cardinality(object) = count /\ \A d \in object : d <= cursor
        /\ ~(e <= cursor) /\ Reached(count)
    BY DEF ObjectInv
  <2>2. e \in Nat /\ cursor \in Nat /\ \A d \in object : d \in Nat
    BY ExportAssumption DEF ExportType
  <2> QED
    BY <2>1, <2>2
<1> QED
  BY <1>1, TypesHold, ObjectHolds, PTL
=============================================================================
