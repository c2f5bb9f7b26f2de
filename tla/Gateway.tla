------------------------------ MODULE Gateway ------------------------------
(***************************************************************************)
(* A request goes through the pool (common/middleware/request_pool.go and  *)
(* common/utils/pool), where a worker runs it while the goroutine of the   *)
(* connection waits, and there through the circuit breaker.  A signal ends *)
(* the process: main.go closes what serves requests, then what requests    *)
(* use, each for a limited time.                                           *)
(***************************************************************************)
EXTENDS CircuitBreaker, FiniteSets

CONSTANTS
  Rpcs,       \* calls of the gRPC services
  Workers     \* capacity of the request pool

ASSUME WorkersAssumption == Workers \in Nat \ {0}

VARIABLES
  gate,       \* where the connection of each request is
  resting,    \* workers whose task is done, not yet back in the pool
  rpc,        \* gRPC calls under way
  closing,    \* what gracefulShutdown waits for
  late,       \* its deadline has passed
  poolLate    \* the pool's has

gateVars    == <<gate, resting, rpc, closing, late, poolLate>>
gatewayVars == <<vars, gateVars>>

Tasks  == {r \in Requests : gate[r] \in {"task", "inside"}}
Active == {r \in Requests : gate[r] # "away"}

GatewayInit ==
  /\ Init
  /\ gate = [r \in Requests |-> "away"] /\ resting = 0 /\ rpc = {}
  /\ closing = "nothing" /\ late = FALSE /\ poolLate = FALSE

-----------------------------------------------------------------------------
(* The request pool *)

\* The HTTP server takes requests until it is shut down.
Accept(r) ==
  /\ gate[r] = "away" /\ closing = "nothing"
  /\ gate' = [gate EXCEPT ![r] = "submit"]
  /\ UNCHANGED <<vars, resting, rpc, closing, late, poolLate>>

Released == closing \in {"pools", "closed"}

\* Submit does not block: a worker takes the request,
Submit(r) ==
  /\ gate[r] = "submit" /\ ~Released
  /\ Cardinality(Tasks) + resting < Workers
  /\ gate' = [gate EXCEPT ![r] = "task"]
  /\ UNCHANGED <<vars, resting, rpc, closing, late, poolLate>>

\* or it is answered with 503, and with 500 when the pool is released.  The breaker does
\* not hear of it.
TurnAway(r) ==
  /\ gate[r] = "submit" /\ (Released \/ Cardinality(Tasks) + resting >= Workers)
  /\ gate' = [gate EXCEPT ![r] = "away"]
  /\ UNCHANGED <<vars, resting, rpc, closing, late, poolLate>>

\* The task runs the rest of the chain: the breaker,
Enter(r) ==
  /\ gate[r] = "task" /\ ReadState(r)
  /\ gate' = [gate EXCEPT ![r] = "inside"]
  /\ UNCHANGED <<resting, rpc, closing, late, poolLate>>

Inside(r) == Answer(r) \/ ReportFailure(r) \/ ReportSuccess(r) \/ Panic(r)

\* and done is closed, after a panic too, which the task recovers.
Leave(r) ==
  /\ gate[r] = "inside" /\ pc[r] = "idle"
  /\ gate' = [gate EXCEPT ![r] = "away"] /\ resting' = resting + 1
  /\ UNCHANGED <<vars, rpc, closing, late, poolLate>>

WorkerRests ==
  /\ resting > 0 /\ resting' = resting - 1
  /\ UNCHANGED <<vars, gate, rpc, closing, late, poolLate>>

-----------------------------------------------------------------------------
(* gRPC *)

CallRpc(c) ==
  /\ c \notin rpc /\ closing \in {"nothing", "http"} /\ rpc' = rpc \cup {c}
  /\ UNCHANGED <<vars, gate, resting, closing, late, poolLate>>

ReturnRpc(c) ==
  /\ c \in rpc /\ rpc' = rpc \ {c}
  /\ UNCHANGED <<vars, gate, resting, closing, late, poolLate>>

-----------------------------------------------------------------------------
(* gracefulShutdown *)

Signal ==
  /\ closing = "nothing" /\ closing' = "http"
  /\ UNCHANGED <<vars, gate, resting, rpc, late, poolLate>>

\* The contexts time out.
Deadline ==
  /\ closing # "nothing" /\ ~late /\ late' = TRUE
  /\ UNCHANGED <<vars, gate, resting, rpc, closing, poolLate>>
PoolDeadline ==
  /\ closing = "pools" /\ ~poolLate /\ poolLate' = TRUE
  /\ UNCHANGED <<vars, gate, resting, rpc, closing, late>>

\* Fault: a step of the shutdown waits for nobody.
NoWait(quiet, over)  == TRUE
MayPass(quiet, over) == quiet \/ over

Pass(from, to) ==
  /\ closing = from /\ closing' = to
  /\ UNCHANGED <<vars, gate, resting, rpc, late, poolLate>>

\* server.Shutdown waits for the connections, GracefulStop for the calls; Stop, when the
\* time is over, does not wait for handlers.
HttpStops == Pass("http", "grpc") /\ MayPass(Active = {}, late)
GrpcStops == Pass("grpc", "audit") /\ MayPass(rpc = {}, late)

\* The workers are told to stop, and the audit writer is drained or given up.
AuditStops == Pass("audit", "pools")

\* The pool, released, waits for its tasks; RocketMQ, Redis and PostgreSQL are closed.
PoolsStop == Pass("pools", "closed") /\ MayPass(Tasks = {} /\ resting = 0, poolLate)

-----------------------------------------------------------------------------
Request(r) ==
  \/ Accept(r) \/ Submit(r) \/ TurnAway(r) \/ Enter(r) \/ Leave(r)
  \/ gate[r] = "inside" /\ Inside(r) /\ UNCHANGED gateVars

GracefulShutdown ==
  \/ Signal \/ Deadline \/ PoolDeadline
  \/ HttpStops \/ GrpcStops \/ AuditStops \/ PoolsStop

GatewayNext ==
  \/ Tick /\ UNCHANGED gateVars
  \/ WorkerRests \/ GracefulShutdown
  \/ \E r \in Requests : Request(r)
  \/ \E c \in Rpcs : CallRpc(c) \/ ReturnRpc(c)

GatewaySpec ==
  /\ GatewayInit /\ [][GatewayNext]_gatewayVars
  /\ WF_gatewayVars(Tick /\ UNCHANGED gateVars)
  /\ \A r \in Requests : WF_gatewayVars(Answer(r) /\ UNCHANGED gateVars)

\* What requests and calls use is closed after them: the audit log when the server has
\* none left or its time was over, the database when the pool has run its tasks or its
\* time was over too.
ClosesLast ==
  /\ closing \in {"audit", "pools", "closed"} /\ (Active # {} \/ rpc # {}) => late
  /\ closing = "closed" /\ Tasks # {} => late /\ poolLate
=============================================================================
