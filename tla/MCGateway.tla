------------------------------ MODULE MCGateway ------------------------------
(***************************************************************************)
(* Two ways in from outside: the gateway with its circuit breaker, and the *)
(* export of the audit events.  They share nothing here: "part" says which *)
(* of them a behaviour is about, the other stays as it began.              *)
(***************************************************************************)
EXTENDS Gateway, AuditExport

\* The second and the third row are of one time.  One filter takes all rows, one not.
MCCreatedAt == [e \in Logged |-> IF e <= 1 THEN 1 ELSE IF e <= 3 THEN 2 ELSE 3]
MCFilters   == {Logged, Logged \ {2}}

VARIABLE part
allVars == <<gatewayVars, exportVars, part>>

MCInit == GatewayInit /\ ExportInit /\ part \in {"gateway", "export"}

InGateway(A) == part = "gateway" /\ A /\ UNCHANGED <<exportVars, part>>
InExport(A)  == part = "export" /\ A /\ UNCHANGED <<gatewayVars, part>>

\* The fairness of GatewaySpec and ExportSpec
MCSpec ==
  /\ MCInit /\ [][InGateway(GatewayNext) \/ InExport(ExportNext)]_allVars
  /\ WF_allVars(InGateway(Tick /\ UNCHANGED gateVars))
  /\ \A r \in Requests : WF_allVars(InGateway(Answer(r) /\ UNCHANGED gateVars))
  /\ WF_allVars(InExport(Exporter)) /\ WF_allVars(InExport(Pipes))
=============================================================================
