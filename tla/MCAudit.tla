------------------------------ MODULE MCAudit ------------------------------
(***************************************************************************)
(* The two workers of common/audit/audit.go: the audit writer and the one  *)
(* that retries removals.  They share nothing: "part" says which of them a *)
(* behaviour is about, the other stays as it began.                        *)
(***************************************************************************)
EXTENDS MinioRetry, AuditWriter

CONSTANTS o1

\* Two deletions of one app that both failed: two rows about one object.
MCSameObject == [r \in Rows |-> o1]

VARIABLE part
allVars == <<vars, auditVars, part>>

MCInit == Init /\ AuditInit /\ part \in {"retries", "events"}

InRetries(A) == part = "retries" /\ A /\ UNCHANGED <<auditVars, part>>
InEvents(A)  == part = "events" /\ A /\ UNCHANGED <<vars, part>>

\* The fairness of MinioRetry!FairSpec and AuditSpec
MCSpec ==
  /\ MCInit /\ [][InRetries(Next) \/ InEvents(AuditNext)]_allVars
  /\ \A w \in Workers : WF_allVars(InRetries(WorkerStep(w)))
  /\ \A r \in Rows : WF_allVars(InRetries(ComesDue(r)))
  /\ WF_allVars(InEvents(WriterStep))
=============================================================================
