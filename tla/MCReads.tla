------------------------------- MODULE MCReads -------------------------------
(***************************************************************************)
(* What is read of the market: the details of an app, and the rankings.    *)
(* They share nothing here: "part" says which of them a behaviour is       *)
(* about, the other stays as it began.  The rankings are two parts: two    *)
(* downloads, at most one of them spoilt, are counted over three days      *)
(* while nobody looks and no app changes its status; and one is counted    *)
(* without mishap over two days while viewers look and apps change.        *)
(***************************************************************************)
EXTENDS DetailCache, Rankings

CONSTANTS r1, r2, r3, p1, p2, n1, n2

\* Two readers in one process, one in another.
MCProcessOf == [r \in Readers |-> IF r = r3 THEN p2 ELSE p1]
\* Weeks of two days, and sets that live for one day and for two; each app was
\* downloaded once.
MCWeekOf  == [d \in 1..Days |-> (d + 1) \div 2]
MCLife    == [daily |-> 1, weekly |-> 2]
MCEarlier == [a \in Listed |-> 1]

VARIABLE part
allVars == <<cacheVars, rankingVars, part>>

MCInit == CacheInit /\ RankingInit /\ part \in {"details", "counting", "showing"}

InDetails(A)  == part = "details" /\ A /\ UNCHANGED <<rankingVars, part>>
InCounting(A) ==
  /\ part = "counting" /\ UNCHANGED <<view, kept, changes, cacheVars, part>> /\ A
  /\ download'[n2] # Waiting => download'[n1].app = 1
  /\ Cardinality(spoilt') < 2
InShowing(A) ==
  /\ part = "showing" /\ UNCHANGED <<cacheVars, part>> /\ A
  /\ download'[n2] = Waiting /\ download'[n1].app # 2 /\ spoilt' = {} /\ today' <= 2

\* The fairness of DetailCache!CacheFairSpec and, where somebody looks, of RankingSpec
MCSpec ==
  /\ MCInit
  /\ [][InDetails(CacheNext) \/ InCounting(RankingNext) \/ InShowing(RankingNext)]_allVars
  /\ WF_allVars(InDetails(Expire)) /\ \A r \in Readers : WF_allVars(InDetails(ReadStep(r)))
  /\ WF_allVars(InShowing(DownloadStep(n1)))
  /\ \A v \in Viewers : WF_allVars(InShowing(ViewStep(v)))
  /\ \A t \in Types, n \in Sizes : WF_allVars(InShowing(AnswerExpires(t, n)))
=============================================================================
