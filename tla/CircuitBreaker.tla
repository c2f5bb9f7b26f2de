--------------------------- MODULE CircuitBreaker ---------------------------
(***************************************************************************)
(* common/middleware/broker.go: the circuit breaker in front of every HTTP *)
(* route.  A request reads the state under a read lock, decides outside of *)
(* it, runs, and reports its result under the write lock, unless its       *)
(* handler panics.  lastFailure is kept as its age, in ticks of the clock. *)
(***************************************************************************)
EXTENDS Integers

CONSTANTS
  Requests,      \* goroutines that serve requests, one after the other
  MaxFailures,   \* consecutive failures that open the breaker
  Timeout        \* ticks an open breaker cools down

ASSUME MaxFailuresAssumption == MaxFailures \in Nat \ {0}
ASSUME TimeoutAssumption     == Timeout \in Nat

VARIABLES
  state,      \* StateClosed, StateOpen, StateHalfOpen
  failures,   \* failureCount; counts above MaxFailures are alike
  age,        \* time since lastFailure; ages above Timeout are alike
  pc,         \* where each request is
  saw         \* what Allow has read: the state and lastFailure

vars == <<state, failures, age, pc, saw>>

States == {"closed", "open", "half-open"}
Old    == Timeout + 1
Ages   == 0..Old
Older(a) == IF a = Old THEN Old ELSE a + 1

Init ==
  /\ state = "closed" /\ failures = 0 /\ age = Old
  /\ pc  = [r \in Requests |-> "idle"]
  /\ saw = [r \in Requests |-> [state |-> "closed", age |-> Old]]

Tick ==
  /\ age' = Older(age)
  /\ saw' = [r \in Requests |-> [saw[r] EXCEPT !.age = Older(@)]]
  /\ UNCHANGED <<state, failures, pc>>

-----------------------------------------------------------------------------
(* Allow *)

ReadState(r) ==
  /\ pc[r] = "idle"
  /\ pc'  = [pc EXCEPT ![r] = "asking"]
  /\ saw' = [saw EXCEPT ![r] = [state |-> state, age |-> age]]
  /\ UNCHANGED <<state, failures, age>>

\* Fault: a half-open breaker lets nobody but its first request through.
ClosedOnly(s) == s = "closed"
Passes(s)     == s # "open"

Admit(r) ==
  /\ pc[r] = "asking" /\ Passes(saw[r].state)
  /\ pc' = [pc EXCEPT ![r] = "running"]
  /\ UNCHANGED <<state, failures, age, saw>>

\* The cooling time has passed: half-open, and this request goes through.
Probe(r) ==
  /\ pc[r] = "asking" /\ saw[r].state = "open" /\ saw[r].age > Timeout
  /\ state' = IF state = "open" THEN "half-open" ELSE state
  /\ pc' = [pc EXCEPT ![r] = "running"]
  /\ UNCHANGED <<failures, age, saw>>

Reject(r) ==
  /\ pc[r] = "asking" /\ ~Passes(saw[r].state)
  /\ ~(saw[r].state = "open" /\ saw[r].age > Timeout)
  /\ pc' = [pc EXCEPT ![r] = "idle"]
  /\ UNCHANGED <<state, failures, age, saw>>

-----------------------------------------------------------------------------
(* ReportResult *)

In(r) == pc[r] = "running"

\* Fault: the failure that reaches the limit does not count yet.
TripsLate(n) == n > MaxFailures
Trips(n)     == n >= MaxFailures

ReportFailure(r) ==
  /\ In(r)
  /\ failures' = IF failures < MaxFailures THEN failures + 1 ELSE failures
  /\ age'   = 0
  /\ state' = IF Trips(failures') THEN "open" ELSE state
  /\ pc'    = [pc EXCEPT ![r] = "idle"]
  /\ UNCHANGED saw

Forgiven(n) == 0

ReportSuccess(r) ==
  /\ In(r)
  /\ failures' = Forgiven(failures)
  /\ state' = "closed"
  /\ pc'    = [pc EXCEPT ![r] = "idle"]
  /\ UNCHANGED <<age, saw>>

\* The handler panics; the middleware is unwound before ReportResult.
Panic(r) ==
  /\ In(r)
  /\ pc' = [pc EXCEPT ![r] = "idle"]
  /\ UNCHANGED <<state, failures, age, saw>>

Answer(r) == Admit(r) \/ Probe(r) \/ Reject(r)
Next ==
  \/ Tick
  \/ \E r \in Requests :
       ReadState(r) \/ Answer(r) \/ ReportFailure(r) \/ ReportSuccess(r) \/ Panic(r)

Spec == Init /\ [][Next]_vars

\* Time passes, and Allow, which waits for nothing but a short lock, returns.  When
\* requests come and whether handlers end is left open.
FairSpec == Spec /\ WF_vars(Tick) /\ \A r \in Requests : WF_vars(Answer(r))

-----------------------------------------------------------------------------
(* Properties *)

TypeOK ==
  /\ state    \in States
  /\ failures \in 0..MaxFailures
  /\ age      \in Ages
  /\ pc       \in [Requests -> {"idle", "asking", "running"}]
  /\ saw      \in [Requests -> [state : States, age : Ages]]

\* The breaker is closed exactly as long as fewer than MaxFailures failures were
\* reported since the last success, whatever order reports and probes come in.
ClosedBelowLimit == state = "closed" <=> failures < MaxFailures

\* The breaker does not reject forever: if requests keep asking, requests keep
\* being let through, even after probes that panicked and never reported.
NeverLocksOut ==
  []<>(\E r \in Requests : pc[r] = "asking")
    => []<><<\E r \in Requests : Admit(r) \/ Probe(r)>>_vars
=============================================================================
