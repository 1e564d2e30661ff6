---------------------------- MODULE ProviderChain ----------------------------
(***************************************************************************)
(* ModelGateway.generate (packages/providers/src/registry.ts) over a chain *)
(* of targets, each behind a DefaultCircuitBreaker (packages/core/src/     *)
(* circuit-breaker.ts).  Calls on one gateway overlap: a breaker is asked  *)
(* before the provider's answer is awaited and told afterwards.            *)
(***************************************************************************)
EXTENDS Naturals

CONSTANTS ChainLength,        \* primary and fallbacks
          Asker,              \* concurrent calls of generate
          FailureThreshold, SuccessThreshold,
          OpenFor,            \* ticks a breaker stays open
          MaxTicks            \* bound: the clock

ASSUME ProviderChainAssumption ==
  /\ ChainLength \in Nat \ {0} /\ FailureThreshold \in Nat \ {0}
  /\ SuccessThreshold \in Nat \ {0} /\ OpenFor \in Nat /\ MaxTicks \in Nat

Target == 1..ChainLength

VARIABLES ticks,
          breaker,   \* per target: what DefaultCircuitBreaker keeps
          asking     \* per call: where it is, and what each target did for it

ProviderChainVars == <<ticks, breaker, asking>>

Breaker == [state : {"CLOSED", "OPEN", "HALF_OPEN"}, failures : Nat,
            successes : 0..SuccessThreshold, openedAt : 0..MaxTicks]
Answered == {"untried", "open", "retryable", "fatal", "answered"}

FreshBreaker == [state |-> "CLOSED", failures |-> 0, successes |-> 0, openedAt |-> 0]
FreshAsk == [at |-> "idle", index |-> 1, did |-> [t \in Target |-> "untried"]]

ProviderChainInit ==
  /\ ticks = 0
  /\ breaker = [t \in Target |-> FreshBreaker]
  /\ asking = [a \in Asker |-> FreshAsk]

\* maybeTransition: every method of the breaker begins with it.
Elapsed(b) ==
  IF b.state = "OPEN" /\ ticks - b.openedAt >= OpenFor
  THEN [b EXCEPT !.state = "HALF_OPEN", !.successes = 0] ELSE b

IsAllowed(b) == Elapsed(b).state # "OPEN"

RecordSuccess(b) ==
  LET now == Elapsed(b)
  IN  IF now.state # "HALF_OPEN" THEN [now EXCEPT !.failures = 0]
      ELSE IF now.successes + 1 >= SuccessThreshold THEN FreshBreaker
      ELSE [now EXCEPT !.successes = @ + 1]

Trip(b) == [b EXCEPT !.state = "OPEN", !.openedAt = ticks]

\* Defect: the threshold itself is not enough.
RecordFailureLate(b) ==
  LET now == [Elapsed(b) EXCEPT !.failures = @ + 1]
  IN  IF now.state = "HALF_OPEN" \/ now.failures > FailureThreshold THEN Trip(now) ELSE now

\* A failure that arrives while the breaker is open opens it anew.
RecordFailure(b) ==
  LET now == [Elapsed(b) EXCEPT !.failures = @ + 1]
  IN  IF now.state = "HALF_OPEN" \/ now.failures >= FailureThreshold THEN Trip(now) ELSE now

PassTime ==
  /\ ticks < MaxTicks
  /\ ticks' = ticks + 1
  /\ UNCHANGED <<breaker, asking>>

\* generate at its current target: skip an open breaker (or an unregistered
\* provider), or ask the provider.
TryTarget(a) ==
  /\ asking[a].at = "idle"
  /\ LET t == asking[a].index
     IN  /\ breaker' = [breaker EXCEPT ![t] = Elapsed(@)]
         /\ asking' = [asking EXCEPT ![a] =
              IF IsAllowed(breaker[t]) THEN [@ EXCEPT !.at = "awaiting"]
              ELSE [@ EXCEPT !.did[t] = "open", !.index = IF t = ChainLength THEN t ELSE t + 1,
                             !.at = IF t = ChainLength THEN "exhausted" ELSE "idle"]]
  /\ UNCHANGED ticks

ProviderAnswers(a) ==
  /\ asking[a].at = "awaiting"
  /\ LET t == asking[a].index
     IN  /\ breaker' = [breaker EXCEPT ![t] = RecordSuccess(@)]
         /\ asking' = [asking EXCEPT ![a].at = "answered", ![a].did[t] = "answered"]
  /\ UNCHANGED ticks

\* Defect: every failure moves on to the next target.
ProviderFailsOver(a) ==
  /\ asking[a].at = "awaiting"
  /\ \E retryable \in BOOLEAN :
       LET t == asking[a].index
       IN  /\ breaker' = [breaker EXCEPT ![t] = RecordFailure(@)]
           /\ asking' = [asking EXCEPT ![a] =
                [@ EXCEPT !.did[t] = IF retryable THEN "retryable" ELSE "fatal",
                          !.at = IF t = ChainLength THEN "exhausted" ELSE "idle",
                          !.index = IF t = ChainLength THEN t ELSE t + 1]]
  /\ UNCHANGED ticks

\* A failure the provider calls retryable moves on, any other ends the call.
ProviderFails(a) ==
  /\ asking[a].at = "awaiting"
  /\ \E retryable \in BOOLEAN :
       LET t    == asking[a].index
           last == t = ChainLength \/ ~retryable
       IN  /\ breaker' = [breaker EXCEPT ![t] = RecordFailure(@)]
           /\ asking' = [asking EXCEPT ![a] =
                [@ EXCEPT !.did[t] = IF retryable THEN "retryable" ELSE "fatal",
                          !.at = IF last THEN "exhausted" ELSE "idle",
                          !.index = IF last THEN t ELSE t + 1]]
  /\ UNCHANGED ticks

AskAgain(a) ==
  /\ asking[a].at \in {"answered", "exhausted"}
  /\ asking' = [asking EXCEPT ![a] = FreshAsk]
  /\ UNCHANGED <<ticks, breaker>>

ProviderChainNext ==
  \/ PassTime
  \/ \E a \in Asker : TryTarget(a) \/ ProviderAnswers(a) \/ ProviderFails(a) \/ AskAgain(a)

-----------------------------------------------------------------------------

ProviderChainTypeOK ==
  /\ ticks \in 0..MaxTicks
  /\ breaker \in [Target -> Breaker]
  /\ asking \in [Asker -> [at : {"idle", "awaiting", "answered", "exhausted"}, index : Target,
                           did : [Target -> Answered]]]

\* A closed breaker never has as many failures on record as would open it,
\* whatever the order in which overlapping calls report.
ClosedMeansHealthy ==
  \A t \in Target : breaker[t].state = "CLOSED" => breaker[t].failures < FailureThreshold

\* A fallback is asked only after every earlier target was open or failed in a
\* way worth failing over for: a fatal error is never tried elsewhere.
FailoverIsDeliberate ==
  \A a \in Asker : \A t \in Target :
    (asking[a].did[t] # "untried" \/ (asking[a].at = "awaiting" /\ asking[a].index = t)) =>
      \A before \in 1..t - 1 : asking[a].did[before] \in {"open", "retryable"}
=============================================================================
