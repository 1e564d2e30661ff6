------------------------------- MODULE Recovery -------------------------------
(***************************************************************************)
(* What the recovery engine makes of a failed action: classification       *)
(* (packages/recovery/src/classify.ts), the policy map (policies.ts), the  *)
(* decision (engine.ts), and the loop that applies it (packages/runtime/   *)
(* src/loop.ts recover and applyRecovery), with the run's recovery budget  *)
(* (packages/core/src/budget-manager.ts) and the executor's replay guard.  *)
(* Sessions end and begin: a run parked for a human is resumed, and a      *)
(* process may die under an action or after its commit.                    *)
(***************************************************************************)
EXTENDS Integers

CONSTANTS Limits,        \* limits.maxRecoveryAttempts of the run; NoLimit: not set
          NoLimit,
          Overrides,     \* policies of a definition, for every kind; NoOverride: none
          NoOverride,
          MaxRecoverySteps,  \* bound: the run's maxSteps
          MaxSessions        \* bound: sessions of the run

ASSUME RecoveryAssumption ==
  /\ Limits \subseteq Nat \cup {NoLimit}
  /\ MaxRecoverySteps \in Nat \ {0} /\ MaxSessions \in Nat \ {0}

RetryStrategies == {"retry", "retry_with_backoff"}
Idempotency == {"idempotent", "retry-safe", "non-idempotent", "unknown"}

\* The errors a tool, the environment or the runtime raises, as classify names
\* them: kind, and what the error class says of itself.
Errors(kind, retryable, idempotency, terminal) ==
  [kind : {kind}, retryable : retryable, idempotency : idempotency, terminal : {terminal}]

Faults ==
  UNION { Errors("tool_unavailable", {FALSE}, {"idempotent"}, TRUE),
          Errors("invalid_arguments", {FALSE}, {"idempotent"}, FALSE),
          Errors("tool_timeout", {TRUE}, {"unknown"}, FALSE),
          Errors("tool_failure", BOOLEAN, Idempotency \ {"idempotent"}, FALSE),
          Errors("provider_unavailable", BOOLEAN, {"retry-safe"}, FALSE),
          Errors("authentication_failure", {FALSE}, {"retry-safe"}, FALSE),
          Errors("environment_failure", {FALSE}, {"unknown"}, FALSE),
          Errors("operation_timeout", {TRUE}, {"unknown"}, FALSE),
          Errors("resource_exhausted", {TRUE}, {"retry-safe"}, FALSE),
          Errors("state_conflict", {FALSE}, {"idempotent"}, TRUE),
          Errors("policy_denied", {FALSE}, {"idempotent"}, FALSE),
          Errors("cancelled", {FALSE}, {"unknown"}, FALSE),
          Errors("unknown", {FALSE}, {"unknown"}, FALSE) }

TerminalKinds == {"budget_exceeded", "policy_denied", "cancelled"}

\* DEFAULT_RECOVERY_POLICIES, for the kinds above.
DefaultPolicy(kind) ==
  CASE kind = "tool_failure" -> [strategy |-> "retry_with_backoff", max |-> 2]
    [] kind \in {"tool_timeout", "operation_timeout", "state_conflict", "resource_exhausted"} ->
         [strategy |-> "retry_with_backoff", max |-> 3]
    [] kind = "tool_unavailable" -> [strategy |-> "switch_tool", max |-> 1]
    [] kind = "invalid_arguments" -> [strategy |-> "replan", max |-> 2]
    [] kind = "provider_unavailable" -> [strategy |-> "switch_provider", max |-> 3]
    [] kind = "authentication_failure" -> [strategy |-> "ask_human", max |-> 1]
    [] kind = "environment_failure" -> [strategy |-> "restore_checkpoint", max |-> 2]
    [] kind \in TerminalKinds -> [strategy |-> "terminate", max |-> 0]
    [] OTHER -> [strategy |-> "replan", max |-> 1]

VARIABLES recoverySetting,  \* what does not change: limit, policies, fallback, the action's class
          recovery          \* the run, its session and the action it is at

RecoveryVars == <<recoverySetting, recovery>>

NoFault == CHOOSE f \in Faults : f.kind = "unknown"

\* A step's action: what the journal says of its key, how often it was run, what
\* the session read of it when it opened, and whether its key counts a retry.
NewAction(rekeyed) == [journal |-> "none", runs |-> 0, opened |-> "none", rekeyed |-> rekeyed]

RecoverySettings ==
  [limit : Limits, override : Overrides \cup {NoOverride}, fallback : BOOLEAN, class : Idempotency]

RecoveryInit(setting) ==
  /\ recoverySetting = setting
  /\ recovery = [at |-> "act", fault |-> NoFault, tries |-> 0, used |-> 0, saved |-> 0,
                 action |-> NewAction(FALSE), retried |-> FALSE, steps |-> 1, sessions |-> 1]

-----------------------------------------------------------------------------
(* The decision                                                            *)

PolicyFor(kind) ==
  IF recoverySetting.override # NoOverride THEN recoverySetting.override ELSE DefaultPolicy(kind)

\* probeFailover: another provider if the run names a fallback.
Switched == IF recoverySetting.fallback THEN "switch_provider" ELSE "none"

\* Defect: the policy map has the last word on retries.
DecideByMap(fault, attempt, action) ==
  IF fault.terminal \/ fault.kind \in TerminalKinds THEN "terminate"
  ELSE IF attempt >= PolicyFor(fault.kind).max THEN "terminate"
  ELSE PolicyFor(fault.kind).strategy

\* decide: the rules in their order.  No circuit breakers are handed to the
\* engine, so that rule never applies.
Decide(fault, attempt, action) ==
  LET policy  == PolicyFor(fault.kind)
      retries == policy.strategy \in RetryStrategies
      unsafe  == fault.idempotency = "non-idempotent"
  IN  IF fault.terminal \/ fault.kind \in TerminalKinds THEN "terminate"
      ELSE IF action.opened = "executing" /\ (unsafe \/ retries) THEN "ask_human"
      ELSE IF unsafe /\ action.opened \in {"succeeded", "failed"} THEN "skip_step"
      ELSE IF ~fault.retryable /\ retries THEN "replan"
      ELSE IF attempt >= policy.max /\ policy.strategy # "ask_human" THEN "terminate"
      ELSE IF policy.strategy # "switch_provider" THEN policy.strategy
      ELSE IF Switched # "none" THEN Switched
      ELSE IF fault.retryable THEN "retry_with_backoff" ELSE "ask_human"

-----------------------------------------------------------------------------
(* The loop                                                                *)

\* Defect: a failed commit is taken as proof that nothing happened.
ReplayIsAlwaysSafe == TRUE

ReplayIsSafe == recoverySetting.class \in {"idempotent", "retry-safe"}

RetriesLeft == recovery.tries < (IF recoverySetting.limit = NoLimit THEN 5 ELSE recoverySetting.limit)

\* A failed action goes to recovery; a failed retry only while attempts are left.
FailedAs(fault) ==
  [recovery EXCEPT !.fault = fault,
                   !.at = IF recovery.at = "retry" /\ ~RetriesLeft THEN "ended" ELSE "failed"]

\* executeOne finds the key settled: nothing is run.
Replayed ==
  /\ recovery.at \in {"act", "retry"}
  /\ \/ /\ recovery.action.journal = "succeeded"
        /\ recovery' = [recovery EXCEPT !.at = "worked"]
     \/ /\ recovery.action.journal = "failed" /\ ~ReplayIsSafe
        /\ recovery' = FailedAs([recovery.fault EXCEPT !.retryable = FALSE, !.terminal = FALSE,
                                                       !.idempotency = recoverySetting.class])
  /\ UNCHANGED recoverySetting

\* Intent, run, commit.
RunOnce ==
  LET due    == recovery.action.journal \in {"none", "executing"}
                \/ (recovery.action.journal = "failed" /\ ReplayIsSafe)
      ran(j) == [recovery.action EXCEPT !.journal = j, !.runs = @ + 1]
  IN  /\ recovery.at \in {"act", "retry"} /\ due
      /\ \/ recovery' = [recovery EXCEPT !.at = "worked", !.action = ran("succeeded")]
         \/ \E f \in Faults : recovery' = [FailedAs(f) EXCEPT !.action = ran("failed")]
      /\ UNCHANGED recoverySetting

\* Where applyRecovery leaves the run.
Applied(strategy) ==
  CASE strategy = "terminate" -> {"ended"}
    [] strategy \in RetryStrategies -> {"retry"}
    [] strategy = "ask_human" -> {"parked"}
    [] strategy = "restore_checkpoint" -> {"resumed", "ended"}
    [] OTHER -> {"resumed"}

\* recover: decide, execute, count the attempt in the session and in the run's
\* usage, apply.  All but a retry leave the row written.
Recover ==
  /\ recovery.at = "failed"
  /\ \E next \in Applied(Decide(recovery.fault, recovery.tries + 1, recovery.action)) :
       recovery' = [recovery EXCEPT !.at = next, !.tries = @ + 1, !.used = @ + 1,
                                    !.retried = @ \/ next = "retry",
                                    !.saved = IF next = "retry" THEN @ ELSE recovery.used + 1]
  /\ UNCHANGED recoverySetting

\* Defect: the budget is compared one too late.
BudgetSpentLate(used, limit) == limit # NoLimit /\ used > limit

\* check: used up, or anything used of a limit of zero.
BudgetSpent(used, limit) == limit # NoLimit /\ (IF limit = 0 THEN used > 0 ELSE used >= limit)

\* The next iteration: limits first, then an action of its own.
NextIteration ==
  /\ recovery.at \in {"worked", "resumed"}
  /\ recovery' =
       IF BudgetSpent(recovery.used, recoverySetting.limit) \/ recovery.steps = MaxRecoverySteps
       THEN [recovery EXCEPT !.at = "ended"]
       ELSE [recovery EXCEPT !.at = "act", !.steps = @ + 1, !.saved = recovery.used,
                             !.fault = NoFault, !.action = NewAction(recovery.retried)]
  /\ UNCHANGED recoverySetting

\* A new session of the run: the model asks for the same action again, and the
\* journal is read anew.  The key counts the retries of the session before the
\* action was asked for: if there were any, the new session's key is another.
Reopened(journal, used) ==
  LET found == IF recovery.action.rekeyed THEN "none" ELSE journal
  IN  [recovery EXCEPT !.at = IF BudgetSpent(used, recoverySetting.limit) THEN "ended" ELSE "act",
                       !.tries = 0, !.retried = FALSE, !.used = used, !.saved = used,
                       !.sessions = @ + 1,
                       !.action = [@ EXCEPT !.journal = found, !.opened = found, !.rekeyed = FALSE]]

HumanDecides ==
  /\ recovery.at = "parked" /\ recovery.sessions < MaxSessions
  /\ recovery' = Reopened(recovery.action.journal, recovery.used)
  /\ UNCHANGED recoverySetting

\* The process dies while the action runs: what it had counted since the last
\* write of the row is lost.
DieRunning ==
  /\ recovery.at \in {"act", "retry"} /\ recovery.sessions < MaxSessions
  /\ recovery.action.journal # "succeeded"
  /\ recovery.action.journal = "failed" => ReplayIsSafe
  /\ recovery' = [Reopened("executing", recovery.saved) EXCEPT !.action.runs = @ + 1]
  /\ UNCHANGED recoverySetting

\* It dies after the commit, before the row says what became of the action.
DieCommitted ==
  /\ recovery.at \in {"worked", "failed"} /\ recovery.sessions < MaxSessions
  /\ recovery' = Reopened(recovery.action.journal, recovery.saved)
  /\ UNCHANGED recoverySetting

RecoveryStep == Replayed \/ RunOnce \/ Recover \/ NextIteration
RecoveryNext == RecoveryStep \/ HumanDecides \/ DieRunning \/ DieCommitted
RecoveryFairness == WF_RecoveryVars(RecoveryStep)

-----------------------------------------------------------------------------

RecoveryTypeOK ==
  /\ recoverySetting \in RecoverySettings
  /\ recovery \in [at : {"act", "retry", "failed", "worked", "resumed", "parked", "ended"},
                   fault : Faults \cup [kind : {f.kind : f \in Faults}, retryable : {FALSE},
                                        idempotency : Idempotency, terminal : {FALSE}],
                   tries : Nat, used : Nat, saved : Nat, steps : 1..MaxRecoverySteps,
                   sessions : 1..MaxSessions, retried : BOOLEAN,
                   action : [journal : {"none", "executing", "failed", "succeeded"}, runs : Nat,
                             rekeyed : BOOLEAN,
                             opened : {"none", "executing", "failed", "succeeded"}]]

\* Whatever a definition's recovery map says, an action is run again only if its
\* error called itself retryable; and if the session found its key in flight, only
\* as a provider switch that had no provider to switch to (the rule for uncommitted
\* actions tests the policy's strategy, not the one decided on).
RetriesAreEarned ==
  recovery.at = "retry" =>
    /\ recovery.fault.retryable
    /\ recovery.action.opened = "executing" =>
         recovery.fault.idempotency # "non-idempotent"
         /\ PolicyFor(recovery.fault.kind).strategy = "switch_provider"

\* One session never recovers more often than the limit allows (once, where it
\* allows nothing): the budget at the top of an iteration and the count inside a
\* recovery together, though neither alone would do.
SessionStaysInBudget ==
  recoverySetting.limit # NoLimit =>
    recovery.tries <= (IF recoverySetting.limit = 0 THEN 1 ELSE recoverySetting.limit)

\* An action that is not safe to repeat is run once by every session that finds
\* its outcome unknown, however recovery and replay alternate.
UnsafeRunsOncePerSession ==
  recoverySetting.class \in {"non-idempotent", "unknown"} =>
    recovery.action.runs <= recovery.sessions

\* A recovery never goes round for ever: a failed action's session gets back to
\* work, parks or ends, even if every retry fails.
RecoveryConcludes == recovery.at = "failed" ~> recovery.at \in {"worked", "resumed", "parked", "ended"}

\* The run never recovers more often than its limits allow, sessions taken together.
\* Violated: what a session counted and had not saved when it died is lost.
RunStaysInBudget == recoverySetting.limit # NoLimit => recovery.used <= recoverySetting.limit
=============================================================================
