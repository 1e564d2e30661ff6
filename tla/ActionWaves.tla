------------------------------ MODULE ActionWaves ------------------------------
(***************************************************************************)
(* Executor.execute (packages/executor/src/executor.ts): a batch of        *)
(* actions is cut into waves (dag.ts) and each wave runs through the       *)
(* workers of mapConcurrent (packages/core/src/async.ts).                  *)
(* The second part is the plan that such actions follow, which is put in   *)
(* order by the same kind of dependencies. The two share no variable.      *)
(***************************************************************************)
EXTENDS Integers, FiniteSets, Sequences

CONSTANTS BatchSize, Concurrency

ASSUME ActionWavesAssumption == BatchSize \in Nat \ {0} /\ Concurrency \in Nat \ {0}

BatchAction == 1..BatchSize

VARIABLES dependsOn,   \* the batch: what each action names in dependsOn
          batch        \* at, the wave, each action's status, the wave's workers

ActionWavesVars == <<dependsOn, batch>>

ActionWavesInit(deps) ==
  /\ dependsOn = deps
  /\ batch = [at |-> "planning", wave |-> 0, workers |-> 0,
              status |-> [a \in BatchAction |-> "waiting"]]

-----------------------------------------------------------------------------

\* Defect: a dependency counts once it is in the batch.
ReadyAtOnce(remaining) == remaining

\* What planWaves takes next: nothing it depends on is left.  (A dependency that
\* is not in the batch counts as done.)
Ready(remaining) == {a \in remaining : dependsOn[a] \cap remaining = {}}

\* What is left after k waves.
Left ==
  LET left[k \in 0..BatchSize] ==
        IF k = 0 THEN BatchAction ELSE left[k - 1] \ Ready(left[k - 1])
  IN  left

WaveOf(k) == {a \in BatchAction : a \in Left[k - 1] \ Left[k]}

\* Defect: a cycle is waited for.
PlanBatchPatiently ==
  /\ batch.at = "planning" /\ Left[BatchSize] = {}
  /\ batch' = [batch EXCEPT !.at = "between"]
  /\ UNCHANGED dependsOn

\* A cycle is refused before anything runs.
PlanBatch ==
  /\ batch.at = "planning"
  /\ batch' = [batch EXCEPT !.at = IF Left[BatchSize] # {} THEN "refused" ELSE "between"]
  /\ UNCHANGED dependsOn

Good == {"succeeded", "already_committed"}
Outcome == Good \cup {"failed", "denied", "awaiting_approval"}

\* failedIds: what ran and came to no good; a skipped action is not among them.
FailedIds == {a \in BatchAction : batch.status[a] \in Outcome \ Good}

Smaller(m, n) == IF m < n THEN m ELSE n

\* The next wave: skip what depends on a failure, give the rest to the workers.
StartWave ==
  LET next     == batch.wave + 1
      blocked  == {a \in WaveOf(next) : dependsOn[a] \cap FailedIds # {}}
      runnable == WaveOf(next) \ blocked
  IN  /\ batch.at = "between"
      /\ batch' =
           IF batch.wave = BatchSize THEN [batch EXCEPT !.at = "done"]
           ELSE [at |-> "wave", wave |-> next,
                 workers |-> IF runnable = {} THEN 0 ELSE Smaller(Concurrency, Cardinality(runnable)),
                 status |-> [a \in BatchAction |->
                               IF a \in blocked THEN "skipped"
                               ELSE IF a \in runnable THEN "queued" ELSE batch.status[a]]]
      /\ UNCHANGED dependsOn

Queued == {a \in BatchAction : batch.status[a] = "queued"}
Running == {a \in BatchAction : batch.status[a] = "running"}

\* Defect: a worker for every action of the wave.
TakeAtOnce ==
  /\ Queued # {}
  /\ batch' = [batch EXCEPT !.status[CHOOSE a \in Queued : \A b \in Queued : a <= b] = "running"]
  /\ UNCHANGED dependsOn

\* A free worker takes the next action.  The other workers of a wave whose call
\* has been rejected still do.
TakeAction ==
  /\ Queued # {} /\ Cardinality(Running) < batch.workers
  /\ batch' = [batch EXCEPT !.status[CHOOSE a \in Queued : \A b \in Queued : a <= b] = "running"]
  /\ UNCHANGED dependsOn

FinishAction(a) ==
  /\ a \in Running
  /\ \E outcome \in Outcome : batch' = [batch EXCEPT !.status[a] = outcome]
  /\ UNCHANGED dependsOn

\* executeOne throws (the journal cannot be written): the worker is gone and the
\* call is rejected with the first error.
ThrowAction(a) ==
  /\ a \in Running
  /\ batch' = [batch EXCEPT !.status[a] = "threw", !.workers = @ - 1, !.at = "rejected"]
  /\ UNCHANGED dependsOn

EndWave ==
  /\ batch.at = "wave" /\ Queued = {} /\ Running = {}
  /\ batch' = [batch EXCEPT !.at = "between"]
  /\ UNCHANGED dependsOn

WorkerStep == TakeAction \/ (\E a \in BatchAction : FinishAction(a) \/ ThrowAction(a))
ActionWavesNext == PlanBatch \/ StartWave \/ EndWave \/ WorkerStep
ActionWavesFairness == WF_ActionWavesVars(ActionWavesNext)

-----------------------------------------------------------------------------

ActionWavesTypeOK ==
  /\ dependsOn \in [BatchAction -> SUBSET BatchAction]
  /\ batch \in [at : {"planning", "refused", "between", "wave", "done", "rejected"},
                wave : 0..BatchSize, workers : 0..Concurrency,
                status : [BatchAction -> {"waiting", "queued", "running", "skipped", "threw"} \cup Outcome]]

\* No action runs beside, before or in spite of what it depends on: every direct
\* dependency has settled when it is taken, and none of them has failed.
DependenciesSettleFirst ==
  \A a \in Running : \A d \in dependsOn[a] : batch.status[d] \in Good \cup {"skipped"}

\* The wave's side effects are never wider than the concurrency asked for, even
\* while a rejected call's workers are still emptying the queue.
ConcurrencyIsKept == Cardinality(Running) <= Concurrency

\* Every batch is refused, rejected or carried out, and a queue is always emptied
\* unless every worker threw.
BatchConcludes ==
  /\ batch.at = "planning" ~> batch.at \in {"refused", "done", "rejected"}
  /\ (batch.at = "wave" /\ Queued # {}) ~> (Queued = {} \/ batch.workers = 0)

\* An action runs only after everything it depends on has succeeded.  Violated:
\* what depends on an action that was skipped itself runs (executor.ts:141).
DependentsOnlyAfterSuccess ==
  \A a \in Running : \A d \in dependsOn[a] : batch.status[d] \in Good

-----------------------------------------------------------------------------
(***************************************************************************)
(* LlmPlanner and DeterministicPlanner (packages/planner/src): a plan is   *)
(* asked for, normalised, checked for cycles (validate.ts) and kept, and   *)
(* after a failure revised.                                                *)
(***************************************************************************)
CONSTANTS AskedSteps,     \* bound: steps the model writes
          MaxVersion      \* bound: revisions

ASSUME PlannerAssumption == AskedSteps \in Nat \ {0} /\ MaxVersion \in Nat

Asked == 1..AskedSteps

\* What the model may answer: depends_on of every step, in and out of range.
RawPlans == [Asked -> SUBSET Asked]

VARIABLE planning   \* at, the planner's maxSteps, raw, deps of the plan's steps, version

PlannerVars == <<planning>>

NoPlan == <<>>
PlannerInit(maxSteps) ==
  planning = [at |-> "asking", limit |-> maxSteps, raw |-> NoPlan, deps |-> NoPlan, version |-> 0]

Kept == 1..(IF planning.limit < AskedSteps THEN planning.limit ELSE AskedSteps)

\* Defect: the plan is cut after its dependencies were resolved.
NormalizeThenCut(raw) == [i \in Kept |-> raw[i] \ {i}]

\* normalizePlan: cut to maxSteps, then drop what is out of range or names itself.
Normalize(raw) == [i \in Kept |-> (raw[i] \cap Kept) \ {i}]

\* How a visit has come to a step: each is one that the step before depends on.
Leads(deps, path) ==
  \A i \in 1..Len(path) - 1 : path[i] \in DOMAIN deps /\ path[i + 1] \in deps[path[i]]

\* The step it has come to is one it is still visiting.
ComesBack(path) == \E i \in 1..Len(path) - 1 : path[i] = path[Len(path)]

\* The visits that do not go on from a step they have been to.
Visits(deps) == {path \in UNION {[1..n -> Asked] : n \in 1..Len(deps) + 1} : Leads(deps, path)}

\* Defect: only the first step is searched from.
FindCycleFromFirst(deps) == \E path \in Visits(deps) : path[1] = 1 /\ ComesBack(path)

\* findCycle: depth first from every step of the plan, along the dependencies; one
\* that is not there leads nowhere.
FindCycle(deps) == \E path \in Visits(deps) : ComesBack(path)

\* The model answers with something that is not a plan, or with a plan.
AnswerMalformed ==
  /\ planning.at \in {"asking", "revising"}
  /\ planning' = [planning EXCEPT !.at = "failed"]

AnswerPlan ==
  /\ planning.at \in {"asking", "revising"}
  /\ \E raw \in RawPlans : planning' = [planning EXCEPT !.raw = raw, !.at = "validating"]

\* createPlan, revisePlan: a revision replaces the plan and starts it over.
Validate ==
  LET deps == Normalize(planning.raw)
  IN  /\ planning.at = "validating"
      /\ planning' = IF FindCycle(deps) THEN [planning EXCEPT !.at = "failed"]
                     ELSE [planning EXCEPT !.at = "planned", !.raw = NoPlan, !.deps = deps,
                                           !.version = @ + 1]

Revise ==
  /\ planning.at = "planned" /\ planning.version <= MaxVersion
  /\ planning' = [planning EXCEPT !.at = "revising"]

\* A plan that could not be had fails the run or the recovery: the old one stays.
KeepPlan ==
  /\ planning.at = "failed"
  /\ planning' = [planning EXCEPT !.at = IF planning.version = 0 THEN "asking" ELSE "planned",
                                  !.raw = NoPlan]

PlannerNext ==
  AnswerMalformed \/ AnswerPlan \/ Validate \/ Revise \/ KeepPlan

-----------------------------------------------------------------------------

PlannerTypeOK ==
  /\ planning.at \in {"asking", "validating", "planned", "revising", "failed"}
  /\ planning.version \in 0..MaxVersion + 1
  /\ planning.raw = NoPlan \/ planning.raw \in RawPlans
  /\ planning.deps = NoPlan \/ planning.deps \in [Kept -> SUBSET Asked]

\* The steps can be put in an order in which each comes after what it depends on,
\* and every dependency is a step of the plan: no step waits for one that is not there.
Orderable(deps) ==
  \E rank \in [Kept -> Kept] :
    \A i \in Kept : \A d \in deps[i] : d \in Kept /\ rank[d] < rank[i]

\* A plan is kept only if it can be carried out, whatever of it was cut and
\* whatever it replaces.
KeptPlanCanBeOrdered == planning.at = "planned" => Orderable(planning.deps)

\* A plan that could be carried out is never refused.
RefusalIsACycle ==
  (planning.at = "failed" /\ planning.raw # NoPlan)
    => ~Orderable([i \in Kept |-> (planning.raw[i] \cap Kept) \ {i}])
=============================================================================
