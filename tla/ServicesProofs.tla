---------------------------- MODULE ServicesProofs ----------------------------
(***************************************************************************)
(* What the services keep, for every value of their constants: of each     *)
(* part an invariant that every step of its own keeps, and from those the  *)
(* questions that the run "services" asks of the parts together: all but   *)
(* the order of plans and batches (OrderIsKept), which recursive functions *)
(* over graphs decide, and the liveness (EverythingSettles).               *)
(***************************************************************************)
EXTENDS MCServices, FiniteSetTheorems, SequenceTheorems, TLAPS

-----------------------------------------------------------------------------
(* The parts side by side: a step of the services is a step of the part that *)
(* moves, or leaves it alone.                                                *)

LEMMA OnlyItsPartMoves ==
  ASSUME [ServicesNext]_servicesVars
  PROVE  /\ part' = part
         /\ part = "webhooks" => [WebhooksNext]_WebhooksVars
         /\ part = "gateway" => [GatewayNext]_GatewayVars
         /\ part = "providers" => [ProviderChainNext]_ProviderChainVars
         /\ part = "calls" => [McpCallsNext]_McpCallsVars
         /\ part = "servers" => [McpServersNext]_McpServersVars
         /\ part = "bullmq" => [BullMqNext]_BullMqVars
         /\ part = "sandbox" => [SandboxNext]_SandboxVars
         /\ part = "policy" => [PolicyNext]_PolicyVars
         /\ part = "permissions" => [PermissionsNext]_PermissionsVars
         /\ part = "recovery" => [RecoveryNext]_RecoveryVars
         /\ part = "waves" => [ActionWavesNext]_ActionWavesVars
         /\ part = "planner" => [PlannerNext]_PlannerVars
         /\ part = "locks" => [LockManagerNext]_LockManagerVars
         /\ part = "admission" => [AdmissionNext]_AdmissionVars
BY DEF servicesVars, ServicesNext, OthersRest, Rests, WebhooksMove, GatewayMoves, ProvidersMove, CallsMove,
       ServersMove, BullMqMoves, SandboxMoves, PolicyMoves, PermissionsMove, RecoveryMoves, WavesMove,
       PlannerMoves, LocksMove, AdmissionMoves

\* Of some numbers there is a least one.
LEMMA LeastOf ==
  ASSUME NEW some \in SUBSET Nat, some # {}
  PROVE  \E i \in some : \A j \in some : i <= j
<1>1. \E i \in some : \A j \in some : ~(<<j, i>> \in OpToRel(<, Nat))
  BY NatLessThanWellFounded, WFMin
<1>2. PICK i \in some : \A j \in some : ~(<<j, i>> \in OpToRel(<, Nat))
  BY <1>1
<1>3. ASSUME NEW j \in some
      PROVE  i <= j
  <2>1. i \in Nat /\ j \in Nat
    BY <1>2
  <2>2. ~(j < i)
    BY <1>2, <2>1 DEF OpToRel
  <2> QED BY <2>1, <2>2
<1> QED BY <1>3

\* What holds of zero, and of each next number up to a bound, holds up to it.
LEMMA CountingUp ==
  ASSUME NEW top \in Nat, NEW good, 0 \in good,
         \A n \in 0..top : n \in good /\ n < top => n + 1 \in good
  PROVE  \A n \in 0..top : n \in good
<1> DEFINE bad == {n \in 0..top : n \notin good}
<1>1. ASSUME bad # {} PROVE FALSE
  <2>0. bad \in SUBSET Nat
    OBVIOUS
  <2>1. PICK n \in bad : \A k \in bad : n <= k
    <3> HIDE DEF bad
    <3> QED BY <1>1, <2>0, LeastOf
  <2>2. n \in 0..top /\ n # 0 /\ n - 1 \in 0..top /\ n - 1 < top
    BY <2>1
  <2>3. n - 1 \notin bad
    BY <2>1, <2>2
  <2>4. n - 1 \in good
    BY <2>2, <2>3
  <2> QED BY <2>1, <2>2, <2>4
<1> QED BY <1>1

-----------------------------------------------------------------------------
(* The queue: what may still begin.  An action that was asked for has one     *)
(* execution to its name, begun or still to begin, and every worker that died *)
(* and every record that was forgotten adds one.                              *)

Carries(w, id) == consumer[w].at # "free" /\ consumer[w].id = id

\* A job of the action can still be begun: it is not known, it waits, or a
\* consumer that has it is still looking at the row.
MayBegin(a) ==
  \/ job[JobId(a)] \in {NoJob, "waiting"}
  \/ \E w \in QueueWorker : consumer[w].at = "checking" /\ consumer[w].id = JobId(a)
BeginsLeft(a) == IF MayBegin(a) THEN 1 ELSE 0

ConsumerType ==
  /\ consumer \in [QueueWorker -> [up : BOOLEAN, at : {"free", "checking", "running"}, id : JobIds]]
  /\ stalls \in Nat /\ forgotten \in Nat /\ adds \in Nat

\* A job is its action's own, and in the hands of one consumer that is alive.
JobsAreHeldOnce ==
  /\ \A id \in JobIds : job[id] # NoJob => id = JobId(id[1])
  /\ \A w \in QueueWorker : consumer[w].at # "free" => consumer[w].up /\ job[consumer[w].id] = "active"
  /\ \A v, w \in QueueWorker :
       consumer[v].at # "free" /\ consumer[w].at # "free" /\ consumer[v].id = consumer[w].id => v = w

BeginsAreCounted == \A a \in DispatchAction : begun[a] + BeginsLeft(a) <= 1 + stalls + forgotten

BullMqInv == BullMqTypeOK /\ ConsumerType /\ JobsAreHeldOnce /\ BeginsAreCounted

LEMMA JobIdIsOne ==
  ASSUME NEW a \in DispatchAction
  PROVE  JobId(a) \in JobIds /\ JobId(a)[1] = a
BY BullMqAssumption DEF JobId, JobIds

LEMMA BullMqStarts ==
  ASSUME BullMqInit
  PROVE  BullMqInv
<1> USE DEF BullMqInit
<1>1. BullMqTypeOK /\ ConsumerType
  BY BullMqAssumption DEF BullMqTypeOK, ConsumerType, Free, JobIds, DispatchAction, NoJob
<1>2. JobsAreHeldOnce
  BY DEF JobsAreHeldOnce, Free
<1>3. BeginsAreCounted
  BY DEF BeginsAreCounted, BeginsLeft
<1> QED BY <1>1, <1>2, <1>3 DEF BullMqInv

LEMMA AddJobKeeps ==
  ASSUME BullMqInv, NEW a \in DispatchAction, AddJob(a)
  PROVE  BullMqInv'
<1> USE DEF BullMqInv, AddJob
<1>1. (BullMqTypeOK /\ ConsumerType)'
  BY JobIdIsOne DEF BullMqTypeOK, ConsumerType
<1>2. JobsAreHeldOnce'
  BY JobIdIsOne DEF BullMqTypeOK, ConsumerType, JobsAreHeldOnce, NoJob
<1>3. ASSUME NEW b \in DispatchAction
      PROVE  BeginsLeft(b)' = BeginsLeft(b)
  BY JobIdIsOne DEF BullMqTypeOK, BeginsLeft, MayBegin, NoJob, JobId
<1>4. BeginsAreCounted'
  BY <1>3 DEF BeginsAreCounted
<1> QED BY <1>1, <1>2, <1>4

LEMMA TakeJobKeeps ==
  ASSUME BullMqInv, NEW w \in QueueWorker, NEW id \in JobIds, TakeJob(w, id)
  PROVE  BullMqInv'
<1> USE DEF BullMqInv, TakeJob
<1>0. /\ job' \in [JobIds -> {NoJob, "waiting", "active", "completed"}]
      /\ consumer' \in [QueueWorker -> [up : BOOLEAN, at : {"free", "checking", "running"}, id : JobIds]]
  <2>1. CASE consumer[w].at = "free"
    <3>1. [up |-> TRUE, at |-> "checking", id |-> id]
            \in [up : BOOLEAN, at : {"free", "checking", "running"}, id : JobIds]
      OBVIOUS
    <3>2. job' \in [JobIds -> {NoJob, "waiting", "active", "completed"}]
      BY <2>1 DEF BullMqTypeOK
    <3> QED BY <2>1, <3>1, <3>2 DEF ConsumerType
  <2>2. CASE consumer[w].at # "free"
    BY <2>2 DEF BullMqTypeOK, ConsumerType
  <2> QED BY <2>1, <2>2
<1>1. (BullMqTypeOK /\ ConsumerType)'
  BY <1>0 DEF BullMqTypeOK, ConsumerType
<1>2. JobsAreHeldOnce'
  BY DEF BullMqTypeOK, ConsumerType, JobsAreHeldOnce, NoJob
<1>3. ASSUME NEW b \in DispatchAction
      PROVE  BeginsLeft(b)' <= BeginsLeft(b)
  <2>1. MayBegin(b)' => MayBegin(b)
    BY JobIdIsOne DEF BullMqTypeOK, ConsumerType, MayBegin, NoJob
  <2> QED BY <2>1 DEF BeginsLeft
<1>4. BeginsAreCounted'
  BY <1>3 DEF BeginsAreCounted, BullMqTypeOK, ConsumerType, BeginsLeft
<1> QED BY <1>1, <1>2, <1>4

\* A job that is answered is completed, and in nobody's hands.
LEMMA AnswerKeeps ==
  ASSUME BullMqInv, NEW w \in QueueWorker, consumer[w].at # "free", Answer(w),
         UNCHANGED <<begun, stalls, forgotten, adds>>, queuedRow' \in {"QUEUED", "EXECUTING", "PAUSED", "WAITING"} \union Ended,
         askedFor' \subseteq DispatchAction
  PROVE  BullMqInv'
<1> USE DEF BullMqInv, Answer
<1>0. Free \in [up : BOOLEAN, at : {"free", "checking", "running"}, id : JobIds] /\ Free.at = "free"
  BY BullMqAssumption DEF Free, JobIds, DispatchAction
<1>1. (BullMqTypeOK /\ ConsumerType)'
  BY <1>0 DEF BullMqTypeOK, ConsumerType
<1>2. JobsAreHeldOnce'
  BY <1>0 DEF BullMqTypeOK, ConsumerType, JobsAreHeldOnce, NoJob
<1>3. ASSUME NEW b \in DispatchAction
      PROVE  BeginsLeft(b)' <= BeginsLeft(b)
  <2>1. MayBegin(b)' => MayBegin(b)
    BY <1>0, JobIdIsOne DEF BullMqTypeOK, ConsumerType, MayBegin, NoJob
  <2> QED BY <2>1 DEF BeginsLeft
<1>4. BeginsAreCounted'
  BY <1>3 DEF BeginsAreCounted, BullMqTypeOK, ConsumerType, BeginsLeft
<1> QED BY <1>1, <1>2, <1>4

LEMMA BeginRunKeeps ==
  ASSUME BullMqInv, NEW w \in QueueWorker, BeginRun(w)
  PROVE  BullMqInv'
<1> DEFINE a == consumer[w].id[1]
<1>1. consumer[w].at = "checking" /\ a \in DispatchAction /\ consumer[w].id = JobId(a)
  BY DEF BeginRun, BullMqInv, BullMqTypeOK, ConsumerType, JobsAreHeldOnce, JobIds, NoJob
<1>2. CASE ~MayAsk(a)
  <2>1. Answer(w) /\ UNCHANGED <<queuedRow, begun, askedFor, adds, stalls, forgotten>>
    BY <1>2 DEF BeginRun
  <2> QED BY <1>1, <2>1, AnswerKeeps DEF BullMqInv, BullMqTypeOK
<1>3. CASE MayAsk(a)
  <2>1. /\ consumer' = [consumer EXCEPT ![w].at = "running"]
        /\ queuedRow' = "EXECUTING" /\ begun' = [begun EXCEPT ![a] = @ + 1]
        /\ askedFor' = {} /\ UNCHANGED <<job, adds, stalls, forgotten>>
    BY <1>3 DEF BeginRun
  <2> USE DEF BullMqInv
  <2>2. (BullMqTypeOK /\ ConsumerType)'
    BY <1>1, <2>1 DEF BullMqTypeOK, ConsumerType
  <2>3. JobsAreHeldOnce'
    BY <1>1, <2>1 DEF ConsumerType, JobsAreHeldOnce
  <2>4. MayBegin(a) /\ ~MayBegin(a)'
    BY <1>1, <2>1 DEF BullMqTypeOK, ConsumerType, JobsAreHeldOnce, MayBegin, NoJob
  <2>5. ASSUME NEW b \in DispatchAction
        PROVE  begun'[b] + BeginsLeft(b)' <= begun[b] + BeginsLeft(b)
    <3>1. CASE b = a
      BY <3>1, <2>1, <2>4, <1>1 DEF BeginsLeft, BullMqTypeOK
    <3>2. CASE b # a
      <4>1. MayBegin(b)' => MayBegin(b)
        BY <2>1 DEF MayBegin, ConsumerType
      <4> QED BY <3>2, <4>1, <2>1, <1>1 DEF BeginsLeft, BullMqTypeOK
    <3> QED BY <3>1, <3>2
  <2>6. BeginsAreCounted'
    BY <2>5, <2>1, <2>2 DEF BeginsAreCounted, BullMqTypeOK, ConsumerType, BeginsLeft
  <2> QED BY <2>2, <2>3, <2>6
<1> QED BY <1>2, <1>3

LEMMA StallJobKeeps ==
  ASSUME BullMqInv, NEW w \in QueueWorker, StallJob(w)
  PROVE  BullMqInv'
<1> USE DEF BullMqInv, StallJob
<1>0. [Free EXCEPT !.up = FALSE] \in [up : BOOLEAN, at : {"free", "checking", "running"}, id : JobIds]
      /\ [Free EXCEPT !.up = FALSE].at = "free"
  <2>1. Free \in [up : BOOLEAN, at : {"free", "checking", "running"}, id : JobIds] /\ Free.at = "free"
    BY BullMqAssumption DEF Free, JobIds, DispatchAction
  <2> QED BY <2>1
<1>1. (BullMqTypeOK /\ ConsumerType)'
  BY <1>0 DEF BullMqTypeOK, ConsumerType
<1>2. JobsAreHeldOnce'
  BY <1>0 DEF BullMqTypeOK, ConsumerType, JobsAreHeldOnce, NoJob
<1>3. ASSUME NEW b \in DispatchAction
      PROVE  BeginsLeft(b)' <= BeginsLeft(b) + 1
  BY DEF BeginsLeft
<1>4. BeginsAreCounted'
  BY <1>3 DEF BeginsAreCounted, BullMqTypeOK, ConsumerType, BeginsLeft
<1> QED BY <1>1, <1>2, <1>4

LEMMA RestartWorkerKeeps ==
  ASSUME BullMqInv, NEW w \in QueueWorker, RestartWorker(w)
  PROVE  BullMqInv'
<1> USE DEF BullMqInv, RestartWorker
<1>0. Free \in [up : BOOLEAN, at : {"free", "checking", "running"}, id : JobIds] /\ Free.at = "free"
  BY BullMqAssumption DEF Free, JobIds, DispatchAction
<1>1. (BullMqTypeOK /\ ConsumerType)'
  BY <1>0 DEF BullMqTypeOK, ConsumerType
<1>2. JobsAreHeldOnce'
  BY <1>0 DEF ConsumerType, JobsAreHeldOnce
<1>3. ASSUME NEW b \in DispatchAction
      PROVE  MayBegin(b)' => MayBegin(b)
  BY <1>0 DEF ConsumerType, MayBegin
<1>4. BeginsAreCounted'
  BY <1>3 DEF BeginsAreCounted, BullMqTypeOK, ConsumerType, BeginsLeft
<1> QED BY <1>1, <1>2, <1>4

LEMMA ForgetJobKeeps ==
  ASSUME BullMqInv, NEW id \in JobIds, ForgetJob(id)
  PROVE  BullMqInv'
<1> USE DEF BullMqInv, ForgetJob
<1>1. (BullMqTypeOK /\ ConsumerType)'
  BY DEF BullMqTypeOK, ConsumerType
<1>2. JobsAreHeldOnce'
  BY DEF BullMqTypeOK, ConsumerType, JobsAreHeldOnce
<1>3. ASSUME NEW b \in DispatchAction
      PROVE  BeginsLeft(b)' <= BeginsLeft(b) + 1
  BY DEF BeginsLeft
<1>4. BeginsAreCounted'
  BY <1>3 DEF BeginsAreCounted, BullMqTypeOK, ConsumerType, BeginsLeft
<1> QED BY <1>1, <1>2, <1>4

LEMMA BullMqKeeps ==
  ASSUME BullMqInv, [BullMqNext]_BullMqVars
  PROVE  BullMqInv'
<1>1. CASE UNCHANGED BullMqVars
  BY <1>1 DEF BullMqVars, BullMqInv, BullMqTypeOK, ConsumerType, JobsAreHeldOnce, BeginsAreCounted,
              BeginsLeft, MayBegin
<1>2. ASSUME NEW w \in QueueWorker, LeaveQueued(w)
      PROVE  BullMqInv'
  BY <1>2, AnswerKeeps DEF LeaveQueued, BullMqInv, BullMqTypeOK
<1>3. ASSUME NEW w \in QueueWorker, RunRests(w)
      PROVE  BullMqInv'
  <2>1. /\ consumer[w].at # "free" /\ Answer(w) /\ UNCHANGED <<begun, stalls, forgotten, adds>>
        /\ queuedRow' \in {"QUEUED", "EXECUTING", "PAUSED", "WAITING"} \union Ended
        /\ askedFor' \subseteq DispatchAction
    BY <1>3 DEF RunRests, BullMqInv, BullMqTypeOK, Ended
  <2> QED BY <2>1, AnswerKeeps
<1> QED BY <1>1, <1>2, <1>3, AddJobKeeps, TakeJobKeeps, BeginRunKeeps, StallJobKeeps, RestartWorkerKeeps,
           ForgetJobKeeps DEF BullMqNext, ConsumerStep

\* However often dispatch() is asked for an action of a run, it executes once,
\* and once more for every worker that died with its job and every record that
\* BullMQ forgot (bullmq.ts: bullMqJobId, executeItem).
THEOREM DispatchIsOnce == ServicesSpec => []DispatchedOnce
<1> DEFINE Inv == part = "bullmq" => BullMqInv
<1>1. ServicesInit => Inv
  BY BullMqStarts DEF ServicesInit
<1>2. Inv /\ [ServicesNext]_servicesVars => Inv'
  BY OnlyItsPartMoves, BullMqKeeps
<1>3. Inv => DispatchedOnce
  BY DEF DispatchedOnce, Of, AskedTwiceRunsOnce, BullMqInv, BeginsAreCounted, BeginsLeft, BullMqTypeOK,
         ConsumerType
<1> QED BY <1>1, <1>2, <1>3, PTL DEF ServicesSpec
-----------------------------------------------------------------------------
(* The providers.  A call has passed the targets before its own by what they  *)
(* did, and knows nothing of those after it.                                  *)

PassedOver ==
  \A a \in Asker : \A t \in Target :
    /\ t < asking[a].index => asking[a].did[t] \in {"open", "retryable"}
    /\ t > asking[a].index => asking[a].did[t] = "untried"

ProvidersInv == ProviderChainTypeOK /\ ClosedMeansHealthy /\ PassedOver

LEMMA ProvidersStart ==
  ASSUME ProviderChainInit
  PROVE  ProvidersInv
<1> USE ProviderChainAssumption DEF ProviderChainInit
<1>1. ProviderChainTypeOK
  BY DEF ProviderChainTypeOK, FreshBreaker, Breaker, FreshAsk, Target, Answered
<1>2. ClosedMeansHealthy
  BY DEF ClosedMeansHealthy, FreshBreaker
<1>3. PassedOver
  BY DEF PassedOver, FreshAsk, Target
<1> QED BY <1>1, <1>2, <1>3 DEF ProvidersInv

Healthy(b) == b.state = "CLOSED" => b.failures < FailureThreshold

\* What a breaker's methods make of a breaker that is in order is in order.
LEMMA BreakersAreKept ==
  ASSUME NEW b \in Breaker, Healthy(b), ticks \in 0..MaxTicks
  PROVE  /\ Elapsed(b) \in Breaker /\ Healthy(Elapsed(b))
         /\ RecordSuccess(b) \in Breaker /\ Healthy(RecordSuccess(b))
         /\ RecordFailure(b) \in Breaker /\ Healthy(RecordFailure(b))
<1> USE ProviderChainAssumption
<1>1. Elapsed(b) \in Breaker /\ Healthy(Elapsed(b))
  <2> DEFINE half == [b EXCEPT !.state = "HALF_OPEN", !.successes = 0]
  <2>0. 0 \in 0..SuccessThreshold
    OBVIOUS
  <2>1. half \in Breaker /\ half.state = "HALF_OPEN"
    BY <2>0, Zenon DEF Breaker
  <2>2. Elapsed(b) = half \/ Elapsed(b) = b
    BY DEF Elapsed
  <2> HIDE DEF half
  <2> QED BY <2>1, <2>2 DEF Healthy
<1> DEFINE now == Elapsed(b)
<1> HIDE DEF now
<1>2. now \in Breaker /\ Healthy(now)
  BY <1>1 DEF now
<1>3. RecordSuccess(b) \in Breaker /\ Healthy(RecordSuccess(b))
  <2>1. RecordSuccess(b) = IF now.state # "HALF_OPEN" THEN [now EXCEPT !.failures = 0]
                           ELSE IF now.successes + 1 >= SuccessThreshold THEN FreshBreaker
                           ELSE [now EXCEPT !.successes = @ + 1]
    BY DEF RecordSuccess, now
  <2>2. FreshBreaker \in Breaker /\ Healthy(FreshBreaker)
    BY DEF FreshBreaker, Breaker, Healthy
  <2>3. [now EXCEPT !.failures = 0] \in Breaker /\ Healthy([now EXCEPT !.failures = 0])
    BY <1>2 DEF Breaker, Healthy
  <2>4. CASE now.state = "HALF_OPEN" /\ ~(now.successes + 1 >= SuccessThreshold)
    <3>1. [now EXCEPT !.successes = @ + 1] \in Breaker /\ [now EXCEPT !.successes = @ + 1].state = "HALF_OPEN"
      BY <1>2, <2>4 DEF Breaker
    <3> QED BY <3>1, <2>1, <2>4 DEF Healthy
  <2> QED BY <2>1, <2>2, <2>3, <2>4
<1>4. RecordFailure(b) \in Breaker /\ Healthy(RecordFailure(b))
  <2> DEFINE more == [now EXCEPT !.failures = @ + 1]
  <2>1. more \in Breaker /\ more.failures = now.failures + 1
    BY <1>2 DEF Breaker
  <2> HIDE DEF more
  <2>2. RecordFailure(b) = IF more.state = "HALF_OPEN" \/ more.failures >= FailureThreshold
                           THEN Trip(more) ELSE more
    BY DEF RecordFailure, now, more
  <2>3. Trip(more) \in Breaker /\ Trip(more).state = "OPEN"
    BY <2>1 DEF Trip, Breaker
  <2> QED BY <2>1, <2>2, <2>3 DEF Healthy, Breaker
<1> QED BY <1>1, <1>3, <1>4

Ask == [at : {"idle", "awaiting", "answered", "exhausted"}, index : Target, did : [Target -> Answered]]

InOrder(ask) ==
  \A t \in Target :
    /\ t < ask.index => ask.did[t] \in {"open", "retryable"}
    /\ t > ask.index => ask.did[t] = "untried"

\* A step at one target: the breaker is in order after it, and so is the call.
LEMMA TargetStepKeeps ==
  ASSUME ProvidersInv, NEW a \in Asker, NEW t \in Target, NEW b \in Breaker, Healthy(b),
         NEW ask \in Ask, InOrder(ask), UNCHANGED ticks,
         breaker' = [breaker EXCEPT ![t] = b], asking' = [asking EXCEPT ![a] = ask]
  PROVE  ProvidersInv'
<1> USE DEF ProvidersInv
<1>1. ProviderChainTypeOK'
  BY DEF ProviderChainTypeOK, Ask
<1>2. ClosedMeansHealthy'
  BY DEF ClosedMeansHealthy, ProviderChainTypeOK, Healthy
<1>3. PassedOver'
  BY DEF PassedOver, ProviderChainTypeOK, InOrder, Ask
<1> QED BY <1>1, <1>2, <1>3

\* A call that moves on has passed its target as an open one or by a failure
\* worth failing over for.
LEMMA MovesOn ==
  ASSUME NEW ask \in Ask, InOrder(ask), NEW place \in {"idle", "exhausted"},
         NEW did \in Answered, NEW last \in BOOLEAN,
         ask.index = ChainLength => last, ~last => did \in {"open", "retryable"}
  PROVE  LET next == [ask EXCEPT !.did[ask.index] = did, !.at = place,
                                 !.index = IF last THEN ask.index ELSE ask.index + 1]
         IN  next \in Ask /\ InOrder(next)
<1> USE ProviderChainAssumption
<1> DEFINE next == [ask EXCEPT !.did[ask.index] = did, !.at = place,
                               !.index = IF last THEN ask.index ELSE ask.index + 1]
<1>1. next.index = (IF last THEN ask.index ELSE ask.index + 1) /\ next.at = place
  BY DEF Ask
<1>2. next.did = [ask.did EXCEPT ![ask.index] = did]
  BY DEF Ask
<1>3. (IF last THEN ask.index ELSE ask.index + 1) \in Target
  BY DEF Ask, Target
<1>4. next \in Ask
  BY <1>3 DEF Ask
<1> HIDE DEF next
<1>5. InOrder(next)
  BY <1>1, <1>2 DEF InOrder, Ask, Target
<1> QED BY <1>4, <1>5 DEF next

LEMMA ProvidersKeep ==
  ASSUME ProvidersInv, [ProviderChainNext]_ProviderChainVars
  PROVE  ProvidersInv'
<1> USE ProviderChainAssumption
<1>0. \A a \in Asker : asking[a] \in Ask /\ InOrder(asking[a]) /\ asking[a].index \in Target
  BY DEF ProvidersInv, ProviderChainTypeOK, PassedOver, InOrder, Ask
<1>b. \A t \in Target : breaker[t] \in Breaker /\ Healthy(breaker[t])
  BY DEF ProvidersInv, ProviderChainTypeOK, ClosedMeansHealthy, Healthy
<1>t. ticks \in 0..MaxTicks
  BY DEF ProvidersInv, ProviderChainTypeOK
<1>1. CASE UNCHANGED ProviderChainVars
  BY <1>1 DEF ProviderChainVars, ProvidersInv, ProviderChainTypeOK, ClosedMeansHealthy, PassedOver
<1>2. CASE PassTime
  BY <1>2 DEF PassTime, ProvidersInv, ProviderChainTypeOK, ClosedMeansHealthy, PassedOver, Breaker
<1>3. ASSUME NEW a \in Asker, TryTarget(a)
      PROVE  ProvidersInv'
  <2> DEFINE t == asking[a].index
             moved == [asking[a] EXCEPT !.did[t] = "open",
                         !.at = IF t = ChainLength THEN "exhausted" ELSE "idle",
                         !.index = IF t = ChainLength THEN t ELSE t + 1]
             tried == [asking[a] EXCEPT !.at = "awaiting"]
  <2>1. moved \in Ask /\ InOrder(moved)
    BY <1>0, MovesOn DEF Answered
  <2>2. tried \in Ask /\ InOrder(tried)
    BY <1>0 DEF Ask, InOrder
  <2>3. breaker' = [breaker EXCEPT ![t] = Elapsed(breaker[t])] /\ UNCHANGED ticks
    BY <1>3, <1>0 DEF TryTarget
  <2>4. asking' = [asking EXCEPT ![a] = moved] \/ asking' = [asking EXCEPT ![a] = tried]
    BY <1>3 DEF TryTarget, ProvidersInv, ProviderChainTypeOK
  <2>5. Elapsed(breaker[t]) \in Breaker /\ Healthy(Elapsed(breaker[t])) /\ t \in Target
    BY <1>0, <1>b, <1>t, BreakersAreKept
  <2> HIDE DEF t, moved, tried
  <2> QED BY <2>1, <2>2, <2>3, <2>4, <2>5, TargetStepKeeps
<1>4. ASSUME NEW a \in Asker, ProviderAnswers(a)
      PROVE  ProvidersInv'
  <2> DEFINE t == asking[a].index
             told == [asking[a] EXCEPT !.at = "answered", !.did[t] = "answered"]
  <2>1. told \in Ask /\ told.index = asking[a].index /\ told.did = [asking[a].did EXCEPT ![t] = "answered"]
    BY <1>0 DEF Ask, Answered
  <2>5. InOrder(told)
    <3> HIDE DEF told
    <3> QED BY <1>0, <2>1 DEF InOrder, Ask, Target
  <2>2. breaker' = [breaker EXCEPT ![t] = RecordSuccess(breaker[t])] /\ UNCHANGED ticks
    BY <1>4 DEF ProviderAnswers
  <2>3. asking' = [asking EXCEPT ![a] = told]
    BY <1>4 DEF ProviderAnswers, ProvidersInv, ProviderChainTypeOK
  <2>4. RecordSuccess(breaker[t]) \in Breaker /\ Healthy(RecordSuccess(breaker[t])) /\ t \in Target
    BY <1>0, <1>b, <1>t, BreakersAreKept
  <2> HIDE DEF t, told
  <2> QED BY <2>1, <2>2, <2>3, <2>4, <2>5, TargetStepKeeps
<1>5. ASSUME NEW a \in Asker, ProviderFails(a)
      PROVE  ProvidersInv'
  <2> DEFINE t == asking[a].index
  <2>1. PICK retryable \in BOOLEAN :
          LET last == t = ChainLength \/ ~retryable
          IN  /\ breaker' = [breaker EXCEPT ![t] = RecordFailure(@)]
              /\ asking' = [asking EXCEPT ![a] =
                   [@ EXCEPT !.did[t] = IF retryable THEN "retryable" ELSE "fatal",
                             !.at = IF last THEN "exhausted" ELSE "idle",
                             !.index = IF last THEN t ELSE t + 1]]
    BY <1>5 DEF ProviderFails
  <2> DEFINE last == t = ChainLength \/ ~retryable
             failed == [asking[a] EXCEPT !.did[t] = IF retryable THEN "retryable" ELSE "fatal",
                          !.at = IF last THEN "exhausted" ELSE "idle",
                          !.index = IF last THEN t ELSE t + 1]
  <2>2. failed \in Ask /\ InOrder(failed)
    BY <1>0, MovesOn DEF Answered
  <2>3. breaker' = [breaker EXCEPT ![t] = RecordFailure(breaker[t])] /\ UNCHANGED ticks
    BY <1>5, <2>1 DEF ProviderFails
  <2>4. asking' = [asking EXCEPT ![a] = failed]
    BY <2>1 DEF ProvidersInv, ProviderChainTypeOK
  <2>5. RecordFailure(breaker[t]) \in Breaker /\ Healthy(RecordFailure(breaker[t])) /\ t \in Target
    BY <1>0, <1>b, <1>t, BreakersAreKept
  <2> HIDE DEF t, failed
  <2> QED BY <2>2, <2>3, <2>4, <2>5, TargetStepKeeps
<1>6. ASSUME NEW a \in Asker, AskAgain(a)
      PROVE  ProvidersInv'
  <2>1. FreshAsk \in Ask /\ InOrder(FreshAsk)
    BY DEF FreshAsk, Ask, InOrder, Target, Answered
  <2>2. 1 \in Target /\ breaker = [breaker EXCEPT ![1] = breaker[1]]
    BY DEF Target, ProvidersInv, ProviderChainTypeOK
  <2> QED BY <1>6, <1>b, <2>1, <2>2, TargetStepKeeps DEF AskAgain
<1> QED BY <1>1, <1>2, <1>3, <1>4, <1>5, <1>6 DEF ProviderChainNext

LEMMA FailoverFollows ==
  ASSUME ProvidersInv
  PROVE  FailoverIsDeliberate
<1> SUFFICES ASSUME NEW a \in Asker, NEW t \in Target,
                    asking[a].did[t] # "untried" \/ asking[a].index = t, NEW before \in 1..t - 1
             PROVE  asking[a].did[before] \in {"open", "retryable"}
  BY DEF FailoverIsDeliberate
<1>1. asking[a].index \in Target /\ ChainLength \in Nat /\ t \in 1..ChainLength
  BY ProviderChainAssumption DEF ProvidersInv, ProviderChainTypeOK, Target
<1>2. before \in Target /\ before < t
  BY <1>1 DEF Target
<1>3. ~(t > asking[a].index)
  BY DEF ProvidersInv, PassedOver
<1>4. before < asking[a].index
  BY <1>1, <1>2, <1>3 DEF Target
<1> QED BY <1>2, <1>4 DEF ProvidersInv, PassedOver
-----------------------------------------------------------------------------
(* The MCP servers.  A connection that failed has let go of what was listed,  *)
(* and one that is ready has no error.                                        *)

ConnectionOf ==
  [at : {"idle", "opening", "handshake", "tools", "others", "ready", "failed"}, page : {0, 1},
   number : 0..MaxConnections,
   live : SUBSET (1..MaxConnections), listed : BOOLEAN, discovered : BOOLEAN, error : BOOLEAN]

ConnectionInOrder(one) ==
  /\ one.at = "opening" => one.number < MaxConnections
  /\ one.at = "ready" => ~one.error
  /\ one.at = "failed" => ~one.listed

ServersInv ==
  /\ manager \in [strict : BOOLEAN, enabled : SUBSET McpServer,
                  start : {"none", "running", "resolved", "rejected"}, closed : BOOLEAN]
  /\ connection \in [McpServer -> ConnectionOf]
  /\ offered \in [McpServer -> 0..MaxConnections]
  /\ \A s \in McpServer : ConnectionInOrder(connection[s])

LEMMA FreshIsInOrder ==
  /\ Fresh \in ConnectionOf /\ ConnectionInOrder(Fresh)
  /\ [Fresh EXCEPT !.at = "opening"] \in ConnectionOf /\ ConnectionInOrder([Fresh EXCEPT !.at = "opening"])
  /\ [Fresh EXCEPT !.at = "ready"] \in ConnectionOf /\ ConnectionInOrder([Fresh EXCEPT !.at = "ready"])
<1> USE McpServersAssumption DEF Fresh, ConnectionOf, ConnectionInOrder
<1>1. 0 \in 0..MaxConnections /\ 0 < MaxConnections
  OBVIOUS
<1>2. Fresh \in ConnectionOf /\ ConnectionInOrder(Fresh)
  BY <1>1
<1>3. [Fresh EXCEPT !.at = "opening"] \in ConnectionOf /\ ConnectionInOrder([Fresh EXCEPT !.at = "opening"])
  BY <1>1
<1>4. [Fresh EXCEPT !.at = "ready"] \in ConnectionOf /\ ConnectionInOrder([Fresh EXCEPT !.at = "ready"])
  BY <1>1
<1> QED BY <1>2, <1>3, <1>4

LEMMA ServersStart ==
  ASSUME NEW strict \in BOOLEAN, NEW enabled \in SUBSET McpServer, McpServersInit(strict, enabled)
  PROVE  ServersInv
BY FreshIsInOrder, McpServersAssumption DEF McpServersInit, ServersInv

\* A step of one server: what it makes of its connection is in order.
LEMMA OneServerKeeps ==
  ASSUME ServersInv, NEW s \in McpServer, NEW one \in ConnectionOf, ConnectionInOrder(one),
         connection' = [connection EXCEPT ![s] = one], UNCHANGED <<manager, offered>>
  PROVE  ServersInv'
BY DEF ServersInv

LEMMA ConnectionStepKeeps ==
  ASSUME ServersInv, NEW s \in McpServer, ConnectionStep(s) \/ Reconnect(s)
  PROVE  ServersInv'
<1> DEFINE one == connection[s]
<1> USE McpServersAssumption
<1>0. one \in ConnectionOf /\ ConnectionInOrder(one)
  BY DEF ServersInv
<1>c. connection = [connection EXCEPT ![s] = one] /\ DOMAIN connection = McpServer
  BY DEF ServersInv
<1>1. CASE OpenConnection(s)
  <2> DEFINE new == [one EXCEPT !.at = "handshake", !.number = @ + 1, !.live = @ \cup {one.number + 1}]
  <2>1. one.number + 1 \in 1..MaxConnections /\ one.number + 1 \in 0..MaxConnections
    BY <1>1, <1>0 DEF OpenConnection, ConnectionOf, ConnectionInOrder
  <2>2. new \in ConnectionOf /\ new.at = "handshake"
    BY <1>0, <2>1 DEF ConnectionOf
  <2>3. connection' = [connection EXCEPT ![s] = new]
    BY <1>1, <1>c DEF OpenConnection
  <2> HIDE DEF new
  <2> QED BY <1>1, <2>2, <2>3, OneServerKeeps DEF OpenConnection, ConnectionInOrder
<1>2. CASE Handshake(s)
  <2> DEFINE new == [one EXCEPT !.at = "tools"]
  <2>1. new \in ConnectionOf /\ new.at = "tools"
    BY <1>0 DEF ConnectionOf
  <2>2. connection' = [connection EXCEPT ![s] = new]
    BY <1>2, <1>c DEF Handshake
  <2> HIDE DEF new
  <2> QED BY <1>2, <2>1, <2>2, OneServerKeeps DEF Handshake, ConnectionInOrder
<1>a. CASE NextPage(s)
  <2> DEFINE new == [one EXCEPT !.page = 1 - @]
  <2>1. new \in ConnectionOf /\ new.at = "tools"
    BY <1>0, <1>a DEF ConnectionOf, NextPage
  <2>2. connection' = [connection EXCEPT ![s] = new]
    BY <1>a, <1>c DEF NextPage
  <2> HIDE DEF new
  <2> QED BY <1>a, <2>1, <2>2, OneServerKeeps DEF NextPage, ConnectionInOrder
<1>3. CASE ListTools(s)
  <2> DEFINE new == [one EXCEPT !.at = "others", !.page = 1, !.listed = TRUE]
  <2>1. new \in ConnectionOf /\ new.at = "others"
    BY <1>0 DEF ConnectionOf
  <2>2. connection' = [connection EXCEPT ![s] = new]
    BY <1>3, <1>c DEF ListTools
  <2> HIDE DEF new
  <2> QED BY <1>3, <2>1, <2>2, OneServerKeeps DEF ListTools, ConnectionInOrder
<1>4. CASE ListOthers(s)
  <2> DEFINE new == [one EXCEPT !.at = "ready", !.discovered = TRUE, !.error = FALSE]
  <2>1. new \in ConnectionOf /\ new.at = "ready" /\ ~new.error
    BY <1>0 DEF ConnectionOf
  <2>2. connection' = [connection EXCEPT ![s] = new]
    BY <1>4, <1>c DEF ListOthers
  <2> HIDE DEF new
  <2> QED BY <1>4, <2>1, <2>2, OneServerKeeps DEF ListOthers, ConnectionInOrder
<1>5. CASE ConnectFails(s)
  <2> DEFINE new == [one EXCEPT !.at = "failed", !.page = 1, !.error = TRUE, !.listed = FALSE, !.discovered = FALSE]
  <2>1. new \in ConnectionOf /\ new.at = "failed" /\ ~new.listed
    BY <1>0 DEF ConnectionOf
  <2>2. connection' = [connection EXCEPT ![s] = new]
    BY <1>5, <1>c DEF ConnectFails
  <2> HIDE DEF new
  <2> QED BY <1>5, <2>1, <2>2, OneServerKeeps DEF ConnectFails, ConnectionInOrder
<1>6. CASE Reconnect(s)
  <2> DEFINE new == [one EXCEPT !.at = "opening", !.live = @ \ {one.number}]
  <2>1. new \in ConnectionOf /\ new.at = "opening" /\ new.number = one.number
    BY <1>0 DEF ConnectionOf
  <2>2. connection' = [connection EXCEPT ![s] = new] /\ one.number < MaxConnections
    BY <1>6, <1>c DEF Reconnect
  <2> HIDE DEF new
  <2> QED BY <1>6, <2>1, <2>2, OneServerKeeps DEF Reconnect, ConnectionInOrder
<1> QED BY <1>1, <1>2, <1>a, <1>3, <1>4, <1>5, <1>6 DEF ConnectionStep

LEMMA ServersKeep ==
  ASSUME ServersInv, [McpServersNext]_McpServersVars
  PROVE  ServersInv'
<1>1. CASE UNCHANGED McpServersVars
  BY <1>1 DEF McpServersVars, ServersInv
<1>2. CASE StartServers
  BY <1>2, FreshIsInOrder DEF StartServers, ServersInv
<1>3. CASE StartRejects
  BY <1>3 DEF StartRejects, ServersInv
<1>4. CASE StartResolves
  <2>1. offered' \in [McpServer -> 0..MaxConnections]
    BY <1>4 DEF StartResolves, ServersInv, ConnectionOf
  <2> QED BY <1>4, <2>1 DEF StartResolves, ServersInv
<1>5. CASE CloseServers
  <2> DEFINE closed(s) == [connection[s] EXCEPT !.live = @ \ {connection[s].number},
                                                !.listed = FALSE, !.discovered = FALSE]
  <2>1. ASSUME NEW s \in McpServer
        PROVE  closed(s) \in ConnectionOf /\ ConnectionInOrder(closed(s))
    <3>1. connection[s] \in ConnectionOf /\ ConnectionInOrder(connection[s])
      BY DEF ServersInv
    <3>2. /\ closed(s) \in ConnectionOf /\ closed(s).at = connection[s].at /\ closed(s).listed = FALSE
          /\ closed(s).number = connection[s].number /\ closed(s).error = connection[s].error
      BY <3>1 DEF ConnectionOf
    <3> HIDE DEF closed
    <3> QED BY <3>1, <3>2 DEF ConnectionInOrder
  <2>2. connection' = [s \in McpServer |-> closed(s)]
    BY <1>5 DEF CloseServers
  <2>3. manager' = [manager EXCEPT !.closed = TRUE] /\ UNCHANGED offered
    BY <1>5 DEF CloseServers
  <2> HIDE DEF closed
  <2> QED BY <2>1, <2>2, <2>3 DEF ServersInv
<1> QED BY <1>1, <1>2, <1>3, <1>4, <1>5, ConnectionStepKeeps DEF McpServersNext

LEMMA OffersFollow ==
  ASSUME ServersInv
  PROVE  OffersAreCurrent
BY DEF ServersInv, OffersAreCurrent, Offering, Settled, ConnectionInOrder, ConnectionOf

-----------------------------------------------------------------------------
(* The sandbox.  On the host nothing of a command's own group is alive once   *)
(* its timer or its signal has fired, and what the tool is told says no more  *)
(* than what has fired.                                                       *)

CommandOf ==
  [phase : {"none", "running", "settled", "abandoned"},
   said : {"nothing", "spawn failed", "exit", "timeout", "aborted"},
   alive : SUBSET (HostProcess \union {"inside"}), home : {NoEnvironment} \union 0..MaxContainers,
   timedOut : BOOLEAN, aborted : BOOLEAN]

Killed(one) ==
  /\ one.said \in {"timeout", "aborted"} => one.timedOut \/ one.aborted
  /\ one.timedOut \/ one.aborted => one.alive \intersect {"child", "quiet"} = {}

SandboxInv ==
  /\ sandboxKind \in {"local", "docker"} /\ containers \subseteq 1..MaxContainers
  /\ closing \in {"open", "destroying", "closed"}
  /\ environment \in {NoEnvironment} \union 0..MaxContainers
  /\ opening \in [SandboxUser -> [stage : {"no", "provider", "runtime", "set"},
                                  holds : {NoEnvironment} \union 0..MaxContainers]]
  /\ command \in [SandboxUser -> CommandOf]
  /\ \A u \in SandboxUser : Killed(command[u])
LEMMA SandboxStarts ==
  ASSUME SandboxInit
  PROVE  SandboxInv
<1>1. NoCommand \in CommandOf /\ Killed(NoCommand)
  BY DEF NoCommand, CommandOf, Killed
<1>2. NotOpening \in [stage : {"no", "provider", "runtime", "set"}, holds : {NoEnvironment} \union 0..MaxContainers]
  BY DEF NotOpening
<1> QED BY <1>1, <1>2 DEF SandboxInit, SandboxInv

\* A step of one user's command.
LEMMA OneCommandKeeps ==
  ASSUME SandboxInv, NEW u \in SandboxUser, NEW one \in CommandOf, Killed(one), SetCommand(u, one),
         UNCHANGED <<sandboxKind, containers, environment, opening, closing>>
  PROVE  SandboxInv'
BY DEF SandboxInv, SetCommand

\* A step that leaves every command with no more processes than it had.
LEMMA CommandsShrink ==
  ASSUME SandboxInv, UNCHANGED sandboxKind,
         containers' \subseteq 1..MaxContainers, closing' \in {"open", "destroying", "closed"},
         environment' \in {NoEnvironment} \union 0..MaxContainers,
         opening' \in [SandboxUser -> [stage : {"no", "provider", "runtime", "set"},
                                       holds : {NoEnvironment} \union 0..MaxContainers]],
         command' \in [SandboxUser -> CommandOf],
         \A u \in SandboxUser :
            /\ command'[u].said = command[u].said /\ command'[u].alive \subseteq command[u].alive
            /\ command'[u].timedOut = command[u].timedOut /\ command'[u].aborted = command[u].aborted
  PROVE  SandboxInv'
<1>1. \A u \in SandboxUser : Killed(command'[u])
  BY DEF SandboxInv, Killed
<1> QED BY <1>1 DEF SandboxInv

LEMMA RemovedShrinks ==
  ASSUME SandboxInv, NEW n, Removed(n)
  PROVE  /\ containers' \subseteq 1..MaxContainers
         /\ command' \in [SandboxUser -> CommandOf]
         /\ \A u \in SandboxUser :
              /\ command'[u].said = command[u].said /\ command'[u].alive \subseteq command[u].alive
              /\ command'[u].timedOut = command[u].timedOut /\ command'[u].aborted = command[u].aborted
<1> DEFINE one(u) == [command[u] EXCEPT !.alive = @ \ {"inside"}]
<1>1. ASSUME NEW u \in SandboxUser
      PROVE  /\ one(u) \in CommandOf /\ one(u).said = command[u].said /\ one(u).alive \subseteq command[u].alive
             /\ one(u).timedOut = command[u].timedOut /\ one(u).aborted = command[u].aborted
  BY DEF SandboxInv, CommandOf
<1>2. command' = [u \in SandboxUser |-> IF command[u].home = n /\ n # 0 THEN one(u) ELSE command[u]]
  BY DEF Removed
<1> HIDE DEF one
<1> QED BY <1>1, <1>2 DEF Removed, SandboxInv

LEMMA CommandStepKeeps ==
  ASSUME SandboxInv, NEW u \in SandboxUser,
         Execute(u) \/ SpawnMore(u) \/ EndProcess(u) \/ TimeOutCommand(u) \/ AbortCommand(u) \/ CloseCommand(u)
  PROVE  SandboxInv'
<1>0. command[u] \in CommandOf /\ Killed(command[u])
  BY DEF SandboxInv
<1>1. CASE Execute(u)
  <2> DEFINE spawned(alive) == [NoCommand EXCEPT !.phase = "running", !.home = environment, !.alive = alive]
             failed == [NoCommand EXCEPT !.phase = "settled", !.said = "spawn failed"]
  <2>1. \/ \E alive \in SUBSET {"child", "inside"} : SetCommand(u, spawned(alive))
        \/ SetCommand(u, failed)
    BY <1>1 DEF Execute
  <2>2. ASSUME NEW alive \in SUBSET {"child", "inside"}
        PROVE  spawned(alive) \in CommandOf /\ Killed(spawned(alive))
    BY DEF NoCommand, CommandOf, Killed, SandboxInv, HostProcess
  <2>3. failed \in CommandOf /\ Killed(failed)
    BY DEF NoCommand, CommandOf, Killed
  <2> HIDE DEF spawned, failed
  <2> QED BY <1>1, <2>1, <2>2, <2>3, OneCommandKeeps DEF Execute
<1>2. CASE SpawnMore(u)
  <2>1. PICK p \in {"quiet", "left"} : SetCommand(u, [command[u] EXCEPT !.alive = @ \union {p}])
    BY <1>2 DEF SpawnMore
  <2> DEFINE one == [command[u] EXCEPT !.alive = @ \union {p}]
  <2>2. one \in CommandOf /\ Killed(one)
    BY <1>0, <1>2 DEF SpawnMore, CommandOf, Killed, HostProcess
  <2> HIDE DEF one
  <2> QED BY <1>2, <2>1, <2>2, OneCommandKeeps DEF SpawnMore, one
<1>3. CASE EndProcess(u)
  <2>1. PICK p \in command[u].alive : SetCommand(u, [command[u] EXCEPT !.alive = @ \ {p}])
    BY <1>3 DEF EndProcess
  <2> DEFINE one == [command[u] EXCEPT !.alive = @ \ {p}]
  <2>2. one \in CommandOf /\ Killed(one)
    BY <1>0 DEF CommandOf, Killed
  <2> HIDE DEF one
  <2> QED BY <1>3, <2>1, <2>2, OneCommandKeeps DEF EndProcess, one
<1>4. CASE TimeOutCommand(u)
  <2> DEFINE one == [command[u] EXCEPT !.timedOut = TRUE, !.alive = KillTree(@)]
  <2>1. one \in CommandOf /\ Killed(one)
    BY <1>0 DEF CommandOf, Killed, KillTree
  <2> HIDE DEF one
  <2> QED BY <1>4, <2>1, OneCommandKeeps DEF TimeOutCommand, one
<1>5. CASE AbortCommand(u)
  <2> DEFINE one == [command[u] EXCEPT !.aborted = TRUE, !.alive = KillTree(@)]
  <2>1. one \in CommandOf /\ Killed(one)
    BY <1>0 DEF CommandOf, Killed, KillTree
  <2> HIDE DEF one
  <2> QED BY <1>5, <2>1, OneCommandKeeps DEF AbortCommand, one
<1>6. CASE CloseCommand(u)
  <2> DEFINE says == IF command[u].aborted /\ sandboxKind = "local" THEN "aborted"
                     ELSE IF command[u].timedOut THEN "timeout" ELSE "exit"
             one == [command[u] EXCEPT !.phase = "settled", !.said = says]
  <2>1. says \in {"timeout", "aborted", "exit"}
        /\ (says \in {"timeout", "aborted"} => command[u].timedOut \/ command[u].aborted)
    OBVIOUS
  <2>2. one \in CommandOf /\ one.said = says /\ one.alive = command[u].alive
        /\ one.timedOut = command[u].timedOut /\ one.aborted = command[u].aborted
    <3> HIDE DEF says
    <3> QED BY <1>0, <2>1 DEF CommandOf
  <2>3. SetCommand(u, one)
    BY <1>6 DEF CloseCommand
  <2> HIDE DEF one, says
  <2>4. Killed(one)
    BY <1>0, <2>1, <2>2 DEF Killed
  <2> QED BY <1>6, <2>2, <2>3, <2>4, OneCommandKeeps DEF CloseCommand
<1> QED BY <1>1, <1>2, <1>3, <1>4, <1>5, <1>6

LEMMA EnvironmentStepKeeps ==
  ASSUME SandboxInv, NEW u \in SandboxUser,
         AskEnvironment(u) \/ CreateEnvironment(u) \/ CreateFails(u) \/ SetEnvironment(u)
  PROVE  SandboxInv'
<1> DEFINE Openings == [stage : {"no", "provider", "runtime", "set"}, holds : {NoEnvironment} \union 0..MaxContainers]
<1>0. NotOpening \in Openings
  BY DEF NotOpening
<1>1. CASE AskEnvironment(u)
  BY <1>1 DEF AskEnvironment, SandboxInv
<1>2. CASE CreateEnvironment(u)
  <2>1. PICK n \in {0} \union (1..MaxContainers) :
          /\ containers' = containers \union ({n} \ {0})
          /\ opening' = [opening EXCEPT ![u] =
               IF opening[u].stage = "provider" THEN [stage |-> "runtime", holds |-> n]
                                                ELSE [stage |-> "set", holds |-> n]]
    BY <1>2 DEF CreateEnvironment
  <2>2. [stage |-> "runtime", holds |-> n] \in Openings /\ [stage |-> "set", holds |-> n] \in Openings
    BY SandboxAssumption
  <2>3. containers' \subseteq 1..MaxContainers
    BY <2>1 DEF SandboxInv
  <2> HIDE DEF Openings
  <2>4. opening' \in [SandboxUser -> Openings]
    BY <2>1, <2>2 DEF SandboxInv, Openings
  <2> QED BY <1>2, <2>3, <2>4 DEF CreateEnvironment, SandboxInv, Openings
<1>3. CASE CreateFails(u)
  BY <1>0, <1>3 DEF CreateFails, SandboxInv
<1>4. CASE SetEnvironment(u)
  BY <1>0, <1>4 DEF SetEnvironment, SandboxInv
<1> QED BY <1>1, <1>2, <1>3, <1>4

LEMMA SandboxKeeps ==
  ASSUME SandboxInv, [SandboxNext]_SandboxVars
  PROVE  SandboxInv'
<1>1. CASE UNCHANGED SandboxVars
  BY <1>1 DEF SandboxVars, SandboxInv
<1>2. CASE ReleaseEnvironment
  BY <1>2, RemovedShrinks, CommandsShrink DEF ReleaseEnvironment, SandboxInv
<1>3. CASE ShutdownBegins
  BY <1>3, RemovedShrinks, CommandsShrink DEF ShutdownBegins, SandboxInv
<1>4. CASE ShutdownClears
  BY <1>4 DEF ShutdownClears, SandboxInv
<1>5. CASE RuntimeDies
  <2> DEFINE one(u) == [command[u] EXCEPT !.phase = "abandoned"]
  <2>1. ASSUME NEW u \in SandboxUser
        PROVE  /\ one(u) \in CommandOf /\ one(u).said = command[u].said /\ one(u).alive = command[u].alive
               /\ one(u).timedOut = command[u].timedOut /\ one(u).aborted = command[u].aborted
    BY DEF SandboxInv, CommandOf
  <2>2. command' = [u \in SandboxUser |-> IF command[u].phase = "running" THEN one(u) ELSE command[u]]
    BY <1>5 DEF RuntimeDies
  <2>3. NotOpening \in [stage : {"no", "provider", "runtime", "set"}, holds : {NoEnvironment} \union 0..MaxContainers]
    BY DEF NotOpening
  <2> HIDE DEF one
  <2>4. /\ command' \in [SandboxUser -> CommandOf]
        /\ \A u \in SandboxUser :
             /\ command'[u].said = command[u].said /\ command'[u].alive \subseteq command[u].alive
             /\ command'[u].timedOut = command[u].timedOut /\ command'[u].aborted = command[u].aborted
    BY <2>1, <2>2 DEF SandboxInv
  <2> QED BY <1>5, <2>3, <2>4, CommandsShrink DEF RuntimeDies, SandboxInv
<1> QED BY <1>1, <1>2, <1>3, <1>4, <1>5, CommandStepKeeps, EnvironmentStepKeeps DEF SandboxNext

\* A failure stays where it happened, in every chain of providers, deployment of
\* servers and sandbox: a closed breaker has seen fewer failures than would open
\* it and a fatal error is not tried elsewhere (circuit-breaker.ts, registry.ts),
\* a server that failed offers no tool of an earlier connection (manager.ts), and
\* a killed command has nobody left in its group (local.ts).
THEOREM FailuresStayWhereTheyHappened == ServicesSpec => []FailuresAreContained
<1> DEFINE Inv == /\ part = "providers" => ProvidersInv
                  /\ part = "servers" => ServersInv
                  /\ part = "sandbox" => SandboxInv
<1>1. ServicesInit => Inv
  BY ProvidersStart, ServersStart, SandboxStarts DEF ServicesInit
<1>2. Inv /\ [ServicesNext]_servicesVars => Inv'
  BY OnlyItsPartMoves, ProvidersKeep, ServersKeep, SandboxKeeps
<1>3. Inv => FailuresAreContained
  BY FailoverFollows, OffersFollow
     DEF FailuresAreContained, Of, ProvidersInv, SandboxInv, Killed, KilledMeansDead
<1> QED BY <1>1, <1>2, <1>3, PTL DEF ServicesSpec
-----------------------------------------------------------------------------
(* The gateway.  An upstream request is going only for an exchange that has a *)
(* slot, and nothing but an arrival, which looks at the limit, takes one.     *)

WithSlot == {"waiting", "streaming", "drained"}
SlotHolders == {c \in Client : exchange[c].at \in WithSlot}

GatewayInv ==
  /\ inFlight \in 0..MaxInFlight /\ exchange \in [Client -> Exchange]
  /\ inFlight = Cardinality(SlotHolders)
  /\ \A c \in Client : /\ exchange[c].upstream = "working" => exchange[c].at \in WithSlot
                       /\ exchange[c].client = "absent" => exchange[c].at = "none"

ExchangePlace == {"none", "waiting", "streaming", "drained", "over"}
Peer == {"absent", "present", "gone"}
Upstream == {"idle", "working", "stopped"}
Status == {0, 200, 404, 499, 502, 503, 504}

\* What the steps below put into the fields of an exchange.
LEMMA ExchangeValues ==
  /\ "waiting" \in ExchangePlace /\ "streaming" \in ExchangePlace /\ "drained" \in ExchangePlace
  /\ "over" \in ExchangePlace /\ "present" \in Peer /\ "gone" \in Peer
  /\ "working" \in Upstream /\ "stopped" \in Upstream
  /\ 200 \in Status /\ 404 \in Status /\ 499 \in Status /\ 502 \in Status /\ 503 \in Status /\ 504 \in Status
BY DEF ExchangePlace, Peer, Upstream, Status

LEMMA ExchangeFields ==
  ASSUME NEW one \in Exchange
  PROVE  /\ \A at \in ExchangePlace : [one EXCEPT !.at = at] \in Exchange
         /\ \A uploaded \in BOOLEAN : [one EXCEPT !.uploaded = uploaded] \in Exchange
         /\ \A client \in Peer : [one EXCEPT !.client = client] \in Exchange
         /\ \A upstream \in Upstream : [one EXCEPT !.upstream = upstream] \in Exchange
         /\ \A status \in Status : [one EXCEPT !.status = status] \in Exchange
<1>1. Exchange = [at : ExchangePlace, uploaded : BOOLEAN, client : Peer, upstream : Upstream, status : Status]
  BY DEF Exchange, ExchangePlace, Peer, Upstream, Status
<1>2. \A at \in ExchangePlace : [one EXCEPT !.at = at] \in Exchange
  BY <1>1
<1>3. \A uploaded \in BOOLEAN : [one EXCEPT !.uploaded = uploaded] \in Exchange
  BY <1>1
<1>4. \A client \in Peer : [one EXCEPT !.client = client] \in Exchange
  BY <1>1
<1>5. \A upstream \in Upstream : [one EXCEPT !.upstream = upstream] \in Exchange
  BY <1>1
<1>6. \A status \in Status : [one EXCEPT !.status = status] \in Exchange
  BY <1>1
<1> QED BY <1>2, <1>3, <1>4, <1>5, <1>6

LEMMA NoExchangeIsOne == NoExchange \in Exchange
BY DEF NoExchange, Exchange

LEMMA SlotsAreCounted ==
  ASSUME GatewayInv
  PROVE  IsFiniteSet(SlotHolders) /\ Cardinality(SlotHolders) \in 0..Cardinality(Client)
<1>1. IsFiniteSet(SlotHolders) /\ Cardinality(SlotHolders) <= Cardinality(Client)
  BY GatewayAssumption, FS_Subset DEF SlotHolders
<1>2. Cardinality(SlotHolders) \in Nat /\ Cardinality(Client) \in Nat
  BY <1>1, GatewayAssumption, FS_CardinalityType
<1> QED BY <1>1, <1>2

LEMMA GatewayStarts ==
  ASSUME GatewayInit
  PROVE  GatewayInv
<1>1. NoExchange \in Exchange
  BY DEF NoExchange, Exchange
<1>2. SlotHolders = {}
  BY DEF GatewayInit, SlotHolders, NoExchange, WithSlot
<1>3. Cardinality(SlotHolders) = 0
  BY <1>2, FS_EmptySet
<1> QED BY <1>1, <1>3, GatewayAssumption DEF GatewayInit, GatewayInv, NoExchange

InOrderAfter(new) ==
  /\ new \in Exchange
  /\ new.upstream = "working" => new.at \in WithSlot
  /\ new.client = "absent" => new.at = "none"

\* A step of one client's exchange that gives the counter what the slots show.
LEMMA OneExchangeKeeps ==
  ASSUME GatewayInv, NEW c \in Client, NEW new, InOrderAfter(new), exchange' = [exchange EXCEPT ![c] = new],
         inFlight' \in 0..MaxInFlight,
         inFlight' = CASE new.at \in WithSlot /\ exchange[c].at \notin WithSlot -> inFlight + 1
                       [] new.at \notin WithSlot /\ exchange[c].at \in WithSlot -> inFlight - 1
                       [] OTHER -> inFlight
  PROVE  GatewayInv'
<1>1. SlotHolders' = IF new.at \in WithSlot THEN SlotHolders \cup {c} ELSE SlotHolders \ {c}
  BY DEF GatewayInv, SlotHolders
<1>2. IsFiniteSet(SlotHolders) /\ inFlight = Cardinality(SlotHolders) /\ inFlight \in Nat
  BY SlotsAreCounted, GatewayAssumption DEF GatewayInv
<1>3. c \in SlotHolders <=> exchange[c].at \in WithSlot
  BY DEF SlotHolders
<1>4. /\ Cardinality(SlotHolders \cup {c}) = IF c \in SlotHolders THEN inFlight ELSE inFlight + 1
      /\ Cardinality(SlotHolders \ {c}) = IF c \in SlotHolders THEN inFlight - 1 ELSE inFlight
  BY <1>2, FS_AddElement, FS_RemoveElement
<1>5. inFlight' = Cardinality(SlotHolders)'
  <2>1. CASE new.at \in WithSlot
    BY <2>1, <1>1, <1>3, <1>4
  <2>2. CASE new.at \notin WithSlot
    BY <2>2, <1>1, <1>3, <1>4
  <2> QED BY <2>1, <2>2
<1> QED BY <1>5 DEF GatewayInv, InOrderAfter

\* What ends an exchange gives back the slot it has.
LEMMA FinishKeeps ==
  ASSUME GatewayInv, NEW c \in Client, NEW new, InOrderAfter(new), new.at = "over",
         exchange[c].at \in WithSlot \cup {"over"}, Finish(c, new)
  PROVE  GatewayInv'
<1>1. exchange[c].at \in WithSlot => inFlight - 1 \in 0..MaxInFlight
  <2> SUFFICES ASSUME exchange[c].at \in WithSlot
               PROVE  inFlight - 1 \in 0..MaxInFlight
    OBVIOUS
  <2>1. c \in SlotHolders /\ IsFiniteSet(SlotHolders)
    BY SlotsAreCounted DEF SlotHolders
  <2>2. Cardinality(SlotHolders) # 0
    BY <2>1, FS_EmptySet
  <2> QED BY <2>2, GatewayAssumption DEF GatewayInv
<1>2. exchange[c].at = "over" => exchange[c].at \notin WithSlot
  BY DEF WithSlot
<1>3. new.at \notin WithSlot
  BY DEF WithSlot
<1>4. inFlight' = IF exchange[c].at = "over" THEN inFlight ELSE inFlight - 1
  BY DEF Finish
<1>5. inFlight' \in 0..MaxInFlight
  BY <1>1, <1>4 DEF GatewayInv
<1>6. inFlight' = CASE new.at \in WithSlot /\ exchange[c].at \notin WithSlot -> inFlight + 1
                    [] new.at \notin WithSlot /\ exchange[c].at \in WithSlot -> inFlight - 1
                    [] OTHER -> inFlight
  BY <1>2, <1>3, <1>4
<1> QED BY <1>5, <1>6, OneExchangeKeeps DEF Finish

LEMMA GatewayStepKeeps ==
  ASSUME GatewayInv, NEW c \in Client,
         \/ Arrive(c) \/ CompleteUpload(c) \/ UpstreamAnswers(c) \/ UpstreamEnds(c)
         \/ UpstreamFails(c) \/ TimeOut(c) \/ ClientLeaves(c) \/ ComeAgain(c)
  PROVE  GatewayInv'
<1> DEFINE one == exchange[c]
<1>0. one \in Exchange /\ InOrderAfter(one)
  BY DEF GatewayInv, InOrderAfter
<1>n. inFlight \in 0..MaxInFlight /\ DOMAIN exchange = Client /\ inFlight \in Nat
  BY GatewayAssumption DEF GatewayInv
\* A step that neither takes nor gives back a slot.
<1>s. ASSUME NEW new, InOrderAfter(new), new.at \in WithSlot <=> one.at \in WithSlot,
             exchange' = [exchange EXCEPT ![c] = new], UNCHANGED inFlight
      PROVE  GatewayInv'
  BY <1>s, <1>n, OneExchangeKeeps
<1>1. CASE Arrive(c)
  <2>1. one.at = "none"
    BY <1>1 DEF Arrive, GatewayInv
  <2>2. PICK routed \in BOOLEAN, uploaded \in BOOLEAN :
          IF routed /\ inFlight < MaxInFlight
          THEN /\ exchange' = [exchange EXCEPT ![c] = [NoExchange EXCEPT !.at = "waiting",
                                 !.client = "present", !.uploaded = uploaded, !.upstream = "working"]]
               /\ inFlight' = inFlight + 1
          ELSE /\ exchange' = [exchange EXCEPT ![c] = [NoExchange EXCEPT !.at = "over",
                                 !.client = "present", !.status = IF routed THEN 503 ELSE 404]]
               /\ UNCHANGED inFlight
    BY <1>1 DEF Arrive
  <2> DEFINE let == [NoExchange EXCEPT !.at = "waiting", !.client = "present", !.uploaded = uploaded,
                                       !.upstream = "working"]
             kept == [NoExchange EXCEPT !.at = "over", !.client = "present",
                                        !.status = IF routed THEN 503 ELSE 404]
  <2>3. InOrderAfter(let) /\ let.at = "waiting"
    <3>1. let \in Exchange
      BY NoExchangeIsOne, ExchangeValues, ExchangeFields, Zenon
    <3>2. let.at = "waiting" /\ let.client = "present"
      BY DEF NoExchange, InOrderAfter, Exchange
    <3> HIDE DEF let
    <3> QED BY <3>1, <3>2 DEF InOrderAfter, WithSlot
  <2>4. InOrderAfter(kept) /\ kept.at = "over"
    <3>1. kept \in Exchange
      <4> DEFINE out == [NoExchange EXCEPT !.at = "over", !.client = "present"]
      <4>1. out \in Exchange
        BY NoExchangeIsOne, ExchangeValues, ExchangeFields, Zenon
      <4>2. kept = [out EXCEPT !.status = IF routed THEN 503 ELSE 404]
        OBVIOUS
      <4>3. (IF routed THEN 503 ELSE 404) \in Status
        BY ExchangeValues
      <4> HIDE DEF kept, out
      <4> QED BY <4>1, <4>2, <4>3, ExchangeFields
    <3>2. kept.at = "over" /\ kept.client = "present" /\ kept.upstream = "idle"
      BY DEF NoExchange, InOrderAfter, Exchange
    <3> HIDE DEF kept
    <3> QED BY <3>1, <3>2 DEF InOrderAfter, WithSlot
  <2>5. CASE routed /\ inFlight < MaxInFlight
    <3>1. exchange' = [exchange EXCEPT ![c] = let] /\ inFlight' = inFlight + 1
      BY <2>2, <2>5
    <3> HIDE DEF let, kept
    <3>2. let.at \in WithSlot /\ one.at \notin WithSlot
      BY <2>1, <2>3 DEF WithSlot
    <3>3. inFlight' \in 0..MaxInFlight
      BY <3>1, <2>5, <1>n, GatewayAssumption
    <3>4. inFlight' = CASE let.at \in WithSlot /\ exchange[c].at \notin WithSlot -> inFlight + 1
                        [] let.at \notin WithSlot /\ exchange[c].at \in WithSlot -> inFlight - 1
                        [] OTHER -> inFlight
      BY <3>1, <3>2
    <3> QED BY <3>1, <2>3, <3>3, <3>4, OneExchangeKeeps
  <2>6. CASE ~(routed /\ inFlight < MaxInFlight)
    <3>1. exchange' = [exchange EXCEPT ![c] = kept] /\ UNCHANGED inFlight
      BY <2>2, <2>6
    <3> HIDE DEF let, kept
    <3> QED BY <3>1, <2>1, <2>4, <1>s DEF WithSlot
  <2> QED BY <2>5, <2>6
<1>2. CASE CompleteUpload(c)
  <2> DEFINE new == [one EXCEPT !.uploaded = TRUE]
  <2>1. InOrderAfter(new) /\ new.at = one.at
    <3>1. new \in Exchange
      BY <1>0, ExchangeValues, ExchangeFields, Zenon
    <3>2. new.at = one.at /\ new.upstream = one.upstream /\ new.client = one.client
      BY <1>0 DEF InOrderAfter, Exchange
    <3> HIDE DEF new
    <3> QED BY <1>0, <3>1, <3>2 DEF InOrderAfter, WithSlot
  <2>2. exchange' = [exchange EXCEPT ![c] = new] /\ UNCHANGED inFlight
    BY <1>2, <1>n DEF CompleteUpload
  <2> HIDE DEF new
  <2> QED BY <2>1, <2>2, <1>s
<1>3. CASE UpstreamAnswers(c)
  <2> DEFINE streams == [one EXCEPT !.at = "streaming", !.status = 200]
             drains  == [one EXCEPT !.at = "drained", !.status = 200]
             ends    == [one EXCEPT !.at = "over", !.status = 200, !.upstream = "stopped"]
  <2>1. InOrderAfter(streams) /\ streams.at = "streaming"
    <3>1. streams \in Exchange
      BY <1>0, ExchangeValues, ExchangeFields, ZenonT(60)
    <3>2. streams.at = "streaming" /\ streams.client = one.client /\ one.client # "absent"
      BY <1>0, <1>3 DEF UpstreamAnswers, InOrderAfter, Exchange
    <3> HIDE DEF streams
    <3> QED BY <1>0, <1>3, <3>1, <3>2 DEF InOrderAfter, WithSlot
  <2>2. InOrderAfter(drains) /\ drains.at = "drained"
    <3>1. drains \in Exchange
      BY <1>0, ExchangeValues, ExchangeFields, ZenonT(60)
    <3>2. drains.at = "drained" /\ drains.client = one.client /\ one.client # "absent"
      BY <1>0, <1>3 DEF UpstreamAnswers, InOrderAfter, Exchange
    <3> HIDE DEF drains
    <3> QED BY <1>0, <1>3, <3>1, <3>2 DEF InOrderAfter, WithSlot
  <2>3. InOrderAfter(ends) /\ ends.at = "over"
    <3>1. ends \in Exchange
      <4>1. [one EXCEPT !.at = "over"] \in Exchange
        BY <1>0, ExchangeValues, ExchangeFields, Zenon
      <4>2. [one EXCEPT !.at = "over", !.status = 200] \in Exchange
        BY <4>1, ExchangeValues, ExchangeFields, ZenonT(60)
      <4> QED BY <4>2, ExchangeValues, ExchangeFields, ZenonT(60)
    <3>2. ends.at = "over" /\ ends.client = one.client /\ one.client # "absent" /\ ends.upstream = "stopped"
      BY <1>0, <1>3 DEF UpstreamAnswers, InOrderAfter, Exchange
    <3> HIDE DEF ends
    <3> QED BY <1>0, <1>3, <3>1, <3>2 DEF InOrderAfter, WithSlot
  <2>4. one.at = "waiting"
    BY <1>3 DEF UpstreamAnswers
  <2>5. \/ exchange' = [exchange EXCEPT ![c] = streams] /\ UNCHANGED inFlight
        \/ exchange' = [exchange EXCEPT ![c] = drains] /\ UNCHANGED inFlight
        \/ Finish(c, ends)
    BY <1>3, <1>n, ZenonT(60) DEF UpstreamAnswers
  <2> HIDE DEF streams, drains, ends
  <2>6. CASE exchange' = [exchange EXCEPT ![c] = streams] /\ UNCHANGED inFlight
    BY <2>6, <2>1, <2>4, <1>s DEF WithSlot
  <2>7. CASE exchange' = [exchange EXCEPT ![c] = drains] /\ UNCHANGED inFlight
    BY <2>7, <2>2, <2>4, <1>s DEF WithSlot
  <2>8. CASE Finish(c, ends)
    BY <2>8, <2>3, <2>4, FinishKeeps DEF WithSlot
  <2> QED BY <2>5, <2>6, <2>7, <2>8
<1>4. CASE UpstreamEnds(c)
  <2> DEFINE new == [one EXCEPT !.at = "over", !.upstream = "stopped"]
  <2>1. InOrderAfter(new) /\ new.at = "over"
    <3>1. new \in Exchange
      BY <1>0, ExchangeValues, ExchangeFields, Zenon
    <3>2. new.at = "over" /\ new.upstream = "stopped" /\ new.client = one.client /\ one.client # "absent"
      BY <1>0, <1>4 DEF UpstreamEnds, InOrderAfter, Exchange
    <3> HIDE DEF new
    <3> QED BY <1>0, <1>4, <3>1, <3>2 DEF InOrderAfter, WithSlot
  <2>2. Finish(c, new) /\ one.at = "streaming"
    BY <1>4 DEF UpstreamEnds
  <2> HIDE DEF new
  <2> QED BY <2>1, <2>2, FinishKeeps DEF WithSlot
<1>5. CASE UpstreamFails(c)
  <2> DEFINE new == [one EXCEPT !.at = "over", !.upstream = "stopped", !.status = 502]
  <2>1. InOrderAfter(new) /\ new.at = "over"
    <3>1. new \in Exchange
      <4> DEFINE stopped == [one EXCEPT !.at = "over", !.upstream = "stopped"]
      <4>1. stopped \in Exchange
        BY <1>0, ExchangeValues, ExchangeFields, Zenon
      <4>2. new = [stopped EXCEPT !.status = 502]
        OBVIOUS
      <4> HIDE DEF new, stopped
      <4> QED BY <4>1, <4>2, ExchangeValues, ExchangeFields
    <3>2. new.at = "over" /\ new.upstream = "stopped" /\ new.client = one.client /\ one.client # "absent"
      BY <1>0, <1>5 DEF UpstreamFails, InOrderAfter, Exchange
    <3> HIDE DEF new
    <3> QED BY <1>0, <1>5, <3>1, <3>2 DEF InOrderAfter, WithSlot
  <2>2. Finish(c, new) /\ one.at = "waiting"
    BY <1>5 DEF UpstreamFails
  <2> HIDE DEF new
  <2> QED BY <2>1, <2>2, FinishKeeps DEF WithSlot
<1>6. CASE TimeOut(c)
  <2> DEFINE new == [one EXCEPT !.at = "over", !.upstream = "stopped", !.status = 504]
  <2>1. InOrderAfter(new) /\ new.at = "over"
    <3>1. new \in Exchange
      <4> DEFINE stopped == [one EXCEPT !.at = "over", !.upstream = "stopped"]
      <4>1. stopped \in Exchange
        BY <1>0, ExchangeValues, ExchangeFields, Zenon
      <4>2. new = [stopped EXCEPT !.status = 504]
        OBVIOUS
      <4> HIDE DEF new, stopped
      <4> QED BY <4>1, <4>2, ExchangeValues, ExchangeFields
    <3>2. new.at = "over" /\ new.upstream = "stopped" /\ new.client = one.client /\ one.client # "absent"
      BY <1>0, <1>6 DEF TimeOut, InOrderAfter, Exchange
    <3> HIDE DEF new
    <3> QED BY <1>0, <1>6, <3>1, <3>2 DEF InOrderAfter, WithSlot
  <2>2. Finish(c, new) /\ one.at = "waiting"
    BY <1>6 DEF TimeOut
  <2> HIDE DEF new
  <2> QED BY <2>1, <2>2, FinishKeeps DEF WithSlot
<1>7. CASE ClientLeaves(c)
  <2> DEFINE leaves == [one EXCEPT !.at = "over", !.upstream = "stopped", !.client = "gone", !.status = 499]
             stops == [one EXCEPT !.at = "over", !.upstream = "stopped", !.client = "gone"]
             goes == [one EXCEPT !.client = "gone"]
  <2>1. InOrderAfter(leaves) /\ leaves.at = "over"
    <3>1. leaves \in Exchange
      <4> DEFINE gone == [one EXCEPT !.at = "over", !.upstream = "stopped", !.client = "gone"]
      <4>1. gone \in Exchange
        BY <1>0, ExchangeValues, ExchangeFields, Zenon
      <4>2. leaves = [gone EXCEPT !.status = 499]
        OBVIOUS
      <4> HIDE DEF leaves, gone
      <4> QED BY <4>1, <4>2, ExchangeValues, ExchangeFields
    <3>2. leaves.at = "over" /\ leaves.upstream = "stopped" /\ leaves.client = "gone"
      BY <1>0 DEF InOrderAfter, Exchange
    <3> HIDE DEF leaves
    <3> QED BY <1>0, <3>1, <3>2 DEF InOrderAfter, WithSlot
  <2>2. InOrderAfter(stops) /\ stops.at = "over"
    <3>1. stops \in Exchange
      BY <1>0, ExchangeValues, ExchangeFields, Zenon
    <3>2. stops.at = "over" /\ stops.upstream = "stopped" /\ stops.client = "gone"
      BY <1>0 DEF InOrderAfter, Exchange
    <3> HIDE DEF stops
    <3> QED BY <1>0, <3>1, <3>2 DEF InOrderAfter, WithSlot
  <2>3. InOrderAfter(goes) /\ goes.at = one.at
    <3>1. goes \in Exchange
      BY <1>0, ExchangeValues, ExchangeFields, Zenon
    <3>2. goes.at = one.at /\ goes.upstream = one.upstream /\ goes.client = "gone"
      BY <1>0 DEF InOrderAfter, Exchange
    <3> HIDE DEF goes
    <3> QED BY <1>0, <3>1, <3>2 DEF InOrderAfter, WithSlot
  <2>4. \/ one.at = "waiting" /\ Finish(c, leaves)
        \/ one.at = "streaming" /\ Finish(c, stops)
        \/ one.at = "over" /\ Finish(c, goes)
        \/ exchange' = [exchange EXCEPT ![c] = goes] /\ UNCHANGED inFlight
    BY <1>7, <1>n, ZenonT(60) DEF ClientLeaves
  <2> HIDE DEF leaves, stops, goes
  <2>5. CASE one.at = "waiting" /\ Finish(c, leaves)
    BY <2>5, <2>1, FinishKeeps DEF WithSlot
  <2>6. CASE one.at = "streaming" /\ Finish(c, stops)
    BY <2>6, <2>2, FinishKeeps DEF WithSlot
  <2>7. CASE one.at = "over" /\ Finish(c, goes)
    BY <2>7, <2>3, FinishKeeps DEF WithSlot
  <2>8. CASE exchange' = [exchange EXCEPT ![c] = goes] /\ UNCHANGED inFlight
    BY <2>8, <2>3, <1>s
  <2> QED BY <2>4, <2>5, <2>6, <2>7, <2>8
<1>8. CASE ComeAgain(c)
  <2>1. InOrderAfter(NoExchange) /\ NoExchange.at = "none"
    BY DEF InOrderAfter, NoExchange, Exchange
  <2> QED BY <1>8, <2>1, <1>s DEF ComeAgain, WithSlot
<1> QED BY <1>1, <1>2, <1>3, <1>4, <1>5, <1>6, <1>7, <1>8

LEMMA GatewayKeeps ==
  ASSUME GatewayInv, [GatewayNext]_GatewayVars
  PROVE  GatewayInv'
<1>1. CASE UNCHANGED GatewayVars
  BY <1>1 DEF GatewayVars, GatewayInv, SlotHolders
<1> QED BY <1>1, GatewayStepKeeps DEF GatewayNext

LEMMA UpstreamLoadFollows ==
  ASSUME GatewayInv
  PROVE  GatewayTypeOK /\ UpstreamLoadIsBounded /\ SlotsAreOwned
<1>1. GatewayTypeOK
  BY SlotsAreCounted DEF GatewayInv, GatewayTypeOK
<1>2. SlotsAreOwned
  BY DEF GatewayInv, SlotsAreOwned, SlotHolders, WithSlot
<1>3. UpstreamLoadIsBounded
  <2> DEFINE working == {c \in Client : exchange[c].upstream = "working"}
  <2>1. working \subseteq SlotHolders
    BY DEF GatewayInv, SlotHolders
  <2>2. Cardinality(working) <= Cardinality(SlotHolders) /\ Cardinality(working) \in Nat
    BY <2>1, SlotsAreCounted, FS_Subset, FS_CardinalityType
  <2> QED BY <2>2, GatewayAssumption DEF GatewayInv, UpstreamLoadIsBounded
<1> QED BY <1>1, <1>2, <1>3
-----------------------------------------------------------------------------
(* A batch.  A wave's workers are as many as the concurrency allows, and each *)
(* action that runs has one of them; a worker whose action threw is gone.     *)

ActionStatus == {"waiting", "queued", "running", "skipped", "threw"} \cup Outcome
BatchOf == [at : {"planning", "refused", "between", "wave", "done", "rejected"},
            wave : 0..BatchSize, workers : 0..Concurrency, status : [BatchAction -> ActionStatus]]

WavesInv ==
  /\ dependsOn \in [BatchAction -> SUBSET BatchAction] /\ batch \in BatchOf
  /\ Cardinality(Running) <= batch.workers
  /\ batch.at \notin {"wave", "rejected"} => Queued = {} /\ Running = {}

LEMMA ActionsAreFinite ==
  ASSUME NEW T, T \subseteq BatchAction
  PROVE  IsFiniteSet(T) /\ Cardinality(T) \in Nat
<1>1. IsFiniteSet(BatchAction)
  BY ActionWavesAssumption, FS_Interval DEF BatchAction
<1> QED BY <1>1, FS_Subset, FS_CardinalityType

LEMMA WavesStart ==
  ASSUME NEW deps \in [BatchAction -> SUBSET BatchAction], ActionWavesInit(deps)
  PROVE  WavesInv
<1>1. dependsOn \in [BatchAction -> SUBSET BatchAction] /\ batch \in BatchOf
  BY ActionWavesAssumption DEF ActionWavesInit, BatchOf, ActionStatus
<1>2. Queued = {} /\ Running = {}
  BY DEF ActionWavesInit, Queued, Running
<1>3. Cardinality(Running) <= batch.workers
  BY <1>2, FS_EmptySet DEF ActionWavesInit
<1> QED BY <1>1, <1>2, <1>3 DEF WavesInv

\* The first of the queued actions is one of them.
LEMMA NextQueued ==
  ASSUME Queued # {}
  PROVE  (CHOOSE a \in Queued : \A b \in Queued : a <= b) \in Queued
<1>1. Queued \in SUBSET Nat
  BY DEF Queued, BatchAction
<1>2. \E a \in Queued : \A b \in Queued : a <= b
  BY <1>1, LeastOf
<1> QED BY <1>2

LEMMA StartWaveKeeps ==
  ASSUME WavesInv, StartWave
  PROVE  WavesInv'
<1> DEFINE next     == batch.wave + 1
           blocked  == {a \in WaveOf(next) : dependsOn[a] \cap FailedIds # {}}
           runnable == WaveOf(next) \ blocked
           hands    == IF runnable = {} THEN 0 ELSE Smaller(Concurrency, Cardinality(runnable))
           marks    == [a \in BatchAction |-> IF a \in blocked THEN "skipped"
                                              ELSE IF a \in runnable THEN "queued" ELSE batch.status[a]]
<1>1. Queued = {} /\ Running = {}
  BY DEF WavesInv, StartWave
<1>2. CASE batch.wave = BatchSize
  <2>1. batch' = [batch EXCEPT !.at = "done"] /\ UNCHANGED dependsOn
    BY <1>2 DEF StartWave
  <2>2. batch' \in BatchOf /\ batch'.status = batch.status /\ batch'.workers = batch.workers /\ batch'.at = "done"
    BY <2>1 DEF WavesInv, BatchOf
  <2>3. Queued' = Queued /\ Running' = Running
    BY <2>2 DEF Queued, Running
  <2> QED BY <1>1, <2>1, <2>2, <2>3 DEF WavesInv
<1>3. CASE batch.wave # BatchSize
  <2>1. batch' = [at |-> "wave", wave |-> next, workers |-> hands, status |-> marks] /\ UNCHANGED dependsOn
    BY <1>3 DEF StartWave
  <2>2. next \in 0..BatchSize
    BY <1>3, ActionWavesAssumption DEF WavesInv, BatchOf
  <2>3. hands \in 0..Concurrency
    <3>1. CASE runnable = {}
      BY <3>1, ActionWavesAssumption
    <3>2. CASE runnable # {}
      <4>1. Cardinality(runnable) \in Nat
        BY ActionsAreFinite DEF WaveOf
      <4> QED BY <3>2, <4>1, ActionWavesAssumption DEF Smaller
    <3> QED BY <3>1, <3>2
  <2>4. marks \in [BatchAction -> ActionStatus]
    <3> HIDE DEF blocked, runnable
    <3> QED BY DEF WavesInv, BatchOf, ActionStatus
  <2>5. \A a \in BatchAction : marks[a] # "running"
    <3> HIDE DEF blocked, runnable
    <3> QED BY <1>1 DEF Running
  <2> HIDE DEF next, hands, marks
  <2>6. batch' \in BatchOf /\ Running' = {} /\ batch'.at = "wave" /\ batch'.workers = hands
    BY <2>1, <2>2, <2>3, <2>4, <2>5 DEF BatchOf, Running
  <2>7. Cardinality(Running)' <= batch'.workers
    BY <2>3, <2>6, FS_EmptySet
  <2> QED BY <2>1, <2>6, <2>7 DEF WavesInv
<1> QED BY <1>2, <1>3

\* One action of the wave that runs gets another status.
LEMMA WorkerStepKeeps ==
  ASSUME WavesInv, WorkerStep
  PROVE  WavesInv'
<1>0. batch \in BatchOf /\ IsFiniteSet(Running) /\ Cardinality(Running) \in Nat
  BY ActionsAreFinite DEF WavesInv, Running
<1>w. batch.workers \in Nat /\ batch.workers \in 0..Concurrency /\ Cardinality(Running) <= batch.workers
  BY ActionWavesAssumption DEF WavesInv, BatchOf
<1>1. CASE TakeAction
  <2> DEFINE a == CHOOSE a \in Queued : \A b \in Queued : a <= b
  <2>1. a \in Queued /\ a \in BatchAction
    BY <1>1, NextQueued DEF TakeAction, Queued
  <2>2. batch' = [batch EXCEPT !.status[a] = "running"] /\ UNCHANGED dependsOn
    BY <1>1 DEF TakeAction
  <2> HIDE DEF a
  <2>3. /\ batch' \in BatchOf /\ batch'.at = batch.at /\ batch'.workers = batch.workers
        /\ batch'.status = [batch.status EXCEPT ![a] = "running"]
    BY <1>0, <2>1, <2>2 DEF BatchOf, ActionStatus
  <2>4. Running' = Running \cup {a}
    BY <1>0, <2>1, <2>3 DEF Running, BatchOf
  <2>5. Cardinality(Running)' <= batch'.workers
    <3>1. Cardinality(Running \cup {a}) <= Cardinality(Running) + 1
      BY <1>0, FS_AddElement
    <3>2. Cardinality(Running) < batch.workers
      BY <1>1 DEF TakeAction
    <3>3. Cardinality(Running \cup {a}) \in Nat
      BY <1>0, FS_AddElement, FS_CardinalityType
    <3> QED BY <1>0, <1>w, <2>3, <2>4, <3>1, <3>2, <3>3
  <2>6. batch.at \in {"wave", "rejected"}
    BY <2>1 DEF WavesInv
  <2> QED BY <2>2, <2>3, <2>5, <2>6 DEF WavesInv
<1>2. ASSUME NEW a \in BatchAction, FinishAction(a)
      PROVE  WavesInv'
  <2>1. PICK outcome \in Outcome : batch' = [batch EXCEPT !.status[a] = outcome]
    BY <1>2 DEF FinishAction
  <2>2. outcome # "running" /\ outcome \in ActionStatus
    BY DEF Outcome, Good, ActionStatus
  <2>3. /\ batch' \in BatchOf /\ batch'.at = batch.at /\ batch'.workers = batch.workers
        /\ batch'.status = [batch.status EXCEPT ![a] = outcome]
    BY <1>0, <2>1, <2>2 DEF BatchOf
  <2>4. Running' = Running \ {a} /\ a \in Running
    BY <1>0, <1>2, <2>2, <2>3 DEF Running, BatchOf, FinishAction
  <2>5. Cardinality(Running)' <= batch'.workers
    <3>1. Cardinality(Running \ {a}) = Cardinality(Running) - 1
      BY <1>0, <2>4, FS_RemoveElement
    <3> QED BY <1>0, <1>w, <2>3, <2>4, <3>1
  <2>6. batch.at \in {"wave", "rejected"}
    BY <2>4 DEF WavesInv
  <2> QED BY <1>2, <2>3, <2>5, <2>6 DEF WavesInv, FinishAction
<1>3. ASSUME NEW a \in BatchAction, ThrowAction(a)
      PROVE  WavesInv'
  <2>1. a \in Running /\ batch' = [batch EXCEPT !.status[a] = "threw", !.workers = @ - 1, !.at = "rejected"]
    BY <1>3 DEF ThrowAction
  <2>2. Cardinality(Running) # 0 /\ Cardinality(Running) <= batch.workers /\ batch.workers \in 0..Concurrency
    BY <1>0, <2>1, FS_EmptySet DEF WavesInv, BatchOf
  <2>3. batch.workers - 1 \in 0..Concurrency
    BY <1>0, <2>2, ActionWavesAssumption
  <2>4. /\ batch' \in BatchOf /\ batch'.at = "rejected" /\ batch'.workers = batch.workers - 1
        /\ batch'.status = [batch.status EXCEPT ![a] = "threw"]
    BY <1>0, <2>1, <2>3 DEF BatchOf, ActionStatus
  <2>5. Running' = Running \ {a}
    BY <1>0, <2>4 DEF Running, BatchOf
  <2>6. Cardinality(Running)' <= batch'.workers
    <3>1. Cardinality(Running \ {a}) = Cardinality(Running) - 1
      BY <1>0, <2>1, FS_RemoveElement
    <3> QED BY <1>0, <1>w, <2>4, <2>5, <3>1
  <2> QED BY <1>3, <2>4, <2>6 DEF WavesInv, ThrowAction
<1> QED BY <1>1, <1>2, <1>3 DEF WorkerStep

LEMMA WavesKeep ==
  ASSUME WavesInv, [ActionWavesNext]_ActionWavesVars
  PROVE  WavesInv'
<1>1. CASE UNCHANGED ActionWavesVars
  BY <1>1 DEF ActionWavesVars, WavesInv, Running, Queued
<1>2. CASE PlanBatch
  <2>1. batch.at = "planning" /\ Queued = {} /\ Running = {}
    BY <1>2 DEF PlanBatch, WavesInv
  <2>2. PICK place \in {"refused", "between"} : batch' = [batch EXCEPT !.at = place]
    BY <1>2 DEF PlanBatch
  <2>3. batch' \in BatchOf /\ batch'.status = batch.status /\ batch'.workers = batch.workers /\ batch'.at = place
    BY <2>2 DEF WavesInv, BatchOf
  <2>4. Queued' = Queued /\ Running' = Running
    BY <2>3 DEF Queued, Running
  <2> QED BY <1>2, <2>1, <2>3, <2>4 DEF WavesInv, PlanBatch
<1>3. CASE EndWave
  <2>1. Queued = {} /\ Running = {} /\ batch' = [batch EXCEPT !.at = "between"]
    BY <1>3 DEF EndWave
  <2>2. batch' \in BatchOf /\ batch'.status = batch.status /\ batch'.workers = batch.workers
    BY <2>1 DEF WavesInv, BatchOf
  <2>3. Queued' = Queued /\ Running' = Running
    BY <2>2 DEF Queued, Running
  <2> QED BY <1>3, <2>1, <2>2, <2>3 DEF WavesInv, EndWave
<1> QED BY <1>1, <1>2, <1>3, StartWaveKeeps, WorkerStepKeeps DEF ActionWavesNext

LEMMA ConcurrencyFollows ==
  ASSUME WavesInv
  PROVE  ActionWavesTypeOK /\ ConcurrencyIsKept
<1>1. ActionWavesTypeOK
  BY DEF WavesInv, ActionWavesTypeOK, BatchOf, ActionStatus
<1>2. Cardinality(Running) \in Nat
  BY ActionsAreFinite DEF Running
<1> QED BY <1>1, <1>2, ActionWavesAssumption DEF WavesInv, ConcurrencyIsKept, BatchOf
-----------------------------------------------------------------------------
(* The order of a batch: what has left the batch after a number of waves has  *)
(* settled, so what a wave takes finds its dependencies settled.              *)

\* The recursion of Left has a solution, so it is what Left is.
LEMMA LeftIs ==
  ASSUME dependsOn \in [BatchAction -> SUBSET BatchAction]
  PROVE  /\ Left[0] = BatchAction
         /\ \A k \in 0..BatchSize : k # 0 => Left[k] = Left[k - 1] \ Ready(Left[k - 1])
<1> DEFINE next(f, k) == IF k = 0 THEN BatchAction ELSE f[k - 1] \ Ready(f[k - 1])
           good == {n \in 0..BatchSize : \E f \in [0..BatchSize -> SUBSET BatchAction] :
                                          \A k \in 0..n : f[k] = next(f, k)}
<1>0. BatchSize \in Nat
  BY ActionWavesAssumption
<1>1. 0 \in good
  <2>1. PICK f \in [0..BatchSize -> SUBSET BatchAction] : f = [k \in 0..BatchSize |-> BatchAction]
    OBVIOUS
  <2>2. \A k \in 0..0 : f[k] = next(f, k)
    BY <1>0, <2>1
  <2>3. 0 \in 0..BatchSize
    BY <1>0
  <2> QED BY <2>2, <2>3
<1>2. ASSUME NEW n \in 0..BatchSize, n \in good, n < BatchSize
      PROVE  n + 1 \in good
  <2>1. PICK f \in [0..BatchSize -> SUBSET BatchAction] : \A k \in 0..n : f[k] = next(f, k)
    BY <1>2
  <2> DEFINE rest == f[n] \ Ready(f[n])
  <2>2. n + 1 \in 0..BatchSize /\ rest \in SUBSET BatchAction
    BY <1>0, <1>2, <2>1
  <2> HIDE DEF rest
  <2>3. PICK g \in [0..BatchSize -> SUBSET BatchAction] : g = [f EXCEPT ![n + 1] = rest]
    BY <2>1, <2>2
  <2>4. g[n + 1] = rest /\ \A k \in 0..n : g[k] = f[k]
    BY <1>0, <2>2, <2>3
  <2>5. ASSUME NEW k \in 0..n + 1
        PROVE  g[k] = next(g, k)
    <3>1. CASE k = 0
      <4>0. 0 \in 0..n
        BY <1>2
      <4>1. g[0] = f[0] /\ f[0] = next(f, 0)
        BY <2>1, <2>4, <4>0
      <4> QED BY <3>1, <4>1
    <3>2. CASE k = n + 1
      <4>1. k - 1 = n /\ g[n] = f[n] /\ k # 0
        BY <1>2, <2>4, <3>2
      <4> QED BY <2>4, <3>2, <4>1 DEF rest
    <3>3. CASE k # 0 /\ k # n + 1
      <4>1. k \in 0..n /\ k - 1 \in 0..n
        BY <1>2, <3>3
      <4>2. g[k] = f[k] /\ g[k - 1] = f[k - 1] /\ f[k] = next(f, k)
        BY <2>1, <2>4, <4>1
      <4> QED BY <3>3, <4>2
    <3> QED BY <3>1, <3>2, <3>3
  <2> HIDE DEF next
  <2> QED BY <2>2, <2>5
<1> HIDE DEF good
<1>3. BatchSize \in good
  <2>1. \A n \in 0..BatchSize : n \in good
    BY <1>0, <1>1, <1>2, CountingUp
  <2> QED BY <1>0, <2>1
<1>4. PICK f \in [0..BatchSize -> SUBSET BatchAction] : \A k \in 0..BatchSize : f[k] = next(f, k)
  BY <1>3 DEF good
<1>5. f = [k \in 0..BatchSize |-> next(f, k)]
  <2> HIDE DEF next
  <2> QED BY <1>4
<1>6. \E left : left = [k \in 0..BatchSize |-> IF k = 0 THEN BatchAction ELSE left[k - 1] \ Ready(left[k - 1])]
  BY <1>5
<1>7. Left = [k \in 0..BatchSize |-> IF k = 0 THEN BatchAction ELSE Left[k - 1] \ Ready(Left[k - 1])]
  <2>1. Left = CHOOSE left : left = [k \in 0..BatchSize |-> IF k = 0 THEN BatchAction ELSE left[k - 1] \ Ready(left[k - 1])]
    BY DEF Left
  <2> QED BY <1>6, <2>1, Zenon
<1>8. ASSUME NEW k \in 0..BatchSize
      PROVE  Left[k] = IF k = 0 THEN BatchAction ELSE Left[k - 1] \ Ready(Left[k - 1])
  <2> DEFINE solved == [m \in 0..BatchSize |-> IF m = 0 THEN BatchAction ELSE Left[m - 1] \ Ready(Left[m - 1])]
  <2>1. solved[k] = IF k = 0 THEN BatchAction ELSE Left[k - 1] \ Ready(Left[k - 1])
    OBVIOUS
  <2>2. Left = solved
    BY <1>7
  <2> HIDE DEF solved
  <2> QED BY <2>1, <2>2
<1>9. 0 \in 0..BatchSize
  BY <1>0
<1>10. Left[0] = BatchAction
  BY <1>8, <1>9, Zenon
<1>11. ASSUME NEW k \in 0..BatchSize, k # 0
      PROVE  Left[k] = Left[k - 1] \ Ready(Left[k - 1])
  BY <1>8, <1>11, Zenon
<1> QED BY <1>10, <1>11

SettledAction == Outcome \cup {"skipped"}

OrderInv ==
  /\ WavesInv
  /\ batch.at = "planning" => batch.wave = 0
  /\ batch.at = "between" => \A a \in BatchAction : a \notin Left[batch.wave] => batch.status[a] \in SettledAction
  /\ batch.at = "wave" =>
       \A a \in BatchAction : a \notin Left[batch.wave] => batch.status[a] \in SettledAction \cup {"queued", "running"}
  /\ \A a \in Queued \cup Running : \A d \in dependsOn[a] : batch.status[d] \in Good \cup {"skipped"}

LEMMA OrderStarts ==
  ASSUME NEW deps \in [BatchAction -> SUBSET BatchAction], ActionWavesInit(deps)
  PROVE  OrderInv
<1>1. WavesInv
  BY WavesStart
<1>2. batch.at = "planning" /\ batch.wave = 0
  BY DEF ActionWavesInit
<1> QED BY <1>1, <1>2 DEF OrderInv, WavesInv

\* A wave that begins: what it takes depends on nothing that was left.
LEMMA WaveIsReady ==
  ASSUME OrderInv, batch.at = "between", batch.wave # BatchSize, NEW a \in WaveOf(batch.wave + 1),
         NEW d \in dependsOn[a]
  PROVE  batch.status[d] \in SettledAction
<1>1. batch.wave \in 0..BatchSize /\ dependsOn \in [BatchAction -> SUBSET BatchAction]
  BY DEF OrderInv, WavesInv, BatchOf
<1>2. batch.wave + 1 \in 0..BatchSize /\ batch.wave + 1 # 0 /\ (batch.wave + 1) - 1 = batch.wave
  BY <1>1, ActionWavesAssumption
<1>3. a \in BatchAction /\ a \in Left[batch.wave] /\ a \notin Left[batch.wave + 1]
  BY <1>2 DEF WaveOf
<1>4. Left[batch.wave + 1] = Left[batch.wave] \ Ready(Left[batch.wave])
  BY <1>1, <1>2, LeftIs
<1>5. d \in BatchAction /\ d \notin Left[batch.wave]
  BY <1>1, <1>3, <1>4 DEF Ready
<1> QED BY <1>5 DEF OrderInv

LEMMA LeftStays ==
  ASSUME UNCHANGED dependsOn
  PROVE  Left' = Left
BY DEF Left, Ready

LEMMA StartWaveOrders ==
  ASSUME OrderInv, StartWave
  PROVE  OrderInv'
<1> DEFINE next     == batch.wave + 1
           blocked  == {a \in WaveOf(next) : dependsOn[a] \cap FailedIds # {}}
           runnable == WaveOf(next) \ blocked
           hands    == IF runnable = {} THEN 0 ELSE Smaller(Concurrency, Cardinality(runnable))
           marks    == [a \in BatchAction |-> IF a \in blocked THEN "skipped"
                                              ELSE IF a \in runnable THEN "queued" ELSE batch.status[a]]
<1>1. WavesInv' /\ Left' = Left /\ dependsOn' = dependsOn
  BY StartWaveKeeps, LeftStays DEF OrderInv, StartWave
<1>2. batch.at = "between" /\ Queued = {} /\ Running = {}
  BY DEF OrderInv, WavesInv, StartWave
<1>3. CASE batch.wave = BatchSize
  <2>1. batch' = [batch EXCEPT !.at = "done"]
    BY <1>3 DEF StartWave
  <2>2. batch'.at = "done" /\ Queued' = {} /\ Running' = {}
    BY <1>1, <2>1 DEF OrderInv, WavesInv, BatchOf
  <2> QED BY <1>1, <2>2 DEF OrderInv
<1>4. CASE batch.wave # BatchSize
  <2>1. batch' = [at |-> "wave", wave |-> next, workers |-> hands, status |-> marks]
    BY <1>4 DEF StartWave
  <2> HIDE DEF hands
  <2>2. batch'.at = "wave" /\ batch'.wave = next /\ batch'.status = marks
    BY <2>1
  <2>3. batch.wave \in 0..BatchSize /\ (batch.wave + 1) - 1 = batch.wave /\ batch.status \in [BatchAction -> ActionStatus]
        /\ dependsOn \in [BatchAction -> SUBSET BatchAction]
    BY ActionWavesAssumption DEF OrderInv, WavesInv, BatchOf
  <2>4. \A a \in BatchAction : a \in WaveOf(next) <=> a \in Left[batch.wave] \ Left[next]
    BY <2>3 DEF WaveOf
  <2>5. ASSUME NEW a \in BatchAction, a \notin Left[next]
        PROVE  marks[a] \in SettledAction \cup {"queued", "running"}
    <3>1. CASE a \in WaveOf(next)
      <4>1. a \in blocked \/ a \in runnable
        BY <3>1
      <4> HIDE DEF blocked, runnable
      <4> QED BY <4>1 DEF SettledAction
    <3>2. CASE a \notin WaveOf(next)
      <4>1. a \notin Left[batch.wave]
        BY <2>4, <2>5, <3>2
      <4>2. batch.status[a] \in SettledAction
        BY <1>2, <4>1 DEF OrderInv
      <4>3. marks[a] = batch.status[a]
        BY <3>2
      <4> QED BY <4>2, <4>3
    <3> QED BY <3>1, <3>2
  <2>6. ASSUME NEW a \in BatchAction, marks[a] \in {"queued", "running"}, NEW d \in dependsOn[a]
        PROVE  marks[d] \in Good \cup {"skipped"}
    <3>1. batch.status[a] \notin {"queued", "running"}
      BY <1>2 DEF Queued, Running
    <3>2. a \in runnable
      <4> HIDE DEF blocked, runnable
      <4> QED BY <2>6, <3>1
    <3>3. a \in WaveOf(next) /\ dependsOn[a] \cap FailedIds = {}
      BY <3>2
    <3>4. batch.status[d] \in SettledAction /\ d \in BatchAction
      BY <1>2, <1>4, <2>3, <3>3, WaveIsReady
    <3>5. d \notin FailedIds
      BY <3>3
    <3>6. batch.status[d] \in Good \cup {"skipped"}
      BY <3>4, <3>5 DEF FailedIds, SettledAction
    <3>7. d \notin WaveOf(next)
      <4>1. a \notin Left[next] /\ a \in Left[batch.wave]
        BY <2>4, <3>3
      <4>2. next \in 0..BatchSize /\ next # 0 /\ next - 1 = batch.wave
        BY <1>4, <2>3, ActionWavesAssumption
      <4>3. a \in Ready(Left[batch.wave])
        <5>1. Left[next] = Left[batch.wave] \ Ready(Left[batch.wave])
          BY <2>3, <4>2, LeftIs
        <5> QED BY <4>1, <5>1
      <4>4. d \notin Left[batch.wave]
        BY <4>3 DEF Ready
      <4> QED BY <2>4, <3>4, <4>4
    <3>8. marks[d] = batch.status[d]
      BY <3>4, <3>7
    <3> QED BY <3>6, <3>8
  <2> HIDE DEF marks, next, blocked, runnable
  <2>7. \A a \in Queued' \cup Running' : a \in BatchAction /\ marks[a] \in {"queued", "running"}
    BY <2>2 DEF Queued, Running
  <2> QED BY <1>1, <2>2, <2>5, <2>6, <2>7 DEF OrderInv
<1> QED BY <1>3, <1>4

\* Another action gets another status; none of those that have settled does.
LEMMA WorkerStepOrders ==
  ASSUME OrderInv, WorkerStep
  PROVE  OrderInv'
<1> DEFINE Moves(x, to) ==
             /\ batch'.status = [batch.status EXCEPT ![x] = to]
             /\ batch'.wave = batch.wave /\ dependsOn' = dependsOn
             /\ batch'.at = (IF to = "threw" THEN "rejected" ELSE batch.at)
<1>1. \E x \in Queued \cup Running : \E to \in {"running", "threw"} \cup Outcome : Moves(x, to)
  <2>0. batch \in BatchOf
    BY DEF OrderInv, WavesInv
  <2>1. CASE TakeAction
    <3> DEFINE a == CHOOSE a \in Queued : \A b \in Queued : a <= b
    <3>1. a \in Queued
      BY <2>1, NextQueued DEF TakeAction
    <3>2. batch' = [batch EXCEPT !.status[a] = "running"] /\ dependsOn' = dependsOn
      BY <2>1 DEF TakeAction
    <3> HIDE DEF a
    <3>3. Moves(a, "running")
      BY <2>0, <3>2 DEF BatchOf
    <3> HIDE DEF Moves
    <3> QED BY <3>1, <3>3
  <2>2. ASSUME NEW a \in BatchAction, FinishAction(a)
        PROVE  \E to \in Outcome : a \in Running /\ Moves(a, to)
    <3>1. PICK to \in Outcome : batch' = [batch EXCEPT !.status[a] = to]
      BY <2>2 DEF FinishAction
    <3>2. to # "threw"
      BY DEF Outcome, Good
    <3>3. Moves(a, to)
      BY <2>0, <2>2, <3>1, <3>2 DEF FinishAction, BatchOf
    <3> HIDE DEF Moves
    <3> QED BY <2>2, <3>3 DEF FinishAction
  <2>3. ASSUME NEW a \in BatchAction, ThrowAction(a)
        PROVE  a \in Running /\ Moves(a, "threw")
    BY <2>0, <2>3 DEF ThrowAction, BatchOf
  <2> HIDE DEF Moves
  <2> QED BY <2>1, <2>2, <2>3 DEF WorkerStep
<1>p. PICK a \in Queued \cup Running : \E to \in {"running", "threw"} \cup Outcome : Moves(a, to)
  BY <1>1
<1>q. PICK status \in {"running", "threw"} \cup Outcome : Moves(a, status)
  BY <1>p
<1>2. /\ batch'.status = [batch.status EXCEPT ![a] = status]
      /\ batch'.wave = batch.wave /\ dependsOn' = dependsOn
      /\ batch'.at = (IF status = "threw" THEN "rejected" ELSE batch.at)
  BY <1>q
<1>3. WavesInv' /\ Left' = Left /\ batch.at \in {"wave", "rejected"}
  BY <1>2, WorkerStepKeeps, LeftStays DEF OrderInv, WavesInv
<1>4. /\ batch.status \in [BatchAction -> ActionStatus] /\ a \in BatchAction
      /\ dependsOn \in [BatchAction -> SUBSET BatchAction]
  BY DEF OrderInv, WavesInv, BatchOf, Queued, Running
<1>5. batch.status[a] \in {"queued", "running"}
  BY DEF Queued, Running
<1>6. /\ batch'.status[a] = status
      /\ \A b \in BatchAction : b # a => batch'.status[b] = batch.status[b]
  BY <1>2, <1>4
<1>7. batch'.at = "wave" => \A b \in BatchAction : b \notin Left[batch.wave]
                              => batch'.status[b] \in SettledAction \cup {"queued", "running"}
  <2>1. batch'.at = "wave" => batch.at = "wave" /\ status \in SettledAction \cup {"running"}
    BY <1>2 DEF SettledAction
  <2> QED BY <1>4, <1>6, <2>1 DEF OrderInv
<1>8. batch'.at \in {"wave", "rejected"}
  BY <1>2, <1>3
<1>9. Queued' \cup Running' \subseteq Queued \cup Running
  <2> SUFFICES ASSUME NEW b \in BatchAction, batch'.status[b] \in {"queued", "running"}
               PROVE  b \in Queued \cup Running
    BY DEF Queued, Running
  <2>1. b # a => batch.status[b] \in {"queued", "running"}
    BY <1>6
  <2> QED BY <2>1 DEF Queued, Running
<1>10. ASSUME NEW b \in Queued \cup Running, NEW d \in dependsOn[b]
       PROVE  batch'.status[d] \in Good \cup {"skipped"}
  <2>1. batch.status[d] \in Good \cup {"skipped"} /\ d \in BatchAction
    BY <1>4 DEF OrderInv, Queued, Running
  <2>2. d # a
    BY <1>5, <2>1 DEF Good
  <2> QED BY <1>6, <2>1, <2>2
<1> QED BY <1>2, <1>3, <1>7, <1>8, <1>9, <1>10 DEF OrderInv

LEMMA OrderKeeps == OrderInv /\ [ActionWavesNext]_ActionWavesVars => OrderInv'
<1> SUFFICES ASSUME OrderInv, [ActionWavesNext]_ActionWavesVars
             PROVE  OrderInv'
  OBVIOUS
<1>0. WavesInv' /\ batch \in BatchOf
  BY WavesKeep DEF OrderInv, WavesInv
<1>1. CASE UNCHANGED ActionWavesVars
  <2>1. dependsOn' = dependsOn /\ batch' = batch
    BY <1>1 DEF ActionWavesVars
  <2> QED BY <1>0, <2>1, LeftStays DEF OrderInv, Queued, Running
<1>2. CASE PlanBatch
  <2>1. /\ batch.at = "planning" /\ Queued = {} /\ Running = {} /\ batch.wave = 0
        /\ dependsOn' = dependsOn /\ dependsOn \in [BatchAction -> SUBSET BatchAction]
    BY <1>2 DEF PlanBatch, OrderInv, WavesInv
  <2>2. PICK place \in {"refused", "between"} : batch' = [batch EXCEPT !.at = place]
    BY <1>2 DEF PlanBatch
  <2>3. batch'.at = place /\ batch'.wave = 0 /\ batch'.status = batch.status
    BY <1>0, <2>1, <2>2 DEF BatchOf
  <2>4. Queued' = {} /\ Running' = {}
    BY <2>1, <2>3 DEF Queued, Running
  <2>5. Left'[0] = BatchAction
    BY <2>1, LeftIs, LeftStays
  <2> QED BY <1>0, <2>3, <2>4, <2>5 DEF OrderInv
<1>3. CASE EndWave
  <2>1. /\ batch.at = "wave" /\ Queued = {} /\ Running = {} /\ batch' = [batch EXCEPT !.at = "between"]
        /\ dependsOn' = dependsOn
    BY <1>3 DEF EndWave
  <2>2. batch'.at = "between" /\ batch'.wave = batch.wave /\ batch'.status = batch.status
    BY <1>0, <2>1 DEF BatchOf
  <2>3. \A a \in BatchAction : batch.status[a] \notin {"queued", "running"}
    BY <2>1 DEF Queued, Running
  <2>4. \A a \in BatchAction : a \notin Left[batch.wave] => batch.status[a] \in SettledAction
    BY <2>1, <2>3 DEF OrderInv
  <2>5. Queued' = {} /\ Running' = {}
    BY <2>1, <2>2 DEF Queued, Running
  <2> QED BY <1>0, <2>1, <2>2, <2>4, <2>5, LeftStays DEF OrderInv
<1> QED BY <1>1, <1>2, <1>3, StartWaveOrders, WorkerStepOrders DEF ActionWavesNext

LEMMA OrderFollows == OrderInv => DependenciesSettleFirst
BY DEF OrderInv, DependenciesSettleFirst
-----------------------------------------------------------------------------
(* Backpressure.  A slot is an execution; and a creator that may write its    *)
(* row has counted fewer active runs than the limit, so that the active runs  *)
(* and the rows that may still be written are over it by no more than the     *)
(* other creators and what operators brought back.                            *)

AdmittedPlace == {"none", "queued", "claimed", "counting", "allowed", "executing", "parked", "failed", "ended", "left"}
Inactive == {"none", "ended", "failed"}
Attempts == 0..MaxWorkerAttempts
Row == [at : AdmittedPlace, begun : BOOLEAN, full : BOOLEAN, attempts : Attempts, failures : Attempts,
        locked : BOOLEAN]

Active == {r \in Admitted : admitted[r].at \notin Inactive}
Executing == {r \in Admitted : admitted[r].at = "executing"}
Allowed == {c \in Creator : creator[c] = "allowed"}

AdmissionInv ==
  /\ deployment \in {"inline", "worker"} /\ askedAgain \in 0..MaxAskedAgain
  /\ creator \in [Creator -> {"idle", "counting", "allowed"}] /\ admitted \in [Admitted -> Row]
  /\ slots = Cardinality(Executing) /\ slots <= MaxConcurrentRuns
  /\ Cardinality(Active) + Cardinality(Allowed) <= MaxPerOrganization - 1 + Cardinality(Creator) + askedAgain

LEMMA AdmissionConstants ==
  /\ MaxConcurrentRuns \in Nat /\ MaxConcurrentRuns > 0 /\ MaxPerOrganization \in Nat /\ MaxPerOrganization > 0
  /\ MaxWorkerAttempts \in Nat /\ MaxWorkerAttempts > 0 /\ MaxAskedAgain \in Nat
  /\ IsFiniteSet(Creator) /\ IsFiniteSet(Admitted) /\ Cardinality(Creator) \in Nat /\ Cardinality(Admitted) \in Nat
BY AdmissionAssumption, FS_CardinalityType

LEMMA AdmissionCounts ==
  /\ IsFiniteSet(Active) /\ IsFiniteSet(Executing) /\ IsFiniteSet(Allowed)
  /\ Cardinality(Active) \in Nat /\ Cardinality(Executing) \in Nat /\ Cardinality(Allowed) \in Nat
  /\ Cardinality(Executing) <= Cardinality(Admitted) /\ Cardinality(Allowed) <= Cardinality(Creator)
<1>1. Active \subseteq Admitted /\ Executing \subseteq Admitted /\ Allowed \subseteq Creator
  BY DEF Active, Executing, Allowed
<1>2. /\ IsFiniteSet(Active) /\ IsFiniteSet(Executing) /\ IsFiniteSet(Allowed)
      /\ Cardinality(Executing) <= Cardinality(Admitted) /\ Cardinality(Allowed) <= Cardinality(Creator)
  BY <1>1, AdmissionConstants, FS_Subset
<1> QED BY <1>2, FS_CardinalityType

LEMMA ActiveRunsAreActive == ActiveRuns = Cardinality(Active)
<1>1. Admitted \ Being({"none", "ended", "failed"}) = Active
  BY DEF Being, Active, Inactive
<1> QED BY <1>1 DEF ActiveRuns

LEMMA AdmissionStarts ==
  ASSUME AdmissionInit
  PROVE  AdmissionInv
<1>1. Absent \in Row /\ Absent.at = "none"
  BY AdmissionConstants DEF Absent, Row, AdmittedPlace, Attempts
<1>2. Active = {} /\ Executing = {} /\ Allowed = {}
  BY <1>1 DEF AdmissionInit, Active, Executing, Allowed, Inactive
<1>3. Cardinality(Active) = 0 /\ Cardinality(Executing) = 0 /\ Cardinality(Allowed) = 0
  BY <1>2, FS_EmptySet
<1> QED BY <1>1, <1>3, AdmissionConstants DEF AdmissionInit, AdmissionInv

\* A step of one creator that writes no row.
LEMMA OneCreatorKeeps ==
  ASSUME AdmissionInv, NEW c \in Creator, NEW place \in {"idle", "counting", "allowed"},
         creator' = [creator EXCEPT ![c] = place], UNCHANGED <<deployment, slots, admitted, askedAgain>>,
         place = "allowed" => Cardinality(Active) < MaxPerOrganization
  PROVE  AdmissionInv'
<1>0. Active' = Active /\ Executing' = Executing
  BY DEF Active, Executing
<1>1. /\ creator' \in [Creator -> {"idle", "counting", "allowed"}]
      /\ Allowed' = IF place = "allowed" THEN Allowed \cup {c} ELSE Allowed \ {c}
  BY DEF AdmissionInv, Allowed
<1>2. Cardinality(Active) + Cardinality(Allowed') <= MaxPerOrganization - 1 + Cardinality(Creator) + askedAgain
  <2>1. IsFiniteSet(Allowed') /\ Cardinality(Allowed') \in Nat /\ Cardinality(Allowed') <= Cardinality(Creator)
    <3> DEFINE later == IF place = "allowed" THEN Allowed \cup {c} ELSE Allowed \ {c}
    <3>1. later \subseteq Creator
      BY DEF Allowed
    <3> HIDE DEF later
    <3>2. IsFiniteSet(later) /\ Cardinality(later) <= Cardinality(Creator)
      BY <3>1, AdmissionConstants, FS_Subset
    <3>3. Cardinality(later) \in Nat
      BY <3>2, FS_CardinalityType
    <3> QED BY <1>1, <3>2, <3>3 DEF later
  <2>2. CASE place = "allowed"
    BY <2>1, <2>2, AdmissionCounts, AdmissionConstants DEF AdmissionInv
  <2>3. CASE place # "allowed"
    <3>1. Allowed' = Allowed \ {c}
      BY <2>3, <1>1
    <3>2. Cardinality(Allowed \ {c}) = Cardinality(Allowed) - 1 \/ Cardinality(Allowed \ {c}) = Cardinality(Allowed)
      BY AdmissionCounts, FS_RemoveElement
    <3>3. Cardinality(Allowed') <= Cardinality(Allowed)
      BY <3>1, <3>2, AdmissionCounts
    <3> QED BY <2>1, <3>3, AdmissionCounts, AdmissionConstants DEF AdmissionInv
  <2> QED BY <2>2, <2>3
<1> QED BY <1>0, <1>1, <1>2 DEF AdmissionInv

\* A step of one run: a slot is taken where an execution begins and given back
\* where it ends, and a run becomes active in a creator's place or an operator's.
LEMMA OneRunKeeps ==
  ASSUME AdmissionInv, NEW r \in Admitted, NEW row \in Row, admitted' = [admitted EXCEPT ![r] = row],
         UNCHANGED deployment, askedAgain' \in 0..MaxAskedAgain, askedAgain' >= askedAgain,
         creator' \in [Creator -> {"idle", "counting", "allowed"}],
         slots' = IF row.at = "executing"
                  THEN IF admitted[r].at = "executing" THEN slots ELSE slots + 1
                  ELSE IF admitted[r].at = "executing" THEN slots - 1 ELSE slots,
         slots' <= MaxConcurrentRuns,
         Cardinality(Allowed') \in Nat,
         Cardinality(Allowed') + (IF row.at \notin Inactive /\ admitted[r].at \in Inactive THEN 1 ELSE 0)
           <= Cardinality(Allowed) + askedAgain' - askedAgain
  PROVE  AdmissionInv'
<1>1. /\ Executing' = IF row.at = "executing" THEN Executing \cup {r} ELSE Executing \ {r}
      /\ Active' = IF row.at \in Inactive THEN Active \ {r} ELSE Active \cup {r}
      /\ admitted' \in [Admitted -> Row]
  BY DEF AdmissionInv, Executing, Active
<1>2. /\ r \in Executing <=> admitted[r].at = "executing"
      /\ r \in Active <=> admitted[r].at \notin Inactive
  BY DEF Executing, Active
<1>3. /\ Cardinality(Executing \cup {r}) = IF r \in Executing THEN slots ELSE slots + 1
      /\ Cardinality(Executing \ {r}) = IF r \in Executing THEN slots - 1 ELSE slots
      /\ Cardinality(Active \cup {r}) = IF r \in Active THEN Cardinality(Active) ELSE Cardinality(Active) + 1
      /\ Cardinality(Active \ {r}) = IF r \in Active THEN Cardinality(Active) - 1 ELSE Cardinality(Active)
  BY AdmissionCounts, FS_AddElement, FS_RemoveElement DEF AdmissionInv
<1>4. slots' = Cardinality(Executing')
  <2>1. CASE row.at = "executing"
    BY <2>1, <1>1, <1>2, <1>3
  <2>2. CASE row.at # "executing"
    BY <2>2, <1>1, <1>2, <1>3
  <2> QED BY <2>1, <2>2
<1>5. Cardinality(Active') + Cardinality(Allowed')
        <= MaxPerOrganization - 1 + Cardinality(Creator) + askedAgain'
  <2> DEFINE more == IF row.at \notin Inactive /\ admitted[r].at \in Inactive THEN 1 ELSE 0
  <2>1. Cardinality(Active') <= Cardinality(Active) + more /\ Cardinality(Active') \in Nat
    <3>1. CASE row.at \in Inactive
      <4>1. Active' = Active \ {r}
        BY <3>1, <1>1
      <4>2. Cardinality(Active \ {r}) \in Nat
        BY AdmissionCounts, FS_RemoveElement, FS_CardinalityType
      <4> QED BY <4>1, <4>2, <1>3, AdmissionCounts
    <3>2. CASE row.at \notin Inactive
      <4>1. Active' = Active \cup {r}
        BY <3>2, <1>1
      <4> QED BY <3>2, <4>1, <1>2, <1>3, AdmissionCounts
    <3> QED BY <3>1, <3>2
  <2>2. more \in Nat /\ Cardinality(Allowed') + more <= Cardinality(Allowed) + askedAgain' - askedAgain
    OBVIOUS
  <2> HIDE DEF more
  <2>3. askedAgain \in Nat /\ askedAgain' \in Nat
    BY AdmissionConstants DEF AdmissionInv
  <2> QED BY <2>1, <2>2, <2>3, AdmissionCounts, AdmissionConstants DEF AdmissionInv
<1> QED BY <1>1, <1>4, <1>5 DEF AdmissionInv

LEMMA PlaceValues ==
  /\ "queued" \in AdmittedPlace /\ "claimed" \in AdmittedPlace /\ "counting" \in AdmittedPlace
  /\ "allowed" \in AdmittedPlace /\ "executing" \in AdmittedPlace /\ "parked" \in AdmittedPlace
  /\ "failed" \in AdmittedPlace /\ "ended" \in AdmittedPlace /\ "left" \in AdmittedPlace
BY DEF AdmittedPlace

LEMMA RowFields ==
  ASSUME NEW row \in Row
  PROVE  /\ \A at \in AdmittedPlace : [row EXCEPT !.at = at] \in Row /\ [row EXCEPT !.at = at].at = at
         /\ \A full \in BOOLEAN : [row EXCEPT !.full = full] \in Row /\ [row EXCEPT !.full = full].at = row.at
         /\ \A going \in BOOLEAN : [row EXCEPT !.begun = going] \in Row /\ [row EXCEPT !.begun = going].at = row.at
         /\ \A locked \in BOOLEAN : [row EXCEPT !.locked = locked] \in Row /\ [row EXCEPT !.locked = locked].at = row.at
         /\ \A n \in Attempts : [row EXCEPT !.attempts = n] \in Row /\ [row EXCEPT !.attempts = n].at = row.at
         /\ \A n \in Attempts : [row EXCEPT !.failures = n] \in Row /\ [row EXCEPT !.failures = n].at = row.at
<1>1. \A at \in AdmittedPlace : [row EXCEPT !.at = at] \in Row /\ [row EXCEPT !.at = at].at = at
  BY DEF Row
<1>2. \A full \in BOOLEAN : [row EXCEPT !.full = full] \in Row /\ [row EXCEPT !.full = full].at = row.at
  BY DEF Row
<1>3. \A going \in BOOLEAN : [row EXCEPT !.begun = going] \in Row /\ [row EXCEPT !.begun = going].at = row.at
  BY DEF Row
<1>4. \A locked \in BOOLEAN : [row EXCEPT !.locked = locked] \in Row /\ [row EXCEPT !.locked = locked].at = row.at
  BY DEF Row
<1>5. \A n \in Attempts : [row EXCEPT !.attempts = n] \in Row /\ [row EXCEPT !.attempts = n].at = row.at
  BY DEF Row
<1>6. \A n \in Attempts : [row EXCEPT !.failures = n] \in Row /\ [row EXCEPT !.failures = n].at = row.at
  BY DEF Row
<1> QED BY <1>1, <1>2, <1>3, <1>4, <1>5, <1>6

\* One more, up to the limit.
LEMMA CountedUp ==
  ASSUME NEW n \in Attempts
  PROVE  (IF n < MaxWorkerAttempts THEN n + 1 ELSE n) \in Attempts
BY AdmissionConstants DEF Attempts

LEMMA FailedRow ==
  ASSUME NEW r \in Admitted, NEW row \in Row
  PROVE  Failed(r, row) \in Row /\ Failed(r, row).at \in {"queued", "left"}
<1>1. row.failures \in Attempts
  BY DEF Row
<1>2. CASE deployment = "inline"
  BY <1>2, RowFields, PlaceValues DEF Failed
<1>3. CASE deployment # "inline"
  <2> DEFINE place == IF row.attempts < MaxWorkerAttempts THEN "queued" ELSE "left"
             count == IF row.failures < MaxWorkerAttempts THEN row.failures + 1 ELSE row.failures
             moved == [row EXCEPT !.at = place]
  <2>1. place \in AdmittedPlace /\ place \in {"queued", "left"} /\ count \in Attempts
    BY <1>1, PlaceValues, CountedUp
  <2>2. Failed(r, row) = [moved EXCEPT !.failures = count]
    BY <1>3 DEF Failed, Row
  <2> HIDE DEF place, count
  <2>3. moved \in Row /\ moved.at = place
    BY <2>1, RowFields
  <2> HIDE DEF moved
  <2> QED BY <2>1, <2>2, <2>3, RowFields
<1> QED BY <1>2, <1>3
\* A run moves between places where it counts alike, and nothing else moves.
LEMMA RunMovesOn ==
  ASSUME AdmissionInv, NEW r \in Admitted, NEW row \in Row, admitted' = [admitted EXCEPT ![r] = row],
         UNCHANGED <<deployment, slots, creator, askedAgain>>,
         row.at = "executing" <=> admitted[r].at = "executing",
         row.at \notin Inactive => admitted[r].at \notin Inactive
  PROVE  AdmissionInv'
<1>1. Allowed' = Allowed
  BY DEF Allowed
<1>2. askedAgain \in Nat /\ askedAgain \in 0..MaxAskedAgain /\ slots <= MaxConcurrentRuns
  BY AdmissionConstants DEF AdmissionInv
<1>3. creator' \in [Creator -> {"idle", "counting", "allowed"}]
  BY DEF AdmissionInv
<1>4. Cardinality(Allowed') + (IF row.at \notin Inactive /\ admitted[r].at \in Inactive THEN 1 ELSE 0)
        <= Cardinality(Allowed) + askedAgain' - askedAgain
  BY <1>1, <1>2, AdmissionCounts
<1>5. slots' = IF row.at = "executing"
               THEN IF admitted[r].at = "executing" THEN slots ELSE slots + 1
               ELSE IF admitted[r].at = "executing" THEN slots - 1 ELSE slots
  OBVIOUS
<1>6. askedAgain' \in 0..MaxAskedAgain /\ askedAgain' >= askedAgain /\ slots' <= MaxConcurrentRuns
  BY <1>2
<1>7. Cardinality(Allowed') \in Nat
  BY <1>1, AdmissionCounts
<1> QED BY <1>3, <1>4, <1>5, <1>6, <1>7, OneRunKeeps

LEMMA CreatorKeeps ==
  ASSUME AdmissionInv, NEW c \in Creator, AskToCreate(c) \/ CountBeforeCreate(c) \/ CreateRow(c)
  PROVE  AdmissionInv'
<1>1. CASE AskToCreate(c)
  BY <1>1, OneCreatorKeeps DEF AskToCreate
<1>2. CASE CountBeforeCreate(c)
  <2> DEFINE place == IF ActiveRuns < MaxPerOrganization THEN "allowed" ELSE "idle"
  <2>1. place \in {"idle", "counting", "allowed"} /\ (place = "allowed" => Cardinality(Active) < MaxPerOrganization)
    BY ActiveRunsAreActive
  <2>2. creator' = [creator EXCEPT ![c] = place] /\ UNCHANGED <<deployment, slots, admitted, askedAgain>>
    BY <1>2 DEF CountBeforeCreate
  <2> HIDE DEF place
  <2> QED BY <2>1, <2>2, OneCreatorKeeps
<1>3. CASE CreateRow(c)
  <2>1. PICK r \in Admitted : admitted[r].at = "none" /\ admitted' = [admitted EXCEPT ![r].at = "queued"]
    BY <1>3 DEF CreateRow, Being, RunGoes
  <2> DEFINE row == [admitted[r] EXCEPT !.at = "queued"]
  <2>2. row \in Row /\ row.at = "queued" /\ admitted' = [admitted EXCEPT ![r] = row]
    BY <2>1, RowFields, PlaceValues DEF AdmissionInv
  <2> HIDE DEF row
  <2>3. /\ creator[c] = "allowed" /\ creator' = [creator EXCEPT ![c] = "idle"]
        /\ UNCHANGED <<deployment, slots, askedAgain>>
    BY <1>3 DEF CreateRow
  <2>4. Allowed' = Allowed \ {c} /\ c \in Allowed
    BY <2>3 DEF Allowed, AdmissionInv
  <2>5. Cardinality(Allowed') = Cardinality(Allowed) - 1 /\ Cardinality(Allowed') \in Nat
    <3>1. Cardinality(Allowed \ {c}) = Cardinality(Allowed) - 1 /\ IsFiniteSet(Allowed \ {c})
      BY <2>4, AdmissionCounts, FS_RemoveElement
    <3> QED BY <3>1, <2>4, FS_CardinalityType
  <2>6. askedAgain \in Nat /\ askedAgain \in 0..MaxAskedAgain /\ slots <= MaxConcurrentRuns
    BY AdmissionConstants DEF AdmissionInv
  <2>7. creator' \in [Creator -> {"idle", "counting", "allowed"}]
    BY <2>3 DEF AdmissionInv
  <2>8. Cardinality(Allowed') + (IF row.at \notin Inactive /\ admitted[r].at \in Inactive THEN 1 ELSE 0)
          <= Cardinality(Allowed) + askedAgain' - askedAgain
    BY <2>3, <2>5, <2>6, AdmissionCounts
  <2>9. slots' = IF row.at = "executing"
                 THEN IF admitted[r].at = "executing" THEN slots ELSE slots + 1
                 ELSE IF admitted[r].at = "executing" THEN slots - 1 ELSE slots
    BY <2>1, <2>2, <2>3
  <2>10. askedAgain' \in 0..MaxAskedAgain /\ askedAgain' >= askedAgain /\ slots' <= MaxConcurrentRuns
    BY <2>3, <2>6
  <2>11. UNCHANGED deployment
    BY <2>3
  <2> QED BY <2>2, <2>5, <2>7, <2>8, <2>9, <2>10, <2>11, OneRunKeeps
<1> QED BY <1>1, <1>2, <1>3

\* What the worker does up to the start, and what an operator cancels.
LEMMA CheckingKeeps ==
  ASSUME AdmissionInv, NEW r \in Admitted,
         ClaimAdmitted(r) \/ ReadDepth(r) \/ CountBeforeStart(r) \/ LeakedLockExpires(r) \/ CancelAdmitted(r)
  PROVE  AdmissionInv'
<1> DEFINE row == admitted[r]
<1>0. row \in Row /\ admitted \in [Admitted -> Row] /\ row.attempts \in Attempts
  BY DEF AdmissionInv, Row
<1>1. CASE ClaimAdmitted(r)
  <2> DEFINE moved == [row EXCEPT !.at = "claimed"]
             count == IF row.attempts < MaxWorkerAttempts THEN row.attempts + 1 ELSE row.attempts
             new == [moved EXCEPT !.attempts = count]
  <2>1. moved \in Row /\ moved.at = "claimed" /\ count \in Attempts
    BY <1>0, RowFields, PlaceValues, CountedUp
  <2>2. admitted' = [admitted EXCEPT ![r] = new] /\ row.at = "queued"
        /\ UNCHANGED <<deployment, slots, creator, askedAgain>>
    BY <1>0, <1>1 DEF ClaimAdmitted, Row
  <2> HIDE DEF moved, count
  <2>3. new \in Row /\ new.at = "claimed"
    BY <2>1, RowFields
  <2> HIDE DEF new
  <2> QED BY <2>2, <2>3, RunMovesOn DEF Inactive
<1>2. CASE ReadDepth(r)
  <2> DEFINE back == [row EXCEPT !.at = "queued"]
             counting == [row EXCEPT !.at = "counting"]
             new == [counting EXCEPT !.full = QueueDepth >= MaxQueueDepth]
  <2>1. back \in Row /\ back.at = "queued" /\ counting \in Row /\ counting.at = "counting"
    BY <1>0, RowFields, PlaceValues
  <2>2. /\ admitted' = [admitted EXCEPT ![r] = back] \/ admitted' = [admitted EXCEPT ![r] = new]
        /\ row.at = "claimed" /\ UNCHANGED <<deployment, slots, creator, askedAgain>>
    BY <1>0, <1>2 DEF ReadDepth, RunGoes
  <2> HIDE DEF back, counting
  <2>3. (QueueDepth >= MaxQueueDepth) \in BOOLEAN
    OBVIOUS
  <2>4. new \in Row /\ new.at = "counting"
    BY <2>1, <2>3, RowFields
  <2> HIDE DEF new
  <2> QED BY <2>1, <2>2, <2>4, RunMovesOn DEF Inactive
<1>3. CASE CountBeforeStart(r)
  <2> DEFINE place == IF ActiveRuns < MaxPerOrganization /\ ~row.full THEN "allowed" ELSE "queued"
             cleared == [row EXCEPT !.full = FALSE]
             new == [cleared EXCEPT !.at = place]
  <2>1. cleared \in Row /\ place \in AdmittedPlace /\ place \in {"allowed", "queued"}
    BY <1>0, RowFields, PlaceValues
  <2>2. admitted' = [admitted EXCEPT ![r] = new] /\ row.at = "counting"
        /\ UNCHANGED <<deployment, slots, creator, askedAgain>>
    BY <1>0, <1>3 DEF CountBeforeStart
  <2> HIDE DEF place, cleared
  <2>3. new \in Row /\ new.at = place
    BY <2>1, RowFields
  <2> HIDE DEF new
  <2> QED BY <2>1, <2>2, <2>3, RunMovesOn DEF Inactive
<1>4. CASE LeakedLockExpires(r)
  <2> DEFINE new == [row EXCEPT !.locked = FALSE]
  <2>1. new \in Row /\ new.at = row.at
    BY <1>0, RowFields
  <2>2. admitted' = [admitted EXCEPT ![r] = new] /\ UNCHANGED <<deployment, slots, creator, askedAgain>>
    BY <1>0, <1>4 DEF LeakedLockExpires
  <2> HIDE DEF new
  <2> QED BY <2>1, <2>2, RunMovesOn
<1>5. CASE CancelAdmitted(r)
  <2> DEFINE new == [row EXCEPT !.at = "ended"]
  <2>1. new \in Row /\ new.at = "ended"
    BY <1>0, RowFields, PlaceValues
  <2>2. admitted' = [admitted EXCEPT ![r] = new] /\ UNCHANGED <<deployment, slots, creator, askedAgain>>
        /\ row.at # "executing"
    BY <1>0, <1>5 DEF CancelAdmitted, RunGoes
  <2> HIDE DEF new
  <2> QED BY <2>1, <2>2, RunMovesOn DEF Inactive
<1> QED BY <1>1, <1>2, <1>3, <1>4, <1>5

\* A slot is taken or given back, or an operator brings a run back.
LEMMA SlotStepKeeps ==
  ASSUME AdmissionInv, NEW r \in Admitted, NEW row \in Row, admitted' = [admitted EXCEPT ![r] = row],
         UNCHANGED <<deployment, creator>>, askedAgain' \in 0..MaxAskedAgain,
         askedAgain' = askedAgain
           \/ (askedAgain' = askedAgain + 1 /\ row.at # "executing" /\ admitted[r].at # "executing"),
         row.at \notin Inactive /\ admitted[r].at \in Inactive => askedAgain' = askedAgain + 1,
         slots' = IF row.at = "executing"
                  THEN IF admitted[r].at = "executing" THEN slots ELSE slots + 1
                  ELSE IF admitted[r].at = "executing" THEN slots - 1 ELSE slots,
         slots' <= MaxConcurrentRuns
  PROVE  AdmissionInv'
<1>1. Allowed' = Allowed
  BY DEF Allowed
<1>2. askedAgain \in Nat
  BY AdmissionConstants DEF AdmissionInv
<1>3. creator' \in [Creator -> {"idle", "counting", "allowed"}]
  BY DEF AdmissionInv
<1>4. Cardinality(Allowed') + (IF row.at \notin Inactive /\ admitted[r].at \in Inactive THEN 1 ELSE 0)
        <= Cardinality(Allowed) + askedAgain' - askedAgain
  BY <1>1, <1>2, AdmissionCounts
<1>5. askedAgain' >= askedAgain
  BY <1>2
<1>6. Cardinality(Allowed') \in Nat
  BY <1>1, AdmissionCounts
<1> QED BY <1>3, <1>4, <1>5, <1>6, OneRunKeeps
LEMMA StartAdmittedKeeps ==
  ASSUME AdmissionInv, NEW r \in Admitted, StartAdmitted(r)
  PROVE  AdmissionInv'
<1> DEFINE row == admitted[r]
<1>0. /\ row \in Row /\ admitted \in [Admitted -> Row] /\ askedAgain \in 0..MaxAskedAgain
      /\ slots <= MaxConcurrentRuns /\ slots \in Nat /\ MaxConcurrentRuns \in Nat
  BY AdmissionCounts, AdmissionConstants DEF AdmissionInv
<1>1. row.at \in {"queued", "allowed"} /\ UNCHANGED <<deployment, creator, askedAgain>>
  BY DEF StartAdmitted
<1>2. Failed(r, row) \in Row /\ Failed(r, row).at \in {"queued", "left"}
  BY <1>0, FailedRow
<1>3. CASE row.locked
  <2>1. admitted' = [admitted EXCEPT ![r] = Failed(r, row)] /\ UNCHANGED slots
    BY <1>3 DEF StartAdmitted
  <2> QED BY <1>1, <1>2, <2>1, RunMovesOn DEF Inactive
<1>4. CASE ~row.locked /\ slots >= MaxConcurrentRuns
  <2> DEFINE base == Failed(r, row)
             new == [base EXCEPT !.locked = TRUE]
  <2>1. admitted' = [admitted EXCEPT ![r] = new] /\ UNCHANGED slots
    BY <1>4 DEF StartAdmitted
  <2> HIDE DEF base
  <2>2. base \in Row /\ base.at \in {"queued", "left"}
    BY <1>2 DEF base
  <2>3. new \in Row /\ new.at = base.at
    BY <2>2, RowFields
  <2> HIDE DEF new
  <2> QED BY <1>1, <2>1, <2>2, <2>3, RunMovesOn DEF Inactive
<1>5. CASE ~row.locked /\ ~(slots >= MaxConcurrentRuns)
  <2> DEFINE moved == [row EXCEPT !.at = "executing"]
             started == [moved EXCEPT !.begun = TRUE]
             new == [started EXCEPT !.locked = TRUE]
  <2>1. admitted' = [admitted EXCEPT ![r] = new] /\ slots' = slots + 1
    BY <1>0, <1>5 DEF StartAdmitted, Row
  <2>2. moved \in Row /\ moved.at = "executing"
    BY <1>0, RowFields, PlaceValues
  <2> HIDE DEF moved
  <2>3. started \in Row /\ started.at = "executing"
    BY <2>2, RowFields
  <2> HIDE DEF started
  <2>4. new \in Row /\ new.at = "executing"
    BY <2>3, RowFields
  <2> HIDE DEF new
  <2>5. slots' <= MaxConcurrentRuns
    BY <1>0, <1>5, <2>1
  <2>6. row.at # "executing" /\ row.at \notin Inactive
    BY <1>1 DEF Inactive
  <2>7. slots' = IF new.at = "executing"
                 THEN IF admitted[r].at = "executing" THEN slots ELSE slots + 1
                 ELSE IF admitted[r].at = "executing" THEN slots - 1 ELSE slots
    BY <2>1, <2>4, <2>6
  <2> QED BY <1>0, <1>1, <2>1, <2>4, <2>5, <2>6, <2>7, SlotStepKeeps
<1> QED BY <1>3, <1>4, <1>5

LEMMA EndAdmittedKeeps ==
  ASSUME AdmissionInv, NEW r \in Admitted, EndAdmitted(r)
  PROVE  AdmissionInv'
<1>0. /\ admitted[r] \in Row /\ askedAgain \in 0..MaxAskedAgain /\ slots <= MaxConcurrentRuns
      /\ slots = Cardinality(Executing) /\ slots \in Nat /\ MaxConcurrentRuns \in Nat
  BY AdmissionCounts, AdmissionConstants DEF AdmissionInv
<1>1. admitted[r].at = "executing" /\ UNCHANGED <<deployment, creator, askedAgain>>
  BY DEF EndAdmitted
<1>2. PICK row \in {[admitted[r] EXCEPT !.at = place] : place \in {"ended", "failed", "parked"}}
                   \cup {Failed(r, admitted[r])} :
             admitted' = [admitted EXCEPT ![r] = [row EXCEPT !.locked = FALSE]]
  BY DEF EndAdmitted
<1>3. row \in Row /\ row.at \in {"ended", "failed", "parked", "queued", "left"}
  <2>1. CASE row = Failed(r, admitted[r])
    BY <2>1, <1>0, FailedRow
  <2>2. ASSUME NEW place \in {"ended", "failed", "parked"}, row = [admitted[r] EXCEPT !.at = place]
        PROVE  row \in Row /\ row.at = place
    BY <2>2, <1>0, RowFields, PlaceValues
  <2> QED BY <2>1, <2>2
<1> DEFINE new == [row EXCEPT !.locked = FALSE]
<1>4. new \in Row /\ new.at = row.at
  BY <1>3, RowFields
<1> HIDE DEF new
<1>5. slots # 0
  <2>1. r \in Executing
    BY <1>1 DEF Executing
  <2> QED BY <1>0, <2>1, AdmissionCounts, FS_EmptySet
<1>6. slots' = slots - 1
  BY <1>0, <1>5 DEF EndAdmitted
<1>7. admitted' = [admitted EXCEPT ![r] = new]
  BY <1>2 DEF new
<1>8. slots' <= MaxConcurrentRuns
  BY <1>0, <1>6
<1>9. new.at # "executing" /\ admitted[r].at \notin Inactive
  BY <1>1, <1>3, <1>4 DEF Inactive
<1>10. slots' = IF new.at = "executing"
                THEN IF admitted[r].at = "executing" THEN slots ELSE slots + 1
                ELSE IF admitted[r].at = "executing" THEN slots - 1 ELSE slots
  BY <1>1, <1>6, <1>9
<1> QED BY <1>0, <1>1, <1>4, <1>7, <1>8, <1>9, <1>10, SlotStepKeeps

LEMMA BringBackKeeps ==
  ASSUME AdmissionInv, NEW r \in Admitted, BringBack(r)
  PROVE  AdmissionInv'
<1> DEFINE row == admitted[r]
           moved == [row EXCEPT !.at = "queued"]
           new == [moved EXCEPT !.begun = FALSE]
<1>0. /\ row \in Row /\ admitted \in [Admitted -> Row] /\ askedAgain \in 0..MaxAskedAgain
      /\ slots <= MaxConcurrentRuns /\ MaxAskedAgain \in Nat
  BY AdmissionConstants DEF AdmissionInv
<1>1. /\ row.at \in {"parked", "failed"} /\ askedAgain < MaxAskedAgain
      /\ admitted' = [admitted EXCEPT ![r] = new]
      /\ askedAgain' = askedAgain + 1 /\ UNCHANGED <<deployment, slots, creator>>
  BY <1>0 DEF BringBack, Row
<1>2. moved \in Row /\ moved.at = "queued"
  BY <1>0, RowFields, PlaceValues
<1> HIDE DEF moved
<1>3. new \in Row /\ new.at = "queued"
  BY <1>2, RowFields
<1> HIDE DEF new
<1>4. row.at # "executing" /\ askedAgain' \in 0..MaxAskedAgain /\ slots' <= MaxConcurrentRuns
  BY <1>0, <1>1
<1>5. slots' = IF new.at = "executing"
               THEN IF admitted[r].at = "executing" THEN slots ELSE slots + 1
               ELSE IF admitted[r].at = "executing" THEN slots - 1 ELSE slots
  BY <1>1, <1>3, <1>4
<1> QED BY <1>1, <1>3, <1>4, <1>5, SlotStepKeeps

LEMMA AdmissionKeeps ==
  ASSUME AdmissionInv, [AdmissionNext]_AdmissionVars
  PROVE  AdmissionInv'
<1>1. CASE UNCHANGED AdmissionVars
  BY <1>1 DEF AdmissionVars, AdmissionInv, Active, Executing, Allowed
<1> QED BY <1>1, CreatorKeeps, CheckingKeeps, StartAdmittedKeeps, EndAdmittedKeeps, BringBackKeeps
        DEF AdmissionNext, AdmissionStep

LEMMA AdmissionFollows ==
  ASSUME AdmissionInv
  PROVE  AdmissionTypeOK /\ SlotsAreExecutions /\ OvershootIsBounded
<1>1. Being({"executing"}) = Executing /\ {c \in Creator : creator[c] = "allowed"} = Allowed
  BY DEF Being, Executing, Allowed
<1>2. SlotsAreExecutions
  BY <1>1 DEF SlotsAreExecutions, AdmissionInv
<1>3. OvershootIsBounded
  BY <1>1, ActiveRunsAreActive DEF OvershootIsBounded, AdmissionInv
<1>4. AdmissionTypeOK
  <2>1. \A r \in Admitted : admitted[r] \in Row
    BY DEF AdmissionInv
  <2>2. slots \in 0..Cardinality(Admitted)
    BY AdmissionCounts, AdmissionConstants DEF AdmissionInv
  <2> QED BY <2>1, <2>2 DEF AdmissionTypeOK, AdmissionInv, Row, AdmittedPlace, Attempts
<1> QED BY <1>2, <1>3, <1>4
-----------------------------------------------------------------------------
(* A list without repetitions: what adding to it and taking from it leaves.   *)

LEMMA AppendToList ==
  ASSUME NEW S, NEW s \in Seq(S), IsInjective(s), NEW x \in S, x \notin ToSet(s)
  PROVE  Append(s, x) \in Seq(S) /\ IsInjective(Append(s, x)) /\ ToSet(Append(s, x)) = ToSet(s) \cup {x}
<1> DEFINE t == Append(s, x)
<1>1. t \in Seq(S) /\ Len(t) = Len(s) + 1 /\ t[Len(s) + 1] = x /\ \A i \in 1..Len(s) : t[i] = s[i]
  OBVIOUS
<1>2. DOMAIN t = 1..Len(s) + 1 /\ DOMAIN s = 1..Len(s) /\ Len(s) \in Nat
  BY <1>1
<1> HIDE DEF t
<1>3. \A i \in DOMAIN t : i \in DOMAIN s \/ i = Len(s) + 1
  BY <1>2
<1>4. IsInjective(t)
  BY <1>1, <1>2, <1>3 DEF IsInjective, ToSet
<1>5. ToSet(t) = ToSet(s) \cup {x}
  BY <1>1, <1>2, <1>3 DEF ToSet
<1> QED BY <1>1, <1>4, <1>5 DEF t

LEMMA TailOfList ==
  ASSUME NEW S, NEW s \in Seq(S), IsInjective(s), s # << >>
  PROVE  /\ Tail(s) \in Seq(S) /\ IsInjective(Tail(s)) /\ ToSet(Tail(s)) = ToSet(s) \ {Head(s)}
         /\ Head(s) \in ToSet(s)
<1> DEFINE t == Tail(s)
<1>1. t \in Seq(S) /\ Len(s) > 0 /\ Len(t) = Len(s) - 1 /\ \A i \in 1..Len(s) - 1 : t[i] = s[i + 1]
  OBVIOUS
<1>2. DOMAIN t = 1..Len(s) - 1 /\ DOMAIN s = 1..Len(s) /\ Len(s) \in Nat /\ Head(s) = s[1] /\ 1 \in DOMAIN s
  BY <1>1
<1> HIDE DEF t
<1>3. \A i \in DOMAIN t : i + 1 \in DOMAIN s /\ i + 1 # 1 /\ t[i] = s[i + 1]
  BY <1>1, <1>2
<1>4. \A i \in DOMAIN s : i = 1 \/ (i - 1 \in DOMAIN t /\ t[i - 1] = s[i])
  BY <1>1, <1>2
<1>5. IsInjective(t)
  BY <1>2, <1>3 DEF IsInjective
<1>6. ToSet(t) \subseteq ToSet(s) \ {s[1]}
  BY <1>2, <1>3 DEF ToSet, IsInjective
<1>7. ToSet(s) \ {s[1]} \subseteq ToSet(t)
  BY <1>4 DEF ToSet
<1>8. Head(s) \in ToSet(s)
  BY <1>2 DEF ToSet
<1> QED BY <1>1, <1>2, <1>5, <1>6, <1>7, <1>8 DEF t

LEMMA RemoveFromList ==
  ASSUME NEW S, NEW s \in Seq(S), IsInjective(s), NEW x, x \in ToSet(s)
  PROVE  RemoveFirst(s, x) \in Seq(S) /\ IsInjective(RemoveFirst(s, x)) /\ ToSet(RemoveFirst(s, x)) = ToSet(s) \ {x}
<1>1. PICK k \in 1..Len(s) : s[k] = x
  BY DEF ToSet
<1>2. {i \in 1..Len(s) : s[i] = x} = {k}
  BY <1>1 DEF IsInjective
<1>3. SelectInSeq(s, LAMBDA v : v = x) = k
  <2>1. Min({k}) = k
    BY DEF Min
  <2> QED BY <1>2, <2>1 DEF SelectInSeq
<1> DEFINE t == SubSeq(s, 1, k - 1) \o SubSeq(s, k + 1, Len(s))
<1>4. RemoveFirst(s, x) = t
  BY <1>1, <1>3 DEF RemoveFirst, RemoveAt
<1> DEFINE a == SubSeq(s, 1, k - 1)
           b == SubSeq(s, k + 1, Len(s))
<1>5. /\ t \in Seq(S) /\ Len(t) = Len(s) - 1
      /\ \A i \in 1..Len(s) - 1 : t[i] = IF i < k THEN s[i] ELSE s[i + 1]
  <2>1. a \in Seq(S) /\ Len(a) = k - 1 /\ \A i \in 1..k - 1 : a[i] = s[i]
    BY <1>1
  <2>2. b \in Seq(S) /\ Len(b) = Len(s) - k /\ \A i \in 1..Len(s) - k : b[i] = s[k + i]
    BY <1>1
  <2>3. t = a \o b
    OBVIOUS
  <2> HIDE DEF a, b, t
  <2>4. t \in Seq(S) /\ Len(t) = Len(a) + Len(b)
    BY <2>1, <2>2, <2>3, ConcatProperties
  <2>5. \A i \in 1..Len(a) + Len(b) : t[i] = IF i <= Len(a) THEN a[i] ELSE b[i - Len(a)]
    BY <2>1, <2>2, <2>3, ConcatProperties
  <2>6. Len(t) = Len(s) - 1 /\ k \in Nat /\ Len(s) \in Nat /\ k <= Len(s) /\ 1 <= k
    BY <1>1, <2>1, <2>2, <2>4
  <2>7. ASSUME NEW i \in 1..Len(s) - 1 PROVE t[i] = IF i < k THEN s[i] ELSE s[i + 1]
    <3>1. CASE i < k
      <4>1. i \in 1..k - 1 /\ i \in 1..Len(a) + Len(b) /\ i <= Len(a)
        BY <3>1, <2>1, <2>2, <2>6
      <4> QED BY <3>1, <4>1, <2>1, <2>5
    <3>2. CASE ~(i < k)
      <4>1. i - (k - 1) \in 1..Len(s) - k /\ i \in 1..Len(a) + Len(b) /\ ~(i <= Len(a)) /\ i - Len(a) = i - (k - 1)
            /\ k + (i - (k - 1)) = i + 1
        BY <3>2, <2>1, <2>2, <2>6
      <4> QED BY <3>2, <4>1, <2>2, <2>5
    <3> QED BY <3>1, <3>2
  <2> QED BY <2>4, <2>6, <2>7
<1> HIDE DEF t
<1>6. DOMAIN t = 1..Len(s) - 1 /\ DOMAIN s = 1..Len(s) /\ Len(s) \in Nat
  BY <1>5
<1> DEFINE was(i) == IF i < k THEN i ELSE i + 1
<1>7. \A i \in DOMAIN t : was(i) \in DOMAIN s /\ was(i) # k /\ t[i] = s[was(i)]
  BY <1>1, <1>5, <1>6
<1>8. \A i, j \in DOMAIN t : was(i) = was(j) => i = j
  BY <1>1, <1>6
<1>9. \A i \in DOMAIN s : i # k => \E j \in DOMAIN t : was(j) = i
  <2> SUFFICES ASSUME NEW i \in DOMAIN s, i # k
               PROVE  \E j \in DOMAIN t : was(j) = i
    OBVIOUS
  <2>1. CASE i < k
    BY <2>1, <1>1, <1>6
  <2>2. CASE i > k
    <3>1. i - 1 \in DOMAIN t /\ was(i - 1) = i
      BY <2>2, <1>1, <1>6
    <3> QED BY <3>1
  <2> QED BY <2>1, <2>2, <1>1, <1>6
<1> HIDE DEF was
<1>10. IsInjective(t)
  BY <1>7, <1>8 DEF IsInjective
<1>11. ToSet(t) \subseteq ToSet(s) \ {x}
  BY <1>1, <1>6, <1>7 DEF ToSet, IsInjective
<1>12. ToSet(s) \ {x} \subseteq ToSet(t)
  BY <1>1, <1>7, <1>9 DEF ToSet
<1> QED BY <1>4, <1>5, <1>10, <1>11, <1>12
-----------------------------------------------------------------------------
(* The lock: every token was handed to one caller, and a holder whose token is *)
(* no longer the entry's is one whose time ran out.                            *)

ContenderPlace == {"idle", "trying", "waiting", "holding", "refused"}
Token == 0..MaxAcquires
Lapses == 0..MaxLapses
WaitingList == Seq(Contender)
ContenderOf == [at : ContenderPlace, token : Token, waits : BOOLEAN, aborted : BOOLEAN, lapsed : BOOLEAN]
LockOf == [token : Token, lapsed : BOOLEAN, waiting : WaitingList, taken : Token, lapses : Lapses]

LockShape == lock \in LockOf /\ contender \in [Contender -> ContenderOf]

TokensAreHandedOnce ==
  /\ lock.token <= lock.taken
  /\ \A c \in Contender :
       /\ contender[c].token <= lock.taken
       /\ Holding(c) => contender[c].token > 0
       /\ ~Holding(c) => ~contender[c].lapsed
       /\ Holding(c) /\ (contender[c].token # lock.token \/ lock.lapsed) => contender[c].lapsed
       /\ \A d \in Contender \ {c} : Holding(c) /\ Holding(d) => contender[c].token # contender[d].token

LockInv == LockShape /\ TokensAreHandedOnce /\ WaitersAreListed

LEMMA LockFields ==
  ASSUME NEW one \in LockOf
  PROVE  /\ \A v \in Token : [one EXCEPT !.token = v] \in LockOf
         /\ \A v \in BOOLEAN : [one EXCEPT !.lapsed = v] \in LockOf
         /\ \A v \in WaitingList : [one EXCEPT !.waiting = v] \in LockOf
         /\ \A v \in Token : [one EXCEPT !.taken = v] \in LockOf
         /\ \A v \in Lapses : [one EXCEPT !.lapses = v] \in LockOf
BY DEF LockOf

LEMMA ContenderFields ==
  ASSUME NEW one \in ContenderOf
  PROVE  /\ \A v \in ContenderPlace : [one EXCEPT !.at = v] \in ContenderOf
         /\ \A v \in Token : [one EXCEPT !.token = v] \in ContenderOf
         /\ \A v \in BOOLEAN : [one EXCEPT !.waits = v] \in ContenderOf
         /\ \A v \in BOOLEAN : [one EXCEPT !.aborted = v] \in ContenderOf
         /\ \A v \in BOOLEAN : [one EXCEPT !.lapsed = v] \in ContenderOf
BY DEF ContenderOf

LEMMA ContenderValues ==
  /\ {"idle", "trying", "waiting", "holding", "refused"} \subseteq ContenderPlace
  /\ 0 \in Token /\ 0 \in Lapses /\ << >> \in WaitingList /\ Nobody \in ContenderOf
<1>1. 0 \in Token /\ 0 \in Lapses
  BY LockManagerAssumption DEF Token, Lapses
<1>2. "idle" \in ContenderPlace /\ {"idle", "trying", "waiting", "holding", "refused"} \subseteq ContenderPlace
  BY DEF ContenderPlace
<1>3. << >> \in WaitingList
  BY DEF WaitingList
<1>4. Nobody \in ContenderOf
  BY <1>1, <1>2 DEF Nobody, ContenderOf
<1> QED BY <1>1, <1>2, <1>3, <1>4

LEMMA LockStarts == LockManagerInit => LockInv
<1> SUFFICES ASSUME LockManagerInit
             PROVE  LockInv
  OBVIOUS
<1>1. lock \in LockOf
  BY ContenderValues DEF LockManagerInit, LockOf
<1>2. contender \in [Contender -> ContenderOf] /\ \A c \in Contender : contender[c] = Nobody
  BY ContenderValues DEF LockManagerInit
<1>3. TokensAreHandedOnce
  BY <1>2 DEF LockManagerInit, TokensAreHandedOnce, Nobody, Holding
<1>4. WaitersAreListed
  BY <1>2 DEF LockManagerInit, WaitersAreListed, Nobody, IsInjective, ToSet
<1> QED BY <1>1, <1>2, <1>3, <1>4 DEF LockInv, LockShape

\* A caller that goes on without the lock, and whose place in the list changes
\* with it, leaves the tokens as they are.
LEMMA OneContenderKeeps ==
  ASSUME LockInv, NEW c \in Contender, NEW new \in ContenderOf,
         contender' = [contender EXCEPT ![c] = new],
         new.at # "holding", new.token <= lock.taken, ~new.lapsed,
         lock' \in LockOf, lock'.token = lock.token, lock'.lapsed = lock.lapsed, lock'.taken = lock.taken
  PROVE  LockShape' /\ TokensAreHandedOnce'
<1>1. contender' \in [Contender -> ContenderOf] /\ contender'[c] = new
      /\ \A d \in Contender \ {c} : contender'[d] = contender[d]
  BY DEF LockInv, LockShape
<1> QED BY <1>1 DEF LockInv, LockShape, TokensAreHandedOnce, Holding

LEMMA ListIsKept ==
  ASSUME LockInv, NEW c \in Contender,
         contender' \in [Contender -> ContenderOf], contender[c].at # "waiting",
         contender'[c].at # "waiting", \A d \in Contender \ {c} : contender'[d].at = contender[d].at,
         lock'.waiting = lock.waiting
  PROVE  WaitersAreListed'
BY DEF LockInv, WaitersAreListed

LEMMA AskForLockKeeps ==
  ASSUME LockInv, NEW c \in Contender, (\E waits \in BOOLEAN : AcquireLock(c, waits)) \/ AbortAcquire(c)
  PROVE  LockInv'
<1>1. contender[c] \in ContenderOf /\ lock \in LockOf
  BY DEF LockInv, LockShape
<1>2. CASE \E waits \in BOOLEAN : AcquireLock(c, waits)
  <2>1. PICK waits \in BOOLEAN : AcquireLock(c, waits)
    BY <1>2
  <2> DEFINE tries == [Nobody EXCEPT !.at = "trying"]
             new == [Nobody EXCEPT !.at = "trying", !.waits = waits]
  <2>2. tries \in ContenderOf /\ tries.token = 0 /\ ~tries.lapsed /\ tries.at = "trying"
    BY ContenderValues, ContenderFields DEF Nobody
  <2>3. new = [tries EXCEPT !.waits = waits]
    BY DEF Nobody
  <2>4. new \in ContenderOf /\ new.token = 0 /\ ~new.lapsed /\ new.at = "trying"
    BY <2>2, <2>3, ContenderFields DEF ContenderOf
  <2>5. contender' = [contender EXCEPT ![c] = new] /\ lock' = lock /\ contender[c].at = "idle"
    BY <2>1 DEF AcquireLock
  <2> HIDE DEF tries, new
  <2>6. LockShape' /\ TokensAreHandedOnce'
    <3>1. lock.taken \in Nat /\ 0 <= lock.taken
      BY <1>1 DEF LockOf, Token
    <3> QED BY <3>1, <1>1, <2>4, <2>5, OneContenderKeeps
  <2>7. contender'[c] = new /\ \A d \in Contender \ {c} : contender'[d] = contender[d]
    BY <2>5 DEF LockInv, LockShape
  <2>8. WaitersAreListed'
    BY <2>4, <2>5, <2>6, <2>7, ListIsKept DEF LockShape
  <2> QED BY <2>6, <2>8 DEF LockInv
<1>3. CASE AbortAcquire(c)
  <2> DEFINE new == [contender[c] EXCEPT !.aborted = TRUE]
  <2>1. contender' = [contender EXCEPT ![c] = new] /\ lock' = lock /\ contender[c].at \in {"trying", "waiting"}
    BY <1>3 DEF AbortAcquire
  <2>2. new \in ContenderOf /\ new.at = contender[c].at /\ new.token = contender[c].token
        /\ new.lapsed = contender[c].lapsed
    BY <1>1, ContenderFields DEF ContenderOf
  <2> HIDE DEF new
  <2>3. new.token <= lock.taken /\ ~new.lapsed /\ new.at # "holding"
    BY <2>1, <2>2 DEF LockInv, TokensAreHandedOnce, Holding
  <2>4. LockShape' /\ TokensAreHandedOnce'
    BY <1>1, <2>1, <2>2, <2>3, OneContenderKeeps
  <2>5. \A d \in Contender : contender'[d].at = contender[d].at
    BY <2>1, <2>2 DEF LockInv, LockShape
  <2>6. WaitersAreListed'
    BY <2>1, <2>5 DEF LockInv, WaitersAreListed
  <2> QED BY <2>4, <2>6 DEF LockInv
<1> QED BY <1>2, <1>3

\* Whoever takes the key finds only holders whose time ran out, and the token it
\* is given is above all of theirs.
LEMMA TakeLockKeeps ==
  ASSUME LockInv, NEW c \in Contender, TakeLock(c)
  PROVE  LockInv'
<1> DEFINE token == lock.taken + 1
           first == [lock EXCEPT !.token = token]
           second == [first EXCEPT !.lapsed = FALSE]
           holds == [contender[c] EXCEPT !.at = "holding"]
           new == [holds EXCEPT !.token = token]
<1>1. contender[c] \in ContenderOf /\ lock \in LockOf /\ contender[c].at = "trying" /\ (lock.token = 0 \/ lock.lapsed)
  BY DEF LockInv, LockShape, TakeLock
<1>2. token \in Token /\ lock.taken \in Nat
  BY <1>1, LockManagerAssumption DEF TakeLock, Token, LockOf
<1>3. first \in LockOf /\ first.token = token /\ first.lapsed = lock.lapsed /\ first.taken = lock.taken
      /\ first.waiting = lock.waiting
  BY <1>1, <1>2, LockFields DEF LockOf
<1>4. holds \in ContenderOf /\ holds.at = "holding" /\ holds.lapsed = contender[c].lapsed
  BY <1>1, ContenderValues, ContenderFields DEF ContenderOf
<1>5. lock' = [second EXCEPT !.taken = token]
  BY <1>1 DEF TakeLock, LockOf
<1>6. contender' = [contender EXCEPT ![c] = new]
  BY DEF TakeLock, LockInv, LockShape
<1> HIDE DEF first, holds, token
<1>7. second \in LockOf /\ second.token = token /\ ~second.lapsed /\ second.waiting = lock.waiting
  BY <1>3, LockFields DEF LockOf
<1>8. new \in ContenderOf /\ new.at = "holding" /\ new.lapsed = contender[c].lapsed /\ new.token = token
  BY <1>2, <1>4, ContenderFields DEF ContenderOf
<1> HIDE DEF second, new
<1>9. lock' \in LockOf /\ lock'.token = token /\ ~lock'.lapsed /\ lock'.waiting = lock.waiting /\ lock'.taken = token
  BY <1>2, <1>5, <1>7, LockFields DEF LockOf
<1>10. contender' \in [Contender -> ContenderOf] /\ contender'[c] = new
       /\ \A d \in Contender \ {c} : contender'[d] = contender[d]
  BY <1>6, <1>8 DEF LockInv, LockShape
<1>11. ~contender[c].lapsed /\ \A d \in Contender : Holding(d) => contender[d].lapsed
  BY <1>1 DEF LockInv, TokensAreHandedOnce, Holding
<1>12. \A d \in Contender : contender[d].token <= lock.taken /\ contender[d].token \in Nat
  BY DEF LockInv, LockShape, TokensAreHandedOnce, ContenderOf, Token
<1>13. \A d \in Contender : contender[d].token < token /\ contender[d].token <= token /\ contender[d].token # token
  BY <1>2, <1>12 DEF token
<1>14. TokensAreHandedOnce'
  <2>1. token <= token /\ token > 0
    BY <1>2 DEF token
  <2>2. ASSUME NEW d \in Contender
        PROVE  /\ contender'[d].token <= lock'.taken
               /\ Holding(d)' => contender'[d].token > 0
               /\ ~Holding(d)' => ~contender'[d].lapsed
               /\ Holding(d)' /\ (contender'[d].token # lock'.token \/ lock'.lapsed) => contender'[d].lapsed
    <3>1. CASE d = c
      BY <3>1, <2>1, <1>8, <1>9, <1>10, <1>11 DEF Holding
    <3>2. CASE d # c
      BY <3>2, <1>9, <1>10, <1>11, <1>13 DEF Holding, LockInv, TokensAreHandedOnce
    <3> QED BY <3>1, <3>2
  <2>3. ASSUME NEW d \in Contender, NEW e \in Contender \ {d}, Holding(d)', Holding(e)'
        PROVE  contender'[d].token # contender'[e].token
    BY <2>3, <1>8, <1>10, <1>13 DEF Holding, LockInv, TokensAreHandedOnce
  <2> QED BY <2>1, <2>2, <2>3, <1>9 DEF TokensAreHandedOnce
<1>15. WaitersAreListed'
  BY <1>1, <1>8, <1>9, <1>10, ListIsKept
<1> QED BY <1>9, <1>10, <1>14, <1>15 DEF LockInv, LockShape

LEMMA FindHeldKeeps ==
  ASSUME LockInv, NEW c \in Contender, FindHeld(c)
  PROVE  LockInv'
<1>1. contender[c] \in ContenderOf /\ lock \in LockOf /\ contender[c].at = "trying"
  BY DEF LockInv, LockShape, FindHeld
<1>2. contender[c].token <= lock.taken /\ ~contender[c].lapsed
  BY <1>1 DEF LockInv, TokensAreHandedOnce, Holding
<1>3. CASE Goes(c, "refused") /\ UNCHANGED lock
  <2> DEFINE new == [contender[c] EXCEPT !.at = "refused"]
  <2>1. contender' = [contender EXCEPT ![c] = new]
    BY <1>3 DEF Goes
  <2>2. new \in ContenderOf /\ new.at = "refused" /\ new.token = contender[c].token /\ ~new.lapsed
    BY <1>1, <1>2, ContenderFields, ContenderValues DEF ContenderOf
  <2> HIDE DEF new
  <2>3. LockShape' /\ TokensAreHandedOnce'
    BY <1>1, <1>2, <1>3, <2>1, <2>2, OneContenderKeeps
  <2>4. contender'[c] = new /\ \A d \in Contender \ {c} : contender'[d] = contender[d]
    BY <2>1 DEF LockInv, LockShape
  <2>5. WaitersAreListed'
    BY <1>1, <1>3, <2>2, <2>3, <2>4, ListIsKept DEF LockShape
  <2> QED BY <2>3, <2>5 DEF LockInv
<1>4. CASE Goes(c, "waiting") /\ lock' = [lock EXCEPT !.waiting = Append(@, c)]
  <2> DEFINE new == [contender[c] EXCEPT !.at = "waiting"]
             list == Append(lock.waiting, c)
  <2>1. contender' = [contender EXCEPT ![c] = new] /\ lock' = [lock EXCEPT !.waiting = list]
    BY <1>4 DEF Goes
  <2>2. new \in ContenderOf /\ new.at = "waiting" /\ new.token = contender[c].token /\ ~new.lapsed
    BY <1>1, <1>2, ContenderFields, ContenderValues DEF ContenderOf
  <2>3. lock.waiting \in Seq(Contender) /\ IsInjective(lock.waiting) /\ c \notin ToSet(lock.waiting)
        /\ ToSet(lock.waiting) = {d \in Contender : contender[d].at = "waiting"}
    BY <1>1 DEF LockInv, WaitersAreListed, LockOf, WaitingList
  <2>4. list \in WaitingList /\ IsInjective(list) /\ ToSet(list) = ToSet(lock.waiting) \cup {c}
    BY <2>3, AppendToList DEF WaitingList
  <2> HIDE DEF new, list
  <2>5. lock' \in LockOf /\ lock'.waiting = list /\ lock'.token = lock.token /\ lock'.lapsed = lock.lapsed
        /\ lock'.taken = lock.taken
    BY <1>1, <2>1, <2>4, LockFields DEF LockOf
  <2>6. LockShape' /\ TokensAreHandedOnce'
    BY <1>1, <1>2, <2>1, <2>2, <2>5, OneContenderKeeps
  <2>7. contender'[c] = new /\ \A d \in Contender \ {c} : contender'[d] = contender[d]
    BY <2>1 DEF LockInv, LockShape
  <2>8. WaitersAreListed'
    BY <2>2, <2>3, <2>4, <2>5, <2>7 DEF WaitersAreListed
  <2> QED BY <2>6, <2>8 DEF LockInv
<1> QED BY <1>3, <1>4 DEF FindHeld

LEMMA PollFiresKeeps ==
  ASSUME LockInv, NEW c \in Contender, PollFires(c)
  PROVE  LockInv'
<1>1. contender[c] \in ContenderOf /\ lock \in LockOf /\ contender[c].at = "waiting"
  BY DEF LockInv, LockShape, PollFires
<1>2. contender[c].token <= lock.taken /\ ~contender[c].lapsed
  BY <1>1 DEF LockInv, TokensAreHandedOnce, Holding
<1> DEFINE new == [contender[c] EXCEPT !.at = "trying"]
           list == RemoveFirst(lock.waiting, c)
<1>3. contender' = [contender EXCEPT ![c] = new] /\ lock' = [lock EXCEPT !.waiting = list]
  BY DEF Goes, PollFires, Without
<1>4. new \in ContenderOf /\ new.at = "trying" /\ new.token = contender[c].token /\ ~new.lapsed
  BY <1>1, <1>2, ContenderFields, ContenderValues DEF ContenderOf
<1>5. lock.waiting \in Seq(Contender) /\ IsInjective(lock.waiting) /\ c \in ToSet(lock.waiting)
      /\ ToSet(lock.waiting) = {d \in Contender : contender[d].at = "waiting"}
  BY <1>1 DEF LockInv, WaitersAreListed, LockOf, WaitingList
<1>6. list \in WaitingList /\ IsInjective(list) /\ ToSet(list) = ToSet(lock.waiting) \ {c}
  BY <1>5, RemoveFromList DEF WaitingList
<1> HIDE DEF new, list
<1>7. lock' \in LockOf /\ lock'.waiting = list /\ lock'.token = lock.token /\ lock'.lapsed = lock.lapsed
      /\ lock'.taken = lock.taken
  BY <1>1, <1>3, <1>6, LockFields DEF LockOf
<1>8. LockShape' /\ TokensAreHandedOnce'
  BY <1>1, <1>2, <1>3, <1>4, <1>7, OneContenderKeeps
<1>9. contender'[c] = new /\ \A d \in Contender \ {c} : contender'[d] = contender[d]
  BY <1>3 DEF LockInv, LockShape
<1>10. WaitersAreListed'
  BY <1>4, <1>5, <1>6, <1>7, <1>9 DEF WaitersAreListed
<1> QED BY <1>8, <1>10 DEF LockInv

\* Who gives its token back clears the entry only where it is its own, and no
\* other holder has that token; the first who waits leaves the list with it.
LEMMA ReleaseLockKeeps ==
  ASSUME LockInv, NEW c \in Contender, ReleaseLock(c)
  PROVE  LockInv'
<1> DEFINE list == IF lock.waiting = << >> THEN lock.waiting ELSE Tail(lock.waiting)
           own == lock.token = contender[c].token
           left == IF own THEN 0 ELSE lock.token
           stale == lock.lapsed /\ ~own
           first == [lock EXCEPT !.token = left]
           second == [first EXCEPT !.lapsed = stale]
<1>1. contender[c] \in ContenderOf /\ lock \in LockOf /\ contender[c].at = "holding" /\ contender[c].token > 0
  BY DEF LockInv, LockShape, ReleaseLock, Holding, TokensAreHandedOnce
<1>2. lock' = [second EXCEPT !.waiting = list]
  BY <1>1 DEF ReleaseLock, LockOf
<1>3. lock.waiting \in Seq(Contender) /\ IsInjective(lock.waiting)
      /\ ToSet(lock.waiting) = {d \in Contender : contender[d].at = "waiting"}
  BY <1>1 DEF LockInv, WaitersAreListed, LockOf, WaitingList
<1>4. list \in WaitingList /\ IsInjective(list)
      /\ ToSet(list) = {d \in ToSet(lock.waiting) : lock.waiting = << >> \/ d # Head(lock.waiting)}
  <2>1. CASE lock.waiting = << >>
    BY <2>1, <1>3 DEF WaitingList
  <2>2. CASE lock.waiting # << >>
    BY <2>2, <1>3, TailOfList DEF WaitingList
  <2> QED BY <2>1, <2>2
<1>5. left \in Token /\ stale \in BOOLEAN
  BY <1>1, ContenderValues DEF LockOf
<1> HIDE DEF list
<1>6. first \in LockOf /\ first.token = left /\ first.taken = lock.taken
  BY <1>1, <1>5, LockFields DEF LockOf
<1> HIDE DEF first, left
<1>7. second \in LockOf /\ second.token = left /\ second.lapsed = stale /\ second.taken = lock.taken
  BY <1>5, <1>6, LockFields DEF LockOf
<1> HIDE DEF second
<1>8. lock' \in LockOf /\ lock'.token = left /\ lock'.lapsed = stale /\ lock'.taken = lock.taken /\ lock'.waiting = list
  BY <1>2, <1>4, <1>7, LockFields DEF LockOf
<1> DEFINE woken(d) == lock.waiting # << >> /\ d = Head(lock.waiting)
<1>9. \A d \in Contender : d # c /\ woken(d) => contender[d].at = "waiting"
  <2>1. lock.waiting # << >> => Head(lock.waiting) \in ToSet(lock.waiting)
    BY <1>3, TailOfList
  <2> QED BY <2>1, <1>3
<1>10. \A d \in Contender \ {c} :
          /\ [contender[d] EXCEPT !.at = "trying"] \in ContenderOf
          /\ contender'[d] = IF woken(d) THEN [contender[d] EXCEPT !.at = "trying"] ELSE contender[d]
  BY ContenderFields, ContenderValues DEF LockInv, LockShape, ReleaseLock
<1>11. contender' \in [Contender -> ContenderOf] /\ contender'[c] = Nobody
  <2>1. contender'[c] = Nobody /\ contender' = [d \in Contender |-> contender'[d]]
    BY DEF ReleaseLock
  <2>2. \A d \in Contender : contender'[d] \in ContenderOf
    BY <2>1, <1>10, ContenderValues DEF LockInv, LockShape
  <2> QED BY <2>1, <2>2
<1>12. \A d \in Contender \ {c} :
          /\ contender'[d].at = IF woken(d) THEN "trying" ELSE contender[d].at
          /\ contender'[d].token = contender[d].token /\ contender'[d].lapsed = contender[d].lapsed
  BY <1>10 DEF LockInv, LockShape, ContenderOf
<1> HIDE DEF woken
<1>13. \A d \in Contender \ {c} : Holding(d)' <=> Holding(d)
  BY <1>9, <1>12 DEF Holding
<1>14. ~Holding(c)' /\ contender'[c].token = 0 /\ ~contender'[c].lapsed /\ contender'[c].at = "idle"
  BY <1>11 DEF Holding, Nobody
<1>15. TokensAreHandedOnce'
  <2>1. 0 <= lock.taken /\ left <= lock.taken /\ lock.token <= lock.taken
    BY <1>1 DEF LockInv, TokensAreHandedOnce, LockOf, Token, left
  <2>2. ASSUME NEW d \in Contender
        PROVE  /\ contender'[d].token <= lock'.taken
               /\ Holding(d)' => contender'[d].token > 0
               /\ ~Holding(d)' => ~contender'[d].lapsed
    <3>1. CASE d = c
      BY <3>1, <2>1, <1>8, <1>14
    <3>2. CASE d # c
      BY <3>2, <1>8, <1>12, <1>13 DEF LockInv, TokensAreHandedOnce
    <3> QED BY <3>1, <3>2
  <2>3. ASSUME NEW d \in Contender, Holding(d)', contender'[d].token # lock'.token \/ lock'.lapsed
        PROVE  contender'[d].lapsed
    <3>1. d # c /\ Holding(d) /\ Holding(c) /\ contender'[d].lapsed = contender[d].lapsed
      BY <2>3, <1>12, <1>13, <1>14 DEF ReleaseLock
    <3>2. contender[d].token # contender[c].token
      BY <3>1 DEF LockInv, TokensAreHandedOnce
    <3>3. contender[d].token # lock.token \/ lock.lapsed
      BY <2>3, <3>1, <3>2, <1>8, <1>12 DEF left, own
    <3> QED BY <3>1, <3>3 DEF LockInv, TokensAreHandedOnce
  <2>4. ASSUME NEW d \in Contender, NEW e \in Contender \ {d}, Holding(d)', Holding(e)'
        PROVE  contender'[d].token # contender'[e].token
    BY <2>4, <1>12, <1>13, <1>14 DEF LockInv, TokensAreHandedOnce
  <2> QED BY <2>1, <2>2, <2>3, <2>4, <1>8 DEF TokensAreHandedOnce
<1>16. WaitersAreListed'
  <2>1. ToSet(list) = {d \in Contender : contender[d].at = "waiting" /\ ~woken(d)}
    BY <1>3, <1>4 DEF woken
  <2>2. \A d \in Contender : contender'[d].at = "waiting" <=> contender[d].at = "waiting" /\ ~woken(d)
    BY <1>1, <1>12, <1>14
  <2> QED BY <2>1, <2>2, <1>4, <1>8 DEF WaitersAreListed
<1> QED BY <1>8, <1>11, <1>15, <1>16 DEF LockInv, LockShape

LEMMA ExtendLockKeeps ==
  ASSUME LockInv, NEW c \in Contender, ExtendLock(c)
  PROVE  LockInv'
<1> DEFINE new == [contender[c] EXCEPT !.lapsed = FALSE]
<1>1. contender[c] \in ContenderOf /\ lock \in LockOf /\ Holding(c) /\ lock.token = contender[c].token
  BY DEF LockInv, LockShape, ExtendLock
<1>2. lock' = [lock EXCEPT !.lapsed = FALSE] /\ contender' = [contender EXCEPT ![c] = new]
  BY DEF ExtendLock
<1>3. new \in ContenderOf /\ new.at = contender[c].at /\ new.token = contender[c].token /\ ~new.lapsed
  BY <1>1, ContenderFields DEF ContenderOf
<1>4. lock' \in LockOf /\ lock'.token = lock.token /\ ~lock'.lapsed /\ lock'.taken = lock.taken
      /\ lock'.waiting = lock.waiting
  BY <1>1, <1>2, LockFields DEF LockOf
<1> HIDE DEF new
<1>5. contender' \in [Contender -> ContenderOf] /\ contender'[c] = new
      /\ \A d \in Contender \ {c} : contender'[d] = contender[d]
  BY <1>2, <1>3 DEF LockInv, LockShape
<1>6. \A d \in Contender : contender'[d].token = contender[d].token /\ contender'[d].at = contender[d].at
  BY <1>3, <1>5
<1>7. TokensAreHandedOnce'
  <2>1. \A d \in Contender : Holding(d)' <=> Holding(d)
    BY <1>6 DEF Holding
  <2>2. \A d \in Contender : ~Holding(d)' => ~contender'[d].lapsed
    BY <2>1, <1>1, <1>5 DEF LockInv, TokensAreHandedOnce
  <2>3. \A d \in Contender : Holding(d)' /\ (contender'[d].token # lock'.token \/ lock'.lapsed) => contender'[d].lapsed
    BY <2>1, <1>1, <1>4, <1>5, <1>6 DEF LockInv, TokensAreHandedOnce
  <2> QED BY <2>1, <2>2, <2>3, <1>4, <1>6 DEF LockInv, TokensAreHandedOnce
<1>8. WaitersAreListed'
  BY <1>4, <1>6 DEF LockInv, WaitersAreListed
<1> QED BY <1>4, <1>5, <1>7, <1>8 DEF LockInv, LockShape

LEMMA LockLapsesKeeps ==
  ASSUME LockInv, LockLapses
  PROVE  LockInv'
<1> DEFINE first == [lock EXCEPT !.lapsed = TRUE]
           late(d) == Holding(d) /\ contender[d].token = lock.token
<1>1. lock \in LockOf /\ lock' = [first EXCEPT !.lapses = lock.lapses + 1] /\ lock.lapses + 1 \in Lapses
  BY LockManagerAssumption DEF LockInv, LockShape, LockLapses, LockOf, Lapses
<1>2. first \in LockOf /\ first.token = lock.token /\ first.lapsed /\ first.taken = lock.taken
      /\ first.waiting = lock.waiting
  BY <1>1, LockFields DEF LockOf
<1> HIDE DEF first
<1>3. lock' \in LockOf /\ lock'.token = lock.token /\ lock'.lapsed /\ lock'.taken = lock.taken
      /\ lock'.waiting = lock.waiting
  BY <1>1, <1>2, LockFields DEF LockOf
<1>4. \A d \in Contender :
         /\ [contender[d] EXCEPT !.lapsed = TRUE] \in ContenderOf
         /\ contender'[d] = IF late(d) THEN [contender[d] EXCEPT !.lapsed = TRUE] ELSE contender[d]
  BY ContenderFields DEF LockInv, LockShape, LockLapses
<1>5. contender' \in [Contender -> ContenderOf]
  BY <1>4 DEF LockInv, LockShape, LockLapses
<1>6. \A d \in Contender : contender'[d].token = contender[d].token /\ contender'[d].at = contender[d].at
  BY <1>4 DEF LockInv, LockShape, ContenderOf
<1>7. \A d \in Contender : IF late(d) THEN contender'[d].lapsed ELSE contender'[d] = contender[d]
  BY <1>4 DEF LockInv, LockShape, ContenderOf
<1>8. TokensAreHandedOnce'
  <2>1. \A d \in Contender : Holding(d)' <=> Holding(d)
    BY <1>6 DEF Holding
  <2>2. \A d \in Contender : ~Holding(d)' => ~contender'[d].lapsed
    BY <2>1, <1>7 DEF LockInv, TokensAreHandedOnce
  <2>3. \A d \in Contender : Holding(d)' /\ (contender'[d].token # lock'.token \/ lock'.lapsed) => contender'[d].lapsed
    BY <2>1, <1>3, <1>6, <1>7 DEF LockInv, TokensAreHandedOnce
  <2> QED BY <2>1, <2>2, <2>3, <1>3, <1>6 DEF LockInv, TokensAreHandedOnce
<1>9. WaitersAreListed'
  BY <1>3, <1>6 DEF LockInv, WaitersAreListed
<1> QED BY <1>3, <1>5, <1>8, <1>9 DEF LockInv, LockShape

LEMMA LockKeeps == LockInv /\ [LockManagerNext]_LockManagerVars => LockInv'
<1> SUFFICES ASSUME LockInv, [LockManagerNext]_LockManagerVars
             PROVE  LockInv'
  OBVIOUS
<1>1. CASE UNCHANGED LockManagerVars
  BY <1>1 DEF LockManagerVars, LockInv, LockShape, TokensAreHandedOnce, WaitersAreListed, Holding
<1>2. CASE LockManagerNext
  BY <1>2, AskForLockKeeps, TakeLockKeeps, FindHeldKeeps, PollFiresKeeps, ReleaseLockKeeps, ExtendLockKeeps,
     LockLapsesKeeps DEF LockManagerNext
<1> QED BY <1>1, <1>2

LEMMA LockFollows == LockInv => LockManagerTypeOK /\ LockIsExclusive /\ WaitersAreListed
<1> SUFFICES ASSUME LockInv
             PROVE  LockManagerTypeOK /\ LockIsExclusive /\ WaitersAreListed
  OBVIOUS
<1>1. LockIsExclusive
  BY DEF LockInv, TokensAreHandedOnce, LockIsExclusive
<1>2. lock.token \in 0..MaxAcquires /\ lock.taken \in 0..MaxAcquires /\ lock.lapses \in 0..MaxLapses
      /\ lock.lapsed \in BOOLEAN
  BY DEF LockInv, LockShape, LockOf, Token, Lapses
<1>3. ToSet(lock.waiting) \subseteq Contender
  BY DEF LockInv, WaitersAreListed
<1>4. \A c \in Contender : contender[c] \in ContenderOf
  BY DEF LockInv, LockShape
<1>5. LockManagerTypeOK
  BY <1>2, <1>3, <1>4 DEF LockManagerTypeOK, ContenderOf, ContenderPlace, Token
<1> QED BY <1>1, <1>5 DEF LockInv

\* Nothing that several callers share takes more than it has: the gateway has no
\* more upstream requests than its limit, and every slot is an exchange's
\* (gateway/server.ts), a batch runs no more actions than its concurrency
\* (executor.ts), a lock has one holder whose time is not up (lock.ts), and
\* backpressure lets in no more runs than it can count of (backpressure.ts).
THEOREM LoadStaysInItsLimits == ServicesSpec => []LoadIsBounded
<1> DEFINE Inv == /\ part = "gateway" => GatewayInv
                  /\ part = "waves" => WavesInv
                  /\ part = "locks" => LockInv
                  /\ part = "admission" => AdmissionInv
<1>1. ServicesInit => Inv
  <2> SUFFICES ASSUME ServicesInit
               PROVE  Inv
    OBVIOUS
  <2>1. part = "waves" => \E d \in [BatchAction -> SUBSET BatchAction] : ActionWavesInit(d)
    BY DEF ServicesInit
  <2>2. GatewayInit /\ LockManagerInit /\ AdmissionInit
    BY DEF ServicesInit
  <2> QED BY <2>1, <2>2, GatewayStarts, WavesStart, LockStarts, AdmissionStarts
<1>2. Inv /\ [ServicesNext]_servicesVars => Inv'
  BY OnlyItsPartMoves, GatewayKeeps, WavesKeep, LockKeeps, AdmissionKeeps
<1>3. Inv => LoadIsBounded
  BY UpstreamLoadFollows, ConcurrencyFollows, LockFollows, AdmissionFollows DEF LoadIsBounded, Of
<1> QED BY <1>1, <1>2, <1>3, PTL DEF ServicesSpec
-----------------------------------------------------------------------------
(* Recovery.  What a session has counted stays below the limit wherever it may *)
(* still act, and an unsafe action that may still be run was run by fewer      *)
(* sessions than there are.                                                    *)

RecoveryPlace == {"act", "retry", "failed", "worked", "resumed", "parked", "ended"}
Journal == {"none", "executing", "failed", "succeeded"}
FaultOf == Faults \cup [kind : {f.kind : f \in Faults}, retryable : {FALSE}, idempotency : Idempotency, terminal : {FALSE}]
RecoveredAction == [journal : Journal, runs : Nat, rekeyed : BOOLEAN, opened : Journal]
StepNumber == 1..MaxRecoverySteps
SessionNumber == 1..MaxSessions
RecoveryOf == [at : RecoveryPlace, fault : FaultOf, tries : Nat, used : Nat, saved : Nat, steps : StepNumber,
               sessions : SessionNumber, retried : BOOLEAN, action : RecoveredAction]

MayTry == IF recoverySetting.limit = 0 THEN 1 ELSE recoverySetting.limit
Unsafe == recoverySetting.class \in {"non-idempotent", "unknown"}

\* Below the limit where the session acts, or has failed and is about to count.
TriesAreCounted(one) ==
  recoverySetting.limit # NoLimit => one.tries <= MayTry /\ (one.at \in {"act", "failed"} => one.tries < MayTry)

RunsAreCounted(one) ==
  Unsafe => /\ one.action.runs <= one.sessions
            /\ one.action.journal \in {"none", "executing"} => one.action.runs < one.sessions

RecoveryInv ==
  /\ recoverySetting \in RecoverySettings /\ recovery \in RecoveryOf
  /\ recovery.tries <= recovery.used
  /\ TriesAreCounted(recovery) /\ RunsAreCounted(recovery) /\ RetriesAreEarned

LEMMA RecoveryValues ==
  /\ {"act", "retry", "failed", "worked", "resumed", "parked", "ended"} \subseteq RecoveryPlace
  /\ {"none", "executing", "failed", "succeeded"} \subseteq Journal
  /\ 1 \in StepNumber /\ 1 \in SessionNumber
  /\ \A b \in BOOLEAN : NewAction(b) \in RecoveredAction
  /\ \A b \in BOOLEAN : NewAction(b).runs = 0 /\ NewAction(b).journal = "none" /\ NewAction(b).opened = "none"
BY RecoveryAssumption DEF RecoveryPlace, Journal, StepNumber, SessionNumber, NewAction, RecoveredAction

LEMMA FaultValues ==
  /\ NoFault \in FaultOf
  /\ \A f \in FaultOf : /\ f.retryable \in BOOLEAN /\ f.terminal \in BOOLEAN
                        /\ \A class \in Idempotency :
                             [f EXCEPT !.retryable = FALSE, !.terminal = FALSE, !.idempotency = class] \in FaultOf
<1>1. \E f \in Faults : f.kind = "unknown"
  <2> DEFINE f == [kind |-> "unknown", retryable |-> FALSE, idempotency |-> "unknown", terminal |-> FALSE]
  <2>1. f \in Errors("unknown", {FALSE}, {"unknown"}, FALSE)
    BY DEF Errors
  <2>2. f \in Faults /\ f.kind = "unknown"
    BY <2>1 DEF Faults
  <2> QED BY <2>2
<1>2. NoFault \in Faults
  BY <1>1 DEF NoFault
<1> DEFINE AnyKind == {"tool_unavailable", "invalid_arguments", "tool_timeout", "tool_failure", "provider_unavailable",
                       "authentication_failure", "environment_failure", "operation_timeout", "resource_exhausted",
                       "state_conflict", "policy_denied", "cancelled", "unknown"}
           AnyFault == [kind : AnyKind, retryable : BOOLEAN, idempotency : Idempotency, terminal : BOOLEAN]
<1>3. Faults \subseteq AnyFault
  <2>1. Errors("tool_unavailable", {FALSE}, {"idempotent"}, TRUE) \subseteq AnyFault
    BY DEF Errors, Idempotency
  <2>2. Errors("invalid_arguments", {FALSE}, {"idempotent"}, FALSE) \subseteq AnyFault
    BY DEF Errors, Idempotency
  <2>3. Errors("tool_timeout", {TRUE}, {"unknown"}, FALSE) \subseteq AnyFault
    BY DEF Errors, Idempotency
  <2>4. Errors("tool_failure", BOOLEAN, Idempotency \ {"idempotent"}, FALSE) \subseteq AnyFault
    BY DEF Errors, Idempotency
  <2>5. Errors("provider_unavailable", BOOLEAN, {"retry-safe"}, FALSE) \subseteq AnyFault
    BY DEF Errors, Idempotency
  <2>6. Errors("authentication_failure", {FALSE}, {"retry-safe"}, FALSE) \subseteq AnyFault
    BY DEF Errors, Idempotency
  <2>7. Errors("environment_failure", {FALSE}, {"unknown"}, FALSE) \subseteq AnyFault
    BY DEF Errors, Idempotency
  <2>8. Errors("operation_timeout", {TRUE}, {"unknown"}, FALSE) \subseteq AnyFault
    BY DEF Errors, Idempotency
  <2>9. Errors("resource_exhausted", {TRUE}, {"retry-safe"}, FALSE) \subseteq AnyFault
    BY DEF Errors, Idempotency
  <2>10. Errors("state_conflict", {FALSE}, {"idempotent"}, TRUE) \subseteq AnyFault
    BY DEF Errors, Idempotency
  <2>11. Errors("policy_denied", {FALSE}, {"idempotent"}, FALSE) \subseteq AnyFault
    BY DEF Errors, Idempotency
  <2>12. Errors("cancelled", {FALSE}, {"unknown"}, FALSE) \subseteq AnyFault
    BY DEF Errors, Idempotency
  <2>13. Errors("unknown", {FALSE}, {"unknown"}, FALSE) \subseteq AnyFault
    BY DEF Errors, Idempotency
  <2> HIDE DEF AnyFault
  <2> QED BY <2>1, <2>2, <2>3, <2>4, <2>5, <2>6, <2>7, <2>8, <2>9, <2>10, <2>11, <2>12, <2>13 DEF Faults
<1>4. \A f \in FaultOf : f \in AnyFault /\ f.kind \in {g.kind : g \in Faults}
  BY <1>3 DEF FaultOf
<1>5. ASSUME NEW f \in AnyFault, f.kind \in {g.kind : g \in Faults}, NEW class \in Idempotency
      PROVE  [f EXCEPT !.retryable = FALSE, !.terminal = FALSE, !.idempotency = class] \in FaultOf
  <2> DEFINE new == [f EXCEPT !.retryable = FALSE, !.terminal = FALSE, !.idempotency = class]
  <2> DEFINE first == [f EXCEPT !.retryable = FALSE]
             second == [first EXCEPT !.terminal = FALSE]
  <2>2. first \in AnyFault /\ first.kind = f.kind /\ first.retryable = FALSE
    BY <1>5
  <2>3. new = [second EXCEPT !.idempotency = class]
    BY <1>5
  <2> HIDE DEF first
  <2>4. second \in AnyFault /\ second.kind = f.kind /\ second.retryable = FALSE /\ second.terminal = FALSE
    BY <2>2
  <2> HIDE DEF second
  <2>1. new \in AnyFault /\ new.kind = f.kind /\ new.retryable = FALSE /\ new.terminal = FALSE
    BY <2>3, <2>4
  <2> HIDE DEF new
  <2>5. new \in [kind : {g.kind : g \in Faults}, retryable : {FALSE}, idempotency : Idempotency, terminal : {FALSE}]
    BY <1>5, <2>1
  <2> QED BY <2>5 DEF FaultOf, new
<1> HIDE DEF AnyFault
<1>6. \A f \in AnyFault : f.retryable \in BOOLEAN /\ f.terminal \in BOOLEAN
  BY DEF AnyFault
<1> QED BY <1>2, <1>4, <1>5, <1>6 DEF FaultOf

LEMMA RecoveryFields ==
  ASSUME NEW one \in RecoveryOf
  PROVE  /\ \A v \in RecoveryPlace : [one EXCEPT !.at = v] \in RecoveryOf
         /\ \A v \in FaultOf : [one EXCEPT !.fault = v] \in RecoveryOf
         /\ \A v \in Nat : [one EXCEPT !.tries = v] \in RecoveryOf
         /\ \A v \in Nat : [one EXCEPT !.used = v] \in RecoveryOf
         /\ \A v \in Nat : [one EXCEPT !.saved = v] \in RecoveryOf
         /\ \A v \in StepNumber : [one EXCEPT !.steps = v] \in RecoveryOf
         /\ \A v \in SessionNumber : [one EXCEPT !.sessions = v] \in RecoveryOf
         /\ \A v \in BOOLEAN : [one EXCEPT !.retried = v] \in RecoveryOf
         /\ \A v \in RecoveredAction : [one EXCEPT !.action = v] \in RecoveryOf
BY DEF RecoveryOf

LEMMA RecoveryStarts ==
  ASSUME NEW s \in RecoverySettings, RecoveryInit(s)
  PROVE  RecoveryInv
<1>1. recoverySetting = s /\ s.limit \in Nat \cup {NoLimit}
  BY RecoveryAssumption DEF RecoveryInit, RecoverySettings
<1>2. recovery \in RecoveryOf
  BY RecoveryValues, FaultValues DEF RecoveryInit, RecoveryOf
<1>3. recovery.at = "act" /\ recovery.tries = 0 /\ recovery.used = 0 /\ recovery.sessions = 1
      /\ recovery.action.runs = 0
  BY DEF RecoveryInit, NewAction
<1>4. TriesAreCounted(recovery)
  BY <1>1, <1>3 DEF TriesAreCounted, MayTry
<1> QED BY <1>1, <1>2, <1>3, <1>4 DEF RecoveryInv, RunsAreCounted, RetriesAreEarned

\* A retry is decided on only for an error that calls itself retryable, and for a
\* key found in flight only where no other provider was left to switch to.
LEMMA RetryIsEarned ==
  ASSUME NEW fault \in FaultOf, NEW attempt, NEW action \in RecoveredAction,
         "retry" \in Applied(Decide(fault, attempt, action))
  PROVE  /\ fault.retryable
         /\ action.opened = "executing" =>
              fault.idempotency # "non-idempotent" /\ PolicyFor(fault.kind).strategy = "switch_provider"
<1> DEFINE d == Decide(fault, attempt, action)
           policy == PolicyFor(fault.kind)
<1>1. fault.retryable \in BOOLEAN /\ fault.terminal \in BOOLEAN
  BY FaultValues
<1>2. d \in RetryStrategies
  BY DEF Applied, RetryStrategies
<1> HIDE DEF policy
<1>3. d = IF fault.terminal \/ fault.kind \in TerminalKinds THEN "terminate"
          ELSE IF action.opened = "executing" /\ (fault.idempotency = "non-idempotent" \/ policy.strategy \in RetryStrategies)
               THEN "ask_human"
          ELSE IF fault.idempotency = "non-idempotent" /\ action.opened \in {"succeeded", "failed"} THEN "skip_step"
          ELSE IF ~fault.retryable /\ policy.strategy \in RetryStrategies THEN "replan"
          ELSE IF attempt >= policy.max /\ policy.strategy # "ask_human" THEN "terminate"
          ELSE IF policy.strategy # "switch_provider" THEN policy.strategy
          ELSE IF Switched # "none" THEN Switched
          ELSE IF fault.retryable THEN "retry_with_backoff" ELSE "ask_human"
  BY DEF Decide, policy
<1>4. Switched \notin RetryStrategies
  BY DEF Switched, RetryStrategies
<1>5. {"terminate", "ask_human", "skip_step", "replan"} \cap RetryStrategies = {}
  BY DEF RetryStrategies
<1> HIDE DEF d
<1>6. ~(fault.terminal \/ fault.kind \in TerminalKinds)
  BY <1>2, <1>3, <1>5
<1>7. ~(action.opened = "executing" /\ (fault.idempotency = "non-idempotent" \/ policy.strategy \in RetryStrategies))
  BY <1>2, <1>3, <1>5, <1>6
<1>8. ~(fault.idempotency = "non-idempotent" /\ action.opened \in {"succeeded", "failed"})
  BY <1>2, <1>3, <1>5, <1>6, <1>7
<1>9. ~(~fault.retryable /\ policy.strategy \in RetryStrategies)
  BY <1>2, <1>3, <1>5, <1>6, <1>7, <1>8
<1>10. ~(attempt >= policy.max /\ policy.strategy # "ask_human")
  BY <1>2, <1>3, <1>5, <1>6, <1>7, <1>8, <1>9
<1>11. d = IF policy.strategy # "switch_provider" THEN policy.strategy
           ELSE IF Switched # "none" THEN Switched
           ELSE IF fault.retryable THEN "retry_with_backoff" ELSE "ask_human"
  BY <1>3, <1>6, <1>7, <1>8, <1>9, <1>10
<1>12. policy.strategy \in RetryStrategies \/ (policy.strategy = "switch_provider" /\ fault.retryable)
  BY <1>2, <1>4, <1>5, <1>11
<1> QED BY <1>7, <1>9, <1>12 DEF policy

LEMMA FailedAsKeeps ==
  ASSUME RecoveryInv, recovery.at \in {"act", "retry"}, NEW f \in FaultOf
  PROVE  /\ FailedAs(f) \in RecoveryOf /\ FailedAs(f).at # "retry"
         /\ FailedAs(f).tries = recovery.tries /\ FailedAs(f).used = recovery.used
         /\ FailedAs(f).sessions = recovery.sessions /\ FailedAs(f).action = recovery.action
         /\ TriesAreCounted(FailedAs(f))
<1> DEFINE at == IF recovery.at = "retry" /\ ~RetriesLeft THEN "ended" ELSE "failed"
           first == [recovery EXCEPT !.fault = f]
           one == [first EXCEPT !.at = at]
<1>1. recovery \in RecoveryOf /\ recovery.tries \in Nat /\ recoverySetting.limit \in Nat \cup {NoLimit}
  BY RecoveryAssumption DEF RecoveryInv, RecoveryOf, RecoverySettings
<1>2. at \in RecoveryPlace /\ at \in {"failed", "ended"}
  BY RecoveryValues
<1>3. FailedAs(f) = one
  BY <1>1 DEF FailedAs, RecoveryOf
<1>4. TriesAreCounted(recovery) /\ (at = "failed" /\ recovery.at = "retry" => RetriesLeft)
  BY DEF RecoveryInv
<1> HIDE DEF at
<1>5. first \in RecoveryOf /\ first.tries = recovery.tries /\ first.used = recovery.used
      /\ first.sessions = recovery.sessions /\ first.action = recovery.action
  BY <1>1, RecoveryFields DEF RecoveryOf
<1> HIDE DEF first
<1>6. one \in RecoveryOf /\ one.tries = recovery.tries /\ one.used = recovery.used
      /\ one.sessions = recovery.sessions /\ one.action = recovery.action /\ one.at = at
  BY <1>2, <1>5, RecoveryFields DEF RecoveryOf
<1> HIDE DEF one
<1>7. TriesAreCounted(one)
  BY <1>1, <1>2, <1>4, <1>6 DEF TriesAreCounted, RetriesLeft, MayTry
<1> QED BY <1>2, <1>3, <1>6, <1>7

LEMMA ReplayedKeeps == ASSUME RecoveryInv, Replayed PROVE RecoveryInv'
<1>1. recovery \in RecoveryOf /\ recoverySetting' = recoverySetting /\ recoverySetting.class \in Idempotency
      /\ recovery.at \in {"act", "retry"}
  BY DEF RecoveryInv, RecoverySettings, Replayed
<1>2. CASE recovery' = [recovery EXCEPT !.at = "worked"]
  <2>1. recovery' \in RecoveryOf /\ recovery'.at = "worked" /\ recovery'.tries = recovery.tries
        /\ recovery'.used = recovery.used /\ recovery'.sessions = recovery.sessions /\ recovery'.action = recovery.action
    BY <1>1, <1>2, RecoveryFields, RecoveryValues DEF RecoveryOf
  <2> QED BY <1>1, <2>1 DEF RecoveryInv, TriesAreCounted, RunsAreCounted, MayTry, Unsafe, RetriesAreEarned
<1> DEFINE f == [recovery.fault EXCEPT !.retryable = FALSE, !.terminal = FALSE, !.idempotency = recoverySetting.class]
<1>3. CASE recovery' = FailedAs(f)
  <2>1. recovery.fault \in FaultOf
    BY <1>1 DEF RecoveryOf
  <2>2. f \in FaultOf
    BY <1>1, <2>1, FaultValues
  <2> HIDE DEF f
  <2>3. /\ recovery' \in RecoveryOf /\ recovery'.at # "retry" /\ recovery'.tries = recovery.tries
        /\ recovery'.used = recovery.used /\ recovery'.sessions = recovery.sessions
        /\ recovery'.action = recovery.action /\ TriesAreCounted(FailedAs(f))
    BY <1>1, <1>3, <2>2, FailedAsKeeps
  <2> QED BY <1>1, <1>3, <2>3 DEF RecoveryInv, TriesAreCounted, RunsAreCounted, MayTry, Unsafe, RetriesAreEarned
<1> QED BY <1>2, <1>3 DEF Replayed

LEMMA RunOnceKeeps == ASSUME RecoveryInv, RunOnce PROVE RecoveryInv'
<1>1. recovery \in RecoveryOf /\ recoverySetting' = recoverySetting /\ recoverySetting.class \in Idempotency
      /\ recovery.at \in {"act", "retry"} /\ recovery.action \in RecoveredAction
  BY DEF RecoveryInv, RecoverySettings, RunOnce, RecoveryOf
<1> DEFINE ran(j) == [recovery.action EXCEPT !.journal = j, !.runs = @ + 1]
<1>2. Unsafe => recovery.action.runs + 1 <= recovery.sessions
  <2>1. Unsafe => recovery.action.journal \in {"none", "executing"}
    BY DEF RunOnce, ReplayIsSafe, Unsafe
  <2> QED BY <1>1, <2>1 DEF RecoveryInv, RunsAreCounted, RecoveryOf, RecoveredAction, SessionNumber
<1>3. ASSUME NEW j \in Journal
      PROVE  ran(j) \in RecoveredAction /\ ran(j).journal = j /\ ran(j).runs = recovery.action.runs + 1
  <2> DEFINE kept == [recovery.action EXCEPT !.journal = j]
  <2>1. kept \in RecoveredAction /\ kept.journal = j /\ kept.runs = recovery.action.runs /\ kept.runs + 1 \in Nat
    BY <1>1 DEF RecoveredAction
  <2>2. ran(j) = [kept EXCEPT !.runs = kept.runs + 1]
    BY <1>1 DEF RecoveredAction
  <2> HIDE DEF kept, ran
  <2> QED BY <2>1, <2>2 DEF RecoveredAction
<1>6. \/ recovery' = [recovery EXCEPT !.at = "worked", !.action = ran("succeeded")]
      \/ \E f \in Faults : recovery' = [FailedAs(f) EXCEPT !.action = ran("failed")]
  BY DEF RunOnce
<1> HIDE DEF ran
<1>4. CASE recovery' = [recovery EXCEPT !.at = "worked", !.action = ran("succeeded")]
  <2> DEFINE first == [recovery EXCEPT !.at = "worked"]
  <2>1. first \in RecoveryOf /\ first.at = "worked" /\ first.tries = recovery.tries /\ first.used = recovery.used
        /\ first.sessions = recovery.sessions
    BY <1>1, RecoveryFields, RecoveryValues DEF RecoveryOf
  <2>2. recovery' = [first EXCEPT !.action = ran("succeeded")]
    BY <1>1, <1>4 DEF RecoveryOf
  <2> HIDE DEF first
  <2>3. /\ recovery' \in RecoveryOf /\ recovery'.at = "worked" /\ recovery'.tries = recovery.tries
        /\ recovery'.used = recovery.used /\ recovery'.sessions = recovery.sessions
        /\ recovery'.action = ran("succeeded")
    BY <1>3, <2>1, <2>2, RecoveryFields, RecoveryValues DEF RecoveryOf
  <2>4. recovery'.action.journal = "succeeded" /\ recovery'.action.runs = recovery.action.runs + 1
    BY <1>3, <2>3, RecoveryValues
  <2> QED BY <1>1, <1>2, <2>3, <2>4 DEF RecoveryInv, TriesAreCounted, RunsAreCounted, MayTry, Unsafe, RetriesAreEarned
<1>5. CASE \E f \in Faults : recovery' = [FailedAs(f) EXCEPT !.action = ran("failed")]
  <2>1. PICK f \in Faults : recovery' = [FailedAs(f) EXCEPT !.action = ran("failed")]
    BY <1>5
  <2>2. f \in FaultOf
    BY DEF FaultOf
  <2> DEFINE one == FailedAs(f)
  <2>3. one \in RecoveryOf /\ one.at # "retry" /\ one.tries = recovery.tries /\ one.used = recovery.used
        /\ one.sessions = recovery.sessions /\ TriesAreCounted(one)
    BY <1>1, <2>2, FailedAsKeeps
  <2> HIDE DEF one
  <2>4. /\ recovery' \in RecoveryOf /\ recovery'.at = one.at /\ recovery'.tries = recovery.tries
        /\ recovery'.used = recovery.used /\ recovery'.sessions = recovery.sessions
        /\ recovery'.action = ran("failed")
    BY <1>3, <2>1, <2>3, RecoveryFields, RecoveryValues DEF RecoveryOf, one
  <2>5. recovery'.action.journal = "failed" /\ recovery'.action.runs = recovery.action.runs + 1
    BY <1>3, <2>4, RecoveryValues
  <2> QED BY <1>1, <1>2, <2>3, <2>4, <2>5 DEF RecoveryInv, TriesAreCounted, RunsAreCounted, MayTry, Unsafe, RetriesAreEarned
<1> QED BY <1>4, <1>5, <1>6

LEMMA RecoverKeeps == ASSUME RecoveryInv, Recover PROVE RecoveryInv'
<1>1. recovery \in RecoveryOf /\ recoverySetting' = recoverySetting /\ recovery.at = "failed"
      /\ recovery.action \in RecoveredAction /\ recovery.fault \in FaultOf
      /\ recovery.tries + 1 \in Nat /\ recovery.used + 1 \in Nat
  BY DEF RecoveryInv, Recover, RecoveryOf
<1>2. PICK next \in Applied(Decide(recovery.fault, recovery.tries + 1, recovery.action)) :
         recovery' = [recovery EXCEPT !.at = next, !.tries = @ + 1, !.used = @ + 1,
                                      !.retried = @ \/ next = "retry",
                                      !.saved = IF next = "retry" THEN @ ELSE recovery.used + 1]
  BY DEF Recover
<1> DEFINE retried == recovery.retried \/ next = "retry"
           saved == IF next = "retry" THEN recovery.saved ELSE recovery.used + 1
           first == [recovery EXCEPT !.at = next]
           second == [first EXCEPT !.tries = recovery.tries + 1]
           third == [second EXCEPT !.used = recovery.used + 1]
           fourth == [third EXCEPT !.retried = retried]
<1>3. recovery' = [fourth EXCEPT !.saved = saved]
  BY <1>1, <1>2 DEF RecoveryOf
<1>4. next \in RecoveryPlace /\ next \notin {"act", "failed"}
  <2>1. next \in {"ended", "retry", "parked", "resumed"}
    BY DEF Applied
  <2> QED BY <2>1, RecoveryValues
<1>5. retried \in BOOLEAN /\ saved \in Nat
  BY <1>1 DEF RecoveryOf
<1> HIDE DEF retried, saved
<1>6. first \in RecoveryOf /\ first.at = next /\ first.fault = recovery.fault /\ first.sessions = recovery.sessions
      /\ first.action = recovery.action
  BY <1>1, <1>4, RecoveryFields DEF RecoveryOf
<1> HIDE DEF first
<1>7. second \in RecoveryOf /\ second.at = next /\ second.fault = recovery.fault
      /\ second.sessions = recovery.sessions /\ second.action = recovery.action /\ second.tries = recovery.tries + 1
  BY <1>1, <1>6, RecoveryFields DEF RecoveryOf
<1> HIDE DEF second
<1>8. third \in RecoveryOf /\ third.at = next /\ third.fault = recovery.fault
      /\ third.sessions = recovery.sessions /\ third.action = recovery.action /\ third.tries = recovery.tries + 1
      /\ third.used = recovery.used + 1
  BY <1>1, <1>7, RecoveryFields DEF RecoveryOf
<1> HIDE DEF third
<1>9. fourth \in RecoveryOf /\ fourth.at = next /\ fourth.fault = recovery.fault
      /\ fourth.sessions = recovery.sessions /\ fourth.action = recovery.action /\ fourth.tries = recovery.tries + 1
      /\ fourth.used = recovery.used + 1
  BY <1>5, <1>8, RecoveryFields DEF RecoveryOf
<1> HIDE DEF fourth
<1>10. recovery' \in RecoveryOf /\ recovery'.at = next /\ recovery'.fault = recovery.fault
       /\ recovery'.sessions = recovery.sessions /\ recovery'.action = recovery.action
       /\ recovery'.tries = recovery.tries + 1 /\ recovery'.used = recovery.used + 1
  BY <1>3, <1>5, <1>9, RecoveryFields DEF RecoveryOf
<1>11. TriesAreCounted(recovery)'
  <2>1. recovery.tries \in Nat /\ recoverySetting.limit \in Nat \cup {NoLimit}
    BY <1>1, RecoveryAssumption DEF RecoveryInv, RecoveryOf, RecoverySettings
  <2>2. recoverySetting.limit # NoLimit => recovery.tries < MayTry /\ MayTry \in Nat
    BY <1>1, <2>1 DEF RecoveryInv, TriesAreCounted, MayTry
  <2>3. recoverySetting.limit # NoLimit => recovery.tries + 1 <= MayTry
    BY <2>1, <2>2
  <2> QED BY <1>1, <1>4, <1>10, <2>3 DEF TriesAreCounted, MayTry
<1>12. RetriesAreEarned'
  <2>1. next = "retry" => "retry" \in Applied(Decide(recovery.fault, recovery.tries + 1, recovery.action))
    OBVIOUS
  <2>2. next = "retry" =>
          /\ recovery.fault.retryable
          /\ recovery.action.opened = "executing" =>
               recovery.fault.idempotency # "non-idempotent"
               /\ PolicyFor(recovery.fault.kind).strategy = "switch_provider"
    BY <1>1, <2>1, RetryIsEarned
  <2> QED BY <1>1, <1>10, <2>2 DEF RetriesAreEarned, PolicyFor
<1>13. recovery'.tries <= recovery'.used
  BY <1>1, <1>10 DEF RecoveryInv, RecoveryOf
<1> QED BY <1>1, <1>10, <1>11, <1>12, <1>13 DEF RecoveryInv, RunsAreCounted, Unsafe

LEMMA NextIterationKeeps == ASSUME RecoveryInv, NextIteration PROVE RecoveryInv'
<1>1. recovery \in RecoveryOf /\ recoverySetting' = recoverySetting /\ recovery.retried \in BOOLEAN
      /\ recovery.used \in Nat /\ recovery.tries \in Nat /\ recovery.tries <= recovery.used
      /\ recoverySetting.limit \in Nat \cup {NoLimit}
  BY RecoveryAssumption DEF RecoveryInv, NextIteration, RecoveryOf, RecoverySettings
<1>2. CASE recovery' = [recovery EXCEPT !.at = "ended"]
  <2>1. recovery' \in RecoveryOf /\ recovery'.at = "ended" /\ recovery'.tries = recovery.tries
        /\ recovery'.used = recovery.used /\ recovery'.sessions = recovery.sessions /\ recovery'.action = recovery.action
    BY <1>1, <1>2, RecoveryFields, RecoveryValues DEF RecoveryOf
  <2> QED BY <1>1, <2>1 DEF RecoveryInv, TriesAreCounted, RunsAreCounted, MayTry, Unsafe, RetriesAreEarned
<1>3. CASE /\ ~BudgetSpent(recovery.used, recoverySetting.limit) /\ recovery.steps # MaxRecoverySteps
           /\ recovery' = [recovery EXCEPT !.at = "act", !.steps = @ + 1, !.saved = recovery.used,
                             !.fault = NoFault, !.action = NewAction(recovery.retried)]
  <2> DEFINE first == [recovery EXCEPT !.at = "act"]
             second == [first EXCEPT !.steps = recovery.steps + 1]
             third == [second EXCEPT !.saved = recovery.used]
             fourth == [third EXCEPT !.fault = NoFault]
             action == NewAction(recovery.retried)
  <2>1. recovery' = [fourth EXCEPT !.action = action]
    BY <1>1, <1>3 DEF RecoveryOf
  <2>2. recovery.steps + 1 \in StepNumber
    BY <1>1, <1>3, RecoveryAssumption DEF RecoveryOf, StepNumber
  <2>3. action \in RecoveredAction /\ action.runs = 0
    BY <1>1, RecoveryValues
  <2> HIDE DEF action
  <2>4. first \in RecoveryOf /\ first.at = "act" /\ first.tries = recovery.tries /\ first.used = recovery.used
        /\ first.sessions = recovery.sessions
    BY <1>1, RecoveryFields, RecoveryValues DEF RecoveryOf
  <2> HIDE DEF first
  <2>5. second \in RecoveryOf /\ second.at = "act" /\ second.tries = recovery.tries /\ second.used = recovery.used
        /\ second.sessions = recovery.sessions
    BY <2>2, <2>4, RecoveryFields DEF RecoveryOf
  <2> HIDE DEF second
  <2>6. third \in RecoveryOf /\ third.at = "act" /\ third.tries = recovery.tries /\ third.used = recovery.used
        /\ third.sessions = recovery.sessions
    BY <1>1, <2>5, RecoveryFields DEF RecoveryOf
  <2> HIDE DEF third
  <2>7. fourth \in RecoveryOf /\ fourth.at = "act" /\ fourth.tries = recovery.tries /\ fourth.used = recovery.used
        /\ fourth.sessions = recovery.sessions
    BY <2>6, FaultValues, RecoveryFields DEF RecoveryOf
  <2> HIDE DEF fourth
  <2>8. recovery' \in RecoveryOf /\ recovery'.at = "act" /\ recovery'.tries = recovery.tries
        /\ recovery'.used = recovery.used /\ recovery'.sessions = recovery.sessions /\ recovery'.action = action
    BY <2>1, <2>3, <2>7, RecoveryFields DEF RecoveryOf
  <2>9. TriesAreCounted(recovery)'
    <3>1. recoverySetting.limit # NoLimit => recovery.used < MayTry /\ MayTry \in Nat
      BY <1>1, <1>3 DEF BudgetSpent, MayTry
    <3>2. recoverySetting.limit # NoLimit => recovery.tries < MayTry /\ recovery.tries <= MayTry
      BY <1>1, <3>1
    <3> QED BY <1>1, <2>8, <3>2 DEF TriesAreCounted, MayTry
  <2>10. RunsAreCounted(recovery)'
    <3>1. recovery.sessions \in Nat /\ 0 < recovery.sessions /\ 0 <= recovery.sessions
      BY <1>1 DEF RecoveryOf, SessionNumber
    <3> QED BY <2>3, <2>8, <3>1 DEF RunsAreCounted
  <2> QED BY <1>1, <2>8, <2>9, <2>10 DEF RecoveryInv, RetriesAreEarned
<1> QED BY <1>2, <1>3 DEF NextIteration

\* A new session starts with none of the tries, and with one session more than
\* any has run the action.
LEMMA ReopenedKeeps ==
  ASSUME RecoveryInv, recovery.sessions < MaxSessions, NEW journal \in Journal, NEW used \in Nat, NEW runs \in Nat,
         Unsafe => runs <= recovery.sessions, UNCHANGED recoverySetting,
         recovery' = [Reopened(journal, used) EXCEPT !.action.runs = runs]
  PROVE  RecoveryInv'
<1> DEFINE found == IF recovery.action.rekeyed THEN "none" ELSE journal
           at == IF BudgetSpent(used, recoverySetting.limit) THEN "ended" ELSE "act"
           first == [recovery EXCEPT !.at = at]
           second == [first EXCEPT !.tries = 0]
           third == [second EXCEPT !.retried = FALSE]
           fourth == [third EXCEPT !.used = used]
           fifth == [fourth EXCEPT !.saved = used]
           sixth == [fifth EXCEPT !.sessions = recovery.sessions + 1]
           kept == [recovery.action EXCEPT !.journal = found, !.opened = found, !.rekeyed = FALSE]
           action == [kept EXCEPT !.runs = runs]
<1>1. recovery \in RecoveryOf /\ recovery.action \in RecoveredAction /\ recovery.sessions + 1 \in SessionNumber
      /\ recoverySetting.limit \in Nat \cup {NoLimit} /\ recovery.sessions \in Nat
  BY RecoveryAssumption DEF RecoveryInv, RecoveryOf, RecoverySettings, SessionNumber
<1>2. Reopened(journal, used) = [sixth EXCEPT !.action = kept]
  BY <1>1 DEF Reopened, RecoveryOf
<1>3. found \in Journal /\ at \in RecoveryPlace /\ at \in {"ended", "act"} /\ 0 \in Nat
  BY RecoveryValues
<1>4. at = "act" => ~BudgetSpent(used, recoverySetting.limit)
  OBVIOUS
<1> HIDE DEF found, at
<1>5. kept \in RecoveredAction
  BY <1>1, <1>3 DEF RecoveredAction
<1> HIDE DEF kept
<1>6. action \in RecoveredAction /\ action.runs = runs
  BY <1>5 DEF RecoveredAction
<1>7. first \in RecoveryOf /\ first.at = at
  BY <1>1, <1>3, RecoveryFields DEF RecoveryOf
<1> HIDE DEF first
<1>8. second \in RecoveryOf /\ second.at = at /\ second.tries = 0
  BY <1>3, <1>7, RecoveryFields DEF RecoveryOf
<1> HIDE DEF second
<1>9. third \in RecoveryOf /\ third.at = at /\ third.tries = 0
  BY <1>8, RecoveryFields DEF RecoveryOf
<1> HIDE DEF third
<1>10. fourth \in RecoveryOf /\ fourth.at = at /\ fourth.tries = 0 /\ fourth.used = used
  BY <1>9, RecoveryFields DEF RecoveryOf
<1> HIDE DEF fourth
<1>11. fifth \in RecoveryOf /\ fifth.at = at /\ fifth.tries = 0 /\ fifth.used = used
  BY <1>10, RecoveryFields DEF RecoveryOf
<1> HIDE DEF fifth
<1>12. sixth \in RecoveryOf /\ sixth.at = at /\ sixth.tries = 0 /\ sixth.used = used
       /\ sixth.sessions = recovery.sessions + 1
  BY <1>1, <1>11, RecoveryFields DEF RecoveryOf
<1> HIDE DEF sixth
<1>13. recovery' = [sixth EXCEPT !.action = action]
  BY <1>2, <1>5, <1>12 DEF RecoveryOf
<1> HIDE DEF action
<1>14. recovery' \in RecoveryOf /\ recovery'.at = at /\ recovery'.tries = 0 /\ recovery'.used = used
       /\ recovery'.sessions = recovery.sessions + 1 /\ recovery'.action = action
  <2>1. sixth \in RecoveryOf /\ action \in RecoveredAction
    BY <1>6, <1>12
  <2>2. [sixth EXCEPT !.action = action] \in RecoveryOf
    BY <2>1, RecoveryFields
  <2>3. recovery' \in RecoveryOf
    BY <2>2, <1>13
  <2>4. DOMAIN sixth = {"at", "fault", "tries", "used", "saved", "steps", "sessions", "retried", "action"}
    BY <1>12 DEF RecoveryOf
  <2>5. recovery'.action = action /\ recovery'.at = sixth.at /\ recovery'.tries = sixth.tries
    BY <1>13, <2>4
  <2>6. recovery'.used = sixth.used /\ recovery'.sessions = sixth.sessions
    BY <1>13, <2>4
  <2> QED BY <1>12, <2>3, <2>5, <2>6
<1>15. TriesAreCounted(recovery)'
  <2>1. recoverySetting.limit # NoLimit => 0 <= MayTry /\ 0 < MayTry
    BY <1>1 DEF MayTry
  <2> QED BY <1>14, <2>1 DEF TriesAreCounted, MayTry
<1>16. RunsAreCounted(recovery)'
  <2>1. Unsafe => runs < recovery.sessions + 1 /\ runs <= recovery.sessions + 1
    BY <1>1
  <2> QED BY <1>6, <1>14, <2>1 DEF RunsAreCounted, Unsafe
<1> QED BY <1>3, <1>14, <1>15, <1>16 DEF RecoveryInv, RetriesAreEarned

LEMMA SessionsKeep == ASSUME RecoveryInv, HumanDecides \/ DieRunning \/ DieCommitted PROVE RecoveryInv'
<1>1. /\ recovery \in RecoveryOf /\ recovery.action \in RecoveredAction /\ recovery.used \in Nat /\ recovery.saved \in Nat
      /\ recovery.action.journal \in Journal /\ recovery.action.runs \in Nat /\ recovery.action.runs + 1 \in Nat
      /\ recoverySetting.class \in Idempotency /\ recovery.sessions \in Nat
  BY DEF RecoveryInv, RecoveryOf, RecoveredAction, RecoverySettings, SessionNumber
<1>2. recovery.sessions < MaxSessions /\ UNCHANGED recoverySetting
  BY DEF HumanDecides, DieRunning, DieCommitted
<1>3. Unsafe => recovery.action.runs <= recovery.sessions
  BY DEF RecoveryInv, RunsAreCounted
<1>4. ASSUME NEW journal \in Journal, NEW used \in Nat
      PROVE  /\ [Reopened(journal, used) EXCEPT !.action.runs = recovery.action.runs] = Reopened(journal, used)
             /\ Reopened(journal, used).action.runs = recovery.action.runs
  <2> DEFINE found == IF recovery.action.rekeyed THEN "none" ELSE journal
             kept == [recovery.action EXCEPT !.journal = found, !.opened = found, !.rekeyed = FALSE]
             one == Reopened(journal, used)
  <2>1. one = [recovery EXCEPT !.at = IF BudgetSpent(used, recoverySetting.limit) THEN "ended" ELSE "act",
                       !.tries = 0, !.retried = FALSE, !.used = used, !.saved = used,
                       !.sessions = recovery.sessions + 1, !.action = kept]
    BY <1>1 DEF Reopened, RecoveryOf
  <2>2. found \in Journal
    BY RecoveryValues
  <2> HIDE DEF found
  <2>3. kept \in RecoveredAction /\ kept.runs = recovery.action.runs
    BY <1>1, <2>2 DEF RecoveredAction
  <2>4. [kept EXCEPT !.runs = recovery.action.runs] = kept
    BY <2>3 DEF RecoveredAction
  <2> HIDE DEF kept
  <2>5. one.action = kept /\ DOMAIN one = DOMAIN recovery
        /\ one = [f \in DOMAIN recovery |-> one[f]]
    BY <1>1, <2>1 DEF RecoveryOf
  <2> HIDE DEF one
  <2>6. [one EXCEPT !.action.runs = recovery.action.runs] = one
    BY <2>4, <2>5
  <2> QED BY <2>3, <2>5, <2>6 DEF one
<1>5. CASE HumanDecides
  <2>1. recovery' = Reopened(recovery.action.journal, recovery.used)
    BY <1>5 DEF HumanDecides
  <2> QED BY <2>1, <1>1, <1>2, <1>3, <1>4, ReopenedKeeps
<1>6. CASE DieRunning
  <2>1. recovery' = [Reopened("executing", recovery.saved) EXCEPT !.action.runs = recovery.action.runs + 1]
        /\ "executing" \in Journal
    BY <1>1, <1>4, <1>6, RecoveryValues DEF DieRunning
  <2>2. Unsafe => recovery.action.runs + 1 <= recovery.sessions
    <3>1. Unsafe => recovery.action.journal \in {"none", "executing"}
      BY <1>1, <1>6 DEF DieRunning, ReplayIsSafe, Unsafe, Journal
    <3> QED BY <1>1, <3>1 DEF RecoveryInv, RunsAreCounted
  <2> QED BY <2>1, <2>2, <1>1, <1>2, ReopenedKeeps
<1>7. CASE DieCommitted
  <2>1. recovery' = Reopened(recovery.action.journal, recovery.saved)
    BY <1>7 DEF DieCommitted
  <2> QED BY <2>1, <1>1, <1>2, <1>3, <1>4, ReopenedKeeps
<1> QED BY <1>5, <1>6, <1>7

LEMMA RecoveryKeeps == RecoveryInv /\ [RecoveryNext]_RecoveryVars => RecoveryInv'
<1> SUFFICES ASSUME RecoveryInv, [RecoveryNext]_RecoveryVars
             PROVE  RecoveryInv'
  OBVIOUS
<1>1. CASE UNCHANGED RecoveryVars
  <2>1. recovery' = recovery /\ recoverySetting' = recoverySetting
    BY <1>1 DEF RecoveryVars
  <2> QED BY <2>1 DEF RecoveryInv, TriesAreCounted, RunsAreCounted, MayTry, Unsafe, RetriesAreEarned, PolicyFor
<1>2. CASE RecoveryNext
  BY <1>2, ReplayedKeeps, RunOnceKeeps, RecoverKeeps, NextIterationKeeps, SessionsKeep DEF RecoveryNext, RecoveryStep
<1> QED BY <1>1, <1>2

LEMMA RecoveryFollows ==
  RecoveryInv => RecoveryTypeOK /\ RetriesAreEarned /\ SessionStaysInBudget /\ UnsafeRunsOncePerSession
<1>1. RecoveryInv => RecoveryTypeOK
  BY DEF RecoveryInv, RecoveryTypeOK, RecoveryOf, RecoveryPlace, FaultOf, RecoveredAction, Journal, StepNumber,
         SessionNumber
<1>2. RecoveryInv => RetriesAreEarned /\ SessionStaysInBudget /\ UnsafeRunsOncePerSession
  BY DEF RecoveryInv, TriesAreCounted, RunsAreCounted, MayTry, Unsafe, SessionStaysInBudget, UnsafeRunsOncePerSession
<1> QED BY <1>1, <1>2

\* Recovery is earned and bounded (packages/recovery/src/engine.ts, packages/runtime/
\* src/loop.ts): an action is tried again only after an error that calls itself
\* retryable, one session recovers no more often than the run's limit allows, and
\* an action that is not safe to repeat is run once by every session at most.
THEOREM RecoveryStaysBounded == ServicesSpec => []RecoveryIsBounded
<1> DEFINE Inv == part = "recovery" => RecoveryInv
<1>1. ServicesInit => Inv
  <2> SUFFICES ASSUME ServicesInit, part = "recovery"
               PROVE  RecoveryInv
    OBVIOUS
  <2>1. \E s \in RecoverySettings : RecoveryInit(s)
    BY DEF ServicesInit
  <2> QED BY <2>1, RecoveryStarts
<1>2. Inv /\ [ServicesNext]_servicesVars => Inv'
  BY OnlyItsPartMoves, RecoveryKeeps
<1>3. Inv => RecoveryIsBounded
  BY RecoveryFollows DEF RecoveryIsBounded, Of
<1> QED BY <1>1, <1>2, <1>3, PTL DEF ServicesSpec
-----------------------------------------------------------------------------
(* The MCP client.  Every message names a request the server has received, so  *)
(* an answer can only settle the call of its own id.                           *)

CallOf == [state : CallStates, got : 0..MaxCalls]
Told == CallStates \cup {"waiting", "aborted", "not_invoked"}
MessageOf == [id : 1..MaxCalls, copy : 0..MaxRepeats]
Requests == [waiting : Nat, handling : Nat, answered : Nat, lost : Nat]

CallsInv ==
  /\ rpc \in Seq(CallOf) /\ run.told \in Seq(Told) /\ Len(run.told) = Len(rpc)
  /\ run \in [aborted : BOOLEAN, told : Seq(Told)]
  /\ asks \in Requests /\ Traffic <= MaxCalls
  /\ sent \subseteq CallIds /\ link \in {"up", "down", "closed"}
  /\ inbound \subseteq MessageOf /\ \A message \in inbound : message.id \in sent
  /\ AnswerIsItsOwn

LEMMA ListOf ==
  ASSUME NEW S, NEW n \in Nat, NEW f \in [1..n -> S]
  PROVE  f \in Seq(S) /\ Len(f) = n
BY SeqDef

LEMMA CallsAreNumbered ==
  ASSUME CallsInv
  PROVE  /\ Len(rpc) \in Nat /\ Len(rpc) <= MaxCalls /\ CallIds = 1..Len(rpc) /\ DOMAIN run.told = CallIds
         /\ \A id \in CallIds : rpc[id] \in CallOf /\ run.told[id] \in Told /\ id \in 0..MaxCalls /\ id \in 1..MaxCalls
         /\ Len(rpc) + AskedOf(asks) <= MaxCalls /\ AskedOf(asks) \in Nat
<1>1. Len(rpc) \in Nat /\ CallIds = 1..Len(rpc) /\ DOMAIN run.told = CallIds
  BY LenProperties DEF CallsInv, CallIds
<1>2. AskedOf(asks) \in Nat /\ Len(rpc) + AskedOf(asks) <= MaxCalls
  BY <1>1 DEF CallsInv, Requests, AskedOf, Traffic
<1>3. Len(rpc) <= MaxCalls
  BY <1>1, <1>2, McpCallsAssumption
<1>4. ASSUME NEW id \in CallIds
      PROVE  rpc[id] \in CallOf /\ run.told[id] \in Told
  BY <1>1, ElementOfSeq DEF CallsInv
<1>5. \A id \in CallIds : id \in 0..MaxCalls /\ id \in 1..MaxCalls
  BY <1>1, <1>3, McpCallsAssumption
<1> QED BY <1>1, <1>2, <1>3, <1>4, <1>5

LEMMA CallsStart == McpCallsInit => CallsInv
<1> SUFFICES ASSUME McpCallsInit
             PROVE  CallsInv
  OBVIOUS
<1>1. rpc \in Seq(CallOf) /\ run.told \in Seq(Told) /\ Len(run.told) = Len(rpc) /\ Len(rpc) = 0 /\ CallIds = {}
  BY EmptySeq, LenProperties DEF McpCallsInit, CallIds
<1>2. asks \in Requests /\ Traffic <= MaxCalls
  BY <1>1, McpCallsAssumption DEF McpCallsInit, Requests, Traffic, AskedOf
<1>3. run \in [aborted : BOOLEAN, told : Seq(Told)]
  BY EmptySeq DEF McpCallsInit
<1> QED BY <1>1, <1>2, <1>3 DEF McpCallsInit, CallsInv, AnswerIsItsOwn

\* Calls that are settled: each keeps its place, and with an answer its own.
LEMMA CallsSettle ==
  ASSUME CallsInv, NEW calls \in [CallIds -> CallOf], rpc' = calls,
         \A id \in CallIds : calls[id].state = "resolved" => calls[id].got = id
  PROVE  rpc' \in Seq(CallOf) /\ Len(rpc') = Len(rpc) /\ CallIds' = CallIds /\ AnswerIsItsOwn'
<1>1. rpc' \in Seq(CallOf) /\ Len(rpc') = Len(rpc) /\ CallIds' = CallIds
  BY CallsAreNumbered, ListOf DEF CallIds
<1> QED BY <1>1 DEF AnswerIsItsOwn

LEMMA SettleSettles ==
  ASSUME CallsInv, NEW id \in CallIds, NEW state \in CallStates, NEW got \in 0..MaxCalls,
         state = "resolved" => got = id
  PROVE  /\ Settle(id, state, got) \in [CallIds -> CallOf]
         /\ \A other \in CallIds : Settle(id, state, got)[other].state = "resolved" => Settle(id, state, got)[other].got = other
<1>1. rpc \in [CallIds -> CallOf]
  BY LenProperties DEF CallsInv, CallIds
<1>2. [state |-> state, got |-> got] \in CallOf
  BY DEF CallOf
<1> QED BY <1>1, <1>2 DEF CallsInv, AnswerIsItsOwn, Settle

LEMMA FailAllSettles ==
  ASSUME CallsInv, NEW state \in CallStates \ {"resolved"}
  PROVE  /\ FailAll(state) \in [CallIds -> CallOf]
         /\ \A id \in CallIds : FailAll(state)[id].state = "resolved" => FailAll(state)[id].got = id
<1>1. [state |-> state, got |-> 0] \in CallOf
  BY McpCallsAssumption DEF CallOf
<1> QED BY <1>1, CallsAreNumbered DEF CallsInv, AnswerIsItsOwn, FailAll

\* A step that settles calls, and neither takes in a call nor a message.
LEMMA SettlingKeeps ==
  ASSUME CallsInv, NEW calls \in [CallIds -> CallOf], rpc' = calls,
         \A id \in CallIds : calls[id].state = "resolved" => calls[id].got = id,
         sent' \subseteq CallIds, sent \subseteq sent', inbound' \subseteq inbound,
         link' \in {"up", "down", "closed"}, UNCHANGED <<asks, run>>
  PROVE  CallsInv'
<1>1. rpc' \in Seq(CallOf) /\ Len(rpc') = Len(rpc) /\ CallIds' = CallIds /\ AnswerIsItsOwn'
  BY CallsSettle
<1>2. Traffic' <= MaxCalls
  BY <1>1 DEF CallsInv, Traffic, AskedOf
<1> QED BY <1>1, <1>2 DEF CallsInv

\* A step of the server's own requests, or of what the caller was told.
LEMMA OtherStepKeeps ==
  ASSUME CallsInv, asks' \in Requests, Traffic' <= MaxCalls,
         run' \in [aborted : BOOLEAN, told : Seq(Told)], Len(run'.told) = Len(run.told), UNCHANGED <<rpc, sent, link>>,
         inbound' \subseteq MessageOf, \A message \in inbound' : message.id \in sent
  PROVE  CallsInv'
<1>1. CallIds' = CallIds
  BY DEF CallIds
<1>2. AnswerIsItsOwn'
  BY <1>1 DEF CallsInv, AnswerIsItsOwn
<1> QED BY <1>1, <1>2 DEF CallsInv

LEMMA CallToolKeeps == ASSUME CallsInv, CallTool PROVE CallsInv'
<1> DEFINE call == [state |-> "sending", got |-> 0]
           answer == IF run.aborted THEN "not_invoked" ELSE "waiting"
<1>1. call \in CallOf /\ answer \in Told /\ call.state # "resolved"
  BY McpCallsAssumption DEF CallOf, CallStates, Told
<1>2. rpc' = Append(rpc, call) /\ run' = [run EXCEPT !.told = Append(run.told, answer)]
      /\ UNCHANGED <<sent, inbound, asks, link>> /\ Traffic < MaxCalls
  BY DEF CallTool
<1> HIDE DEF call, answer
<1>3. rpc' \in Seq(CallOf) /\ Len(rpc') = Len(rpc) + 1 /\ rpc'[Len(rpc) + 1] = call
      /\ \A id \in 1..Len(rpc) : rpc'[id] = rpc[id]
  BY <1>1, <1>2 DEF CallsInv
<1>4. run' \in [aborted : BOOLEAN, told : Seq(Told)] /\ Len(run'.told) = Len(rpc')
  <2>1. Append(run.told, answer) \in Seq(Told) /\ Len(Append(run.told, answer)) = Len(run.told) + 1
    BY <1>1 DEF CallsInv
  <2>2. run'.told = Append(run.told, answer)
    BY <1>2 DEF CallsInv
  <2> QED BY <1>2, <1>3, <2>1, <2>2 DEF CallsInv
<1>5. CallIds = 1..Len(rpc) /\ CallIds' = 1..Len(rpc) + 1 /\ Len(rpc) \in Nat /\ CallIds \subseteq CallIds'
      /\ \A id \in CallIds' : id \in CallIds \/ id = Len(rpc) + 1
  <2>1. DOMAIN rpc' = 1..Len(rpc')
    BY <1>3, LenProperties
  <2>2. CallIds = 1..Len(rpc) /\ CallIds' = 1..Len(rpc) + 1 /\ Len(rpc) \in Nat
    BY <1>3, <2>1, CallsAreNumbered DEF CallIds
  <2> QED BY <2>2
<1>6. Traffic' <= MaxCalls
  <2>2. AskedOf(asks)' = AskedOf(asks) /\ AskedOf(asks) \in Nat
    BY <1>2, CallsAreNumbered
  <2>1. Traffic' = Traffic + 1 /\ Traffic \in Nat
    BY <1>3, <1>5, <2>2 DEF Traffic
  <2> QED BY <1>2, <2>1, McpCallsAssumption
<1>7. AnswerIsItsOwn'
  BY <1>1, <1>3, <1>5 DEF CallsInv, AnswerIsItsOwn
<1> QED BY <1>2, <1>3, <1>4, <1>5, <1>6, <1>7 DEF CallsInv

LEMMA CallStepKeeps ==
  ASSUME CallsInv, NEW id \in CallIds,
         SendCall(id) \/ SendFails(id) \/ TimeOutCall(id) \/ ServerAnswers(id) \/ TellCaller(id)
  PROVE  CallsInv'
<1> USE DEF CallStates
<1>1. 0 \in 0..MaxCalls /\ sent \subseteq CallIds /\ link \in {"up", "down", "closed"}
  BY McpCallsAssumption DEF CallsInv
<1>2. CASE SendCall(id)
  <2>1. rpc' = Settle(id, "pending", 0) /\ sent' = sent \cup {id} /\ UNCHANGED <<inbound, asks, link, run>>
    BY <1>2 DEF SendCall
  <2> QED BY <1>1, <2>1, SettleSettles, SettlingKeeps
<1>3. CASE SendFails(id)
  <2>1. rpc' = Settle(id, "rejected", 0) /\ UNCHANGED <<sent, inbound, asks, link, run>>
    BY <1>3 DEF SendFails
  <2> QED BY <1>1, <2>1, SettleSettles, SettlingKeeps
<1>4. CASE TimeOutCall(id)
  <2>1. rpc' = Settle(id, "timed_out", 0) /\ UNCHANGED <<sent, inbound, asks, link, run>>
    BY <1>4 DEF TimeOutCall
  <2> QED BY <1>1, <2>1, SettleSettles, SettlingKeeps
<1>5. CASE ServerAnswers(id)
  <2>1. PICK copy \in 0..MaxRepeats : inbound' = inbound \cup {[id |-> id, copy |-> copy]}
    BY <1>5 DEF ServerAnswers
  <2>2. [id |-> id, copy |-> copy] \in MessageOf
    BY CallsAreNumbered DEF MessageOf
  <2>3. id \in sent /\ UNCHANGED <<rpc, sent, asks, link, run>>
    BY <1>5 DEF ServerAnswers
  <2>4. Traffic' <= MaxCalls
    BY <2>3 DEF CallsInv, Traffic, AskedOf
  <2> QED BY <2>1, <2>2, <2>3, <2>4, OtherStepKeeps DEF CallsInv
<1>6. CASE TellCaller(id)
  <2> DEFINE told == [run.told EXCEPT ![id] = rpc[id].state]
  <2>1. run' = [run EXCEPT !.told = told] /\ UNCHANGED <<rpc, sent, inbound, asks, link>>
    BY <1>6 DEF TellCaller
  <2>2. rpc[id].state \in Told /\ id \in 1..Len(run.told)
    BY CallsAreNumbered DEF CallOf, Told, CallsInv
  <2>3. told \in Seq(Told) /\ Len(told) = Len(run.told)
    BY <2>2, ExceptSeq DEF CallsInv
  <2> HIDE DEF told
  <2>4. run' \in [aborted : BOOLEAN, told : Seq(Told)] /\ run'.told = told
    BY <2>1, <2>3 DEF CallsInv
  <2>5. Traffic' <= MaxCalls
    BY <2>1 DEF CallsInv, Traffic, AskedOf
  <2> QED BY <2>1, <2>3, <2>4, <2>5, OtherStepKeeps DEF CallsInv
<1> QED BY <1>2, <1>3, <1>4, <1>5, <1>6

LEMMA DeliverKeeps ==
  ASSUME CallsInv, NEW message \in inbound, Deliver(message)
  PROVE  CallsInv'
<1> USE DEF CallStates
<1>1. message.id \in CallIds /\ sent \subseteq CallIds /\ link \in {"up", "down", "closed"}
      /\ message.id \in 0..MaxCalls
  BY CallsAreNumbered DEF CallsInv
<1>2. inbound' \subseteq inbound /\ UNCHANGED <<sent, asks, link, run>>
  BY DEF Deliver
<1>3. \/ rpc' = Settle(message.id, "resolved", message.id) \/ rpc' = Settle(message.id, "rejected", message.id)
      \/ rpc' = rpc
  BY DEF Deliver
<1>4. rpc \in [CallIds -> CallOf] /\ \A id \in CallIds : rpc[id].state = "resolved" => rpc[id].got = id
  BY LenProperties DEF CallsInv, CallIds, AnswerIsItsOwn
<1>5. CASE rpc' = Settle(message.id, "resolved", message.id)
  BY <1>1, <1>2, <1>5, SettleSettles, SettlingKeeps
<1>6. CASE rpc' = Settle(message.id, "rejected", message.id)
  BY <1>1, <1>2, <1>6, SettleSettles, SettlingKeeps
<1>7. CASE rpc' = rpc
  BY <1>1, <1>2, <1>4, <1>7, SettlingKeeps
<1> QED BY <1>3, <1>5, <1>6, <1>7

LEMMA ClientStepKeeps ==
  ASSUME CallsInv, TransportFails \/ CloseClient \/ AbortRun
  PROVE  CallsInv'
<1> USE DEF CallStates
<1>1. sent \subseteq CallIds
  BY DEF CallsInv
<1>2. CASE TransportFails \/ CloseClient
  <2>1. rpc' = FailAll("rejected") /\ link' \in {"up", "down", "closed"} /\ UNCHANGED <<sent, inbound, asks, run>>
    BY <1>2 DEF TransportFails, CloseClient
  <2> QED BY <1>1, <2>1, FailAllSettles, SettlingKeeps
<1>3. CASE AbortRun
  <2> DEFINE told == [id \in CallIds |-> IF id \in Pending /\ run.told[id] = "waiting" THEN "aborted" ELSE run.told[id]]
  <2>1. run' = [aborted |-> TRUE, told |-> told] /\ UNCHANGED <<rpc, sent, inbound, asks, link>>
    BY <1>3 DEF AbortRun
  <2>2. told \in [CallIds -> Told]
    BY CallsAreNumbered DEF Told
  <2> HIDE DEF told
  <2>3. told \in Seq(Told) /\ Len(told) = Len(run.told)
    BY <2>2, CallsAreNumbered, ListOf DEF CallsInv
  <2>4. run' \in [aborted : BOOLEAN, told : Seq(Told)] /\ run'.told = told
    BY <2>1, <2>3
  <2>5. Traffic' <= MaxCalls
    BY <2>1 DEF CallsInv, Traffic, AskedOf
  <2> QED BY <2>1, <2>3, <2>4, <2>5, OtherStepKeeps DEF CallsInv
<1> QED BY <1>2, <1>3

\* What was asked, when its four numbers are known.
LEMMA RequestsAre ==
  ASSUME NEW one, DOMAIN one = {"waiting", "handling", "answered", "lost"}, one = [f \in DOMAIN one |-> one[f]],
         NEW w \in Nat, NEW h \in Nat, NEW a \in Nat, NEW l \in Nat,
         one.waiting = w, one.handling = h, one.answered = a, one.lost = l
  PROVE  one \in Requests /\ AskedOf(one) = w + h + a + l
<1>1. one \in [DOMAIN one -> Nat]
  BY SMT
<1>2. one \in Requests
  BY <1>1 DEF Requests
<1> QED BY <1>2 DEF AskedOf

LEMMA RequestStepKeeps ==
  ASSUME CallsInv, ServerAsks \/ AnswerServerRequest \/ HandlerEnds
  PROVE  CallsInv'
<1> DEFINE w == asks.waiting
           h == asks.handling
           a == asks.answered
           l == asks.lost
           up == IF link = "up" THEN 1 ELSE 0
           down == IF link = "up" THEN 0 ELSE 1
<1>1. UNCHANGED <<rpc, sent, inbound, link, run>>
  BY DEF ServerAsks, AnswerServerRequest, HandlerEnds
<1>2. Len(rpc) \in Nat /\ Len(rpc) + AskedOf(asks) <= MaxCalls
  BY CallsAreNumbered
<1>3. w \in Nat /\ h \in Nat /\ a \in Nat /\ l \in Nat /\ AskedOf(asks) = w + h + a + l
  BY DEF CallsInv, Requests, AskedOf
<1>4. DOMAIN asks = {"waiting", "handling", "answered", "lost"}
  BY DEF CallsInv, Requests
<1>5. up \in Nat /\ down \in Nat /\ up + down = 1
  OBVIOUS
<1>6. CASE ServerAsks
  <2>1. asks' = [asks EXCEPT !.waiting = w + 1] /\ Len(rpc) + AskedOf(asks) < MaxCalls
    BY <1>6 DEF ServerAsks, Traffic
  <2>2. asks'.waiting = w + 1 /\ asks'.handling = h /\ asks'.answered = a /\ asks'.lost = l
        /\ DOMAIN asks' = DOMAIN asks /\ asks' = [f \in DOMAIN asks' |-> asks'[f]]
    BY <1>4, <2>1
  <2> HIDE DEF w, h, a, l
  <2>3. asks' \in Requests /\ AskedOf(asks') = w + 1 + h + a + l
    <3>1. w + 1 \in Nat
      BY <1>3
    <3> QED BY <1>3, <1>4, <2>2, <3>1, RequestsAre
  <2>4. Traffic' <= MaxCalls
    BY <1>1, <1>2, <1>3, <2>1, <2>3, McpCallsAssumption, SMTT(30) DEF Traffic
  <2> QED BY <1>1, <2>3, <2>4, OtherStepKeeps DEF CallsInv
<1>7. CASE AnswerServerRequest \/ HandlerEnds
  <2>1. \/ w > 0 /\ asks' = [asks EXCEPT !.waiting = w - 1, !.handling = h + 1]
        \/ w > 0 /\ asks' = [asks EXCEPT !.waiting = w - 1, !.answered = a + up, !.lost = l + down]
        \/ h > 0 /\ asks' = [asks EXCEPT !.handling = h - 1, !.answered = a + up, !.lost = l + down]
    BY <1>7 DEF AnswerServerRequest, HandlerEnds
  <2>2. \E w1, h1, a1, l1 \in Nat :
           /\ asks'.waiting = w1 /\ asks'.handling = h1 /\ asks'.answered = a1 /\ asks'.lost = l1
           /\ w1 + h1 + a1 + l1 = w + h + a + l
    <3> HIDE DEF up, down
    <3>1. CASE w > 0 /\ asks' = [asks EXCEPT !.waiting = w - 1, !.handling = h + 1]
      <4>1. asks'.waiting = w - 1 /\ asks'.handling = h + 1 /\ asks'.answered = a /\ asks'.lost = l
        BY <1>4, <3>1
      <4> HIDE DEF w, h, a, l
      <4>2. w - 1 \in Nat /\ h + 1 \in Nat /\ (w - 1) + (h + 1) + a + l = w + h + a + l
        BY <1>3, <3>1
      <4> QED BY <1>3, <4>1, <4>2
    <3>2. CASE w > 0 /\ asks' = [asks EXCEPT !.waiting = w - 1, !.answered = a + up, !.lost = l + down]
      <4>1. asks'.waiting = w - 1 /\ asks'.handling = h /\ asks'.answered = a + up /\ asks'.lost = l + down
        BY <1>4, <3>2
      <4> HIDE DEF w, h, a, l
      <4>2. w - 1 \in Nat /\ a + up \in Nat /\ l + down \in Nat
            /\ (w - 1) + h + (a + up) + (l + down) = w + h + a + l
        BY <1>3, <1>5, <3>2
      <4> QED BY <1>3, <4>1, <4>2
    <3>3. CASE h > 0 /\ asks' = [asks EXCEPT !.handling = h - 1, !.answered = a + up, !.lost = l + down]
      <4>1. asks'.waiting = w /\ asks'.handling = h - 1 /\ asks'.answered = a + up /\ asks'.lost = l + down
        BY <1>4, <3>3
      <4> HIDE DEF w, h, a, l
      <4>2. h - 1 \in Nat /\ a + up \in Nat /\ l + down \in Nat
            /\ w + (h - 1) + (a + up) + (l + down) = w + h + a + l
        BY <1>3, <1>5, <3>3
      <4> QED BY <1>3, <4>1, <4>2
    <3> QED BY <2>1, <3>1, <3>2, <3>3
  <2>3. DOMAIN asks' = DOMAIN asks /\ asks' = [f \in DOMAIN asks' |-> asks'[f]]
    BY <2>1
  <2>4. asks' \in Requests /\ AskedOf(asks') = AskedOf(asks)
    <3> HIDE DEF w, h, a, l
    <3>1. PICK w1, h1, a1, l1 \in Nat :
             /\ asks'.waiting = w1 /\ asks'.handling = h1 /\ asks'.answered = a1 /\ asks'.lost = l1
             /\ w1 + h1 + a1 + l1 = w + h + a + l
      BY <2>2
    <3>2. asks' \in Requests /\ AskedOf(asks') = w1 + h1 + a1 + l1
      BY <1>4, <2>3, <3>1, RequestsAre
    <3> QED BY <1>3, <3>1, <3>2
  <2>5. Traffic' <= MaxCalls
    BY <1>1, <1>2, <2>4 DEF Traffic
  <2> QED BY <1>1, <2>4, <2>5, OtherStepKeeps DEF CallsInv
<1> QED BY <1>6, <1>7

LEMMA CallsKeep == CallsInv /\ [McpCallsNext]_McpCallsVars => CallsInv'
<1> SUFFICES ASSUME CallsInv, [McpCallsNext]_McpCallsVars
             PROVE  CallsInv'
  OBVIOUS
<1>1. CASE UNCHANGED McpCallsVars
  BY <1>1 DEF McpCallsVars, CallsInv, CallIds, Traffic, AskedOf, AnswerIsItsOwn
<1>2. CASE McpCallsNext
  BY <1>2, CallToolKeeps, CallStepKeeps, DeliverKeeps, ClientStepKeeps, RequestStepKeeps DEF McpCallsNext
<1> QED BY <1>1, <1>2

LEMMA CallsFollow == CallsInv => McpCallsTypeOK /\ AnswerIsItsOwn
<1> SUFFICES ASSUME CallsInv
             PROVE  McpCallsTypeOK
  BY DEF CallsInv
<1> QED BY CallsAreNumbered DEF CallsInv, McpCallsTypeOK, CallOf, Told, MessageOf
-----------------------------------------------------------------------------
(* The webhooks.  Who is left of a delivery has not been posted to, whom it is *)
(* at has no record yet, and everyone else it was meant for has one.           *)

RecordOf == [to : Subscription, event : 1..MaxPublished, ok : BOOLEAN, attempts : 1..MaxPosts]
Recorded(s, n) == \E r \in records : r.to = s /\ r.event = n
Untouched(s, n) == received[s][n] = 0 /\ ~Recorded(s, n)
Serving == {"posting", "recording"}

DeliveryInOrder(n) ==
  /\ delivery[n].at = "none" <=> n > published
  /\ delivery[n].at = "none" => delivery[n].asked = {} /\ delivery[n].left = {}
  /\ delivery[n].at \in {"none", "listing"} => \A s \in Subscription : Untouched(s, n)
  /\ \A s \in delivery[n].left : Untouched(s, n)
  /\ delivery[n].at \in Serving =>
       /\ delivery[n].to \notin delivery[n].left /\ ~Recorded(delivery[n].to, n)
       /\ received[delivery[n].to][n] <= delivery[n].attempt
  /\ delivery[n].at = "posting" => delivery[n].attempt < MaxPosts
  /\ delivery[n].at = "recording" =>
       /\ delivery[n].attempt > 0
       /\ IF delivery[n].ok THEN received[delivery[n].to][n] > 0 ELSE delivery[n].attempt = MaxPosts
  /\ delivery[n].at \notin {"none", "listing"} /\ n \notin storeFailed =>
       \A s \in delivery[n].asked \ delivery[n].left :
          Recorded(s, n) \/ (delivery[n].at \in Serving /\ s = delivery[n].to)
  /\ delivery[n].at = "finished" /\ n \notin storeFailed => delivery[n].left = {}

RecordIsTrue(r) ==
  /\ IF r.ok THEN received[r.to][r.event] > 0 ELSE r.attempts = MaxPosts
  /\ received[r.to][r.event] <= r.attempts

RecordsAreUnique == \A r, q \in records : r.to = q.to /\ r.event = q.event => r = q
AllIsSettled == dispatcher = "closed" => \A n \in 1..published : delivery[n].at = "finished"

WebhooksInv ==
  /\ WebhooksTypeOK /\ RecordsAreUnique /\ AllIsSettled
  /\ \A n \in 1..MaxPublished : DeliveryInOrder(n)
  /\ \A r \in records : RecordIsTrue(r)

LEMMA WebhooksStart == WebhooksInit => WebhooksInv
<1> SUFFICES ASSUME WebhooksInit
             PROVE  WebhooksInv
  OBVIOUS
<1>1. NoDelivery \in Delivery
  <2>1. (CHOOSE s \in Subscription : TRUE) \in Subscription
    BY WebhooksAssumption
  <2>2. 0 \in 0..MaxPosts
    BY WebhooksAssumption
  <2> QED BY <2>1, <2>2 DEF NoDelivery, Delivery
<1>2. WebhooksTypeOK
  BY <1>1, WebhooksAssumption DEF WebhooksInit, WebhooksTypeOK
<1>3. ASSUME NEW n \in 1..MaxPublished
      PROVE  DeliveryInOrder(n)
  <2>1. delivery[n] = NoDelivery /\ n > published /\ NoDelivery.at = "none" /\ NoDelivery.asked = {}
        /\ NoDelivery.left = {}
    BY WebhooksAssumption DEF WebhooksInit, NoDelivery
  <2>2. \A s \in Subscription : Untouched(s, n)
    BY DEF WebhooksInit, Untouched, Recorded
  <2> QED BY <2>1, <2>2 DEF DeliveryInOrder, Serving
<1> QED BY <1>2, <1>3, WebhooksAssumption DEF WebhooksInv, WebhooksInit, RecordsAreUnique, AllIsSettled

Places == {"none", "listing", "next", "posting", "recording", "finished"}
Tries == 0..MaxPosts
Hooks == SUBSET Subscription

Reads(one, at, asked, left, to, attempt, ok) ==
  /\ one \in Delivery
  /\ one.at = at /\ one.asked = asked /\ one.left = left
  /\ one.to = to /\ one.attempt = attempt /\ one.ok = ok

LEMMA DeliveryFields ==
  ASSUME NEW one \in Delivery
  PROVE  /\ \A v \in Places : Reads([one EXCEPT !.at = v], v, one.asked, one.left, one.to, one.attempt, one.ok)
         /\ \A v \in Hooks : Reads([one EXCEPT !.asked = v], one.at, v, one.left, one.to, one.attempt, one.ok)
         /\ \A v \in Hooks : Reads([one EXCEPT !.left = v], one.at, one.asked, v, one.to, one.attempt, one.ok)
         /\ \A v \in Subscription : Reads([one EXCEPT !.to = v], one.at, one.asked, one.left, v, one.attempt, one.ok)
         /\ \A v \in Tries : Reads([one EXCEPT !.attempt = v], one.at, one.asked, one.left, one.to, v, one.ok)
         /\ \A v \in BOOLEAN : Reads([one EXCEPT !.ok = v], one.at, one.asked, one.left, one.to, one.attempt, v)
<1>1. Delivery = [at : Places, asked : Hooks, left : Hooks, to : Subscription, attempt : Tries, ok : BOOLEAN]
  BY DEF Delivery, Places, Hooks, Tries
<1>2. /\ DOMAIN one = {"at", "asked", "left", "to", "attempt", "ok"}
      /\ one = [f \in DOMAIN one |-> one[f]]
  BY <1>1
<1>3. \A v \in Places : [one EXCEPT !.at = v] \in Delivery
  BY <1>1
<1>4. \A v \in Hooks : [one EXCEPT !.asked = v] \in Delivery /\ [one EXCEPT !.left = v] \in Delivery
  BY <1>1
<1>5. \A v \in Subscription : [one EXCEPT !.to = v] \in Delivery
  BY <1>1
<1>6. \A v \in Tries : [one EXCEPT !.attempt = v] \in Delivery
  BY <1>1
<1>7. \A v \in BOOLEAN : [one EXCEPT !.ok = v] \in Delivery
  BY <1>1
<1> HIDE DEF Delivery, Places, Hooks, Tries
<1> QED BY <1>2, <1>3, <1>4, <1>5, <1>6, <1>7 DEF Reads

\* A step of one delivery leaves every other as it was.
LEMMA OneDeliveryKeeps ==
  ASSUME WebhooksInv, NEW n \in 1..MaxPublished,
         hooks' \subseteq Subscription, dispatcher' \in {"on", "closing", "closed", "dead"}, published' \in 0..MaxPublished,
         delivery' \in [1..MaxPublished -> Delivery],
         received' \in [Subscription -> [1..MaxPublished -> 0..MaxPosts]],
         records' \subseteq RecordOf, storeFailed' \subseteq 1..MaxPublished,
         \A m \in (1..MaxPublished) \ {n} :
            /\ delivery'[m] = delivery[m] /\ (m \in storeFailed' <=> m \in storeFailed)
            /\ m > published' <=> m > published
            /\ \A s \in Subscription : received'[s][m] = received[s][m]
            /\ \A r \in RecordOf : r.event = m => (r \in records' <=> r \in records),
         DeliveryInOrder(n)', RecordsAreUnique', AllIsSettled', \A r \in records' : RecordIsTrue(r)'
  PROVE  WebhooksInv'
<1>1. WebhooksTypeOK'
  BY DEF WebhooksTypeOK, RecordOf
<1>2. ASSUME NEW m \in 1..MaxPublished
      PROVE  DeliveryInOrder(m)'
  <2>1. CASE m = n
    BY <2>1
  <2>2. CASE m # n
    <3>1. delivery'[m] = delivery[m] /\ (m \in storeFailed' <=> m \in storeFailed)
          /\ (m > published' <=> m > published)
      BY <2>2
    <3>2. \A s \in Subscription : received'[s][m] = received[s][m] /\ (Recorded(s, m)' <=> Recorded(s, m))
      BY <2>2 DEF Recorded, WebhooksInv, WebhooksTypeOK, RecordOf
    <3>3. \A s \in Subscription : Untouched(s, m)' <=> Untouched(s, m)
      BY <3>2 DEF Untouched
    <3>4. delivery[m].left \subseteq Subscription /\ delivery[m].asked \subseteq Subscription
          /\ delivery[m].to \in Subscription
      BY DEF WebhooksInv, WebhooksTypeOK, Delivery
    <3>5. DeliveryInOrder(m)
      BY DEF WebhooksInv
    <3> QED BY <3>1, <3>2, <3>3, <3>4, <3>5 DEF DeliveryInOrder
  <2> QED BY <2>1, <2>2
<1>3. \A r \in records' : RecordIsTrue(r)'
  OBVIOUS
<1> QED BY <1>1, <1>2, <1>3 DEF WebhooksInv

LEMMA PublishKeeps == ASSUME WebhooksInv, Publish PROVE WebhooksInv'
<1>0. published \in Nat /\ MaxPublished \in Nat /\ published + 1 \in 1..MaxPublished
  BY WebhooksAssumption DEF Publish, WebhooksInv, WebhooksTypeOK
<1>n. PICK n \in 1..MaxPublished : n = published + 1
  BY <1>0
<1> DEFINE at == IF dispatcher = "on" THEN "listing" ELSE "finished"
           one == [delivery[n] EXCEPT !.at = at]
<1>1. n \in 1..MaxPublished /\ n \in Nat /\ n > published
  BY <1>0, <1>n
<1>2. published' = n /\ delivery' = [delivery EXCEPT ![n] = one]
      /\ UNCHANGED <<hooks, dispatcher, received, records, storeFailed>>
  BY <1>n DEF Publish
<1>3. delivery[n] \in Delivery /\ DeliveryInOrder(n) /\ delivery \in [1..MaxPublished -> Delivery]
  BY <1>1 DEF WebhooksInv, WebhooksTypeOK
<1>4. at \in {"listing", "finished"} /\ (dispatcher = "closed" => at = "finished")
  OBVIOUS
<1> HIDE DEF at
<1>5. one \in Delivery /\ one.at = at /\ one.asked = {} /\ one.left = {}
  <2>1. delivery[n].asked = {} /\ delivery[n].left = {}
    BY <1>1, <1>3 DEF DeliveryInOrder
  <2>2. at \in Places
    BY <1>4 DEF Places
  <2> QED BY <1>3, <2>1, <2>2, DeliveryFields DEF Reads
<1> HIDE DEF one
<1>6. delivery' \in [1..MaxPublished -> Delivery] /\ delivery'[n] = one
      /\ \A m \in (1..MaxPublished) \ {n} : delivery'[m] = delivery[m]
  BY <1>1, <1>2, <1>3, <1>5
<1>7. \A m \in (1..MaxPublished) \ {n} : m > published' <=> m > published
  BY <1>0, <1>n, <1>1, <1>2
<1>8. DeliveryInOrder(n)'
  <2>1. \A s \in Subscription : Untouched(s, n)
    BY <1>1, <1>3 DEF DeliveryInOrder
  <2>2. \A s \in Subscription : Untouched(s, n)'
    BY <1>2, <2>1 DEF Untouched, Recorded
  <2>3. ~(n > n)
    BY <1>1
  <2> QED BY <1>2, <1>4, <1>5, <1>6, <2>2, <2>3 DEF DeliveryInOrder, Serving
<1>9. AllIsSettled'
  <2> SUFFICES ASSUME dispatcher = "closed", NEW m \in 1..n
               PROVE  delivery'[m].at = "finished"
    BY <1>2 DEF AllIsSettled
  <2>1. m = n \/ m \in 1..published
    BY <1>0, <1>n, <1>1
  <2>2. m \in 1..MaxPublished
    BY <1>0, <1>n, <1>1
  <2> QED BY <2>1, <2>2, <1>4, <1>5, <1>6 DEF WebhooksInv, AllIsSettled
<1>10. RecordsAreUnique' /\ \A r \in records' : RecordIsTrue(r)'
  BY <1>2 DEF WebhooksInv, RecordsAreUnique, RecordIsTrue
<1>11. /\ hooks' \subseteq Subscription /\ dispatcher' \in {"on", "closing", "closed", "dead"}
       /\ published' \in 0..MaxPublished /\ received' \in [Subscription -> [1..MaxPublished -> 0..MaxPosts]]
       /\ records' \subseteq RecordOf /\ storeFailed' \subseteq 1..MaxPublished
  BY <1>1, <1>2 DEF WebhooksInv, WebhooksTypeOK, RecordOf
<1>12. \A m \in (1..MaxPublished) \ {n} :
          /\ delivery'[m] = delivery[m] /\ (m \in storeFailed' <=> m \in storeFailed)
          /\ m > published' <=> m > published
          /\ \A s \in Subscription : received'[s][m] = received[s][m]
          /\ \A r \in RecordOf : r.event = m => (r \in records' <=> r \in records)
  BY <1>2, <1>6, <1>7
<1> QED BY <1>1, <1>6, <1>8, <1>9, <1>10, <1>11, <1>12, OneDeliveryKeeps

\* A step that moves a delivery on, with nothing received and nothing recorded.
LEMMA DeliveryMovesOn ==
  ASSUME WebhooksInv, NEW n \in 1..MaxPublished, NEW one \in Delivery, Dispatching,
         delivery' = [delivery EXCEPT ![n] = one], UNCHANGED <<hooks, dispatcher, published, received, records, storeFailed>>,
         DeliveryInOrder(n)'
  PROVE  WebhooksInv'
<1>1. delivery' \in [1..MaxPublished -> Delivery] /\ \A m \in (1..MaxPublished) \ {n} : delivery'[m] = delivery[m]
  BY DEF WebhooksInv, WebhooksTypeOK
<1>2. AllIsSettled' /\ RecordsAreUnique' /\ \A r \in records' : RecordIsTrue(r)'
  BY DEF WebhooksInv, RecordsAreUnique, RecordIsTrue, AllIsSettled, Dispatching
<1>3. /\ hooks' \subseteq Subscription /\ dispatcher' \in {"on", "closing", "closed", "dead"}
      /\ published' \in 0..MaxPublished /\ received' \in [Subscription -> [1..MaxPublished -> 0..MaxPosts]]
      /\ records' \subseteq RecordOf /\ storeFailed' \subseteq 1..MaxPublished
  BY DEF WebhooksInv, WebhooksTypeOK, RecordOf
<1>4. \A m \in (1..MaxPublished) \ {n} :
         /\ delivery'[m] = delivery[m] /\ (m \in storeFailed' <=> m \in storeFailed)
         /\ m > published' <=> m > published
         /\ \A s \in Subscription : received'[s][m] = received[s][m]
         /\ \A r \in RecordOf : r.event = m => (r \in records' <=> r \in records)
  BY <1>1
<1> QED BY <1>1, <1>2, <1>3, <1>4, OneDeliveryKeeps

LEMMA ListSubscriptionsKeeps ==
  ASSUME WebhooksInv, NEW n \in 1..MaxPublished, ListSubscriptions(n)
  PROVE  WebhooksInv'
<1> DEFINE first == [delivery[n] EXCEPT !.at = "next"]
           second == [first EXCEPT !.asked = hooks]
           one == [second EXCEPT !.left = hooks]
<1>1. delivery[n] \in Delivery /\ delivery \in [1..MaxPublished -> Delivery] /\ hooks \in SUBSET Subscription
      /\ delivery[n].at = "listing" /\ DeliveryInOrder(n)
  BY DEF WebhooksInv, WebhooksTypeOK, ListSubscriptions
<1>2. first \in Delivery /\ first.at = "next" /\ hooks \in Hooks
  BY <1>1, DeliveryFields DEF Reads, Places, Hooks
<1>3. delivery' = [delivery EXCEPT ![n] = one]
  BY <1>1 DEF ListSubscriptions
<1> HIDE DEF first
<1>4. second \in Delivery /\ second.at = "next" /\ second.asked = hooks
  BY <1>2, DeliveryFields DEF Reads
<1> HIDE DEF second
<1>5. one \in Delivery /\ one.at = "next" /\ one.asked = hooks /\ one.left = hooks
  BY <1>2, <1>4, DeliveryFields DEF Reads
<1> HIDE DEF one
<1>6. Dispatching /\ UNCHANGED <<hooks, dispatcher, published, received, records, storeFailed>>
  BY DEF ListSubscriptions
<1>7. DeliveryInOrder(n)'
  <2>1. delivery'[n] = one /\ ~(n > published)
    BY <1>1, <1>3 DEF DeliveryInOrder
  <2>2. \A s \in Subscription : Untouched(s, n)'
    BY <1>1, <1>6 DEF DeliveryInOrder, Untouched, Recorded
  <2> QED BY <1>1, <1>5, <1>6, <2>1, <2>2 DEF DeliveryInOrder, Serving
<1> QED BY <1>3, <1>5, <1>6, <1>7, DeliveryMovesOn

LEMMA NextSubscriptionKeeps ==
  ASSUME WebhooksInv, NEW n \in 1..MaxPublished, NextSubscription(n)
  PROVE  WebhooksInv'
<1>1. delivery[n] \in Delivery /\ delivery \in [1..MaxPublished -> Delivery]
      /\ delivery[n].at = "next" /\ DeliveryInOrder(n) /\ delivery[n].left \subseteq Subscription
  BY DEF WebhooksInv, WebhooksTypeOK, NextSubscription, Delivery
<1>2. Dispatching /\ UNCHANGED <<hooks, dispatcher, published, received, records, storeFailed>>
  BY DEF NextSubscription
<1>3. \A s \in Subscription : /\ Untouched(s, n)' <=> Untouched(s, n)
                              /\ Recorded(s, n)' <=> Recorded(s, n)
  BY <1>2 DEF Untouched, Recorded
<1>4. ~(n > published)
  BY <1>1 DEF DeliveryInOrder
<1>5. CASE delivery[n].left = {} /\ delivery' = [delivery EXCEPT ![n].at = "finished"]
  <2> DEFINE one == [delivery[n] EXCEPT !.at = "finished"]
  <2>1. one \in Delivery /\ one.at = "finished" /\ one.left = {} /\ one.asked = delivery[n].asked
        /\ delivery' = [delivery EXCEPT ![n] = one]
    BY <1>1, <1>5, DeliveryFields DEF Reads, Places
  <2> HIDE DEF one
  <2>2. DeliveryInOrder(n)'
    <3>1. delivery'[n] = one /\ one.asked \subseteq Subscription
      BY <1>1, <2>1 DEF Delivery
    <3> QED BY <1>1, <1>2, <1>3, <1>4, <1>5, <2>1, <3>1 DEF DeliveryInOrder, Serving
  <2> QED BY <1>2, <2>1, <2>2, DeliveryMovesOn
<1>6. ASSUME NEW s \in delivery[n].left,
             delivery' = [delivery EXCEPT ![n].at = "posting", ![n].left = @ \ {s}, ![n].to = s,
                                          ![n].attempt = 0, ![n].ok = FALSE]
      PROVE  WebhooksInv'
  <2> DEFINE rest == delivery[n].left \ {s}
             first == [delivery[n] EXCEPT !.at = "posting"]
             second == [first EXCEPT !.left = rest]
             third == [second EXCEPT !.to = s]
             fourth == [third EXCEPT !.attempt = 0]
             one == [fourth EXCEPT !.ok = FALSE]
  <2>1. s \in Subscription /\ rest \in Hooks /\ 0 \in Tries
    BY <1>1, WebhooksAssumption DEF Hooks, Tries
  <2>2. first \in Delivery /\ first.at = "posting" /\ first.left = delivery[n].left /\ first.asked = delivery[n].asked
    BY <1>1, DeliveryFields DEF Reads, Places
  <2>3. delivery' = [delivery EXCEPT ![n] = one]
    BY <1>1, <1>6
  <2> HIDE DEF first, rest
  <2>4. second \in Delivery /\ second.at = "posting" /\ second.left = rest /\ second.asked = delivery[n].asked
    BY <2>1, <2>2, DeliveryFields DEF Reads
  <2> HIDE DEF second
  <2>5. third \in Delivery /\ third.at = "posting" /\ third.left = rest /\ third.asked = delivery[n].asked /\ third.to = s
    BY <2>1, <2>4, DeliveryFields DEF Reads
  <2> HIDE DEF third
  <2>6. fourth \in Delivery /\ fourth.at = "posting" /\ fourth.left = rest /\ fourth.asked = delivery[n].asked
        /\ fourth.to = s /\ fourth.attempt = 0
    BY <2>1, <2>5, DeliveryFields DEF Reads
  <2> HIDE DEF fourth
  <2>7. one \in Delivery /\ one.at = "posting" /\ one.left = rest /\ one.asked = delivery[n].asked
        /\ one.to = s /\ one.attempt = 0
    BY <2>6, DeliveryFields DEF Reads
  <2> HIDE DEF one
  <2>8. DeliveryInOrder(n)'
    <3>1. delivery'[n] = one /\ one.asked \subseteq Subscription
      BY <1>1, <2>3, <2>7 DEF Delivery
    <3>2. Untouched(s, n) /\ received'[s][n] = 0 /\ 0 < MaxPosts /\ 0 <= 0 /\ s \notin rest
      BY <1>1, <1>2, WebhooksAssumption DEF DeliveryInOrder, Untouched, rest
    <3>3. ~Recorded(s, n)'
      BY <1>3, <2>1, <3>2 DEF Untouched
    <3>4. \A q \in rest : Untouched(q, n)'
      BY <1>1, <1>3, <2>1 DEF DeliveryInOrder, rest
    <3>5. n \notin storeFailed => \A q \in one.asked \ rest : Recorded(q, n)' \/ q = s
      BY <1>1, <1>3, <2>7, <3>1 DEF DeliveryInOrder, Serving, rest
    <3>6. storeFailed' = storeFailed /\ published' = published
      BY <1>2
    <3> QED BY <1>4, <2>7, <3>1, <3>2, <3>3, <3>4, <3>5, <3>6 DEF DeliveryInOrder, Serving
  <2> QED BY <1>2, <2>3, <2>7, <2>8, DeliveryMovesOn
<1> QED BY <1>5, <1>6 DEF NextSubscription

LEMMA PostKeeps ==
  ASSUME WebhooksInv, NEW n \in 1..MaxPublished, Post(n)
  PROVE  WebhooksInv'
<1>1. PICK arrives \in BOOLEAN, answered \in BOOLEAN :
         /\ answered => arrives
         /\ delivery' = [delivery EXCEPT ![n].attempt = @ + 1, ![n].ok = answered,
                                         ![n].at = IF answered \/ delivery[n].attempt + 1 = MaxPosts
                                                   THEN "recording" ELSE "posting"]
         /\ received' = [received EXCEPT ![delivery[n].to][n] = @ + (IF arrives THEN 1 ELSE 0)]
  BY DEF Post
<1>2. Dispatching /\ delivery[n].at = "posting" /\ UNCHANGED <<hooks, dispatcher, published, records, storeFailed>>
  BY DEF Post
<1>3. delivery[n] \in Delivery /\ delivery \in [1..MaxPublished -> Delivery] /\ DeliveryInOrder(n)
  BY DEF WebhooksInv, WebhooksTypeOK
<1>4. PICK to \in Subscription, tries \in 0..MaxPosts : delivery[n].to = to /\ delivery[n].attempt = tries
  BY <1>3 DEF Delivery
<1>5. PICK had \in 0..MaxPosts : received[to][n] = had
  BY <1>4 DEF WebhooksInv, WebhooksTypeOK
<1> DEFINE got == had + (IF arrives THEN 1 ELSE 0)
           at == IF answered \/ tries + 1 = MaxPosts THEN "recording" ELSE "posting"
           first == [delivery[n] EXCEPT !.attempt = tries + 1]
           second == [first EXCEPT !.ok = answered]
           one == [second EXCEPT !.at = at]
<1>6. had <= tries /\ tries < MaxPosts /\ ~Recorded(to, n) /\ to \notin delivery[n].left /\ ~(n > published)
  BY <1>2, <1>3, <1>4, <1>5 DEF DeliveryInOrder, Serving
<1>7. /\ tries + 1 \in Tries /\ got \in 0..MaxPosts /\ got <= tries + 1 /\ tries + 1 > 0
      /\ answered => got > 0
  BY <1>1, <1>4, <1>5, <1>6, WebhooksAssumption DEF Tries
<1>8. delivery' = [delivery EXCEPT ![n] = one]
  BY <1>1, <1>3, <1>4
<1>9. received' = [received EXCEPT ![to] = [received[to] EXCEPT ![n] = got]]
  BY <1>1, <1>4, <1>5 DEF WebhooksInv, WebhooksTypeOK
<1>10. at \in {"posting", "recording"} /\ at \in Places /\ (at = "posting" => tries + 1 # MaxPosts)
       /\ (at = "recording" => answered \/ tries + 1 = MaxPosts)
  BY DEF Places
<1> HIDE DEF got, at
<1>11. Reads(first, delivery[n].at, delivery[n].asked, delivery[n].left, to, tries + 1, delivery[n].ok)
  BY <1>3, <1>4, <1>7, DeliveryFields DEF Reads
<1> HIDE DEF first
<1>12. Reads(second, delivery[n].at, delivery[n].asked, delivery[n].left, to, tries + 1, answered)
  BY <1>11, DeliveryFields DEF Reads
<1> HIDE DEF second
<1>13. Reads(one, at, delivery[n].asked, delivery[n].left, to, tries + 1, answered)
  BY <1>10, <1>12, DeliveryFields DEF Reads
<1> HIDE DEF one
<1>14. one \in Delivery /\ one.at = at /\ one.asked = delivery[n].asked /\ one.left = delivery[n].left
       /\ one.to = to /\ one.attempt = tries + 1 /\ one.ok = answered
  BY <1>13 DEF Reads
<1>15. /\ received' \in [Subscription -> [1..MaxPublished -> 0..MaxPosts]]
       /\ received'[to][n] = got
       /\ \A s \in Subscription, m \in 1..MaxPublished : s # to \/ m # n => received'[s][m] = received[s][m]
  BY <1>4, <1>7, <1>9 DEF WebhooksInv, WebhooksTypeOK
<1>16. \A s \in Subscription : Recorded(s, n)' <=> Recorded(s, n)
  BY <1>2 DEF Recorded
<1>17. DeliveryInOrder(n)'
  <2>1. delivery'[n] = one /\ one.asked \subseteq Subscription /\ one.left \subseteq Subscription
    BY <1>3, <1>8, <1>14 DEF Delivery
  <2>2. storeFailed' = storeFailed /\ published' = published
    BY <1>2
  <2>3. \A s \in one.left : Untouched(s, n)'
    <3>1. \A s \in one.left : Untouched(s, n) /\ s # to /\ s \in Subscription
      BY <1>3, <1>6, <1>14, <2>1 DEF DeliveryInOrder
    <3> QED BY <1>15, <1>16, <3>1 DEF Untouched
  <2>4. n \notin storeFailed => \A s \in one.asked \ one.left : Recorded(s, n)' \/ s = to
    BY <1>2, <1>3, <1>4, <1>14, <1>16, <2>1 DEF DeliveryInOrder, Serving
  <2>5. ~Recorded(to, n)' /\ received'[to][n] <= tries + 1 /\ to \notin one.left
    BY <1>4, <1>6, <1>7, <1>14, <1>15, <1>16
  <2>6. tries + 1 # MaxPosts => tries + 1 < MaxPosts
    BY <1>4, <1>6, WebhooksAssumption
  <2>7. at = "recording" => IF answered THEN received'[to][n] > 0 ELSE tries + 1 = MaxPosts
    BY <1>7, <1>10, <1>15
  <2> QED BY <1>6, <1>7, <1>10, <1>14, <2>1, <2>2, <2>3, <2>4, <2>5, <2>6, <2>7 DEF DeliveryInOrder, Serving
<1>18. RecordsAreUnique' /\ AllIsSettled'
  BY <1>2 DEF WebhooksInv, RecordsAreUnique, AllIsSettled, Dispatching
<1>19. ASSUME NEW r \in records'
       PROVE  RecordIsTrue(r)'
  <2>1. r \in records /\ r.to \in Subscription /\ r.event \in 1..MaxPublished /\ RecordIsTrue(r)
    BY <1>2 DEF WebhooksInv, WebhooksTypeOK
  <2>2. r.to # to \/ r.event # n
    BY <1>6, <2>1 DEF Recorded
  <2>3. received'[r.to][r.event] = received[r.to][r.event]
    BY <1>15, <2>1, <2>2
  <2> QED BY <2>1, <2>3 DEF RecordIsTrue
<1>20. /\ hooks' \subseteq Subscription /\ dispatcher' \in {"on", "closing", "closed", "dead"}
       /\ published' \in 0..MaxPublished /\ delivery' \in [1..MaxPublished -> Delivery]
       /\ records' \subseteq RecordOf /\ storeFailed' \subseteq 1..MaxPublished
  BY <1>2, <1>3, <1>8, <1>14 DEF WebhooksInv, WebhooksTypeOK, RecordOf
<1>21. \A m \in (1..MaxPublished) \ {n} :
          /\ delivery'[m] = delivery[m] /\ (m \in storeFailed' <=> m \in storeFailed)
          /\ m > published' <=> m > published
          /\ \A s \in Subscription : received'[s][m] = received[s][m]
          /\ \A r \in RecordOf : r.event = m => (r \in records' <=> r \in records)
  BY <1>2, <1>3, <1>8, <1>15
<1> QED BY <1>15, <1>17, <1>18, <1>19, <1>20, <1>21, OneDeliveryKeeps

LEMMA RecordDeliveryKeeps ==
  ASSUME WebhooksInv, NEW n \in 1..MaxPublished, RecordDelivery(n)
  PROVE  WebhooksInv'
<1>1. Dispatching /\ delivery[n].at = "recording" /\ UNCHANGED <<hooks, dispatcher, published, received>>
  BY DEF RecordDelivery
<1>2. delivery[n] \in Delivery /\ delivery \in [1..MaxPublished -> Delivery] /\ DeliveryInOrder(n)
  BY DEF WebhooksInv, WebhooksTypeOK
<1>3. PICK to \in Subscription, tries \in 0..MaxPosts, ok \in BOOLEAN :
         delivery[n].to = to /\ delivery[n].attempt = tries /\ delivery[n].ok = ok
  BY <1>2 DEF Delivery
<1>4. /\ ~Recorded(to, n) /\ to \notin delivery[n].left /\ ~(n > published)
      /\ tries \in 1..MaxPosts /\ received[to][n] <= tries
      /\ IF ok THEN received[to][n] > 0 ELSE tries = MaxPosts
  BY <1>1, <1>2, <1>3, WebhooksAssumption DEF DeliveryInOrder, Serving
<1>5. hooks' \subseteq Subscription /\ dispatcher' \in {"on", "closing", "closed", "dead"}
      /\ published' \in 0..MaxPublished /\ received' \in [Subscription -> [1..MaxPublished -> 0..MaxPosts]]
  BY <1>1 DEF WebhooksInv, WebhooksTypeOK
<1>6. AllIsSettled'
  BY <1>1 DEF AllIsSettled, Dispatching
<1>7. CASE /\ records' = records \cup {[to |-> delivery[n].to, event |-> n, ok |-> delivery[n].ok,
                                        attempts |-> delivery[n].attempt]}
           /\ delivery' = [delivery EXCEPT ![n].at = "next"]
           /\ UNCHANGED storeFailed
  <2> DEFINE one == [delivery[n] EXCEPT !.at = "next"]
             new == [to |-> to, event |-> n, ok |-> ok, attempts |-> tries]
  <2>1. delivery' = [delivery EXCEPT ![n] = one] /\ records' = records \cup {new} /\ storeFailed' = storeFailed
    BY <1>2, <1>3, <1>7
  <2>2. Reads(one, "next", delivery[n].asked, delivery[n].left, to, tries, ok)
    BY <1>2, <1>3, DeliveryFields DEF Places, Reads
  <2>3. new \in RecordOf /\ new.to = to /\ new.event = n /\ new.ok = ok /\ new.attempts = tries
    BY <1>4 DEF RecordOf
  <2> HIDE DEF one, new
  <2>4. one \in Delivery /\ one.at = "next" /\ one.asked = delivery[n].asked /\ one.left = delivery[n].left
    BY <2>2 DEF Reads
  <2>5. \A s \in Subscription : Recorded(s, n)' <=> Recorded(s, n) \/ s = to
    BY <2>1, <2>3 DEF Recorded
  <2>6. DeliveryInOrder(n)'
    <3>1. delivery'[n] = one /\ one.asked \subseteq Subscription /\ one.left \subseteq Subscription
      BY <1>2, <2>1, <2>4 DEF Delivery
    <3>2. \A s \in one.left : Untouched(s, n)'
      <4>1. \A s \in one.left : Untouched(s, n) /\ s # to /\ s \in Subscription
        BY <1>2, <1>4, <2>4, <3>1 DEF DeliveryInOrder
      <4>2. received' = received
        BY <1>1
      <4> QED BY <2>5, <4>1, <4>2 DEF Untouched
    <3>3. n \notin storeFailed => \A s \in one.asked \ one.left : Recorded(s, n)'
      BY <1>1, <1>2, <1>3, <2>4, <2>5, <3>1 DEF DeliveryInOrder, Serving
    <3>4. published' = published
      BY <1>1
    <3> QED BY <1>4, <2>1, <2>4, <3>1, <3>2, <3>3, <3>4 DEF DeliveryInOrder, Serving
  <2>7. RecordsAreUnique'
    <3>1. \A r \in records : r.to # to \/ r.event # n
      BY <1>4 DEF Recorded
    <3> QED BY <2>1, <2>3, <3>1 DEF WebhooksInv, RecordsAreUnique
  <2>8. ASSUME NEW r \in records'
        PROVE  RecordIsTrue(r)'
    <3>1. received' = received
      BY <1>1
    <3>2. CASE r \in records
      BY <3>1, <3>2 DEF WebhooksInv, RecordIsTrue
    <3>3. CASE r = new
      BY <1>4, <2>3, <3>1, <3>3 DEF RecordIsTrue
    <3> QED BY <2>1, <3>2, <3>3
  <2>9. records' \subseteq RecordOf /\ storeFailed' \subseteq 1..MaxPublished /\ delivery' \in [1..MaxPublished -> Delivery]
    BY <1>2, <2>1, <2>3, <2>4 DEF WebhooksInv, WebhooksTypeOK, RecordOf
  <2>10. \A m \in (1..MaxPublished) \ {n} :
            /\ delivery'[m] = delivery[m] /\ (m \in storeFailed' <=> m \in storeFailed)
            /\ m > published' <=> m > published
            /\ \A s \in Subscription : received'[s][m] = received[s][m]
            /\ \A r \in RecordOf : r.event = m => (r \in records' <=> r \in records)
    BY <1>1, <1>2, <2>1, <2>3
  <2> QED BY <1>5, <1>6, <2>6, <2>7, <2>8, <2>9, <2>10, OneDeliveryKeeps
<1>8. CASE /\ storeFailed' = storeFailed \cup {n}
           /\ delivery' = [delivery EXCEPT ![n].at = "finished"]
           /\ UNCHANGED records
  <2> DEFINE one == [delivery[n] EXCEPT !.at = "finished"]
  <2>1. delivery' = [delivery EXCEPT ![n] = one] /\ records' = records /\ storeFailed' = storeFailed \cup {n}
    BY <1>2, <1>8
  <2>2. Reads(one, "finished", delivery[n].asked, delivery[n].left, to, tries, ok)
    BY <1>2, <1>3, DeliveryFields DEF Places, Reads
  <2> HIDE DEF one
  <2>3. one \in Delivery /\ one.at = "finished" /\ one.left = delivery[n].left
    BY <2>2 DEF Reads
  <2>4. DeliveryInOrder(n)'
    <3>1. delivery'[n] = one /\ n \in storeFailed' /\ published' = published /\ one.left \subseteq Subscription
      BY <1>1, <1>2, <2>1, <2>3 DEF Delivery
    <3>2. \A s \in one.left : Untouched(s, n)'
      BY <1>1, <1>2, <2>1, <2>3 DEF DeliveryInOrder, Untouched, Recorded
    <3> QED BY <1>4, <2>3, <3>1, <3>2 DEF DeliveryInOrder, Serving
  <2>5. RecordsAreUnique' /\ \A r \in records' : RecordIsTrue(r)'
    BY <1>1, <2>1 DEF WebhooksInv, RecordsAreUnique, RecordIsTrue
  <2>6. records' \subseteq RecordOf /\ storeFailed' \subseteq 1..MaxPublished /\ delivery' \in [1..MaxPublished -> Delivery]
    BY <1>2, <2>1, <2>3 DEF WebhooksInv, WebhooksTypeOK, RecordOf
  <2>7. \A m \in (1..MaxPublished) \ {n} :
            /\ delivery'[m] = delivery[m] /\ (m \in storeFailed' <=> m \in storeFailed)
            /\ m > published' <=> m > published
            /\ \A s \in Subscription : received'[s][m] = received[s][m]
            /\ \A r \in RecordOf : r.event = m => (r \in records' <=> r \in records)
    BY <1>1, <1>2, <2>1
  <2> QED BY <1>5, <1>6, <2>4, <2>5, <2>6, <2>7, OneDeliveryKeeps
<1> QED BY <1>7, <1>8 DEF RecordDelivery

\* What the store, close() and the process do leaves the deliveries alone.
LEMMA DispatcherKeeps ==
  ASSUME WebhooksInv, (\E s \in Subscription : Deactivate(s)) \/ BeginClose \/ Drained \/ KillDispatcher
  PROVE  WebhooksInv'
<1>1. UNCHANGED <<published, delivery, received, records, storeFailed>>
  BY DEF Deactivate, BeginClose, Drained, KillDispatcher
<1>2. WebhooksTypeOK' /\ RecordsAreUnique'
  BY <1>1 DEF WebhooksInv, WebhooksTypeOK, RecordsAreUnique, Deactivate, BeginClose, Drained, KillDispatcher
<1>3. \A n \in 1..MaxPublished : DeliveryInOrder(n)'
  BY <1>1 DEF WebhooksInv, DeliveryInOrder, Untouched, Recorded
<1>4. \A r \in records' : RecordIsTrue(r)'
  BY <1>1 DEF WebhooksInv, RecordIsTrue
<1>5. AllIsSettled'
  BY <1>1 DEF WebhooksInv, AllIsSettled, Deactivate, BeginClose, Drained, KillDispatcher, InFlight
<1> QED BY <1>2, <1>3, <1>4, <1>5 DEF WebhooksInv

LEMMA WebhooksKeep == WebhooksInv /\ [WebhooksNext]_WebhooksVars => WebhooksInv'
<1> SUFFICES ASSUME WebhooksInv, [WebhooksNext]_WebhooksVars
             PROVE  WebhooksInv'
  OBVIOUS
<1>1. CASE UNCHANGED WebhooksVars
  <2>1. WebhooksTypeOK' /\ RecordsAreUnique' /\ AllIsSettled'
    BY <1>1 DEF WebhooksVars, WebhooksInv, WebhooksTypeOK, RecordsAreUnique, AllIsSettled
  <2>2. (\A n \in 1..MaxPublished : DeliveryInOrder(n)') /\ \A r \in records' : RecordIsTrue(r)'
    BY <1>1 DEF WebhooksVars, WebhooksInv, DeliveryInOrder, Untouched, Recorded, RecordIsTrue
  <2> QED BY <2>1, <2>2 DEF WebhooksInv
<1>2. CASE WebhooksNext
  BY <1>2, PublishKeeps, ListSubscriptionsKeeps, NextSubscriptionKeeps, PostKeeps, RecordDeliveryKeeps, DispatcherKeeps
     DEF WebhooksNext, DeliveryStep
<1> QED BY <1>1, <1>2

LEMMA WebhooksFollow == WebhooksInv => WebhooksTypeOK /\ LogTellsTheTruth /\ ClosedIsSettled
<1> SUFFICES ASSUME WebhooksInv
             PROVE  LogTellsTheTruth /\ ClosedIsSettled
  BY DEF WebhooksInv
<1>1. LogTellsTheTruth
  BY DEF WebhooksInv, RecordIsTrue, LogTellsTheTruth
<1>2. ASSUME dispatcher = "closed", NEW n \in (1..published) \ storeFailed, NEW s \in delivery[n].asked
      PROVE  Cardinality({r \in records : r.to = s /\ r.event = n}) = 1
  <2>1. n \in 1..MaxPublished /\ delivery[n].at = "finished" /\ DeliveryInOrder(n)
    BY <1>2, WebhooksAssumption DEF WebhooksInv, WebhooksTypeOK, AllIsSettled
  <2>2. Recorded(s, n)
    BY <1>2, <2>1 DEF DeliveryInOrder, Serving
  <2>3. PICK r \in records : r.to = s /\ r.event = n
    BY <2>2 DEF Recorded
  <2>4. {q \in records : q.to = s /\ q.event = n} = {r}
    BY <2>3 DEF WebhooksInv, RecordsAreUnique
  <2> QED BY <2>4, FS_Singleton
<1>3. ClosedIsSettled
  BY <1>2 DEF ClosedIsSettled
<1> QED BY <1>1, <1>3

\* An answer finds the call it belongs to.  Over MCP a caller is told what the
\* message with its own id said, however late, repeated or reordered the messages
\* are (mcp/src/client.ts); the delivery log says of an endpoint what became of
\* the posts to it, and when close() has returned, every subscription an event was
\* meant for has one outcome in it, except where the store failed (webhooks.ts).
THEOREM AnswersFindTheirCalls == ServicesSpec => []AnswersFindTheirCall
<1> DEFINE Inv == /\ part = "calls" => CallsInv
                  /\ part = "webhooks" => WebhooksInv
<1>1. ServicesInit => Inv
  BY CallsStart, WebhooksStart DEF ServicesInit
<1>2. Inv /\ [ServicesNext]_servicesVars => Inv'
  BY OnlyItsPartMoves, CallsKeep, WebhooksKeep
<1>3. Inv => AnswersFindTheirCall
  BY CallsFollow, WebhooksFollow DEF AnswersFindTheirCall, Of
<1> QED BY <1>1, <1>2, <1>3, PTL DEF ServicesSpec
-----------------------------------------------------------------------------
(* Permissions.  What combines two layers refuses what either refuses, and a  *)
(* restriction permits only what the restricted layer did.                    *)

Refuses(group, use) == group.flag = FALSE \/ \E pattern \in Or(group.deny, {}) : use \in pattern
Override(definition, request) == IF request = NoGroup THEN definition ELSE MergeGroup(definition, request)
ListOrUnset == PatternList \cup {UNSET}

PermissionsInv ==
  /\ layers \in [definition : Group, request : Group, tool : Group]
  /\ grant \in {NoGroup, RestrictGroup(layers.definition, layers.request),
                Override(layers.definition, layers.request)}
  /\ effective = NoGroup \/ (grant # NoGroup /\ effective = RestrictGroup(grant, layers.tool))

LEMMA ListsCombine ==
  /\ UNSET \notin BOOLEAN /\ UNSET \notin PatternList /\ {} \in PatternList
  /\ \A v, w \in Flag : GrantBool(v, w) \in Flag /\ IntersectBool(v, w) \in Flag
  /\ \A v, w \in ListOrUnset :
       NarrowList(v, w) \in ListOrUnset /\ UnionList(v, w) \in ListOrUnset /\ IntersectList(v, w) \in ListOrUnset
<1>1. UNSET \notin BOOLEAN /\ UNSET \notin PatternList
  BY PolicyAssumption
<1>2. {} \in PatternList /\ \A v, w \in PatternList : v \cap w \in PatternList /\ v \cup w \in PatternList
  BY DEF PatternList
<1>3. \A v, w \in Flag : GrantBool(v, w) \in Flag /\ IntersectBool(v, w) \in Flag
  BY DEF Flag, GrantBool, IntersectBool
<1>4. \A v, w \in ListOrUnset :
       NarrowList(v, w) \in ListOrUnset /\ UnionList(v, w) \in ListOrUnset /\ IntersectList(v, w) \in ListOrUnset
  BY <1>2 DEF ListOrUnset, NarrowList, UnionList, IntersectList
<1> QED BY <1>1, <1>2, <1>3, <1>4

LEMMA GroupsCombine ==
  ASSUME NEW left \in Group, NEW right \in Group
  PROVE  RestrictGroup(left, right) \in Group /\ MergeGroup(left, right) \in Group
<1>1. Group = [flag : Flag, allow : ListOrUnset, deny : ListOrUnset]
  BY DEF Group, ListOrUnset
<1>2. \A g \in Group : g.flag \in Flag /\ g.allow \in ListOrUnset /\ g.deny \in ListOrUnset
  BY <1>1
<1> QED BY <1>1, <1>2, ListsCombine DEF RestrictGroup, MergeGroup

LEMMA NoGroupPermitsNothing == NoGroup \in Group /\ \A use \in Use : ~Permitted(NoGroup, use) /\ ~Refuses(NoGroup, use)
BY PolicyAssumption DEF NoGroup, Permitted, Refuses, Or, Group, Flag

LEMMA PermittedIsNotRefused ==
  ASSUME NEW group \in Group, NEW use \in Use, Permitted(group, use)
  PROVE  ~Refuses(group, use)
BY DEF Permitted, Refuses

LEMMA DeniesAdd ==
  ASSUME NEW left \in ListOrUnset, NEW right \in ListOrUnset, NEW use \in Use,
         ~\E pattern \in Or(UnionList(left, right), {}) : use \in pattern
  PROVE  ~(\E pattern \in Or(left, {}) : use \in pattern) /\ ~\E pattern \in Or(right, {}) : use \in pattern
<1>1. left # UNSET /\ right # UNSET => left \cup right # UNSET
  BY ListsCombine DEF ListOrUnset, PatternList
<1> QED BY <1>1 DEF Or, UnionList

LEMMA RestrictNarrows ==
  ASSUME NEW left \in Group, NEW right \in Group, NEW use \in Use, Permitted(RestrictGroup(left, right), use)
  PROVE  Permitted(left, use) /\ ~Refuses(right, use)
<1>1. /\ left.flag \in Flag /\ left.allow \in ListOrUnset /\ left.deny \in ListOrUnset
      /\ right.flag \in Flag /\ right.allow \in ListOrUnset /\ right.deny \in ListOrUnset
  BY DEF Group, ListOrUnset
<1> DEFINE flag == GrantBool(left.flag, right.flag)
           allow == NarrowList(left.allow, right.allow)
           deny == UnionList(left.deny, right.deny)
<1>2. /\ flag = TRUE
      /\ ~\E pattern \in Or(deny, {}) : use \in pattern
      /\ Or(allow, {}) # {} => \E pattern \in allow : use \in pattern
  BY DEF Permitted, RestrictGroup
<1>3. left.flag = TRUE /\ right.flag # FALSE
  BY <1>1, <1>2, ListsCombine DEF GrantBool
<1>4. ~(\E pattern \in Or(left.deny, {}) : use \in pattern) /\ ~\E pattern \in Or(right.deny, {}) : use \in pattern
  BY <1>1, <1>2, DeniesAdd
<1>5. Or(left.allow, {}) # {} => \E pattern \in left.allow : use \in pattern
  <2>1. left.allow # UNSET /\ right.allow # UNSET => left.allow \cap right.allow # UNSET
    BY <1>1, ListsCombine DEF ListOrUnset, PatternList
  <2> QED BY <1>2, <2>1 DEF Or, NarrowList
<1> QED BY <1>3, <1>4, <1>5 DEF Permitted, Refuses

LEMMA MergeNarrows ==
  ASSUME NEW left \in Group, NEW right \in Group, NEW use \in Use, Permitted(MergeGroup(left, right), use)
  PROVE  ~Refuses(left, use) /\ ~Refuses(right, use)
<1>1. /\ left.flag \in Flag /\ left.deny \in ListOrUnset /\ right.flag \in Flag /\ right.deny \in ListOrUnset
  BY DEF Group, ListOrUnset
<1>2. /\ IntersectBool(left.flag, right.flag) = TRUE
      /\ ~\E pattern \in Or(UnionList(left.deny, right.deny), {}) : use \in pattern
  BY DEF Permitted, MergeGroup
<1>3. left.flag # FALSE /\ right.flag # FALSE
  BY <1>2 DEF IntersectBool
<1> QED BY <1>1, <1>2, <1>3, DeniesAdd DEF Refuses

LEMMA PermissionsStart ==
  ASSUME NEW definition \in Group, NEW asked \in Group, NEW tool \in Group,
         PermissionsInit(definition, asked, tool)
  PROVE  PermissionsInv
BY DEF PermissionsInit, PermissionsInv

LEMMA PermissionsKeep == PermissionsInv /\ [PermissionsNext]_PermissionsVars => PermissionsInv'
BY DEF PermissionsInv, PermissionsNext, PermissionsVars, CreateByRequest, CreateByOverride, UseTool, Override

LEMMA PermissionsFollow == PermissionsInv => PermissionsTypeOK /\ ToolsOnlyNarrow /\ RefusalIsFinal
<1> SUFFICES ASSUME PermissionsInv
             PROVE  PermissionsTypeOK /\ ToolsOnlyNarrow /\ RefusalIsFinal
  OBVIOUS
<1>1. /\ DOMAIN layers = {"definition", "request", "tool"}
      /\ layers.definition \in Group /\ layers.request \in Group /\ layers.tool \in Group
  BY DEF PermissionsInv
<1>2. grant \in Group /\ effective \in Group
  BY <1>1, GroupsCombine, NoGroupPermitsNothing DEF PermissionsInv, Override
<1>3. ASSUME NEW use \in Use, Permitted(effective, use)
      PROVE  /\ Permitted(grant, use) /\ ~Refuses(layers.tool, use)
             /\ ~Refuses(layers.definition, use) /\ ~Refuses(layers.request, use)
  <2>1. effective = RestrictGroup(grant, layers.tool) /\ grant # NoGroup
    BY <1>3, NoGroupPermitsNothing DEF PermissionsInv
  <2>2. Permitted(grant, use) /\ ~Refuses(layers.tool, use)
    BY <1>1, <1>2, <1>3, <2>1, RestrictNarrows
  <2>3. CASE grant = RestrictGroup(layers.definition, layers.request)
    BY <1>1, <2>2, <2>3, RestrictNarrows, PermittedIsNotRefused
  <2>4. CASE grant = Override(layers.definition, layers.request)
    BY <1>1, <1>2, <2>2, <2>4, MergeNarrows, PermittedIsNotRefused, NoGroupPermitsNothing DEF Override
  <2> QED BY <2>1, <2>2, <2>3, <2>4 DEF PermissionsInv
<1>4. PermissionsTypeOK
  BY <1>1, <1>2 DEF PermissionsTypeOK
<1>5. ToolsOnlyNarrow
  BY <1>3 DEF ToolsOnlyNarrow, Refuses
<1>6. RefusalIsFinal
  BY <1>1, <1>3 DEF RefusalIsFinal, Refuses
<1> QED BY <1>4, <1>5, <1>6

\* The cases the run starts from are groups.
LEMMA CasesAreGroups ==
  NoGroup \in Group /\ MCDefinitions \subseteq Group /\ MCRequests \subseteq Group /\ MCTools \subseteq Group
<1>1. \A u \in {"a", "b"} : {u} \in UsePattern
  BY MCUses DEF UsePattern
<1>2. MCAllow \subseteq ListOrUnset /\ {{"a"}} \in ListOrUnset /\ {{"b"}} \in ListOrUnset /\ {} \in ListOrUnset
      /\ UNSET \in ListOrUnset
  BY <1>1 DEF MCAllow, ListOrUnset, PatternList
<1>3. Group = [flag : Flag, allow : ListOrUnset, deny : ListOrUnset] /\ BOOLEAN \subseteq Flag /\ UNSET \in Flag
  BY DEF Group, ListOrUnset, Flag
<1>4. MCDefinitions \subseteq Group
  <2>1. MCDefinitions = [flag : BOOLEAN, allow : MCAllow, deny : {UNSET, {{"a"}}}]
    BY DEF MCDefinitions
  <2> QED BY <1>2, <1>3, <2>1
<1>5. MCRequests \subseteq Group
  <2>1. MCRequests = [flag : BOOLEAN \cup {UNSET}, allow : {UNSET, {{"a"}}, {{"b"}}}, deny : {UNSET}]
    BY DEF MCRequests
  <2> QED BY <1>2, <1>3, <2>1
<1>6. MCTools \subseteq Group
  <2>1. MCTools = [flag : BOOLEAN \cup {UNSET}, allow : {UNSET, {}, {{"b"}}}, deny : {UNSET}]
    BY DEF MCTools
  <2> QED BY <1>2, <1>3, <2>1
<1> QED BY <1>4, <1>5, <1>6, NoGroupPermitsNothing

-----------------------------------------------------------------------------
(* Policy.  The default rules stay in front of whatever an operator adds, so   *)
(* the rule on isolation is the decisive one wherever it applies.              *)

RuleIds == {"unisolated", "delete-production", "push", "force-push", "operator"}
Unisolated(context) == ~context.isolates /\ context.needsIsolation /\ ~context.allowUnisolated
DecisionOf == [outcome : RuleOutcome, risk : RISK_ORDER,
               ruleId : {"none", "risk", "remote", "unavailable", "error"} \cup RuleIds]
VerdictOf == [at : {"asked", "local", "done"}, local : DecisionOf, final : DecisionOf]

RulesAreDefaultFirst ==
  /\ policyRules \in Seq(PolicyRule) /\ Len(policyRules) >= Len(DEFAULT_RULES)
  /\ \A i \in DOMAIN policyRules :
       IF i \in DOMAIN DEFAULT_RULES THEN policyRules[i] = DEFAULT_RULES[i] ELSE policyRules[i].id = "operator"

\* What the local engine decides of an action in a context.
LocalIsSound(local, context) ==
  /\ Unisolated(context) => local.outcome = "DENY"
  /\ context.declared # UNDECLARED => /\ local.risk >= context.declared
                                      /\ context.declared >= HIGH /\ local.outcome = "ALLOW" => local.ruleId = "operator"

PolicyInv ==
  /\ RulesAreDefaultFirst
  /\ policyRequest \in [action : AgentActions, context : Contexts]
  /\ verdict \in VerdictOf
  /\ verdict.at # "asked" => LocalIsSound(verdict.local, policyRequest.context)
  /\ verdict.at = "local" => policyRequest.context.remote
  /\ verdict.at = "done" =>
       IF policyRequest.context.remote
       THEN verdict.final = MostRestrictive(verdict.local, RemoteDecision(remoteAnswer))
       ELSE verdict.final = verdict.local

LEMMA RiskIsRanked ==
  /\ \A left, right \in RISK_ORDER : MaxRisk(left, right) \in RISK_ORDER /\ MaxRisk(left, right) >= left
                                      /\ MaxRisk(left, right) >= right
  /\ RISK_ORDER = {LOW, MEDIUM, HIGH, CRITICAL} /\ UNDECLARED \notin RISK_ORDER
  /\ RuleOutcome = {"ALLOW", "REQUIRE_APPROVAL", "DENY"}
  /\ OUTCOME_ORDER["ALLOW"] = 0 /\ OUTCOME_ORDER["REQUIRE_APPROVAL"] = 1 /\ OUTCOME_ORDER["DENY"] = 2
<1>1. RISK_ORDER = {LOW, MEDIUM, HIGH, CRITICAL}
  BY DEF RISK_ORDER, LOW, MEDIUM, HIGH, CRITICAL
<1>2. \A left, right \in RISK_ORDER : MaxRisk(left, right) \in RISK_ORDER /\ MaxRisk(left, right) >= left
                                      /\ MaxRisk(left, right) >= right
  BY DEF MaxRisk, RISK_ORDER, LOW, CRITICAL
<1>3. UNDECLARED \notin RISK_ORDER
  BY DEF RISK_ORDER, LOW, CRITICAL, UNDECLARED
<1>4. RuleOutcome = {"ALLOW", "REQUIRE_APPROVAL", "DENY"}
      /\ OUTCOME_ORDER["ALLOW"] = 0 /\ OUTCOME_ORDER["REQUIRE_APPROVAL"] = 1 /\ OUTCOME_ORDER["DENY"] = 2
  BY DEF RuleOutcome, OUTCOME_ORDER
<1> QED BY <1>1, <1>2, <1>3, <1>4

LEMMA RiskIsClassified ==
  ASSUME NEW action \in AgentActions, NEW declared \in {UNDECLARED, LOW, CRITICAL}
  PROVE  /\ Classify(action, declared) \in RISK_ORDER
         /\ declared # UNDECLARED => Classify(action, declared) >= declared
<1> DEFINE rules == RiskRules(action)
           hits == {i \in DOMAIN rules : ToolMatches(rules[i].tool, action.toolId) /\ rules[i].when}
           found == rules[CHOOSE i \in hits : \A j \in hits : i <= j].risk
<1>1. DOMAIN rules = 1..15 /\ \A i \in 1..15 : rules[i].risk \in {LOW, MEDIUM, HIGH, CRITICAL}
  BY DEF RiskRules
<1>2. hits # {} => found \in RISK_ORDER
  <2> SUFFICES ASSUME hits # {}
               PROVE  found \in RISK_ORDER
    OBVIOUS
  <2>1. hits \in SUBSET Nat /\ hits \subseteq 1..15
    BY <1>1
  <2> HIDE DEF hits, rules
  <2>2. \E i \in hits : \A j \in hits : i <= j
    BY <1>1, <2>1, LeastOf
  <2>3. (CHOOSE i \in hits : \A j \in hits : i <= j) \in hits
    BY <2>2
  <2> QED BY <1>1, <2>1, <2>3, RiskIsRanked, ZenonT(60)
<1>3. Classify(action, declared) =
        IF hits # {} THEN IF declared = UNDECLARED THEN found ELSE MaxRisk(found, declared)
        ELSE IF declared # UNDECLARED THEN declared ELSE HIGH
  BY DEF Classify
<1> HIDE DEF hits, found, rules
<1>4. LOW \in RISK_ORDER /\ HIGH \in RISK_ORDER /\ CRITICAL \in RISK_ORDER /\ \A r \in RISK_ORDER : r >= r
  BY RiskIsRanked DEF LOW, MEDIUM, HIGH, CRITICAL
<1> QED BY <1>2, <1>3, <1>4, RiskIsRanked

LEMMA DefaultRulesAre ==
  /\ DEFAULT_RULES \in Seq(PolicyRule) /\ Len(DEFAULT_RULES) = 4 /\ DOMAIN DEFAULT_RULES = 1..4
  /\ \A i \in 1..4 : ~DEFAULT_RULES[i].breaks /\ DEFAULT_RULES[i].outcome \in {"DENY", "REQUIRE_APPROVAL"}
  /\ DEFAULT_RULES[1].id = "unisolated" /\ DEFAULT_RULES[1].priority = 1000 /\ DEFAULT_RULES[1].outcome = "DENY"
<1>1. /\ DefaultRule("unisolated", 1000, "DENY", HIGH) \in PolicyRule
      /\ DefaultRule("delete-production", 100, "REQUIRE_APPROVAL", CRITICAL) \in PolicyRule
      /\ DefaultRule("push", 90, "REQUIRE_APPROVAL", CRITICAL) \in PolicyRule
      /\ DefaultRule("force-push", 95, "DENY", CRITICAL) \in PolicyRule
  BY RiskIsRanked DEF DefaultRule, PolicyRule
<1>2. DEFAULT_RULES \in Seq(PolicyRule) /\ Len(DEFAULT_RULES) = 4 /\ DOMAIN DEFAULT_RULES = 1..4
  BY <1>1 DEF DEFAULT_RULES
<1>3. /\ DEFAULT_RULES[1] = DefaultRule("unisolated", 1000, "DENY", HIGH)
      /\ DEFAULT_RULES[2] = DefaultRule("delete-production", 100, "REQUIRE_APPROVAL", CRITICAL)
      /\ DEFAULT_RULES[3] = DefaultRule("push", 90, "REQUIRE_APPROVAL", CRITICAL)
      /\ DEFAULT_RULES[4] = DefaultRule("force-push", 95, "DENY", CRITICAL)
  BY DEF DEFAULT_RULES
<1>4. \A i \in 1..4 : i = 1 \/ i = 2 \/ i = 3 \/ i = 4
  OBVIOUS
<1> QED BY <1>2, <1>3, <1>4 DEF DefaultRule

\* The rule on isolation is decisive wherever it applies.
LEMMA IsolationDecides ==
  ASSUME RulesAreDefaultFirst, NEW action, NEW context, Unisolated(context)
  PROVE  Decisive(policyRules, action, context) = {1}
<1>1. /\ 1 \in DOMAIN policyRules /\ policyRules[1] = DEFAULT_RULES[1]
      /\ DOMAIN policyRules = 1..Len(policyRules) /\ Len(policyRules) \in Nat
  BY DefaultRulesAre DEF RulesAreDefaultFirst
<1>2. Applies(policyRules[1], action, context)
  BY <1>1, DefaultRulesAre DEF Applies, Unisolated
<1>3. \A j \in DOMAIN policyRules : /\ j \in Nat /\ 1 <= j
                                    /\ policyRules[j].priority \in 0..1000
                                    /\ policyRules[j].priority < policyRules[1].priority
                                         \/ policyRules[j].priority = policyRules[1].priority
  <2> SUFFICES ASSUME NEW j \in DOMAIN policyRules
               PROVE  /\ j \in Nat /\ 1 <= j
                      /\ policyRules[j].priority \in 0..1000
                      /\ policyRules[j].priority < 1000 \/ policyRules[j].priority = 1000
    BY <1>1, DefaultRulesAre
  <2>1. policyRules[j] \in PolicyRule
    BY <1>1, ElementOfSeq DEF RulesAreDefaultFirst
  <2>2. policyRules[j].priority \in 0..1000
    BY <2>1 DEF PolicyRule
  <2>3. j \in Nat /\ 1 <= j
    BY <1>1
  <2>4. PICK p \in 0..1000 : policyRules[j].priority = p
    BY <2>2
  <2>5. p < 1000 \/ p = 1000
    OBVIOUS
  <2> QED BY <2>2, <2>3, <2>4, <2>5
<1>4. 1 \in Decisive(policyRules, action, context)
  BY <1>1, <1>2, <1>3 DEF Decisive
<1>5. ASSUME NEW i \in Decisive(policyRules, action, context)
      PROVE  i = 1
  <2>1. i \in DOMAIN policyRules /\ (policyRules[1].priority < policyRules[i].priority
                                       \/ (policyRules[1].priority = policyRules[i].priority /\ i <= 1))
    BY <1>1, <1>2 DEF Decisive
  <2>2. i \in Nat /\ 1 <= i /\ policyRules[i].priority \in 0..1000 /\ policyRules[1].priority = 1000
    BY <1>1, <1>3, <2>1, DefaultRulesAre
  <2> QED BY <2>1, <2>2, SMTT(30)
<1> QED BY <1>4, <1>5

LEMMA EvaluationIsSound ==
  ASSUME RulesAreDefaultFirst, NEW action \in AgentActions, NEW context \in Contexts
  PROVE  /\ Evaluate(policyRules, action, context) \in DecisionOf
         /\ LocalIsSound(Evaluate(policyRules, action, context), context)
<1> DEFINE risk == Classify(action, context.declared)
           first == Decisive(policyRules, action, context)
           rule == policyRules[CHOOSE i \in first : TRUE]
           base == EvaluateRule(rule)
           local == Evaluate(policyRules, action, context)
<1>1. context.declared \in {UNDECLARED, LOW, CRITICAL}
  BY DEF Contexts
<1>2. risk \in RISK_ORDER /\ (context.declared # UNDECLARED => risk >= context.declared)
  BY <1>1, RiskIsClassified
<1>3. local = IF first = {} THEN Fallback(risk) ELSE [base EXCEPT !.risk = MaxRisk(@, risk)]
  BY DEF Evaluate
<1>4. first \subseteq DOMAIN policyRules
  BY DEF Decisive
<1>5. Unisolated(context) => first = {1}
  BY IsolationDecides
<1> SUFFICES local \in DecisionOf /\ LocalIsSound(local, context)
  OBVIOUS
<1> HIDE DEF risk, first, local
<1>6. CASE first = {}
  <2>1. local = [outcome |-> IF risk >= HIGH THEN "REQUIRE_APPROVAL" ELSE "ALLOW", risk |-> risk, ruleId |-> "risk"]
    BY <1>3, <1>6 DEF Fallback, Decision
  <2>2. local \in DecisionOf
    BY <1>2, <2>1, RiskIsRanked DEF DecisionOf
  <2>3. ~Unisolated(context)
    BY <1>5, <1>6
  <2>4. local.risk = risk /\ (local.outcome = "ALLOW" => ~(risk >= HIGH))
    BY <2>1
  <2>5. context.declared # UNDECLARED /\ context.declared >= HIGH => risk >= HIGH
    BY <1>1, <1>2 DEF RISK_ORDER, LOW, HIGH, CRITICAL, UNDECLARED
  <2> QED BY <1>2, <2>2, <2>3, <2>4, <2>5 DEF LocalIsSound
<1>7. CASE first # {}
  <2>1. PICK i \in DOMAIN policyRules : rule = policyRules[i] /\ (first = {1} => i = 1)
    BY <1>4, <1>7
  <2>2. rule \in PolicyRule
    BY <2>1, ElementOfSeq DEF RulesAreDefaultFirst
  <2>3. rule.id \in RuleIds /\ rule.outcome \in RuleOutcome /\ rule.risk \in RISK_ORDER /\ rule.breaks \in BOOLEAN
    BY <2>2 DEF PolicyRule, RuleIds
  <2>4. i \in 1..4 \/ rule.id = "operator"
    BY <2>1, DefaultRulesAre DEF RulesAreDefaultFirst
  <2>5. i \in 1..4 => ~rule.breaks /\ rule.outcome \in {"DENY", "REQUIRE_APPROVAL"}
    BY <2>1, DefaultRulesAre DEF RulesAreDefaultFirst
  <2>6. Unisolated(context) => ~rule.breaks /\ rule.outcome = "DENY"
    BY <1>5, <2>1, DefaultRulesAre DEF RulesAreDefaultFirst
  <2> HIDE DEF rule
  <2>7. base = IF rule.breaks THEN [outcome |-> "DENY", risk |-> HIGH, ruleId |-> "error"]
               ELSE [outcome |-> rule.outcome, risk |-> rule.risk, ruleId |-> rule.id]
    BY DEF EvaluateRule, Decision
  <2> HIDE DEF base
  <2>8. PICK outcome \in RuleOutcome, own \in RISK_ORDER, id \in {"error"} \cup RuleIds :
           /\ base = [outcome |-> outcome, risk |-> own, ruleId |-> id]
           /\ Unisolated(context) => outcome = "DENY"
           /\ outcome = "ALLOW" => id = "operator"
    <3>1. CASE rule.breaks
      BY <2>3, <2>7, <3>1, RiskIsRanked DEF HIGH
    <3>2. CASE ~rule.breaks
      BY <2>3, <2>4, <2>5, <2>6, <2>7, <3>2
    <3> QED BY <2>3, <3>1, <3>2
  <2>9. local = [outcome |-> outcome, risk |-> MaxRisk(own, risk), ruleId |-> id]
    BY <1>3, <1>7, <2>8
  <2>10. MaxRisk(own, risk) \in RISK_ORDER /\ MaxRisk(own, risk) >= risk
    BY <1>2, RiskIsRanked
  <2>11. local \in DecisionOf
    BY <2>9, <2>10 DEF DecisionOf
  <2>12. context.declared # UNDECLARED => MaxRisk(own, risk) >= context.declared
    BY <1>1, <1>2, <2>10, RiskIsRanked DEF LOW, MEDIUM, HIGH, CRITICAL, UNDECLARED
  <2>13. local.outcome = outcome /\ local.risk = MaxRisk(own, risk) /\ local.ruleId = id
    BY <2>9
  <2> QED BY <2>8, <2>11, <2>12, <2>13 DEF LocalIsSound
<1> QED BY <1>6, <1>7

LEMMA RemoteAnswersAre == \A answer : RemoteDecision(answer) \in DecisionOf
BY RiskIsRanked DEF RemoteDecision, Decision, DecisionOf, MEDIUM, HIGH

LEMMA PolicyStarts ==
  ASSUME NEW action \in AgentActions, NEW context \in Contexts, PolicyInit(action, context)
  PROVE  PolicyInv
<1>1. RulesAreDefaultFirst
  BY DefaultRulesAre DEF PolicyInit, RulesAreDefaultFirst
<1>2. NotDecided \in DecisionOf
  BY RiskIsRanked DEF NotDecided, Decision, DecisionOf
<1>3. verdict \in VerdictOf /\ verdict.at = "asked"
  BY <1>2 DEF PolicyInit, VerdictOf
<1> QED BY <1>1, <1>3 DEF PolicyInv, PolicyInit

LEMMA OperatorRulesAre == \A rule \in OperatorRule : rule \in PolicyRule /\ rule.id = "operator"
<1> DEFINE Own == {"operator"}
           Priority == 0..1000
           Given == {0, 1000}
           First == {0}
           TwoWays == {"ALLOW", "DENY"}
           Allows == {"ALLOW"}
           Risk == {LOW}
           Sound == {FALSE}
           Broken == {TRUE}
<1>1. Own \subseteq RuleIds /\ Given \subseteq Priority /\ First \subseteq Priority /\ TwoWays \subseteq RuleOutcome
      /\ Allows \subseteq RuleOutcome /\ Risk \subseteq RISK_ORDER /\ Sound \subseteq BOOLEAN /\ Broken \subseteq BOOLEAN
  BY RiskIsRanked DEF RuleIds
<1>2. PolicyRule = [id : RuleIds, priority : Priority, outcome : RuleOutcome, risk : RISK_ORDER, breaks : BOOLEAN]
  BY DEF PolicyRule, RuleIds
<1>3. OperatorRule = [id : Own, priority : Given, outcome : TwoWays, risk : Risk, breaks : Sound]
                       \cup [id : Own, priority : First, outcome : Allows, risk : Risk, breaks : Broken]
  BY DEF OperatorRule
<1>4. \A id \in Own : id = "operator"
  OBVIOUS
<1> HIDE DEF Own, Priority, Given, First, TwoWays, Allows, Risk, Sound, Broken
<1>5. [id : Own, priority : Given, outcome : TwoWays, risk : Risk, breaks : Sound] \subseteq PolicyRule
  BY <1>1, <1>2
<1>6. [id : Own, priority : First, outcome : Allows, risk : Risk, breaks : Broken] \subseteq PolicyRule
  BY <1>1, <1>2
<1>7. \A rule \in OperatorRule : rule.id \in Own
  BY <1>3
<1> QED BY <1>3, <1>4, <1>5, <1>6, <1>7

LEMMA RulesKeep ==
  ASSUME PolicyInv, (\E rule \in OperatorRule : RegisterRule(rule)) \/ UnregisterRules
  PROVE  PolicyInv'
<1>1. UNCHANGED <<policyRequest, verdict, remoteAnswer>>
  BY DEF RegisterRule, UnregisterRules
<1>2. RulesAreDefaultFirst'
  <2>1. CASE UnregisterRules
    BY <2>1, DefaultRulesAre DEF UnregisterRules, RulesAreDefaultFirst
  <2>2. ASSUME NEW rule \in OperatorRule, RegisterRule(rule)
        PROVE  RulesAreDefaultFirst'
    <3>1. rule \in PolicyRule /\ rule.id = "operator"
      BY OperatorRulesAre
    <3>2. policyRules' = Append(policyRules, rule) /\ policyRules \in Seq(PolicyRule)
          /\ Len(policyRules) >= 4 /\ Len(policyRules) \in Nat
      BY <2>2, DefaultRulesAre DEF RegisterRule, PolicyInv, RulesAreDefaultFirst
    <3>3. /\ policyRules' \in Seq(PolicyRule) /\ Len(policyRules') = Len(policyRules) + 1
          /\ \A i \in 1..Len(policyRules) : policyRules'[i] = policyRules[i]
          /\ policyRules'[Len(policyRules) + 1] = rule
          /\ DOMAIN policyRules = 1..Len(policyRules) /\ DOMAIN policyRules' = 1..Len(policyRules) + 1
      BY <3>1, <3>2
    <3>4. ASSUME NEW i \in DOMAIN policyRules'
          PROVE  IF i \in DOMAIN DEFAULT_RULES THEN policyRules'[i] = DEFAULT_RULES[i]
                 ELSE policyRules'[i].id = "operator"
      <4>1. CASE i \in 1..Len(policyRules)
        BY <3>3, <4>1 DEF PolicyInv, RulesAreDefaultFirst
      <4>2. CASE i = Len(policyRules) + 1
        BY <3>1, <3>2, <3>3, <4>2, DefaultRulesAre
      <4> QED BY <3>2, <3>3, <4>1, <4>2
    <3> QED BY <3>2, <3>3, <3>4, DefaultRulesAre DEF RulesAreDefaultFirst
  <2> QED BY <2>1, <2>2
<1> QED BY <1>1, <1>2 DEF PolicyInv

LEMMA EvaluateLocallyKeeps == ASSUME PolicyInv, EvaluateLocally PROVE PolicyInv'
<1> DEFINE local == Evaluate(policyRules, policyRequest.action, policyRequest.context)
<1>1. policyRequest.action \in AgentActions /\ policyRequest.context \in Contexts /\ policyRequest.context.remote \in BOOLEAN
  BY DEF PolicyInv, Contexts
<1>2. local \in DecisionOf /\ LocalIsSound(local, policyRequest.context)
  BY <1>1, EvaluationIsSound DEF PolicyInv
<1>3. /\ verdict' = [at |-> IF policyRequest.context.remote THEN "local" ELSE "done", local |-> local, final |-> local]
      /\ UNCHANGED <<policyRules, policyRequest, remoteAnswer>>
  BY DEF EvaluateLocally
<1> HIDE DEF local
<1>4. verdict' \in VerdictOf
  BY <1>2, <1>3 DEF VerdictOf
<1>5. RulesAreDefaultFirst'
  BY <1>3 DEF PolicyInv, RulesAreDefaultFirst
<1> QED BY <1>1, <1>2, <1>3, <1>4, <1>5 DEF PolicyInv

LEMMA AnswerRemotelyKeeps ==
  ASSUME PolicyInv, NEW answer, AnswerRemotely(answer)
  PROVE  PolicyInv'
<1> DEFINE final == MostRestrictive(verdict.local, RemoteDecision(answer))
<1>1. verdict \in VerdictOf /\ verdict.at = "local" /\ verdict.local \in DecisionOf
      /\ policyRequest.context.remote /\ LocalIsSound(verdict.local, policyRequest.context)
  BY DEF PolicyInv, AnswerRemotely, VerdictOf
<1>2. final \in DecisionOf
  BY <1>1, RemoteAnswersAre DEF MostRestrictive
<1>3. /\ verdict' = [verdict EXCEPT !.at = "done", !.final = final] /\ remoteAnswer' = answer
      /\ UNCHANGED <<policyRules, policyRequest>>
  BY DEF AnswerRemotely
<1>4. RulesAreDefaultFirst'
  BY <1>3 DEF PolicyInv, RulesAreDefaultFirst
<1>5. DOMAIN verdict = {"at", "local", "final"}
  BY <1>1 DEF VerdictOf
<1>6. verdict'.at = "done" /\ verdict'.local = verdict.local /\ verdict'.final = final
  BY <1>3, <1>5
<1>7. verdict' \in VerdictOf
  BY <1>1, <1>2, <1>3 DEF VerdictOf
<1>8. verdict'.final = MostRestrictive(verdict'.local, RemoteDecision(remoteAnswer'))
  BY <1>3, <1>6
<1> HIDE DEF final
<1> QED BY <1>1, <1>3, <1>4, <1>6, <1>7, <1>8 DEF PolicyInv

LEMMA PolicyKeeps == PolicyInv /\ [PolicyNext]_PolicyVars => PolicyInv'
<1> SUFFICES ASSUME PolicyInv, [PolicyNext]_PolicyVars
             PROVE  PolicyInv'
  OBVIOUS
<1>1. CASE UNCHANGED PolicyVars
  BY <1>1 DEF PolicyVars, PolicyInv, RulesAreDefaultFirst
<1>2. CASE PolicyNext
  BY <1>2, RulesKeep, EvaluateLocallyKeeps, AnswerRemotelyKeeps DEF PolicyNext
<1> QED BY <1>1, <1>2

LEMMA PolicyFollows ==
  PolicyInv => PolicyTypeOK /\ IsolationIsKept /\ DeclaredRiskIsAFloor /\ BothMustAllow
<1> SUFFICES ASSUME PolicyInv
             PROVE  PolicyTypeOK /\ IsolationIsKept /\ DeclaredRiskIsAFloor /\ BothMustAllow
  OBVIOUS
<1>1. verdict.local \in DecisionOf /\ verdict.final \in DecisionOf /\ verdict.at \in {"asked", "local", "done"}
  BY DEF PolicyInv, VerdictOf
<1>2. PolicyTypeOK
  <2>1. \A i \in DOMAIN policyRules : policyRules[i] \in PolicyRule
    BY ElementOfSeq DEF PolicyInv, RulesAreDefaultFirst
  <2> QED BY <1>1, <2>1 DEF PolicyInv, PolicyTypeOK, DecisionOf, RuleIds
<1>3. ASSUME verdict.at = "done", policyRequest.context.remote
      PROVE  /\ verdict.local.outcome = "DENY" => verdict.final.outcome = "DENY"
             /\ verdict.final.outcome = "ALLOW" => verdict.local.outcome = "ALLOW" /\ remoteAnswer = "ALLOW"
  <2> DEFINE told == RemoteDecision(remoteAnswer)
  <2>1. verdict.final = MostRestrictive(verdict.local, told)
    BY <1>3 DEF PolicyInv
  <2>2. told \in DecisionOf /\ (told.outcome = "ALLOW" => remoteAnswer = "ALLOW")
    BY RemoteAnswersAre DEF RemoteDecision, Decision
  <2> HIDE DEF told
  <2>3. verdict.local.outcome \in RuleOutcome /\ told.outcome \in RuleOutcome
    BY <1>1, <2>2 DEF DecisionOf
  <2> QED BY <2>1, <2>2, <2>3, RiskIsRanked DEF MostRestrictive
<1>4. verdict.at = "done" /\ ~policyRequest.context.remote => verdict.final = verdict.local
  BY DEF PolicyInv
<1>5. IsolationIsKept
  BY <1>3, <1>4 DEF PolicyInv, LocalIsSound, Unisolated, IsolationIsKept
<1>6. DeclaredRiskIsAFloor
  BY DEF PolicyInv, LocalIsSound, DeclaredRiskIsAFloor
<1>7. BothMustAllow
  BY <1>3 DEF BothMustAllow
<1> QED BY <1>2, <1>5, <1>6, <1>7

Declarations == {UNDECLARED, LOW, CRITICAL}
IsolatedTool == [isolates : BOOLEAN, needsIsolation : {TRUE}, allowUnisolated : BOOLEAN,
                 declared : Declarations, remote : BOOLEAN]

LEMMA ContextFields ==
  /\ IsolatedTool \subseteq Contexts
  /\ \A c \in IsolatedTool :
       /\ \A v \in BOOLEAN : [c EXCEPT !.isolates = v] \in IsolatedTool
       /\ \A v \in BOOLEAN : [c EXCEPT !.allowUnisolated = v] \in IsolatedTool
       /\ \A v \in BOOLEAN : [c EXCEPT !.remote = v] \in IsolatedTool
       /\ [c EXCEPT !.declared = LOW] \in IsolatedTool /\ [c EXCEPT !.declared = CRITICAL] \in IsolatedTool
<1>1. LOW \in Declarations /\ CRITICAL \in Declarations
  BY DEF Declarations
<1>2. Contexts = {c \in [isolates : BOOLEAN, needsIsolation : BOOLEAN, allowUnisolated : BOOLEAN,
                         declared : Declarations, remote : BOOLEAN] :
                    c.needsIsolation \/ (c.isolates /\ ~c.allowUnisolated)}
  BY DEF Contexts, Declarations
<1>3. IsolatedTool \subseteq Contexts
  BY <1>2 DEF IsolatedTool
<1> QED BY <1>1, <1>3 DEF IsolatedTool

LEMMA AuthorizationStarts ==
  ASSUME ServicesInit
  PROVE  PolicyInv /\ (part = "permissions" => PermissionsInv)
<1>1. MCContexts \subseteq Contexts
  <2>1. MCContext \in IsolatedTool
    BY DEF MCContext, IsolatedTool, Declarations
  <2>2. [MCContext EXCEPT !.isolates = FALSE] \in IsolatedTool
    BY <2>1, ContextFields
  <2>3. [MCContext EXCEPT !.isolates = FALSE, !.allowUnisolated = TRUE] \in IsolatedTool
    BY <2>2, ContextFields
  <2>4. [MCContext EXCEPT !.isolates = FALSE, !.remote = FALSE] \in IsolatedTool
    BY <2>2, ContextFields
  <2>5. [MCContext EXCEPT !.declared = LOW] \in IsolatedTool /\ [MCContext EXCEPT !.declared = CRITICAL] \in IsolatedTool
    BY <2>1, ContextFields
  <2>6. [MCContext EXCEPT !.declared = CRITICAL, !.remote = FALSE] \in IsolatedTool
    BY <2>5, ContextFields
  <2> QED BY <2>1, <2>2, <2>3, <2>4, <2>5, <2>6, ContextFields DEF MCContexts
<1>2. PolicyInv
  BY <1>1, PolicyStarts DEF ServicesInit
<1>3. part = "permissions" => PermissionsInv
  <2> SUFFICES ASSUME part = "permissions"
               PROVE  PermissionsInv
    OBVIOUS
  <2>1. PICK definition \in MCDefinitions, asked \in MCRequests, tool \in MCTools :
           PermissionsInit(definition, asked, tool)
    BY DEF ServicesInit
  <2>2. definition \in Group /\ asked \in Group /\ tool \in Group
    BY CasesAreGroups
  <2> QED BY <2>1, <2>2, PermissionsStart
<1> QED BY <1>2, <1>3

\* What an action may do only ever narrows.  A tool that needs isolation is denied
\* where there is none, whatever is registered and whatever a remote service says;
\* what a tool declares of its risk is a floor under the tables; with a remote
\* provider both sides must allow (policies/src/engine.ts, risk.ts, remote.ts); and
\* no layer of permissions brings back what another refuses (core/src/permissions.ts).
THEOREM AuthorizationNarrows == ServicesSpec => []AuthorizationOnlyNarrows
<1> DEFINE Inv == (part = "policy" => PolicyInv) /\ (part = "permissions" => PermissionsInv)
<1>1. ServicesInit => Inv
  BY AuthorizationStarts
<1>2. Inv /\ [ServicesNext]_servicesVars => Inv'
  BY OnlyItsPartMoves, PolicyKeeps, PermissionsKeep
<1>3. Inv => AuthorizationOnlyNarrows
  BY PolicyFollows, PermissionsFollow DEF AuthorizationOnlyNarrows, Of
<1> QED BY <1>1, <1>2, <1>3, PTL DEF ServicesSpec

\* The same of permissions alone, for whatever a definition, a request and a tool
\* may state and not only for the cases a run starts from.
THEOREM EveryGrantNarrows ==
  ASSUME NEW definition \in Group, NEW asked \in Group, NEW tool \in Group
  PROVE  PermissionsInit(definition, asked, tool) /\ [][PermissionsNext]_PermissionsVars
           => [](ToolsOnlyNarrow /\ RefusalIsFinal)
<1>1. PermissionsInit(definition, asked, tool) => PermissionsInv
  BY PermissionsStart
<1> QED BY <1>1, PermissionsKeep, PermissionsFollow, PTL

\* And of the policy alone, for every action in every context.
THEOREM EveryVerdictNarrows ==
  ASSUME NEW action \in AgentActions, NEW context \in Contexts
  PROVE  PolicyInit(action, context) /\ [][PolicyNext]_PolicyVars
           => [](IsolationIsKept /\ DeclaredRiskIsAFloor /\ BothMustAllow)
<1>1. PolicyInit(action, context) => PolicyInv
  BY PolicyStarts
<1> QED BY <1>1, PolicyKeeps, PolicyFollows, PTL
-----------------------------------------------------------------------------
(* The planner.  A plan is validated at a version that leaves room for it.    *)

PlanningPlace == {"asking", "validating", "planned", "revising", "failed"}
Limit(one) == 1..(IF one.limit < AskedSteps THEN one.limit ELSE AskedSteps)

PlannerInv ==
  /\ DOMAIN planning = {"at", "limit", "raw", "deps", "version"}
  /\ planning.at \in PlanningPlace /\ planning.limit \in Nat /\ planning.version \in 0..MaxVersion + 1
  /\ planning.at # "planned" => planning.version <= MaxVersion
  /\ planning.raw = NoPlan \/ planning.raw \in RawPlans
  /\ planning.at = "validating" => planning.raw \in RawPlans
  /\ planning.deps = NoPlan \/ planning.deps \in [Kept -> SUBSET Asked]

LEMMA PlannerStarts ==
  ASSUME NEW maxSteps \in Nat, PlannerInit(maxSteps)
  PROVE  PlannerInv
BY PlannerAssumption DEF PlannerInit, PlannerInv, PlanningPlace

LEMMA PlannerKeeps == PlannerInv /\ [PlannerNext]_PlannerVars => PlannerInv'
<1> SUFFICES ASSUME PlannerInv, [PlannerNext]_PlannerVars
             PROVE  PlannerInv'
  OBVIOUS
<1>1. CASE UNCHANGED PlannerVars
  BY <1>1 DEF PlannerVars, PlannerInv, Kept
<1>2. CASE AnswerMalformed
  BY <1>2 DEF AnswerMalformed, PlannerInv, PlanningPlace, Kept
<1>3. CASE AnswerPlan
  <2>1. PICK raw \in RawPlans : planning' = [planning EXCEPT !.raw = raw, !.at = "validating"]
    BY <1>3 DEF AnswerPlan
  <2> QED BY <1>3, <2>1 DEF AnswerPlan, PlannerInv, PlanningPlace, Kept
<1>4. CASE Validate
  <2>1. planning.raw \in RawPlans /\ planning.version <= MaxVersion /\ planning.limit \in Nat
        /\ planning.version \in Nat /\ planning.at = "validating"
    BY <1>4, PlannerAssumption DEF Validate, PlannerInv
  <2>2. Kept \subseteq Asked
    BY <2>1, PlannerAssumption DEF Kept, Asked
  <2>3. PICK deps \in [Kept -> SUBSET Asked] : deps = Normalize(planning.raw)
    BY <2>2 DEF Normalize
  <2>4. \/ planning' = [planning EXCEPT !.at = "failed"]
        \/ planning' = [planning EXCEPT !.at = "planned", !.raw = NoPlan, !.deps = deps, !.version = @ + 1]
    BY <1>4, <2>3 DEF Validate
  <2>5. CASE planning' = [planning EXCEPT !.at = "failed"]
    BY <2>1, <2>5 DEF PlannerInv, PlanningPlace, Kept
  <2>6. CASE planning' = [planning EXCEPT !.at = "planned", !.raw = NoPlan, !.deps = deps, !.version = @ + 1]
    <3>1. /\ DOMAIN planning' = {"at", "limit", "raw", "deps", "version"} /\ planning'.at = "planned"
          /\ planning'.limit = planning.limit /\ planning'.raw = NoPlan /\ planning'.deps = deps
          /\ planning'.version = planning.version + 1
      BY <2>6 DEF PlannerInv
    <3>2. Kept' = Kept
      BY <3>1 DEF Kept
    <3>3. planning.version + 1 \in 0..MaxVersion + 1
      BY <2>1, PlannerAssumption
    <3> QED BY <2>1, <2>3, <3>1, <3>2, <3>3 DEF PlannerInv, PlanningPlace
  <2> QED BY <2>4, <2>5, <2>6
<1>5. CASE Revise
  <2>1. planning.version <= MaxVersion
    BY <1>5 DEF Revise
  <2> QED BY <1>5, <2>1 DEF Revise, PlannerInv, PlanningPlace, Kept
<1>6. CASE KeepPlan
  <2> DEFINE at == IF planning.version = 0 THEN "asking" ELSE "planned"
  <2>1. planning' = [planning EXCEPT !.at = at, !.raw = NoPlan] /\ at \in {"asking", "planned"}
        /\ planning.version <= MaxVersion
    BY <1>6 DEF KeepPlan, PlannerInv
  <2> HIDE DEF at
  <2>2. /\ DOMAIN planning' = {"at", "limit", "raw", "deps", "version"} /\ planning'.at = at
        /\ planning'.limit = planning.limit /\ planning'.raw = NoPlan /\ planning'.deps = planning.deps
        /\ planning'.version = planning.version
    BY <2>1 DEF PlannerInv
  <2>3. Kept' = Kept
    BY <2>2 DEF Kept
  <2> QED BY <2>1, <2>2, <2>3 DEF PlannerInv, PlanningPlace
<1> QED BY <1>1, <1>2, <1>3, <1>4, <1>5, <1>6 DEF PlannerNext

LEMMA PlannerFollows == PlannerInv => PlannerTypeOK
BY DEF PlannerInv, PlannerTypeOK, PlanningPlace

-----------------------------------------------------------------------------
(* Cycles.                                                                    *)

\* A plan of that many steps.
Plans(steps) == [1..steps -> SUBSET (1..steps)]

LEMMA PathHasLength ==
  ASSUME NEW n \in Nat, NEW S, NEW path \in [1..n -> S]
  PROVE  Len(path) = n /\ path \in Seq(S)
OBVIOUS

LEMMA VisitsAre ==
  ASSUME NEW steps \in Nat, steps <= AskedSteps, NEW deps \in Plans(steps),
         NEW n \in 1..steps + 1, NEW path \in [1..n -> 1..steps],
         \A i \in 1..n - 1 : path[i + 1] \in deps[path[i]]
  PROVE  path \in Visits(deps)
<1>1. Len(path) = n
  BY PathHasLength
<1>2. Len(deps) = steps
  BY PathHasLength DEF Plans
<1>3. path \in [1..n -> Asked]
  BY PlannerAssumption DEF Asked
<1>4. Leads(deps, path)
  BY <1>1 DEF Leads, Plans
<1> QED BY <1>2, <1>3, <1>4 DEF Visits

\* Steps that all depend on one another are on a cycle.
LEMMA NoWayOut ==
  ASSUME NEW steps \in Nat, steps <= AskedSteps, NEW deps \in Plans(steps),
         NEW S \in SUBSET (1..steps), S # {}, \A x \in S : deps[x] \cap S # {}
  PROVE  FindCycle(deps)
<1> DEFINE good == {n \in 0..steps : \E p \in [1..n + 1 -> S] : \A i \in 1..n : p[i + 1] \in deps[p[i]]}
<1>1. 0 \in good
  <2>1. PICK x : x \in S
    OBVIOUS
  <2>2. PICK one \in [1..0 + 1 -> S] : one = [k \in 1..0 + 1 |-> x]
    BY <2>1
  <2>3. \A i \in 1..0 : one[i + 1] \in deps[one[i]]
    OBVIOUS
  <2>4. 0 \in 0..steps
    OBVIOUS
  <2> QED BY <2>3, <2>4
<1>2. ASSUME NEW n \in 0..steps, n \in good, n < steps
      PROVE  n + 1 \in good
  <2>1. PICK p \in [1..n + 1 -> S] : \A i \in 1..n : p[i + 1] \in deps[p[i]]
    BY <1>2
  <2>2. p[n + 1] \in S
    BY <2>1
  <2>3. PICK x \in S : x \in deps[p[n + 1]]
    BY <2>2
  <2> DEFINE q == [i \in 1..(n + 1) + 1 |-> IF i = n + 2 THEN x ELSE p[i]]
  <2>4. q \in [1..(n + 1) + 1 -> S]
    BY <2>1, <2>3
  <2>5. ASSUME NEW i \in 1..n + 1
        PROVE  q[i + 1] \in deps[q[i]]
    <3>1. CASE i = n + 1
      <4>1. q[i + 1] = x /\ q[i] = p[n + 1]
        BY <3>1
      <4> QED BY <4>1, <2>3
    <3>2. CASE i # n + 1
      <4>1. i \in 1..n /\ q[i + 1] = p[i + 1] /\ q[i] = p[i]
        BY <3>2
      <4> QED BY <4>1, <2>1
    <3> QED BY <3>1, <3>2
  <2> HIDE DEF q
  <2>6. n + 1 \in 0..steps
    BY <1>2
  <2> QED BY <2>4, <2>5, <2>6
<1> HIDE DEF good
<1>3. steps \in good
  BY <1>1, <1>2, CountingUp
<1>4. PICK p \in [1..steps + 1 -> S] : \A i \in 1..steps : p[i + 1] \in deps[p[i]]
  BY <1>3 DEF good
<1>5. /\ IsFiniteSet(1..steps) /\ Cardinality(1..steps) = steps
      /\ IsFiniteSet(1..steps + 1) /\ Cardinality(1..steps + 1) = steps + 1
  BY FS_Interval
<1>6. p \in [1..steps + 1 -> 1..steps]
  BY <1>4
<1>14. Cardinality(1..steps) < Cardinality(1..steps + 1)
  BY <1>5
<1>7. PICK x \in 1..steps + 1, y \in 1..steps + 1 : x # y /\ p[x] = p[y]
  BY <1>5, <1>6, <1>14, FS_PigeonHole
<1>8. PICK i \in 1..steps + 1, n \in 1..steps + 1 : i < n /\ p[i] = p[n]
  <2>1. x < y \/ y < x
    BY <1>7
  <2> QED BY <1>7, <2>1
<1> DEFINE path == [k \in 1..n |-> p[k]]
<1>9. path \in [1..n -> 1..steps] /\ \A k \in 1..n - 1 : path[k + 1] \in deps[path[k]]
  <2>1. \A k \in 1..n : k \in 1..steps + 1 /\ p[k] \in 1..steps
    BY <1>6, <1>8
  <2>2. path \in [1..n -> 1..steps]
    BY <2>1
  <2>3. ASSUME NEW k \in 1..n - 1
        PROVE  path[k + 1] \in deps[path[k]]
    <3>1. k \in 1..n /\ k + 1 \in 1..n /\ k \in 1..steps
      BY <1>8
    <3>2. path[k + 1] = p[k + 1] /\ path[k] = p[k]
      BY <3>1
    <3> QED BY <1>4, <3>1, <3>2
  <2> QED BY <2>2, <2>3
<1>10. path \in Visits(deps)
  <2> HIDE DEF path
  <2> QED BY <1>8, <1>9, VisitsAre
<1>11. Len(path) = n /\ path[i] = path[n] /\ i \in 1..n - 1
  BY <1>8, <1>9, PathHasLength
<1> HIDE DEF path
<1>12. ComesBack(path)
  BY <1>11 DEF ComesBack
<1> QED BY <1>10, <1>12 DEF FindCycle

\* The order of a plan's steps, as Orderable asks for it.
Ordered(steps, deps) ==
  \E rank \in [1..steps -> 1..steps] : \A i \in 1..steps : \A d \in deps[i] : d \in 1..steps /\ rank[d] < rank[i]

\* Without a cycle the steps can be put in an order: whatever is placed, one of the
\* others depends on nothing but those.
LEMMA OrderExists ==
  ASSUME NEW steps \in Nat, steps <= AskedSteps, NEW deps \in Plans(steps), ~FindCycle(deps)
  PROVE  Ordered(steps, deps)
<1> DEFINE good == {k \in 0..steps : \E placed \in SUBSET (1..steps), rank \in [1..steps -> 0..steps] :
                      /\ Cardinality(placed) = k
                      /\ \A i \in placed : rank[i] \in 1..k /\ \A d \in deps[i] : d \in placed /\ rank[d] < rank[i]}
<1>0. IsFiniteSet(1..steps) /\ Cardinality(1..steps) = steps
  BY FS_Interval
<1>1. 0 \in good
  <2>1. [i \in 1..steps |-> 0] \in [1..steps -> 0..steps]
    OBVIOUS
  <2>2. Cardinality({}) = 0
    BY FS_EmptySet
  <2>3. {} \in SUBSET (1..steps) /\ 0 \in 0..steps
    OBVIOUS
  <2> QED BY <2>1, <2>2, <2>3
<1>2. ASSUME NEW k \in 0..steps, k \in good, k < steps
      PROVE  k + 1 \in good
  <2>1. PICK placed \in SUBSET (1..steps) : \E rank \in [1..steps -> 0..steps] :
          /\ Cardinality(placed) = k
          /\ \A i \in placed : rank[i] \in 1..k /\ \A d \in deps[i] : d \in placed /\ rank[d] < rank[i]
    BY <1>2
  <2>2. PICK rank \in [1..steps -> 0..steps] :
          /\ Cardinality(placed) = k
          /\ \A i \in placed : rank[i] \in 1..k /\ \A d \in deps[i] : d \in placed /\ rank[d] < rank[i]
    BY <2>1
  <2> DEFINE others == (1..steps) \ placed
  <2>3. others # {}
    <3>1. placed # 1..steps
      BY <1>0, <1>2, <2>2
    <3> QED BY <3>1, <2>1
  <2>4. PICK x \in others : deps[x] \cap others = {}
    <3>1. others \in SUBSET (1..steps)
      OBVIOUS
    <3> HIDE DEF others
    <3> QED BY <2>3, <3>1, NoWayOut
  <2>5. x \in 1..steps /\ x \notin placed /\ deps[x] \subseteq placed
    BY <2>4 DEF Plans
  <2> DEFINE more == placed \cup {x}
             place == [rank EXCEPT ![x] = k + 1]
  <2>6. IsFiniteSet(placed) /\ Cardinality(more) = k + 1
    BY <1>0, <2>1, <2>2, <2>5, FS_Subset, FS_AddElement
  <2>7. place \in [1..steps -> 0..steps] /\ more \in SUBSET (1..steps) /\ k + 1 \in 0..steps
    <3>1. k + 1 \in 0..steps
      BY <1>2
    <3>2. more \in SUBSET (1..steps)
      BY <2>5
    <3>3. place \in [1..steps -> 0..steps]
      BY <2>2, <2>5, <3>1
    <3> QED BY <3>1, <3>2, <3>3
  <2>8. ASSUME NEW i \in more
        PROVE  place[i] \in 1..k + 1 /\ \A d \in deps[i] : d \in more /\ place[d] < place[i]
    <3>1. \A d \in placed : place[d] = rank[d] /\ rank[d] \in 1..k /\ d # x
      BY <2>1, <2>2, <2>5
    <3>2. CASE i = x
      <4>1. place[i] = k + 1
        BY <2>2, <2>5, <3>2
      <4>2. \A d \in deps[i] : d \in placed /\ d \in more
        BY <2>5, <3>2
      <4>3. \A d \in deps[i] : place[d] \in 1..k
        BY <3>1, <4>2
      <4> HIDE DEF place, more
      <4>4. k \in Nat /\ k + 1 \in 1..k + 1 /\ \A j \in 1..k : j < k + 1
        BY <1>2
      <4> QED BY <4>1, <4>2, <4>3, <4>4
    <3>3. CASE i # x
      <4>1. i \in placed
        BY <3>3
      <4>2. place[i] = rank[i] /\ rank[i] \in 1..k
        BY <3>1, <4>1
      <4>3. \A d \in deps[i] : d \in placed /\ rank[d] < rank[i]
        BY <2>2, <4>1
      <4>4. \A d \in deps[i] : d \in more /\ place[d] = rank[d]
        BY <3>1, <4>3
      <4>5. rank[i] \in 1..k + 1
        BY <1>2, <4>2
      <4> HIDE DEF place, more
      <4> QED BY <4>2, <4>3, <4>4, <4>5
    <3> QED BY <3>2, <3>3
  <2> HIDE DEF more, place
  <2> QED BY <2>6, <2>7, <2>8
<1> HIDE DEF good
<1>3. steps \in good
  BY <1>1, <1>2, CountingUp
<1>4. PICK placed \in SUBSET (1..steps) : \E rank \in [1..steps -> 0..steps] :
        /\ Cardinality(placed) = steps
        /\ \A i \in placed : rank[i] \in 1..steps /\ \A d \in deps[i] : d \in placed /\ rank[d] < rank[i]
  BY <1>3 DEF good
<1>5. PICK rank \in [1..steps -> 0..steps] :
        /\ Cardinality(placed) = steps
        /\ \A i \in placed : rank[i] \in 1..steps /\ \A d \in deps[i] : d \in placed /\ rank[d] < rank[i]
  BY <1>4
<1>6. placed = 1..steps
  BY <1>0, <1>5, FS_Subset
<1>7. rank \in [1..steps -> 1..steps]
  BY <1>5, <1>6
<1> QED BY <1>5, <1>6, <1>7 DEF Ordered

\* Where there is an order no visit comes back: the rank falls from step to step.
LEMMA OrderHasNoCycle ==
  ASSUME NEW steps \in Nat, NEW deps \in Plans(steps), Ordered(steps, deps)
  PROVE  ~FindCycle(deps)
<1>1. PICK rank \in [1..steps -> 1..steps] :
        \A i \in 1..steps : \A d \in deps[i] : d \in 1..steps /\ rank[d] < rank[i]
  BY DEF Ordered
<1>2. SUFFICES ASSUME NEW path \in Visits(deps), ComesBack(path)
               PROVE  FALSE
  BY DEF FindCycle
<1>3. PICK n \in 1..Len(deps) + 1 : path \in [1..n -> Asked]
  BY DEF Visits
<1>4. Len(deps) = steps /\ DOMAIN deps = 1..steps
  BY PathHasLength DEF Plans
<1>5. n \in Nat /\ Len(path) = n
  BY <1>3, <1>4, PathHasLength
<1>6. \A i \in 1..n - 1 : path[i] \in 1..steps /\ path[i + 1] \in deps[path[i]]
  BY <1>4, <1>5 DEF Visits, Leads
<1>7. PICK i \in 1..n - 1 : path[i] = path[n]
  <2>1. \E i \in 1..Len(path) - 1 : path[i] = path[Len(path)]
    BY <1>2 DEF ComesBack
  <2>2. Len(path) = n
    BY <1>5
  <2>3. \E i \in 1..n - 1 : path[i] = path[n]
    BY <2>1, <2>2, Zenon
  <2> QED BY <2>3
<1>8. \A k \in 1..n - 1 : path[k + 1] \in 1..steps /\ rank[path[k + 1]] < rank[path[k]]
  BY <1>1, <1>6
<1>9. \A k \in i..n : path[k] \in 1..steps /\ rank[path[k]] \in 1..steps
  <2>1. ASSUME NEW k \in i..n PROVE path[k] \in 1..steps
    <3>1. CASE k = i
      BY <1>6, <1>7, <3>1
    <3>2. CASE k # i
      <4>1. k - 1 \in 1..n - 1 /\ (k - 1) + 1 = k
        BY <1>5, <1>7, <3>2
      <4> QED BY <1>8, <4>1
    <3> QED BY <3>1, <3>2
  <2> QED BY <2>1, <1>1
<1> DEFINE good == {j \in 0..n - i - 1 : rank[path[i + 1 + j]] < rank[path[i]]}
<1>10. n - i - 1 \in Nat
  BY <1>5, <1>7
<1>11. 0 \in good
  <2>1. i + 1 + 0 = i + 1
    BY <1>7
  <2>2. rank[path[i + 1]] < rank[path[i]]
    BY <1>7, <1>8
  <2> QED BY <1>10, <2>1, <2>2
<1>12. ASSUME NEW j \in 0..n - i - 1, j \in good, j < n - i - 1
       PROVE  j + 1 \in good
  <2>1. i + 1 + j \in 1..n - 1 /\ (i + 1 + j) + 1 = i + 1 + (j + 1) /\ j + 1 \in 0..n - i - 1
    BY <1>5, <1>7, <1>12
  <2>2. rank[path[i + 1 + (j + 1)]] < rank[path[i + 1 + j]]
    BY <1>8, <2>1
  <2>3. rank[path[i + 1 + j]] < rank[path[i]]
    BY <1>12
  <2>4. i + 1 + (j + 1) \in i..n /\ i + 1 + j \in i..n /\ i \in i..n
    BY <1>5, <1>7, <1>12
  <2>5. rank[path[i + 1 + (j + 1)]] \in 1..steps /\ rank[path[i + 1 + j]] \in 1..steps /\ rank[path[i]] \in 1..steps
    BY <1>9, <2>4
  <2>6. rank[path[i + 1 + (j + 1)]] < rank[path[i]]
    <3>1. \A a, b, c \in 1..steps : a < b /\ b < c => a < c
      OBVIOUS
    <3> QED BY <2>2, <2>3, <2>5, <3>1
  <2> QED BY <2>1, <2>6
<1>13. n - i - 1 \in good
  <2> DEFINE top == n - i - 1
  <2>1. top \in Nat /\ \A j \in 0..top : j \in good /\ j < top => j + 1 \in good
    <3> HIDE DEF good
    <3> QED BY <1>10, <1>12
  <2> HIDE DEF good, top
  <2>2. \A j \in 0..top : j \in good
    BY <1>11, <2>1, CountingUp
  <2>3. top \in 0..top
    BY <2>1
  <2> QED BY <2>2, <2>3 DEF top
<1>14. i + 1 + (n - i - 1) = n /\ i \in i..n
  BY <1>5, <1>7
<1>15. rank[path[n]] < rank[path[i]] /\ rank[path[i]] \in 1..steps
  BY <1>9, <1>13, <1>14 DEF good
<1> QED BY <1>7, <1>15

\* What is kept can be ordered and what was refused cannot; a plan is looked at once,
\* and where none is being looked at there is none.
PlanInv ==
  /\ PlannerInv /\ RefusalIsACycle
  /\ planning.at \in {"asking", "planned", "revising"} => planning.raw = NoPlan
  /\ planning.at = "planned" => planning.version > 0
  /\ planning.version > 0 => Orderable(planning.deps)

Steps == IF planning.limit < AskedSteps THEN planning.limit ELSE AskedSteps

LEMMA PlanStarts ==
  ASSUME NEW maxSteps \in Nat, PlannerInit(maxSteps)
  PROVE  PlanInv
BY PlannerStarts DEF PlannerInit, PlanInv, RefusalIsACycle

\* The check for cycles is right about the plan that is being looked at.
LEMMA CheckIsRight ==
  ASSUME PlannerInv, planning.raw \in RawPlans
  PROVE  FindCycle(Normalize(planning.raw)) <=> ~Orderable(Normalize(planning.raw))
<1>1. Steps \in Nat /\ Steps <= AskedSteps /\ Kept = 1..Steps
  BY PlannerAssumption DEF PlannerInv, Kept, Steps
<1>2. Normalize(planning.raw) \in Plans(Steps)
  BY <1>1 DEF Normalize, Plans
<1>3. Orderable(Normalize(planning.raw)) <=> Ordered(Steps, Normalize(planning.raw))
  BY <1>1 DEF Orderable, Ordered
<1> QED BY <1>1, <1>2, <1>3, OrderExists, OrderHasNoCycle

LEMMA PlanKeeps == PlanInv /\ [PlannerNext]_PlannerVars => PlanInv'
<1> SUFFICES ASSUME PlanInv, [PlannerNext]_PlannerVars
             PROVE  PlanInv'
  OBVIOUS
<1>0. PlannerInv' /\ PlannerInv
  BY PlannerKeeps DEF PlanInv
<1>f. DOMAIN planning = {"at", "limit", "raw", "deps", "version"}
  BY <1>0 DEF PlannerInv
<1>1. CASE UNCHANGED PlannerVars
  BY <1>0, <1>1 DEF PlannerVars, PlanInv, RefusalIsACycle, Orderable, Kept
<1>2. CASE AnswerMalformed
  <2>1. /\ planning'.at = "failed" /\ planning'.raw = planning.raw /\ planning'.deps = planning.deps
        /\ planning'.version = planning.version /\ planning'.limit = planning.limit
        /\ planning.raw = NoPlan
    BY <1>2, <1>f DEF AnswerMalformed, PlanInv
  <2>2. Kept' = Kept
    BY <2>1 DEF Kept
  <2> QED BY <1>0, <2>1, <2>2 DEF PlanInv, RefusalIsACycle, Orderable
<1>3. CASE AnswerPlan
  <2>1. PICK raw \in RawPlans : planning' = [planning EXCEPT !.raw = raw, !.at = "validating"]
    BY <1>3 DEF AnswerPlan
  <2>2. /\ planning'.at = "validating" /\ planning'.deps = planning.deps
        /\ planning'.version = planning.version /\ planning'.limit = planning.limit
    BY <1>f, <2>1
  <2>3. Kept' = Kept
    BY <2>2 DEF Kept
  <2> QED BY <1>0, <2>2, <2>3 DEF PlanInv, RefusalIsACycle, Orderable
<1>4. CASE Validate
  <2> DEFINE deps == Normalize(planning.raw)
  <2>1. planning.at = "validating" /\ planning.raw \in RawPlans
    BY <1>0, <1>4 DEF Validate, PlannerInv
  <2>2. FindCycle(deps) <=> ~Orderable(deps)
    BY <1>0, <2>1, CheckIsRight
  <2>3. CASE FindCycle(deps)
    <3>1. planning' = [planning EXCEPT !.at = "failed"]
      BY <1>4, <2>3 DEF Validate
    <3>2. /\ planning'.at = "failed" /\ planning'.raw = planning.raw /\ planning'.deps = planning.deps
          /\ planning'.version = planning.version /\ planning'.limit = planning.limit
      BY <1>f, <3>1
    <3>3. Kept' = Kept
      BY <3>2 DEF Kept
    <3>4. deps = [i \in Kept |-> (planning.raw[i] \cap Kept) \ {i}]
      BY DEF Normalize
    <3>5. ~Orderable([i \in Kept |-> (planning.raw[i] \cap Kept) \ {i}])
      BY <2>2, <2>3, <3>4
    <3>6. RefusalIsACycle'
      BY <3>2, <3>3, <3>5 DEF RefusalIsACycle, Orderable
    <3> QED BY <1>0, <3>2, <3>3, <3>6 DEF PlanInv, Orderable
  <2>4. CASE ~FindCycle(deps)
    <3>1. planning' = [planning EXCEPT !.at = "planned", !.raw = NoPlan, !.deps = deps, !.version = @ + 1]
      BY <1>4, <2>4 DEF Validate
    <3> HIDE DEF deps
    <3>2. /\ planning'.at = "planned" /\ planning'.raw = NoPlan /\ planning'.deps = deps
          /\ planning'.version = planning.version + 1 /\ planning'.limit = planning.limit
      BY <1>f, <3>1
    <3>3. Kept' = Kept
      BY <3>2 DEF Kept
    <3>4. planning.version + 1 > 0
      BY <1>0, PlannerAssumption DEF PlannerInv
    <3> QED BY <1>0, <2>2, <2>4, <3>2, <3>3, <3>4 DEF PlanInv, RefusalIsACycle, Orderable
  <2> QED BY <2>3, <2>4
<1>5. CASE Revise
  <2>1. /\ planning'.at = "revising" /\ planning'.raw = planning.raw /\ planning'.deps = planning.deps
        /\ planning'.version = planning.version /\ planning'.limit = planning.limit
        /\ planning.at = "planned"
    BY <1>5, <1>f DEF Revise
  <2>2. Kept' = Kept
    BY <2>1 DEF Kept
  <2> QED BY <1>0, <2>1, <2>2 DEF PlanInv, RefusalIsACycle, Orderable
<1>6. CASE KeepPlan
  <2> DEFINE at == IF planning.version = 0 THEN "asking" ELSE "planned"
  <2>1. planning' = [planning EXCEPT !.at = at, !.raw = NoPlan]
    BY <1>6 DEF KeepPlan
  <2>2. planning.version \in Nat
    BY <1>0, PlannerAssumption DEF PlannerInv
  <2>3. at \in {"asking", "planned"} /\ (at = "planned" => planning.version > 0)
    BY <2>2
  <2> HIDE DEF at
  <2>4. /\ planning'.at = at /\ planning'.raw = NoPlan /\ planning'.deps = planning.deps
        /\ planning'.version = planning.version /\ planning'.limit = planning.limit
    BY <1>f, <2>1
  <2>5. Kept' = Kept
    BY <2>4 DEF Kept
  <2> QED BY <1>0, <2>3, <2>4, <2>5 DEF PlanInv, RefusalIsACycle, Orderable
<1> QED BY <1>1, <1>2, <1>3, <1>4, <1>5, <1>6 DEF PlannerNext

LEMMA PlansFollow == PlanInv => KeptPlanCanBeOrdered /\ RefusalIsACycle
BY DEF PlanInv, KeptPlanCanBeOrdered

\* Order is kept (packages/planner validate.ts, packages/executor dag.ts): a plan that
\* is kept can be put in an order, one that could be is not refused, and no action of a
\* batch runs before what it depends on has settled, whatever the plan and the batch.
THEOREM OrderStays == ServicesSpec => []OrderIsKept
<1> DEFINE Inv == (part = "planner" => PlanInv) /\ (part = "waves" => OrderInv)
<1>1. ServicesInit => Inv
  <2> SUFFICES ASSUME ServicesInit
               PROVE  Inv
    OBVIOUS
  <2>1. part = "waves" => \E d \in [BatchAction -> SUBSET BatchAction] : ActionWavesInit(d)
    BY DEF ServicesInit
  <2>2. PlannerInit(2) \/ PlannerInit(3)
    BY DEF ServicesInit
  <2> QED BY <2>1, <2>2, OrderStarts, PlanStarts
<1>2. Inv /\ [ServicesNext]_servicesVars => Inv'
  BY OnlyItsPartMoves, PlanKeeps, OrderKeeps
<1>3. Inv => OrderIsKept
  BY OrderFollows, PlansFollow DEF OrderIsKept, Of
<1> QED BY <1>1, <1>2, <1>3, PTL DEF ServicesSpec

\* The variables of every part have their types, whichever part moves.
THEOREM ServicesAreTyped == ServicesSpec => []ServicesTypeOK
<1> DEFINE First == /\ part = "webhooks" => WebhooksInv
                    /\ part = "gateway" => GatewayInv
                    /\ part = "providers" => ProvidersInv
                    /\ part = "calls" => CallsInv
                    /\ part = "servers" => ServersInv
                    /\ part = "bullmq" => BullMqInv
                    /\ part = "sandbox" => SandboxInv
           Second == /\ part = "policy" => PolicyInv
                     /\ part = "permissions" => PermissionsInv
                     /\ part = "recovery" => RecoveryInv
                     /\ part = "waves" => WavesInv
                     /\ part = "planner" => PlannerInv
                     /\ part = "locks" => LockInv
                     /\ part = "admission" => AdmissionInv
           Inv == part \in Parts /\ First /\ Second
<1>1. ServicesInit => Inv
  <2> SUFFICES ASSUME ServicesInit
               PROVE  Inv
    OBVIOUS
  <2>1. part \in Parts
    BY DEF ServicesInit
  <2>2. First
    BY WebhooksStart, GatewayStarts, ProvidersStart, CallsStart, ServersStart, BullMqStarts, SandboxStarts
       DEF ServicesInit
  <2>3. Second
    <3>1. PolicyInv /\ (part = "permissions" => PermissionsInv)
      BY AuthorizationStarts
    <3>2. part = "recovery" => RecoveryInv
      BY RecoveryStarts DEF ServicesInit
    <3>3. part = "waves" => WavesInv
      BY WavesStart DEF ServicesInit
    <3>4. PlannerInv
      BY PlannerStarts DEF ServicesInit
    <3> QED BY <3>1, <3>2, <3>3, <3>4, LockStarts, AdmissionStarts DEF ServicesInit
  <2> QED BY <2>1, <2>2, <2>3
<1>2. Inv /\ [ServicesNext]_servicesVars => Inv'
  <2> SUFFICES ASSUME Inv, [ServicesNext]_servicesVars
               PROVE  Inv'
    OBVIOUS
  <2>1. First'
    BY OnlyItsPartMoves, WebhooksKeep, GatewayKeeps, ProvidersKeep, CallsKeep, ServersKeep, BullMqKeeps, SandboxKeeps
  <2>2. Second'
    BY OnlyItsPartMoves, PolicyKeeps, PermissionsKeep, RecoveryKeeps, WavesKeep, PlannerKeeps, LockKeeps,
       AdmissionKeeps
  <2> QED BY <2>1, <2>2, OnlyItsPartMoves
<1>3. Inv => ServicesTypeOK
  <2> SUFFICES ASSUME Inv
               PROVE  ServicesTypeOK
    OBVIOUS
  <2>1. /\ Of("webhooks", WebhooksTypeOK) /\ Of("gateway", GatewayTypeOK)
        /\ Of("calls", McpCallsTypeOK) /\ Of("policy", PolicyTypeOK) /\ Of("permissions", PermissionsTypeOK)
        /\ Of("recovery", RecoveryTypeOK) /\ Of("waves", ActionWavesTypeOK) /\ Of("planner", PlannerTypeOK)
        /\ Of("locks", LockManagerTypeOK) /\ Of("admission", AdmissionTypeOK)
    BY WebhooksFollow, UpstreamLoadFollows, CallsFollow, PolicyFollows, PermissionsFollow, RecoveryFollows,
       ConcurrencyFollows, PlannerFollows, LockFollows, AdmissionFollows DEF Of
  <2>2. Of("providers", ProviderChainTypeOK) /\ Of("bullmq", BullMqTypeOK)
    BY DEF Of, ProvidersInv, BullMqInv
  <2>3. Of("servers", McpServersTypeOK)
    <3> SUFFICES ASSUME ServersInv
                 PROVE  McpServersTypeOK
      BY DEF Of
    <3>1. \A s \in McpServer : connection[s].number \in 0..MaxConnections /\ connection[s].live \subseteq 1..MaxConnections
      BY DEF ServersInv, ConnectionOf
    <3> QED BY <3>1 DEF ServersInv, McpServersTypeOK
  <2>4. Of("sandbox", SandboxTypeOK)
    BY DEF Of, SandboxInv, SandboxTypeOK, CommandOf
  <2> QED BY <2>1, <2>2, <2>3, <2>4 DEF ServicesTypeOK
<1> HIDE DEF Inv
<1> QED BY <1>1, <1>2, <1>3, PTL DEF ServicesSpec
=============================================================================
