----------------------------- MODULE BullMqQueue -----------------------------
(****************************************************************************)
(* The Redis queue of apps/worker/src/bullmq.ts for one run: the dispatcher *)
(* of the API, the consumers that hand jobs to a worker that does not poll  *)
(* the store (worker.ts, server.ts), and what BullMQ is used for: a job id  *)
(* that is known is not added again, and a job whose worker died is stalled *)
(* and taken once more.                                                     *)
(****************************************************************************)
EXTENDS Integers, FiniteSets

CONSTANTS QueueWorker, MaxAdds, MaxStalls, MaxForgotten

ASSUME BullMqAssumption == MaxAdds \in Nat /\ MaxStalls \in Nat /\ MaxForgotten \in Nat

VARIABLES queuedRow,   \* the status of the run
          job,         \* per job id, BullMQ's record of it
          consumer,    \* per worker: the job it has in flight for this run
          adds,        \* the calls of dispatch() so far
          askedFor,    \* the action asked for and not acted upon since
          begun,       \* per action, the executions begun
          stalls, forgotten

BullMqVars == <<queuedRow, job, consumer, adds, askedFor, begun, stalls, forgotten>>

DispatchAction == {"start", "resume", "retry"}
JobIds == DispatchAction \X (0..MaxAdds)
Ended == {"COMPLETED", "FAILED"}

NoJob == "unknown"
Free == [up |-> TRUE, at |-> "free", id |-> <<"start", 0>>]

BullMqInit ==
  /\ queuedRow = "QUEUED" /\ job = [id \in JobIds |-> NoJob]
  /\ consumer = [w \in QueueWorker |-> Free]
  /\ adds = 0 /\ askedFor = {} /\ begun = [a \in DispatchAction |-> 0] /\ stalls = 0 /\ forgotten = 0

\* Defect: every call is a job of its own.
JobIdOfCall(a) == <<a, adds>>

\* bullMqJobId: the run and the action.
JobId(a) == <<a, 0>>

\* assertActionable, at the edge.
MayAsk(a) ==
  CASE a = "retry"  -> queuedRow \in {"FAILED", "PAUSED"}
    [] a = "resume" -> queuedRow \notin Ended
    [] OTHER        -> queuedRow \notin Ended \union {"PAUSED"}

\* dispatch: add() of an id that BullMQ still has a record of adds nothing.
AddJob(a) ==
  /\ adds < MaxAdds /\ MayAsk(a)
  /\ adds' = adds + 1
  /\ askedFor' = IF queuedRow = "EXECUTING" THEN askedFor ELSE {a}
  /\ job' = IF job[JobId(a)] = NoJob THEN [job EXCEPT ![JobId(a)] = "waiting"] ELSE job
  /\ UNCHANGED <<queuedRow, consumer, begun, stalls, forgotten>>

\* executeClaimed: a worker that has the run in flight returns at once.
TakeJob(w, id) ==
  /\ job[id] = "waiting" /\ consumer[w].up
  /\ IF consumer[w].at = "free"
     THEN /\ job' = [job EXCEPT ![id] = "active"]
          /\ consumer' = [consumer EXCEPT ![w] = [up |-> TRUE, at |-> "checking", id |-> id]]
     ELSE job' = [job EXCEPT ![id] = "completed"] /\ UNCHANGED consumer
  /\ UNCHANGED <<queuedRow, adds, askedFor, begun, stalls, forgotten>>

\* executeItem answers in every case: the job is completed.
Answer(w) ==
  /\ job' = [job EXCEPT ![consumer[w].id] = "completed"]
  /\ consumer' = [consumer EXCEPT ![w] = Free]

\* Backpressure, or a call the runtime refuses: the run is released, to the
\* store's queue.
LeaveQueued(w) ==
  /\ consumer[w].at = "checking" /\ Answer(w)
  /\ UNCHANGED <<queuedRow, adds, askedFor, begun, stalls, forgotten>>

\* resume(), retry() and start() refuse the rows that assertActionable refuses.
BeginRun(w) ==
  LET a == consumer[w].id[1]
  IN /\ consumer[w].at = "checking"
     /\ IF MayAsk(a)
        THEN /\ consumer' = [consumer EXCEPT ![w].at = "running"]
             /\ queuedRow' = "EXECUTING" /\ begun' = [begun EXCEPT ![a] = @ + 1]
             /\ askedFor' = {} /\ UNCHANGED job
        ELSE Answer(w) /\ UNCHANGED <<queuedRow, begun, askedFor>>
     /\ UNCHANGED <<adds, stalls, forgotten>>

\* The execution ends at a resting point, or throws and is left where it is.
RunRests(w) ==
  /\ consumer[w].at = "running" /\ Answer(w)
  /\ \E status \in {"PAUSED", "WAITING", "COMPLETED", "FAILED", "EXECUTING"} :
       /\ queuedRow' = IF queuedRow = "EXECUTING" THEN status ELSE queuedRow
       /\ askedFor' = IF status \in Ended THEN {} ELSE askedFor
  /\ UNCHANGED <<adds, begun, stalls, forgotten>>

\* The lock of an active job runs out when its worker is dead.
StallJob(w) ==
  /\ consumer[w].at # "free" /\ stalls < MaxStalls
  /\ stalls' = stalls + 1
  /\ job' = [job EXCEPT ![consumer[w].id] = "waiting"]
  /\ consumer' = [consumer EXCEPT ![w] = [Free EXCEPT !.up = FALSE]]
  /\ UNCHANGED <<queuedRow, adds, askedFor, begun, forgotten>>

RestartWorker(w) ==
  /\ ~consumer[w].up
  /\ consumer' = [consumer EXCEPT ![w] = Free]
  /\ UNCHANGED <<queuedRow, job, adds, askedFor, begun, stalls, forgotten>>

\* removeOnComplete: the thousandth completed job after it takes its record along.
ForgetJob(id) ==
  /\ job[id] = "completed" /\ forgotten < MaxForgotten
  /\ job' = [job EXCEPT ![id] = NoJob] /\ forgotten' = forgotten + 1
  /\ UNCHANGED <<queuedRow, consumer, adds, askedFor, begun, stalls>>

ConsumerStep(w) == (\E id \in JobIds : TakeJob(w, id)) \/ BeginRun(w) \/ RunRests(w) \/ RestartWorker(w)

BullMqNext ==
  \/ \E a \in DispatchAction : AddJob(a)
  \/ \E w \in QueueWorker : ConsumerStep(w) \/ LeaveQueued(w) \/ StallJob(w)
  \/ \E id \in JobIds : ForgetJob(id)

\* Workers go on with what they have and take what there is.
BullMqFairness == \A w \in QueueWorker : WF_BullMqVars(ConsumerStep(w))

BullMqSpec == BullMqInit /\ [][BullMqNext]_BullMqVars /\ BullMqFairness

-----------------------------------------------------------------------------
BullMqTypeOK ==
  /\ job \in [JobIds -> {NoJob, "waiting", "active", "completed"}]
  /\ begun \in [DispatchAction -> Nat] /\ askedFor \subseteq DispatchAction
  /\ queuedRow \in {"QUEUED", "EXECUTING", "PAUSED", "WAITING"} \union Ended

\* bullmq.ts:57, "asking for the same run and action twice cannot execute it twice":
\* asking again does not, but beyond the first execution one more may come from each
\* worker that stalled and each record BullMQ no longer keeps.
AskedTwiceRunsOnce ==
  \A a \in DispatchAction : begun[a] <= 1 + stalls + forgotten

\* Violated.  apps/worker/src/bullmq.ts:114: "BullMQ owns retries and backoff
\* here".  executeItem never rejects, so no job is ever retried, and a second
\* resume, or one that backpressure turned away, finds its job completed: what
\* was asked for is never acted upon.
AskedIsHeard == askedFor # {} ~> askedFor = {}
=============================================================================
