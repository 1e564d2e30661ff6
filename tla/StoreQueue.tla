----------------------------- MODULE StoreQueue -----------------------------
(***************************************************************************)
(* The durable queue of apps/worker and the worker that drains it          *)
(* (queue.ts, worker.ts).  There is no queue record: a claim is a marker   *)
(* in the run's row, written against the version the row was read at.  A   *)
(* worker polls, executes what it claimed in a thread of its own, puts a   *)
(* run it could not execute back, and sweeps claims that look abandoned.   *)
(***************************************************************************)
EXTENDS RunControl

CONSTANTS Worker,             \* the processes that are workers
          Successor,          \* the process a supervisor starts when one dies
          IdOf,               \* the worker id a process puts in its claims
          MaxAttempts,        \* worker option maxAttempts
          MaxClaims,          \* bound: claims taken over a behaviour
          BackpressureRefuses,\* whether an execution may be refused for load
          RunsOutliveClaims   \* whether an execution may last beyond staleClaimMs

ASSUME QueueAssumption ==
  /\ Worker \subseteq Process
  /\ Successor \in [Process -> SUBSET Process]
  /\ IdOf \in [Worker -> WorkerId]
  /\ MaxAttempts \in Nat /\ MaxClaims \in Nat
  /\ BackpressureRefuses \in BOOLEAN /\ RunsOutliveClaims \in BOOLEAN

VARIABLES up,      \* processes that are running
          tick,    \* per worker: the row its polling loop read, and why
          job,     \* per thread: the claimed item it is executing
          claims,  \* claims taken so far, for the bound
          undercut \* history: the run was put back into the queue while a worker
                   \* that had claimed it was still getting it started

queueVars == <<up, tick, job, claims, undercut>>

\* Defect: only runs nobody has begun can be claimed.
ClaimableQueued == {"CREATED", "QUEUED"}

Claimable ==
  {"CREATED", "QUEUED", "INITIALIZING", "PLANNING", "EXECUTING", "OBSERVING",
   "VERIFYING", "RECOVERING"}

\* What claim and reclaimStale list.
Listed == Claimable \cup {"PAUSED"}

Tick == [pc : {"poll", "claim", "sweep"}, copy : Row]

Polling == [pc |-> "poll", copy |-> NoCall.copy]

Job ==
  [pc : {"none", "check", "run", "failed", "release", "put"},
   action : {"start", "resume"}, attempt : Nat, copy : Row]

NoJob == [pc |-> "none", action |-> "start", attempt |-> 0, copy |-> NoCall.copy]

QueueTypeOK ==
  /\ up \subseteq Process
  /\ tick \in [Worker -> Tick]
  /\ job \in [Thread -> Job]
  /\ claims \in Nat
  /\ undercut \in BOOLEAN

QueueInit ==
  /\ up = Process \ UNION {Successor[p] : p \in Process}
  /\ tick = [w \in Worker |-> Polling]
  /\ job = [t \in Thread |-> NoJob]
  /\ claims = 0
  /\ undercut = FALSE

Poll(w, next) == tick' = [tick EXCEPT ![w] = next]

Work(t, next) == job' = [job EXCEPT ![t] = next]

\* Defect: the version does not go up.
MarkedInPlace(copy, claim) == [copy EXCEPT !.claim = claim]

\* StoreRunQueue.write: the row read before, with another claim and one version
\* more, if nobody wrote the row since.
Marked(copy, claim) == [copy EXCEPT !.version = @ + 1, !.claim = claim]

WriteMarker(copy, claim) == Accepts(copy.version) /\ WriteRow(Marked(copy, claim))

\* Between a claim and the write of INITIALIZING: the version in the row has not
\* gone up on the thread's behalf yet.
Starting(t) ==
  \/ job[t].pc = "check"
  \/ job[t].pc = "run" /\ ses[t].pc \in {"resume", "retry", "requeue", "acquire", "load", "init"}

\* release and enqueue put the run back, whoever holds the claim in the row.
PutBack(copy, attempt) ==
  /\ WriteMarker(copy, FreeClaim(attempt))
  /\ undercut' = (undercut \/ \E t \in Thread : Starting(t))

-----------------------------------------------------------------------------
(* The polling loop: claim what is free, then look for stale claims         *)

Idle(t) == ses[t].pc = "idle" /\ job[t].pc = "none"

Executing(t) == job[t].pc # "none"

ThreadsOf(w) == {t \in Thread : HostOf[t] = w}

\* Defect: a claim somebody holds does not count.
ClaimReadAny(w) ==
  /\ w \in up /\ tick[w].pc = "poll"
  /\ row.status \in Listed
  /\ claims < MaxClaims
  /\ \E t \in ThreadsOf(w) : Idle(t)
  /\ Poll(w, [pc |-> "claim", copy |-> row])
  /\ UNCHANGED <<up, job, claims, undercut>> /\ RunIsElsewhere

ClaimRead(w) ==
  /\ w \in up /\ tick[w].pc = "poll"
  /\ row.status \in Listed /\ ~row.claim.live
  /\ claims < MaxClaims
  /\ \E t \in ThreadsOf(w) : Idle(t)
  /\ Poll(w, [pc |-> "claim", copy |-> row])
  /\ UNCHANGED <<up, job, claims, undercut>> /\ RunIsElsewhere

\* Defect: a run that was left in flight is retried.
ActionForRetry(status) == IF status \in {"CREATED", "QUEUED"} THEN "start" ELSE "retry"

\* Only a run that never started is started; anything else is resumed.
ActionFor(status) == IF status \in {"CREATED", "QUEUED"} THEN "start" ELSE "resume"

ClaimWrite(w) ==
  LET copy == tick[w].copy
      claim == [holder |-> IdOf[w], live |-> TRUE, attempt |-> copy.claim.attempt + 1]
  IN  /\ w \in up /\ tick[w].pc = "claim"
      /\ \/ /\ WriteMarker(copy, claim)
            /\ \E t \in ThreadsOf(w) :
                 /\ Idle(t)
                 /\ Work(t, [NoJob EXCEPT !.pc = "check", !.action = ActionFor(copy.status),
                                          !.attempt = claim.attempt])
            /\ claims' = claims + 1
         \/ ~Accepts(copy.version) /\ UNCHANGED <<row, job, claims>>
      /\ Poll(w, Polling)
      /\ UNCHANGED <<up, undercut, saved, ses, lock, control, blind>>

\* The executions under a worker id, by the processes that use it.
Holding(id) == {t \in Thread : Executing(t) /\ \E w \in Worker : HostOf[t] = w /\ IdOf[w] = id}

\* `at` is set once, when the claim is written, and never again: a claim is
\* stale when its holder is gone or, where runs outlive claims, when the holder
\* is still iterating.  Getting a run started is taken to be quicker than that.
Stale(claim) ==
  \A t \in Holding(claim.holder) : RunsOutliveClaims /\ Iterating(t)

SweepRead(w) ==
  /\ w \in up /\ tick[w].pc = "poll"
  /\ row.status \in Listed /\ row.claim.live
  /\ row.claim.holder # IdOf[w]
  /\ Stale(row.claim)
  /\ Poll(w, [pc |-> "sweep", copy |-> row])
  /\ UNCHANGED <<up, job, claims, undercut>> /\ RunIsElsewhere

SweepWrite(w) ==
  LET copy == tick[w].copy
  IN  /\ w \in up /\ tick[w].pc = "sweep"
      /\ \/ WriteMarker(copy, FreeClaim(copy.claim.attempt))
         \/ ~Accepts(copy.version) /\ UNCHANGED row
      /\ Poll(w, Polling)
      /\ UNCHANGED <<up, job, claims, undercut, saved, ses, lock, control, blind>>

-----------------------------------------------------------------------------
(* executeItem                                                              *)

Refuse(t) ==
  /\ BackpressureRefuses
  /\ job[t].pc = "check"
  /\ Work(t, [job[t] EXCEPT !.pc = "release"])
  /\ UNCHANGED <<up, tick, claims, undercut>> /\ RunIsElsewhere

Execute(t) ==
  /\ job[t].pc = "check"
  /\ Begin(t, FirstPhase(job[t].action))
  /\ Work(t, [job[t] EXCEPT !.pc = "run"])
  /\ UNCHANGED <<up, tick, claims, undercut>>

\* The runtime's call returned: nothing more to do, unless it threw.
Return(t) ==
  /\ job[t].pc = "run" /\ At(t, "left")
  /\ Become(t, IdleSession)
  /\ Work(t, IF ses[t].rejected THEN [job[t] EXCEPT !.pc = "failed"] ELSE NoJob)
  /\ UNCHANGED <<up, tick, claims, undercut>> /\ LocalStep

\* recordFailure: back to the queue while attempts are left, or left claimed.
RecordFailure(t) ==
  /\ job[t].pc = "failed"
  /\ \/ /\ job[t].attempt < MaxAttempts /\ row.status \notin Terminal
        /\ Work(t, [job[t] EXCEPT !.pc = "release"])
     \/ /\ job[t].attempt >= MaxAttempts \/ row.status \in Terminal
        /\ Work(t, NoJob)
  /\ UNCHANGED <<up, tick, claims, undercut>> /\ RunIsElsewhere

ReleaseRead(t) ==
  /\ job[t].pc = "release"
  /\ Work(t, [job[t] EXCEPT !.pc = "put", !.copy = row])
  /\ UNCHANGED <<up, tick, claims, undercut>> /\ RunIsElsewhere

\* release writes whatever row it read, whoever holds the claim in it, and
\* ignores a refused write.
ReleaseWrite(t) ==
  /\ job[t].pc = "put"
  /\ \/ PutBack(job[t].copy, job[t].attempt)
     \/ ~Accepts(job[t].copy.version) /\ UNCHANGED <<row, undercut>>
  /\ Work(t, NoJob)
  /\ UNCHANGED <<up, tick, claims, saved, ses, lock, control, blind>>

-----------------------------------------------------------------------------
(* enqueue, on behalf of a call that was accepted, and the ends of a worker *)

EnqueueRead(c) ==
  /\ CallAt(c, "dispatch")
  /\ \/ row.status \in Terminal /\ Answer(c, Over(call[c]))
     \/ row.status \notin Terminal
        /\ Answer(c, [call[c] EXCEPT !.pc = "enqueue", !.copy = row])
  /\ UNCHANGED undercut /\ RunIsElsewhere

EnqueueWrite(c) ==
  /\ CallAt(c, "enqueue")
  /\ \/ PutBack(call[c].copy, 0) /\ Answer(c, Over(call[c]))
     \/ /\ ~Accepts(call[c].copy.version)
        /\ Answer(c, Refused(call[c]))
        /\ UNCHANGED <<row, undercut>>
  /\ UNCHANGED <<saved, ses, lock, control, blind>>

\* The process dies: what it was doing is gone, its claims stay in the row, and
\* a process that replaces it starts with nothing.
Crash(p) ==
  /\ p \in up
  /\ up' = (up \ {p}) \cup Successor[p]
  /\ ProcessLost(p)
  /\ job' = [t \in Thread |-> IF HostOf[t] = p THEN NoJob ELSE job[t]]
  /\ tick' = [w \in Worker |-> IF w = p THEN Polling ELSE tick[w]]
  /\ call' = [c \in Caller |-> IF SiteOf[c] = p /\ ~CallAt(c, "none")
                               THEN Refused(call[c]) ELSE call[c]]
  /\ UNCHANGED <<claims, undercut>>

\* stop, when its executions do not drain in time: runtime.shutdown pauses what
\* is registered, and the worker takes nothing more.
Shutdown(w) ==
  /\ w \in up
  /\ up' = up \ {w}
  /\ ses' = [t \in Thread |-> IF t = control[w] THEN [ses[t] EXCEPT !.paused = TRUE] ELSE ses[t]]
  /\ tick[w].pc = "poll"
  /\ UNCHANGED <<row, saved, lock, control, blind, tick, job, claims, undercut>>

PollStep(w) == ClaimRead(w) \/ ClaimWrite(w) \/ SweepRead(w) \/ SweepWrite(w)

ItemStep(t) ==
  \/ Refuse(t) \/ Execute(t) \/ Return(t)
  \/ RecordFailure(t) \/ ReleaseRead(t) \/ ReleaseWrite(t)

EnqueueStep(c) == EnqueueRead(c) \/ EnqueueWrite(c)
=============================================================================
