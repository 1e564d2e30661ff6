----------------------------- MODULE RunSession -----------------------------
(***************************************************************************)
(* AgentRuntime.start and the agent loop it runs (runtime.ts, loop.ts,     *)
(* session.ts), as one thread of a process sees them: take the process's   *)
(* run lock, load the row, iterate, and leave the run at a resting point.  *)
(* A step of a thread is what happens between two awaits that matter: one  *)
(* read or one compare-and-set of the store, or one decision.              *)
(*                                                                         *)
(* What the model, the tools, the verifier and the recovery engine answer  *)
(* is a choice; which write follows which answer is the code's.            *)
(***************************************************************************)
EXTENDS Naturals, Sequences, FiniteSets

-----------------------------------------------------------------------------
(* The durable side of one run: its row in the run store and the version of  *)
(* its saved agent state, with the optimistic updates every component writes *)
(* them by (runs.update and states.save of embedded-store.ts; the Prisma     *)
(* store gives the same compare-and-set).  The claim is the marker queue.ts  *)
(* keeps in the row's metadata, so whoever writes the row writes its copy of *)
(* the claim with it.                                                        *)

CONSTANTS RunState, Terminal,   \* the table of state-machine.ts
          Path,                 \* its search: Path[from][to], hops still to make
          WorkerId,             \* identities that can appear in a claim
          Nobody                \* the claim holder "queue", or no claim yet

ASSUME StatesAssumption ==
  /\ Terminal \subseteq RunState
  /\ {"CREATED", "QUEUED", "INITIALIZING", "PLANNING", "EXECUTING", "OBSERVING",
      "VERIFYING", "RECOVERING", "WAITING", "PAUSED"} = RunState \ Terminal
  /\ {"COMPLETED", "FAILED", "CANCELLED", "TIMED_OUT"} = Terminal

ASSUME PathAssumption == Path \in [RunState -> [RunState -> Seq(RunState)]]

\* The search reaches every ending from every unfinished state, and what it goes
\* through on the way there is unfinished.
ASSUME WalksAssumption ==
  \A from \in RunState \ Terminal, to \in Terminal \cup {"WAITING", "PAUSED"} :
    /\ from # to => Path[from][to] # <<>> /\ Path[from][to][Len(Path[from][to])] = to
    /\ \A i \in 1..(Len(Path[from][to]) - 1) : Path[from][to][i] \notin Terminal

ASSUME NobodyAssumption == Nobody \notin WorkerId

VARIABLES row,     \* [status, version, claim] as stored
          saved    \* stateVersion of the stored agent state

storeVars == <<row, saved>>

Claim == [holder : WorkerId \cup {Nobody}, live : BOOLEAN, attempt : Nat]

Row == [status : RunState, version : Nat, claim : Claim]

\* `at: 0` marks a run that waits for a worker; any other `at` is a live claim.
FreeClaim(attempt) == [holder |-> Nobody, live |-> FALSE, attempt |-> attempt]

StoreTypeOK == row \in Row /\ saved \in Nat

\* createRun writes the row at version 1 and the state snapshot it carries.
StoreInit ==
  /\ row = [status |-> "CREATED", version |-> 1, claim |-> FreeClaim(0)]
  /\ saved = 1

\* runs.update(run, expectedVersion) accepts the write ...
Accepts(expected) == row.version = expected

\* ... and then stores the whole copy the writer holds.
WriteRow(copy) == row' = copy

-----------------------------------------------------------------------------
(* The threads that execute the run.                                         *)

CONSTANTS Thread,        \* executions that may be in progress
          Process,       \* operating-system processes, each with one runtime
          HostOf,        \* the process a thread belongs to
          None,          \* no thread
          MaxSteps,      \* limits.maxSteps: iterations before the run fails
          MaxRecovery,   \* limits.maxRecoveryAttempts
          SetupFails,    \* whether loading prompt, sandbox or verifier may throw
          SlotsRunOut,   \* whether other runs may take every execution slot
          LockExpires    \* whether a run may outlive its lock's five minutes

ASSUME SessionAssumption ==
  /\ HostOf \in [Thread -> Process]
  /\ None \notin Thread
  /\ MaxSteps \in Nat /\ MaxRecovery \in Nat
  /\ SetupFails \in BOOLEAN /\ SlotsRunOut \in BOOLEAN /\ LockExpires \in BOOLEAN

VARIABLES ses,       \* per thread: where it is and the run it holds in memory
          lock,      \* per process: the thread holding lock `run:<id>`, or None
          control,   \* per process: the thread whose RunControl is registered
          blind      \* history: tool executions of a thread whose copy is behind

sessionVars == <<ses, lock, control, blind>>

\* Where a thread is: resume, retry and start of runtime.ts, then the phases of
\* iterate, then the writes and endings that several phases share.
Phase ==
  {"idle", "resume", "retry", "requeue", "acquire", "load", "init", "setup",
   "top", "look", "observe", "plan", "decide", "think", "decisionFailed",
   "decisionRecovery", "act", "done", "waiting", "failed", "recover", "repair",
   "stepDone", "finish", "judge", "rework",
   "persistRow", "persistState", "settle", "contain", "leave", "left"}

Session ==
  [pc : Phase,
   next : Phase,               \* where persist returns to
   goal : RunState,            \* the resting status `settle` is heading for
   run : Row,                  \* session.run: the copy the thread writes back
   state : Nat,                \* session.state.stateVersion
   expected : Nat,             \* the state version persist read before bumping
   steps : Nat, tries : Nat,   \* iterations and session.recoveryAttempts
   cancelled : BOOLEAN, paused : BOOLEAN,    \* the RunControl's flags
   contained : BOOLEAN,        \* containFailure is handling an exception
   rejected : BOOLEAN]         \* start() rejects instead of resolving

IdleSession ==
  [pc |-> "idle", next |-> "idle", goal |-> "CREATED",
   run |-> [status |-> "CREATED", version |-> 0, claim |-> FreeClaim(0)],
   state |-> 0, expected |-> 0, steps |-> 0, tries |-> 0,
   cancelled |-> FALSE, paused |-> FALSE, contained |-> FALSE, rejected |-> FALSE]

SessionTypeOK ==
  /\ ses \in [Thread -> Session]
  /\ lock \in [Process -> Thread \cup {None}]
  /\ control \in [Process -> Thread \cup {None}]
  /\ blind \in [Thread -> Nat]

SessionInit ==
  /\ ses = [t \in Thread |-> IdleSession]
  /\ lock = [p \in Process |-> None]
  /\ control = [p \in Process |-> None]
  /\ blind = [t \in Thread |-> 0]

At(t, pc) == ses[t].pc = pc

\* Between the write of INITIALIZING and the finally of start: the phases in
\* which a thread holds a copy of the row that it may still write back.
Iterating(t) ==
  ses[t].pc \notin {"idle", "resume", "retry", "requeue", "acquire", "load", "init",
                    "leave", "left"}

Become(t, s) == ses' = [ses EXCEPT ![t] = s]

BecomeOneOf(t, after) == \E s \in after : Become(t, s)

Goto(s, pc) == [s EXCEPT !.pc = pc]

LocalStep == UNCHANGED <<row, saved, lock, control, blind>>

-----------------------------------------------------------------------------
(* session.ts and the endings of loop.ts                                    *)

\* Continue with persist and come back at `next`.
Persisting(s, next) == [s EXCEPT !.pc = "persistRow", !.next = next]

\* What iterate keeps in local variables, once it has returned or thrown.
Unwound(s) ==
  [s EXCEPT !.next = "idle", !.goal = "CREATED", !.expected = 0, !.steps = 0, !.tries = 0]

\* Head for a resting point: complete, fail, cancel, time out, pause or wait.
Settling(s, status) == [Unwound(s) EXCEPT !.pc = "settle", !.goal = status]

Rejecting(s, pc) == [s EXCEPT !.pc = pc, !.rejected = TRUE]

\* An exception in the loop goes to containFailure; one raised while that is
\* already handling an exception escapes run() and makes start() reject.
Raised(s) == IF s.contained THEN Rejecting(s, "leave") ELSE Goto(Unwound(s), "contain")

\* Defect: what decide throws is caught by nobody.
DecisionEscapes(s) == Rejecting(s, "leave")

\* decideSafely catches what decide throws before iterate can.
DecisionRaised(s) ==
  IF s.cancelled THEN Settling(s, "CANCELLED") ELSE Goto(s, "decisionFailed")

\* The thread after advanceTo changed the status in memory.
Moved(t, target) ==
  IF Path[ses[t].run.status][target] = <<>> THEN ses[t]
  ELSE [ses[t] EXCEPT !.run.status = target]

\* advanceTo: nothing is written when the search finds no path; otherwise the
\* row is written at the version the thread holds, which does not go up.  The
\* thread continues as one of `after`, or as `raised` when the write is refused.
AdvanceTo(t, target, after, raised) ==
  /\ \/ /\ Path[ses[t].run.status][target] = <<>>
        /\ BecomeOneOf(t, after)
        /\ UNCHANGED row
     \/ /\ Path[ses[t].run.status][target] # <<>>
        /\ Accepts(ses[t].run.version)
        /\ WriteRow(Moved(t, target).run)
        /\ BecomeOneOf(t, after)
     \/ /\ Path[ses[t].run.status][target] # <<>>
        /\ ~Accepts(ses[t].run.version)
        /\ Become(t, raised)
        /\ UNCHANGED row
  /\ UNCHANGED <<saved, lock, control, blind>>

Advance(t, target, after) == AdvanceTo(t, target, after, Raised(Moved(t, target)))

\* Defect: the state is stamped with one version more than the row.
BumpedTwice(s) ==
  [s EXCEPT !.run.version = @ + 1, !.state = s.run.version + 2, !.expected = s.state]

\* persist, first write: both versions go up in memory before the row is
\* written against the old one, and stay up when that write is refused.
Bumped(s) ==
  [s EXCEPT !.run.version = @ + 1, !.state = s.run.version + 1, !.expected = s.state]

PersistRow(t) ==
  LET s == ses[t]
  IN  /\ At(t, "persistRow")
      /\ \/ /\ Accepts(s.run.version)
            /\ WriteRow(Bumped(s).run)
            /\ Become(t, Goto(Bumped(s), "persistState"))
         \/ /\ ~Accepts(s.run.version)
            /\ Become(t, Raised(Bumped(s)))
            /\ UNCHANGED row
      /\ UNCHANGED <<saved, lock, control, blind>>

\* persist, second write: the serialized state, against its own version.
PersistState(t) ==
  LET s == ses[t]
  IN  /\ At(t, "persistState")
      /\ \/ /\ saved = s.expected
            /\ saved' = s.state
            /\ Become(t, [s EXCEPT !.pc = s.next, !.next = "idle", !.expected = 0])
         \/ saved # s.expected /\ Become(t, Raised(s)) /\ UNCHANGED saved
      /\ UNCHANGED <<row, lock, control, blind>>

\* complete, finishWith, pause, awaitApproval, awaitRecoveryApproval: move to
\* the resting status, persist, return from the loop.
Settle(t) ==
  /\ At(t, "settle")
  /\ Advance(t, ses[t].goal, {Persisting(Unwound(Moved(t, ses[t].goal)), "leave")})

\* containFailure: a cancelled run, or an abort of the operation, ends as
\* cancelled and any other failure as failed; nothing above catches what that
\* raises in turn.
Contain(t) ==
  LET s == [ses[t] EXCEPT !.contained = TRUE]
  IN  /\ At(t, "contain")
      /\ \/ Become(t, Settling(s, "CANCELLED"))
         \/ ~s.cancelled /\ Become(t, Settling(s, "FAILED"))
      /\ LocalStep

-----------------------------------------------------------------------------
(* runtime.ts: resume, retry and start                                      *)

\* The caller of the thread begins one of the three; the thread is fresh.
Begin(t, pc) ==
  /\ At(t, "idle")
  /\ Become(t, Goto(IdleSession, pc))
  /\ blind' = [blind EXCEPT ![t] = 0]
  /\ UNCHANGED <<row, saved, lock, control>>

\* resume reads the row: a finished run is refused, a paused one is re-queued.
Resume(t) ==
  LET queued == [row EXCEPT !.status = "QUEUED", !.version = @ + 1]
  IN  /\ At(t, "resume")
      /\ \/ row.status \in Terminal /\ Become(t, Rejecting(ses[t], "left"))
         \/ row.status = "PAUSED" /\ Become(t, [Goto(ses[t], "requeue") EXCEPT !.run = queued])
         \/ row.status \notin Terminal \cup {"PAUSED"} /\ Become(t, Goto(ses[t], "acquire"))
      /\ LocalStep

Retry(t) ==
  LET queued == [row EXCEPT !.status = "QUEUED", !.version = @ + 1]
      retryable == {"FAILED", "TIMED_OUT", "PAUSED"}
  IN  /\ At(t, "retry")
      /\ \/ row.status \in retryable /\ Become(t, [Goto(ses[t], "requeue") EXCEPT !.run = queued])
         \/ row.status \notin retryable /\ Become(t, Rejecting(ses[t], "left"))
      /\ LocalStep

\* advanceRunTo(QUEUED): one hop from each status it is called in.
Requeue(t) ==
  LET s == ses[t]
  IN  /\ At(t, "requeue")
      /\ \/ Accepts(s.run.version - 1) /\ WriteRow(s.run) /\ Become(t, Goto(s, "acquire"))
         \/ ~Accepts(s.run.version - 1) /\ Become(t, Rejecting(s, "left")) /\ UNCHANGED row
      /\ UNCHANGED <<saved, lock, control, blind>>

\* Defect: the lock is taken whether or not somebody holds it.
AcquireAnyway(t) ==
  /\ At(t, "acquire")
  /\ lock' = [lock EXCEPT ![HostOf[t]] = t]
  /\ Become(t, Goto(ses[t], "load"))
  /\ UNCHANGED <<row, saved, control, blind>>

\* start: the lock is taken without waiting; a second start is turned away,
\* unless the first one has held the lock beyond its time to live.  The slot is
\* reserved before the `try` that would give the lock back, so a start without
\* a slot ends with the lock still taken.
Acquire(t) ==
  LET p == HostOf[t]
      free == lock[p] = None \/ LockExpires
  IN  /\ At(t, "acquire")
      /\ \/ free /\ lock' = [lock EXCEPT ![p] = t] /\ Become(t, Goto(ses[t], "load"))
         \/ /\ SlotsRunOut
            /\ free
            /\ lock' = [lock EXCEPT ![p] = t]
            /\ Become(t, Rejecting(ses[t], "left"))
         \/ lock[p] # None /\ Become(t, Rejecting(ses[t], "left")) /\ UNCHANGED lock
      /\ UNCHANGED <<row, saved, control, blind>>

\* Defect: a finished run is started like any other.
LoadFinished(t) ==
  /\ At(t, "load")
  /\ control' = [control EXCEPT ![HostOf[t]] = t]
  /\ Become(t, [Goto(ses[t], "init") EXCEPT
                  !.run = [row EXCEPT !.status = "INITIALIZING", !.version = @ + 1]])
  /\ UNCHANGED <<row, saved, lock, blind>>

\* The row is loaded; a run that can be executed gets a RunControl and is marked
\* INITIALIZING in memory, whatever unfinished status it had.
Load(t) ==
  LET started == [row EXCEPT !.status = "INITIALIZING", !.version = @ + 1]
  IN  /\ At(t, "load")
      /\ \/ /\ row.status \in Terminal
            /\ Become(t, Goto(ses[t], "leave"))
            /\ UNCHANGED control
         \/ /\ row.status = "PAUSED"
            /\ Become(t, Rejecting(ses[t], "leave"))
            /\ UNCHANGED control
         \/ /\ row.status \notin Terminal \cup {"PAUSED"}
            /\ control' = [control EXCEPT ![HostOf[t]] = t]
            /\ Become(t, [Goto(ses[t], "init") EXCEPT !.run = started])
      /\ UNCHANGED <<row, saved, lock, blind>>

WriteInitializing(t) ==
  LET s == ses[t]
  IN  /\ At(t, "init")
      /\ \/ Accepts(s.run.version - 1) /\ WriteRow(s.run) /\ Become(t, Goto(s, "setup"))
         \/ ~Accepts(s.run.version - 1) /\ Become(t, Rejecting(s, "leave")) /\ UNCHANGED row
      /\ UNCHANGED <<saved, lock, control, blind>>

\* Prompt, saved state, sandbox and verifier are loaded outside the loop's
\* containment: an error here rejects start() and writes nothing.
Setup(t) ==
  /\ At(t, "setup")
  /\ \/ Become(t, [Goto(ses[t], "top") EXCEPT !.state = saved])
     \/ SetupFails /\ Become(t, Rejecting(ses[t], "leave"))
  /\ LocalStep

\* The finally of start: forget the control, give the lock back if it is ours,
\* and with the call's frame everything the thread held.
Leave(t) ==
  LET p == HostOf[t]
  IN  /\ At(t, "leave")
      /\ control' = [control EXCEPT ![p] = None]
      /\ lock' = [lock EXCEPT ![p] = IF @ = t THEN None ELSE @]
      /\ Become(t, [IdleSession EXCEPT !.pc = "left", !.rejected = ses[t].rejected])
      /\ UNCHANGED <<row, saved, blind>>

-----------------------------------------------------------------------------
(* loop.ts: iterate                                                         *)

\* checkLimits, then the flags of this process's RunControl.
Top(t) ==
  LET s == [ses[t] EXCEPT !.steps = @ + 1]
  IN  /\ At(t, "top")
      /\ \/ BecomeOneOf(t, {Settling(s, "TIMED_OUT"), Settling(s, "FAILED")})
         \/ s.cancelled /\ Become(t, Settling(s, "CANCELLED"))
         \/ ~s.cancelled /\ s.paused /\ Become(t, Settling(s, "PAUSED"))
         \/ ~s.cancelled /\ ~s.paused /\ Become(t, Goto(s, "look"))
      /\ LocalStep

\* The row, for what an operator did from another process; then the step limit.
Look(t) ==
  LET s == ses[t]
  IN  /\ At(t, "look")
      /\ \/ row.status \in {"CANCELLED", "PAUSED"} /\ Become(t, Settling(s, row.status))
         \/ row.status \notin {"CANCELLED", "PAUSED"} /\ s.steps > MaxSteps
            /\ Become(t, Settling(s, "FAILED"))
         \/ row.status \notin {"CANCELLED", "PAUSED"} /\ s.steps <= MaxSteps
            /\ Become(t, Goto(s, "observe"))
      /\ LocalStep

\* A plan is made once; a session that loaded one skips the phase.  The planner,
\* like the executor and the verifier below, may throw.
Observe(t) ==
  LET s == Moved(t, "OBSERVING")
  IN  /\ At(t, "observe")
      /\ Advance(t, "OBSERVING",
                 {Goto(s, "decide")} \cup IF s.steps = 1 THEN {Goto(s, "plan")} ELSE {})

Plan(t) ==
  /\ At(t, "plan")
  /\ LET s == Moved(t, "PLANNING")
     IN  Advance(t, "PLANNING", {Persisting(s, "decide"), Raised(s)})

Decide(t) ==
  LET s == Moved(t, "EXECUTING")
  IN  /\ At(t, "decide")
      /\ AdvanceTo(t, "EXECUTING", {Goto(s, "think")}, DecisionRaised(s))

\* The model answers with actions, declares the run finished, or fails; a call
\* that was aborted counts as a cancellation, whoever aborted it.
Think(t) ==
  LET s == ses[t]
  IN  /\ At(t, "think")
      /\ BecomeOneOf(t, {Goto(s, "act"), Goto(s, "finish"), DecisionRaised(s),
                         Settling(s, "CANCELLED")})
      /\ LocalStep

\* recoverFromDecisionFailure up to its persist ...
DecisionFailed(t) ==
  LET s == [Moved(t, "RECOVERING") EXCEPT !.tries = @ + 1]
  IN  /\ At(t, "decisionFailed")
      /\ Advance(t, "RECOVERING", {Persisting(s, "decisionRecovery")})

\* ... and the strategy it then applies: stop, ask a human, go on with another
\* plan or checkpoint, or go on unchanged while attempts are left.
DecisionRecovery(t) ==
  LET s == ses[t]
  IN  /\ At(t, "decisionRecovery")
      /\ BecomeOneOf(t, {Settling(s, "FAILED"), Settling(s, "WAITING"), Persisting(s, "top")}
                        \cup IF s.tries < MaxRecovery THEN {Goto(s, "top")} ELSE {})
      /\ LocalStep

\* An execution of tools by a thread whose row someone else has moved on.
CountBlind(t) ==
  blind' = [blind EXCEPT ![t] = IF Accepts(ses[t].run.version) THEN @ ELSE @ + 1]

\* act, and the outcome record will persist: done, waiting for an approval, or
\* with a failure in it.  A malformed set of actions is thrown out.
Act(t) ==
  /\ At(t, "act")
  /\ CountBlind(t)
  /\ \/ Become(t, Raised(ses[t]))
     \/ BecomeOneOf(t, {Persisting(ses[t], outcome) : outcome \in {"done", "waiting", "failed"}})
  /\ UNCHANGED <<row, saved, lock, control>>

\* After record: the storage budget and repeated denials end the run, an
\* approval parks it, a failure goes to recovery unless that is switched off.
Recorded(t) ==
  LET s == ses[t]
  IN  /\ s.pc \in {"done", "waiting", "failed"}
      /\ \/ Become(t, Settling(s, "FAILED"))
         \/ s.pc = "done" /\ Become(t, Goto(s, "stepDone"))
         \/ s.pc = "waiting" /\ Become(t, Settling(s, "WAITING"))
         \/ s.pc = "failed" /\ BecomeOneOf(t, {Goto(s, "recover"), Goto(s, "stepDone")})
      /\ LocalStep

\* Defect: attempts are not counted.
RecoverUncounted(t) ==
  /\ At(t, "recover")
  /\ Advance(t, "RECOVERING", {Goto(Moved(t, "RECOVERING"), "repair")})

\* recover: a run already RECOVERING is not written again on the way in.
Recover(t) ==
  LET s == [Moved(t, "RECOVERING") EXCEPT !.tries = @ + 1]
  IN  /\ At(t, "recover")
      /\ Advance(t, "RECOVERING", {Goto(s, "repair")})

\* applyRecovery: every strategy that does not execute the tool again.
Repair(t) ==
  LET s == ses[t]
  IN  /\ At(t, "repair")
      /\ BecomeOneOf(t, {Settling(s, "FAILED"), Settling(s, "WAITING"),
                         Persisting(s, "stepDone"), Raised(s)})
      /\ LocalStep

\* Defect: a failed retry is retried without a limit.
RetryUnlimited(t) ==
  /\ At(t, "repair")
  /\ CountBlind(t)
  /\ BecomeOneOf(t, {Persisting(ses[t], "stepDone"), Goto(ses[t], "recover")})
  /\ UNCHANGED <<row, saved, lock, control>>

\* applyRecovery, retry: the action again, persisted when it succeeds; when it
\* does not, another recovery while attempts are left (none for an action that
\* now waits for approval or is denied: recover finds no failure in it).
RetryAction(t) ==
  LET s == ses[t]
  IN  /\ At(t, "repair")
      /\ CountBlind(t)
      /\ BecomeOneOf(t, {Persisting(s, "stepDone")} \cup
                        IF s.tries >= MaxRecovery THEN {Settling(s, "FAILED")}
                        ELSE {Goto(s, "recover"), Goto(s, "stepDone")})
      /\ UNCHANGED <<row, saved, lock, control>>

\* The end of an iteration: no progress stops the run, otherwise persist.
StepDone(t) ==
  LET s == ses[t]
  IN  /\ At(t, "stepDone")
      /\ BecomeOneOf(t, {Settling(s, "FAILED"), Persisting(s, "top")})
      /\ LocalStep

\* finish: verify if the agent verifies, otherwise complete.
Complete(t) ==
  /\ At(t, "finish")
  /\ Become(t, Settling(ses[t], "COMPLETED"))
  /\ LocalStep

Verify(t) ==
  /\ At(t, "finish")
  /\ LET s == Moved(t, "VERIFYING")
     IN  Advance(t, "VERIFYING", {Persisting(s, "judge"), Raised(s)})

Judge(t) ==
  /\ At(t, "judge")
  /\ BecomeOneOf(t, {Settling(ses[t], "COMPLETED"), Goto(ses[t], "rework")})
  /\ LocalStep

\* A failed verification: recover by stopping, asking or going back to work.
Rework(t) ==
  LET s == [Moved(t, "RECOVERING") EXCEPT !.tries = @ + 1]
  IN  /\ At(t, "rework")
      /\ Advance(t, "RECOVERING",
                 {Settling(s, "FAILED")} \cup
                 IF s.tries > MaxRecovery THEN {}
                 ELSE {Settling(s, "WAITING"), Persisting(s, "top")})

-----------------------------------------------------------------------------

LoopStep(t) ==
  \/ Top(t) \/ Look(t) \/ Observe(t) \/ Plan(t) \/ Decide(t) \/ Think(t)
  \/ DecisionFailed(t) \/ DecisionRecovery(t) \/ Act(t) \/ Recorded(t)
  \/ Recover(t) \/ Repair(t) \/ RetryAction(t) \/ StepDone(t)
  \/ Complete(t) \/ Verify(t) \/ Judge(t) \/ Rework(t)

StartStep(t) ==
  \/ Resume(t) \/ Retry(t) \/ Requeue(t) \/ Acquire(t) \/ Load(t)
  \/ WriteInitializing(t) \/ Setup(t) \/ Leave(t)

SessionStep(t) ==
  \/ StartStep(t) \/ LoopStep(t)
  \/ PersistRow(t) \/ PersistState(t) \/ Settle(t) \/ Contain(t)

\* A process dies: its threads, its lock and its controls are gone.
ProcessLost(p) ==
  /\ ses' = [t \in Thread |-> IF HostOf[t] = p THEN IdleSession ELSE ses[t]]
  /\ blind' = [t \in Thread |-> IF HostOf[t] = p THEN 0 ELSE blind[t]]
  /\ lock' = [lock EXCEPT ![p] = None]
  /\ control' = [control EXCEPT ![p] = None]
  /\ UNCHANGED <<row, saved>>
=============================================================================
