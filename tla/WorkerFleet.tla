---------------------------- MODULE WorkerFleet ----------------------------
(***************************************************************************)
(* Runs executed by workers: a process that serves the operator's calls    *)
(* and worker processes that share nothing with it, or with each other,    *)
(* but the store.  A start, resume or retry that is accepted is enqueued;  *)
(* a claim, a session and a sweep may be at any point of their way when    *)
(* another process writes the row.                                         *)
(***************************************************************************)
EXTENDS StoreQueue

CONSTANTS MayCrash,   \* processes that may die
          MayStop     \* workers that may be asked to shut down

ASSUME FleetAssumption == MayCrash \subseteq Process /\ MayStop \subseteq Worker

vars == <<storeVars, sessionVars, call, queueVars>>

Init == StoreInit /\ SessionInit /\ ControlInit /\ QueueInit

SessionMoves(t) == SessionStep(t) /\ UNCHANGED <<call, queueVars>>

ItemMoves(t) == ItemStep(t) /\ UNCHANGED call

PollMoves(w) == PollStep(w) /\ UNCHANGED call

EnqueueMoves(c) == EnqueueStep(c) /\ UNCHANGED <<up, tick, job, claims>>

CallMoves(c) == CallStep(c) /\ UNCHANGED queueVars

Next ==
  \/ \E t \in Thread : SessionMoves(t) \/ ItemMoves(t)
  \/ \E w \in Worker : PollMoves(w)
  \/ \E c \in Caller : CallMoves(c) \/ EnqueueMoves(c)
  \/ \E p \in MayCrash : Crash(p)
  \/ \E w \in MayStop : Shutdown(w) /\ UNCHANGED call

\* A worker that is up keeps polling, its event loop keeps running what it
\* claimed, and a call that was accepted is enqueued; nobody has to make a
\* call, to crash or to shut down.
Fairness ==
  /\ \A t \in Thread : WF_vars(SessionMoves(t) \/ ItemMoves(t))
  /\ \A w \in Worker : WF_vars(PollMoves(w))
  /\ \A c \in Caller : WF_vars(EnqueueMoves(c))

Spec == Init /\ [][Next]_vars /\ Fairness

-----------------------------------------------------------------------------

TypeOK == StoreTypeOK /\ SessionTypeOK /\ ControlTypeOK /\ QueueTypeOK

\* The stored state is never newer than the row it belongs to, whichever
\* process writes either of them and wherever it dies.
SavedNeverAhead == saved <= row.version

\* It is not handling an exception, such as a refused write.
Unwarned(t) == ~ses[t].contained /\ ~At(t, "contain")

\* Of the sessions that hold the run at most one holds the version in the row, so
\* the store rejects everybody else's next write.  For a session that has been told
\* of nothing this is so whatever happened.  One whose write was refused raised its
\* version by one all the same: it stays behind because handing a run over takes
\* the end of one claim, another claim and the write of INITIALIZING, unless the
\* run was put back between the last two.
OneSessionIsCurrent ==
  \A t, u \in Thread :
    /\ Iterating(t) /\ Accepts(ses[t].run.version)
    /\ Iterating(u) /\ Accepts(ses[u].run.version)
    /\ undercut => Unwarned(t) /\ Unwarned(u)
    => t = u

\* What the store lets a session write it writes under a live claim of its own
\* worker: a session whose claim was taken away is behind the row, unless it
\* is already handling the exception that told it so.  The exception is a run
\* that was put back under a worker that was getting it started.
CurrentSessionHoldsClaim ==
  \A t \in Thread :
    /\ Iterating(t) /\ Unwarned(t) /\ Accepts(ses[t].run.version) /\ ~undercut
    => row.claim.live /\ row.claim.holder = IdOf[HostOf[t]]

\* Violated by release.  queue.ts:114, "An abandoned claim stays claimed until
\* `reclaimStale` deliberately releases it": a claim stays in the row until a sweep
\* finds it stale or the item that took it gives it back, and nobody else frees it.
OnlySweepsReclaim ==
  [][row.claim.live /\ ~row'.claim.live
       => \/ \E w \in Worker : tick[w].pc = "sweep" /\ tick'[w].pc = "poll"
          \/ \E t \in Thread : /\ job[t].pc = "put" /\ job'[t].pc = "none"
                                /\ row.claim.holder = IdOf[HostOf[t]]]_vars

\* A session that lost the run executes tools until its next write: once, or
\* as often as one recovery retries.
BlindIsBounded == \A t \in Thread : blind[t] <= (IF MaxRecovery = 0 THEN 1 ELSE MaxRecovery)

\* What an operator cancelled stays cancelled: no session, worker or other call
\* writes another status over it.
CancelledStaysCancelled ==
  [][row.status = "CANCELLED" => row'.status = "CANCELLED"]_vars

\* Two workers never execute the run at the same time.
OneExecution ==
  \A t, u \in Thread : Iterating(t) /\ Iterating(u) => t = u

AtRest == row.status \in Terminal \cup {"WAITING", "PAUSED"}

\* Whatever the model, the tools and the verifier answer, an execution that was
\* claimed comes to an end: the step and the recovery limits see to it.
EveryExecutionEnds == \A t \in Thread : Executing(t) ~> ~Executing(t)

\* A run that is queued or was left behind by a worker that died is taken up
\* by a worker that is alive and brought to a resting point.
RunIsTakenUp == <>[]AtRest

\* A start that was accepted while the run waits for an approval (the decision
\* on the approval is dispatched as one) makes the run go on.
DecidedRunGoesOn ==
  \A c \in Caller :
    (call[c].kind = "start" /\ CallAt(c, "dispatch") /\ row.status = "WAITING")
      ~> (row.status # "WAITING")
=============================================================================
