-------------------------- MODULE InlineDeployment --------------------------
(***************************************************************************)
(* The API process executing runs itself: RunControl's calls and the       *)
(* sessions they start share one process, its run lock and its RunControls *)
(* (InProcessDispatcher of apps/api/src/dispatcher.ts).                    *)
(***************************************************************************)
EXTENDS RunControl

CONSTANT MaxCrashes   \* bound: times the process dies and starts again

ASSUME InlineAssumption == MaxCrashes \in Nat

VARIABLE crashes

vars == <<storeVars, sessionVars, call, crashes>>

Init == StoreInit /\ SessionInit /\ ControlInit /\ crashes = 0

\* dispatch: the runtime is called and not awaited.
DispatchInline(c, t) ==
  /\ CallAt(c, "dispatch")
  /\ HostOf[t] = SiteOf[c]
  /\ Begin(t, FirstPhase(call[c].kind))
  /\ Answer(c, Over(call[c]))

\* A rejection is logged by the dispatcher and goes no further.
ReturnInline(t) ==
  /\ At(t, "left")
  /\ Become(t, IdleSession)
  /\ LocalStep

\* The process dies and comes back empty; the calls it was serving are lost.
Restart(p) ==
  /\ crashes < MaxCrashes
  /\ crashes' = crashes + 1
  /\ ProcessLost(p)
  /\ call' = [c \in Caller |-> IF SiteOf[c] = p /\ ~CallAt(c, "none")
                               THEN Refused(call[c]) ELSE call[c]]

Next ==
  \/ \E t \in Thread : SessionStep(t) /\ UNCHANGED <<call, crashes>>
  \/ \E t \in Thread : ReturnInline(t) /\ UNCHANGED <<call, crashes>>
  \/ \E c \in Caller : CallStep(c) /\ UNCHANGED crashes
  \/ \E c \in Caller, t \in Thread : DispatchInline(c, t) /\ UNCHANGED crashes
  \/ \E p \in Process : Restart(p)

Spec == Init /\ [][Next]_vars

-----------------------------------------------------------------------------

TypeOK == StoreTypeOK /\ SessionTypeOK /\ ControlTypeOK /\ crashes \in Nat

\* The run lock: of two starts in one process one is turned away, so at most
\* one session of a process iterates.
OneSession ==
  \A t, u \in Thread : Iterating(t) /\ Iterating(u) /\ HostOf[t] = HostOf[u] => t = u

\* The row is written before the state it describes (persist), and whatever
\* else moves the row or puts an older state back keeps the stored state from
\* being newer than the row a restarted process would load it with.
SavedNeverAhead == saved <= row.version

\* A finished run only leaves its status by the retry of a failure: a session,
\* an operator's call or a crash never bring a finished run back or replace one
\* ending by another.
FinishedMovesOnlyByRetry ==
  [][row.status \in Terminal /\ row'.status # row.status =>
       row.status \in {"FAILED", "TIMED_OUT"} /\ row'.status = "QUEUED"]_vars

\* When nothing crashed and nothing executes, the run is somewhere an operator
\* or a dispatcher can take it from: not left in the middle of an iteration.
NotStranded ==
  (crashes = 0 /\ \A t \in Thread : At(t, "idle")) =>
    \/ row.status \in Terminal \cup {"CREATED", "QUEUED", "WAITING", "PAUSED"}
    \/ \E c \in Caller : CallAt(c, "hop")

\* An operator who was told that a running run is being cancelled finds it
\* finished once it has come to rest.  Violated: a run that parks at WAITING in
\* the same iteration forgets the flag (runtime.ts:567).
CancelTakesEffect ==
  (/\ crashes = 0
   /\ \A t \in Thread : At(t, "idle")
   /\ \E c \in Caller : call[c].kind = "cancel" /\ call[c].flagged)
    => row.status \in Terminal
=============================================================================
