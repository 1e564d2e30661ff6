------------------------------ MODULE Admission ------------------------------
(***************************************************************************)
(* What lets a run in and what lets it execute: the limits of Backpressure *)
(* (packages/runtime/src/backpressure.ts), asked by createRun before there *)
(* is a row, by a worker before it starts what it claimed (apps/worker/src *)
(* /worker.ts), and by start() itself when it reserves a slot.  Every      *)
(* question is answered from a read that is old when the answer is used.   *)
(* One organization, whose runs are in one process with its creators       *)
(* ("inline") or executed by a worker of its own ("worker").               *)
(* The second part is the lock that keeps one run to one session. The two  *)
(* share no variable.                                                      *)
(***************************************************************************)
EXTENDS Integers, FiniteSets, Sequences, SequencesExt

CONSTANTS
  Creator,              \* requests that create runs at the same time
  Admitted,             \* the runs there may be
  MaxConcurrentRuns, MaxPerOrganization, MaxQueueDepth,
  WorkerConcurrency, MaxWorkerAttempts,
  MaxAskedAgain         \* bound: how often an operator retries or resumes

ASSUME AdmissionAssumption ==
  /\ IsFiniteSet(Creator) /\ IsFiniteSet(Admitted) /\ MaxAskedAgain \in Nat
  /\ {MaxConcurrentRuns, MaxPerOrganization, MaxQueueDepth, WorkerConcurrency, MaxWorkerAttempts}
       \subseteq Nat \ {0}

VARIABLES
  deployment,           \* "inline" or "worker"
  slots,                \* Backpressure.running of the process that executes
  creator,              \* how far every createRun is
  admitted,             \* every run: where it is, its attempts and failures, its lock
  askedAgain            \* runs that were active again without a question

AdmissionVars == <<deployment, slots, creator, admitted, askedAgain>>

Absent == [at |-> "none", begun |-> FALSE, full |-> FALSE, attempts |-> 0, failures |-> 0, locked |-> FALSE]

AdmissionInit ==
  /\ deployment \in {"inline", "worker"}
  /\ slots = 0 /\ askedAgain = 0
  /\ creator = [c \in Creator |-> "idle"]
  /\ admitted = [r \in Admitted |-> Absent]

Being(places) == {r \in Admitted : admitted[r].at \in places}

\* countActive: every row that is not terminal, executing or not.
ActiveRuns == Cardinality(Admitted \ Being({"none", "ended", "failed"}))
\* depth: rows that are CREATED or QUEUED, claimed or not.
QueueDepth == Cardinality({r \in Being({"queued", "claimed", "counting", "allowed", "left"}) : ~admitted[r].begun})
InFlightRuns == Being({"claimed", "counting", "allowed", "executing"})

RunGoes(r, place) == admitted' = [admitted EXCEPT ![r].at = place]

-----------------------------------------------------------------------------
(* createRun: the question, the count and the row are three steps.           *)

\* A creator's own process executes nothing when there are workers.
AskToCreate(c) ==
  /\ creator[c] = "idle"
  /\ deployment = "worker" \/ slots < MaxConcurrentRuns
  /\ creator' = [creator EXCEPT ![c] = "counting"]
  /\ UNCHANGED <<deployment, slots, admitted, askedAgain>>

CountBeforeCreate(c) ==
  /\ creator[c] = "counting"
  /\ creator' = [creator EXCEPT ![c] = IF ActiveRuns < MaxPerOrganization THEN "allowed" ELSE "idle"]
  /\ UNCHANGED <<deployment, slots, admitted, askedAgain>>

CreateRow(c) ==
  /\ creator[c] = "allowed"
  /\ creator' = [creator EXCEPT ![c] = "idle"]
  /\ \E r \in Being({"none"}) : RunGoes(r, "queued")
  /\ UNCHANGED <<deployment, slots, askedAgain>>

-----------------------------------------------------------------------------
(* The worker: a claim, the depth, the count, and only then start().         *)

\* Every claim counts as an attempt, also one that backpressure hands back.
ClaimAdmitted(r) ==
  /\ deployment = "worker" /\ admitted[r].at = "queued"
  /\ Cardinality(InFlightRuns) < WorkerConcurrency
  /\ admitted' = [admitted EXCEPT ![r].at = "claimed",
                                  ![r].attempts = IF @ < MaxWorkerAttempts THEN @ + 1 ELSE @]
  /\ UNCHANGED <<deployment, slots, creator, askedAgain>>

\* The depth is read before the slots are looked at, and judged after the count.
ReadDepth(r) ==
  /\ admitted[r].at = "claimed"
  /\ IF slots >= MaxConcurrentRuns
     THEN RunGoes(r, "queued")
     ELSE admitted' = [admitted EXCEPT ![r].at = "counting", ![r].full = QueueDepth >= MaxQueueDepth]
  /\ UNCHANGED <<deployment, slots, creator, askedAgain>>

CountBeforeStart(r) ==
  /\ admitted[r].at = "counting"
  /\ admitted' = [admitted EXCEPT ![r].full = FALSE,
                    ![r].at = IF ActiveRuns < MaxPerOrganization /\ ~admitted[r].full
                              THEN "allowed" ELSE "queued"]
  /\ UNCHANGED <<deployment, slots, creator, askedAgain>>

\* recordFailure hands the run back while its attempts last; inline the refusal
\* is the caller's and the row stays as it is.
Failed(r, row) ==
  IF deployment = "inline" THEN [row EXCEPT !.at = "queued"]
  ELSE [row EXCEPT !.at = IF row.attempts < MaxWorkerAttempts THEN "queued" ELSE "left",
                   !.failures = IF @ < MaxWorkerAttempts THEN @ + 1 ELSE @]

\* start(): the run's lock, then the slot, and everything else under the finally
\* that gives both back.  A slot that is refused leaves the lock taken.
StartAdmitted(r) ==
  /\ admitted[r].at = (IF deployment = "inline" THEN "queued" ELSE "allowed")
  /\ IF admitted[r].locked
     THEN admitted' = [admitted EXCEPT ![r] = Failed(r, @)] /\ UNCHANGED slots
     ELSE IF slots >= MaxConcurrentRuns
     THEN admitted' = [admitted EXCEPT ![r] = [Failed(r, @) EXCEPT !.locked = TRUE]] /\ UNCHANGED slots
     ELSE /\ admitted' = [admitted EXCEPT ![r].at = "executing", ![r].begun = TRUE, ![r].locked = TRUE]
          /\ slots' = slots + 1
  /\ UNCHANGED <<deployment, creator, askedAgain>>

\* An execution rests or throws; Backpressure.release never goes below zero.
EndAdmitted(r) ==
  /\ admitted[r].at = "executing"
  /\ \E row \in {[admitted[r] EXCEPT !.at = place] : place \in {"ended", "failed", "parked"}}
                \cup {Failed(r, admitted[r])} :
       admitted' = [admitted EXCEPT ![r] = [row EXCEPT !.locked = FALSE]]
  /\ slots' = IF slots > 0 THEN slots - 1 ELSE 0
  /\ UNCHANGED <<deployment, creator, askedAgain>>

\* The lock of a start that was refused its slot outlasts it by five minutes.
LeakedLockExpires(r) ==
  /\ admitted[r].locked /\ admitted[r].at # "executing"
  /\ admitted' = [admitted EXCEPT ![r].locked = FALSE]
  /\ UNCHANGED <<deployment, slots, creator, askedAgain>>

-----------------------------------------------------------------------------
(* Operators: a paused run is resumed and a failed one retried, both QUEUED  *)
(* again without a question to backpressure; a queued one is cancelled.      *)
BringBack(r) ==
  /\ admitted[r].at \in {"parked", "failed"} /\ askedAgain < MaxAskedAgain
  /\ admitted' = [admitted EXCEPT ![r].at = "queued", ![r].begun = FALSE]
  /\ askedAgain' = askedAgain + 1
  /\ UNCHANGED <<deployment, slots, creator>>

CancelAdmitted(r) ==
  /\ admitted[r].at \in {"queued", "parked", "left"}
  /\ RunGoes(r, "ended")
  /\ UNCHANGED <<deployment, slots, creator, askedAgain>>

AdmissionStep(r) == ReadDepth(r) \/ CountBeforeStart(r) \/ StartAdmitted(r) \/ EndAdmitted(r)

AdmissionNext ==
  \/ \E c \in Creator : AskToCreate(c) \/ CountBeforeCreate(c) \/ CreateRow(c)
  \/ \E r \in Admitted : ClaimAdmitted(r) \/ AdmissionStep(r)
  \/ \E r \in Admitted : LeakedLockExpires(r) \/ BringBack(r) \/ CancelAdmitted(r)

\* A worker polls and carries on what it has begun, and executions end.  Inline
\* nothing but the caller's request starts a run.
AdmissionFairness ==
  /\ \A r \in Admitted : WF_AdmissionVars(deployment = "worker" /\ AdmissionStep(r))
  /\ WF_AdmissionVars(\E r \in Admitted : ClaimAdmitted(r))

-----------------------------------------------------------------------------
AdmissionTypeOK ==
  /\ deployment \in {"inline", "worker"}
  /\ slots \in 0..Cardinality(Admitted) /\ askedAgain \in 0..MaxAskedAgain
  /\ creator \in [Creator -> {"idle", "counting", "allowed"}]
  /\ \A r \in Admitted :
       /\ admitted[r].at \in {"none", "queued", "claimed", "counting", "allowed", "executing", "parked", "failed", "ended", "left"}
       /\ {admitted[r].begun, admitted[r].full, admitted[r].locked} \subseteq BOOLEAN
       /\ {admitted[r].attempts, admitted[r].failures} \subseteq 0..MaxWorkerAttempts

\* A slot is taken exactly while a run executes, and never more than there are,
\* whatever was refused or thrown between the check and the reservation
\* (backpressure.ts:45, runtime.ts:470 and its finally).
SlotsAreExecutions ==
  /\ slots = Cardinality(Being({"executing"}))
  /\ slots <= MaxConcurrentRuns

\* The limit of an organization is passed by no more than the creators that were
\* counting at the same time, and the runs that an operator brought back
\* (backpressure.ts:72, asked one await before the row is written).
OvershootIsBounded ==
  ActiveRuns + Cardinality({c \in Creator : creator[c] = "allowed"})
    <= MaxPerOrganization - 1 + Cardinality(Creator) + askedAgain

Waits == Being({"queued", "claimed", "counting", "allowed"})
FullHouse == ActiveRuns >= MaxPerOrganization \/ QueueDepth >= MaxQueueDepth

\* A worker that executes nothing takes up a run that waits, unless the
\* organization or the queue is full: no combination of checks, leaked locks and
\* handed back claims keeps it idle for ever (worker.ts:225, queue.ts:104).
IdleWorkerTakesUp ==
  (deployment = "worker" /\ slots = 0 /\ Waits # {}) ~> (slots > 0 \/ Waits = {} \/ FullHouse)

\* What a reader would expect of a limit, that a full house is served until it
\* is full no more.  Violated: the run that asks is one of the active ones and
\* of the queued ones that it is counted among, so that at either limit every
\* worker hands every claim back until an operator cancels.
FullHouseIsServed ==
  (deployment = "worker" /\ FullHouse /\ Being({"queued"}) # {}) ~> (slots > 0 \/ Being({"queued"}) = {})

\* "left claimed after repeated worker failures" (worker.ts:285).  Violated: a
\* claim that backpressure handed back is an attempt too, so one failure may do.
LeftAfterRepeatedFailures ==
  \A r \in Admitted : admitted[r].at = "left" => admitted[r].failures = MaxWorkerAttempts

-----------------------------------------------------------------------------
(***************************************************************************)
(* The in-process lock manager (packages/core/src/lock.ts) on one key: an  *)
(* entry holds a token until its time is up or the token is handed back,   *)
(* and those who wait are woken one by one by a release, or each by its    *)
(* own 25 ms timer.  The runtime asks without waiting and never extends;   *)
(* the manager is modelled with all it offers.                             *)
(***************************************************************************)
CONSTANTS
  Contender,      \* callers that want the key
  MaxAcquires,    \* bound: how often the key is taken
  MaxLapses       \* bound: how often an entry's time runs out

ASSUME LockManagerAssumption == MaxAcquires \in Nat /\ MaxLapses \in Nat

VARIABLES
  lock,           \* entries and waiting: the token held, whether its time is up, who waits
  contender       \* every caller: where it is, what it was handed, how it asked

LockManagerVars == <<lock, contender>>

Nobody == [at |-> "idle", token |-> 0, waits |-> TRUE, aborted |-> FALSE, lapsed |-> FALSE]

LockManagerInit ==
  /\ lock = [token |-> 0, lapsed |-> FALSE, waiting |-> << >>, taken |-> 0, lapses |-> 0]
  /\ contender = [c \in Contender |-> Nobody]

Holding(c) == contender[c].at = "holding"
Goes(c, place) == contender' = [contender EXCEPT ![c].at = place]

\* The waiting list without c, whose own timer or a release has resolved it.
Without(c) == RemoveFirst(lock.waiting, c)

-----------------------------------------------------------------------------
AcquireLock(c, waits) ==
  /\ contender[c].at = "idle"
  /\ contender' = [contender EXCEPT ![c] = [Nobody EXCEPT !.at = "trying", !.waits = waits]]
  /\ UNCHANGED lock

\* One round of acquire's loop: an entry whose time is up is purged, a free key
\* is taken under a new token, and who finds it held is refused or waits.
TakeLock(c) ==
  /\ contender[c].at = "trying"
  /\ lock.token = 0 \/ lock.lapsed
  /\ lock.taken < MaxAcquires
  /\ lock' = [lock EXCEPT !.token = lock.taken + 1, !.lapsed = FALSE, !.taken = @ + 1]
  /\ contender' = [contender EXCEPT ![c].at = "holding", ![c].token = lock.taken + 1]

FindHeld(c) ==
  /\ contender[c].at = "trying"
  /\ lock.token # 0 /\ ~lock.lapsed
  /\ IF ~contender[c].waits \/ contender[c].aborted
     THEN Goes(c, "refused") /\ UNCHANGED lock
     ELSE Goes(c, "waiting") /\ lock' = [lock EXCEPT !.waiting = Append(@, c)]

\* The timer of a caller that a release has not resolved yet.
PollFires(c) ==
  /\ contender[c].at = "waiting"
  /\ Goes(c, "trying")
  /\ lock' = [lock EXCEPT !.waiting = Without(c)]

\* Only the entry of the handle's own token is deleted; the first who waits is
\* woken in any case and looks again, possibly after another has come in.
ReleaseLock(c) ==
  /\ Holding(c)
  /\ lock' = [lock EXCEPT !.token = IF @ = contender[c].token THEN 0 ELSE @,
                          !.lapsed = @ /\ lock.token # contender[c].token,
                          !.waiting = IF @ = << >> THEN @ ELSE Tail(@)]
  /\ contender' = [d \in Contender |->
                     IF d = c THEN Nobody
                     ELSE IF lock.waiting # << >> /\ d = Head(lock.waiting)
                          THEN [contender[d] EXCEPT !.at = "trying"]
                          ELSE contender[d]]

\* extend brings back an entry whose time was up when nobody has purged it.
ExtendLock(c) ==
  /\ Holding(c) /\ lock.token = contender[c].token
  /\ lock' = [lock EXCEPT !.lapsed = FALSE]
  /\ contender' = [contender EXCEPT ![c].lapsed = FALSE]

\* The entry's time runs out; whoever holds its token does not learn of it.
LockLapses ==
  /\ lock.token # 0 /\ ~lock.lapsed /\ lock.lapses < MaxLapses
  /\ lock' = [lock EXCEPT !.lapsed = TRUE, !.lapses = @ + 1]
  /\ contender' = [c \in Contender |->
                     IF Holding(c) /\ contender[c].token = lock.token
                     THEN [contender[c] EXCEPT !.lapsed = TRUE] ELSE contender[c]]

\* The caller's signal; it is looked at in the next round of the loop only.
AbortAcquire(c) ==
  /\ contender[c].at \in {"trying", "waiting"} /\ ~contender[c].aborted
  /\ contender' = [contender EXCEPT ![c].aborted = TRUE]
  /\ UNCHANGED lock

LockManagerNext ==
  \/ \E c \in Contender, waits \in BOOLEAN : AcquireLock(c, waits)
  \/ \E c \in Contender : TakeLock(c) \/ FindHeld(c) \/ PollFires(c) \/ ReleaseLock(c)
  \/ \E c \in Contender : ExtendLock(c) \/ AbortAcquire(c)
  \/ LockLapses

\* Timers fire, promises that are resolved go on, and withLock releases what it
\* was handed whether its function returns or throws.
LockStep(c) == TakeLock(c) \/ FindHeld(c) \/ PollFires(c) \/ ReleaseLock(c)
LockManagerFairness == \A c \in Contender : WF_LockManagerVars(LockStep(c))

-----------------------------------------------------------------------------
LockManagerTypeOK ==
  /\ lock.token \in 0..MaxAcquires /\ lock.taken \in 0..MaxAcquires /\ lock.lapses \in 0..MaxLapses
  /\ lock.lapsed \in BOOLEAN
  /\ ToSet(lock.waiting) \subseteq Contender
  /\ \A c \in Contender :
       /\ contender[c].at \in {"idle", "trying", "waiting", "holding", "refused"}
       /\ contender[c].token \in 0..MaxAcquires
       /\ {contender[c].waits, contender[c].aborted, contender[c].lapsed} \subseteq BOOLEAN

\* Whoever holds the key and has not outstayed its time holds it alone: a second
\* holder exists only while the first is one whose time ran out, whatever order
\* takes, releases of stale handles and extensions come in (lock.ts:68-83).
LockIsExclusive ==
  \A c \in Contender : Holding(c) /\ ~contender[c].lapsed =>
     /\ lock.token = contender[c].token
     /\ \A d \in Contender \ {c} : Holding(d) => contender[d].lapsed

\* Everyone in the waiting list waits, once, and nobody waits outside it: no
\* wake-up is spent on a caller that has gone on (lock.ts:50-60).
WaitersAreListed ==
  /\ IsInjective(lock.waiting)
  /\ ToSet(lock.waiting) = {c \in Contender : contender[c].at = "waiting"}

\* A caller that waits when its signal fires is refused or served in the end: it
\* is woken by its own timer if by nobody else.
AbortedWaiterReturns ==
  \A c \in Contender :
     (contender[c].at = "waiting" /\ contender[c].aborted)
       ~> (contender[c].at \notin {"trying", "waiting"} \/ lock.taken = MaxAcquires)
=============================================================================
