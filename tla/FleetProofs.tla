---------------------------- MODULE FleetProofs ----------------------------
(***************************************************************************)
(* What holds of a fleet of any number of workers, calls and claims, with  *)
(* any of its processes dying or stopping: the types; the order of the two *)
(* stored versions (a claim, a sweep and a release write the row they read *)
(* one version further, so they never bring the row behind the state); how *)
(* often a session that lost the run still executes tools; that one worker *)
(* executes it at a time while no claim outlives its execution; and that,  *)
(* where claims do, one session at most can write the row, under its claim.*)
(***************************************************************************)
EXTENDS WorkerFleet, LifecycleProofs

FleetInv == CallInv /\ QueueTypeOK

\* A row with another claim is a row, one version on.
LEMMA MarkedIsRow ==
  ASSUME NEW copy \in Row, NEW claim \in Claim
  PROVE  Marked(copy, claim) \in Row /\ Marked(copy, claim).version = copy.version + 1
<1>1. copy.version \in Nat
  BY DEF Row
<1>. DEFINE raised == [copy EXCEPT !.version = copy.version + 1]
<1>2. raised \in Row /\ raised.version = copy.version + 1
  BY <1>1 DEF Row
<1>3. Marked(copy, claim) = [raised EXCEPT !.claim = claim]
  BY <1>1 DEF Marked, Row
<1>. HIDE DEF raised
<1>. QED  BY <1>2, <1>3 DEF Row

\* The write of a claim, a release or a sweep, and what its writer does besides.
LEMMA MarkerKeeps ==
  ASSUME SessionInv, NEW copy \in Row, NEW claim \in Claim,
         WriteMarker(copy, claim) \/ UNCHANGED row,
         UNCHANGED <<saved, ses, lock, control, blind>>
  PROVE  SessionInv'
<1>1. row \in Row /\ row.version \in Nat /\ saved \in Nat
  BY DEF SessionInv, StoreTypeOK, Row
<1>2. Marked(copy, claim) \in Row /\ Marked(copy, claim).version = copy.version + 1
  BY MarkedIsRow
<1>3. row' \in Row /\ row.version <= row'.version
  BY <1>1, <1>2 DEF WriteMarker, Accepts, WriteRow
<1>4. StoreTypeOK' /\ saved' <= saved
  BY <1>1, <1>3 DEF StoreTypeOK
<1>. QED  BY <1>3, <1>4, UnchangedSessionsKeep

\* Steps that leave the run to others.
LEMMA ElsewhereKeeps ==
  ASSUME SessionInv, RunIsElsewhere PROVE SessionInv'
<1>1. StoreTypeOK' /\ row.version <= row'.version /\ saved' <= saved
  BY DEF SessionInv, StoreTypeOK, RunIsElsewhere, Row
<1>. QED  BY <1>1, UnchangedSessionsKeep DEF RunIsElsewhere

LEMMA FleetInit == Init => FleetInv
<1>. SUFFICES ASSUME Init PROVE FleetInv
  OBVIOUS
<1>1. row \in Row /\ row.version = 1 /\ saved = 1
  BY StatusesAreStates, FreeClaimIsClaim DEF Init, StoreInit, Row
<1>2. ses \in [Thread -> Returning] /\ \A t \in Thread : ~At(t, "persistState")
  BY IdleSessionIsReady DEF Init, SessionInit, At, Ready
<1>3. SessionTypeOK
  BY <1>2 DEF Init, SessionInit, SessionTypeOK, Returning
<1>4. SessionInv
  BY <1>1, <1>2, <1>3 DEF SessionInv, StoreTypeOK, VersionsInOrder
<1>5. call \in [Caller -> SoundCall]
  BY NoCallIsSound DEF Init, ControlInit
<1>6. NoCall.copy \in Row
  BY NoCallIsSound DEF SoundCall, Call
<1>7. Polling \in Tick /\ NoJob \in Job
  BY <1>6 DEF Polling, Tick, NoJob, Job
<1>8. QueueTypeOK
  BY <1>7 DEF Init, QueueInit, QueueTypeOK
<1>. QED  BY <1>4, <1>5, <1>8 DEF FleetInv, CallInv

LEMMA PollKeeps ==
  ASSUME FleetInv, NEW w \in Worker, PollMoves(w) PROVE FleetInv'
<1>1. /\ SessionInv /\ call \in [Caller -> SoundCall] /\ QueueTypeOK
      /\ row \in Row /\ tick[w] \in Tick /\ tick[w].copy \in Row
  BY DEF FleetInv, CallInv, SessionInv, StoreTypeOK, QueueTypeOK, Tick
<1>2. call' \in [Caller -> SoundCall]
  BY <1>1 DEF PollMoves
<1>3. Polling \in Tick
  BY NoCallIsSound DEF Polling, Tick, SoundCall, Call
<1>4. CASE ClaimRead(w) \/ SweepRead(w)
  <2>1. \A pc \in {"claim", "sweep"} : [pc |-> pc, copy |-> row] \in Tick
    BY <1>1 DEF Tick
  <2>2. QueueTypeOK'
    BY <1>1, <1>4, <2>1 DEF ClaimRead, SweepRead, Poll, QueueTypeOK
  <2>3. SessionInv'
    BY <1>1, <1>4, ElsewhereKeeps DEF ClaimRead, SweepRead
  <2>. QED  BY <1>2, <2>2, <2>3 DEF FleetInv, CallInv
<1>5. CASE ClaimWrite(w)
  <2>. DEFINE copy == tick[w].copy
              claim == [holder |-> IdOf[w], live |-> TRUE, attempt |-> copy.claim.attempt + 1]
              item == [NoJob EXCEPT !.pc = "check", !.action = ActionFor(copy.status),
                                    !.attempt = claim.attempt]
  <2>1. claim \in Claim /\ claim.attempt \in Nat
    BY <1>1, QueueAssumption DEF Row, Claim
  <2>2. item \in Job
    <3>1. ASSUME NEW action \in {"start", "resume"}, NEW n \in Nat, NoJob \in Job
          PROVE  [NoJob EXCEPT !.pc = "check", !.action = action, !.attempt = n] \in Job
      <4>1. [NoJob EXCEPT !.pc = "check"] \in Job
        BY <3>1 DEF Job
      <4>2. [[NoJob EXCEPT !.pc = "check"] EXCEPT !.action = action] \in Job
        BY <4>1 DEF Job
      <4>3. [[[NoJob EXCEPT !.pc = "check"] EXCEPT !.action = action] EXCEPT !.attempt = n] \in Job
        BY <4>2 DEF Job
      <4>4. [NoJob EXCEPT !.pc = "check", !.action = action, !.attempt = n]
              = [[[NoJob EXCEPT !.pc = "check"] EXCEPT !.action = action] EXCEPT !.attempt = n]
        BY <3>1 DEF Job
      <4>. QED  BY <4>3, <4>4
    <3>2. NoJob \in Job
      <4>1. NoCall.copy \in Row
        BY NoCallIsSound DEF SoundCall, Call
      <4>. QED  BY <4>1 DEF NoJob, Job
    <3>3. ActionFor(copy.status) \in {"start", "resume"}
      BY DEF ActionFor
    <3>. HIDE DEF claim
    <3>. QED  BY <2>1, <3>1, <3>2, <3>3
  <2>. HIDE DEF item
  <2>3. WriteMarker(copy, claim) \/ UNCHANGED row
    BY <1>5 DEF ClaimWrite
  <2>4. SessionInv'
    BY <1>1, <1>5, <2>1, <2>3, MarkerKeeps DEF ClaimWrite
  <2>5. job' \in [Thread -> Job]
    <3>1. job' = job \/ \E t \in Thread : job' = [job EXCEPT ![t] = item]
      BY <1>5 DEF ClaimWrite, Work, item, ThreadsOf
    <3>. QED  BY <1>1, <2>2, <3>1 DEF QueueTypeOK
  <2>6. QueueTypeOK'
    BY <1>1, <1>3, <1>5, <2>5 DEF ClaimWrite, Poll, QueueTypeOK
  <2>. QED  BY <1>2, <2>4, <2>6 DEF FleetInv, CallInv
<1>6. CASE SweepWrite(w)
  <2>. DEFINE copy == tick[w].copy
  <2>1. FreeClaim(copy.claim.attempt) \in Claim
    BY <1>1, FreeClaimIsClaim DEF Row, Claim
  <2>2. WriteMarker(copy, FreeClaim(copy.claim.attempt)) \/ UNCHANGED row
    BY <1>6 DEF SweepWrite
  <2>3. SessionInv'
    BY <1>1, <1>6, <2>1, <2>2, MarkerKeeps DEF SweepWrite
  <2>4. QueueTypeOK'
    BY <1>1, <1>3, <1>6 DEF SweepWrite, Poll, QueueTypeOK
  <2>. QED  BY <1>2, <2>3, <2>4 DEF FleetInv, CallInv
<1>. QED  BY <1>4, <1>5, <1>6 DEF PollMoves, PollStep

LEMMA ItemKeeps ==
  ASSUME FleetInv, NEW t \in Thread, ItemMoves(t) PROVE FleetInv'
<1>1. /\ SessionInv /\ call \in [Caller -> SoundCall] /\ QueueTypeOK
      /\ row \in Row /\ job \in [Thread -> Job] /\ job[t] \in Job /\ NoJob \in Job
  <2>1. NoCall.copy \in Row
    BY NoCallIsSound DEF SoundCall, Call
  <2>. QED  BY <2>1 DEF FleetInv, CallInv, SessionInv, StoreTypeOK, QueueTypeOK, NoJob, Job
<1>2. call' \in [Caller -> SoundCall]
  BY <1>1 DEF ItemMoves
<1>3. \A pc \in {"run", "failed", "release"} : [job[t] EXCEPT !.pc = pc] \in Job
  BY <1>1 DEF Job
<1>4. [job[t] EXCEPT !.pc = "put", !.copy = row] \in Job
  <2>1. [job[t] EXCEPT !.pc = "put"] \in Job
    BY <1>1 DEF Job
  <2>2. [[job[t] EXCEPT !.pc = "put"] EXCEPT !.copy = row] \in Job
    BY <1>1, <2>1 DEF Job
  <2>3. [job[t] EXCEPT !.pc = "put", !.copy = row] = [[job[t] EXCEPT !.pc = "put"] EXCEPT !.copy = row]
    BY <1>1 DEF Job
  <2>. QED  BY <2>2, <2>3
<1>5. ASSUME NEW item \in Job, Work(t, item), UNCHANGED <<up, tick, claims>>, undercut' \in BOOLEAN
      PROVE  QueueTypeOK'
  BY <1>1, <1>5 DEF Work, QueueTypeOK
<1>6. CASE Refuse(t) \/ RecordFailure(t) \/ ReleaseRead(t)
  <2>1. SessionInv'
    BY <1>1, <1>6, ElsewhereKeeps DEF Refuse, RecordFailure, ReleaseRead
  <2>2. QueueTypeOK'
    BY <1>1, <1>3, <1>4, <1>5, <1>6 DEF Refuse, RecordFailure, ReleaseRead, QueueTypeOK
  <2>. QED  BY <1>2, <2>1, <2>2 DEF FleetInv, CallInv
<1>7. CASE Execute(t)
  <2>1. FirstPhase(job[t].action) \in Phase \ {"persistState"}
    BY <1>1 DEF Job, FirstPhase, Phase
  <2>2. SessionInv'
    BY <1>1, <1>7, <2>1, BeginKeeps DEF Execute
  <2>3. QueueTypeOK'
    BY <1>1, <1>3, <1>5, <1>7 DEF Execute, QueueTypeOK
  <2>. QED  BY <1>2, <2>2, <2>3 DEF FleetInv, CallInv
<1>8. CASE Return(t)
  <2>1. SessionInv'
    BY <1>1, <1>8, IdleSessionIsReady, LocalQuiet DEF Return, BecomeOneOf
  <2>2. QueueTypeOK'
    BY <1>1, <1>3, <1>5, <1>8 DEF Return, QueueTypeOK
  <2>. QED  BY <1>2, <2>1, <2>2 DEF FleetInv, CallInv
<1>9. CASE ReleaseWrite(t)
  <2>1. job[t].copy \in Row /\ FreeClaim(job[t].attempt) \in Claim
    BY <1>1, FreeClaimIsClaim DEF Job
  <2>2. SessionInv'
    BY <1>1, <1>9, <2>1, MarkerKeeps DEF ReleaseWrite, PutBack
  <2>3. QueueTypeOK'
    BY <1>1, <1>5, <1>9 DEF ReleaseWrite, PutBack, QueueTypeOK
  <2>. QED  BY <1>2, <2>2, <2>3 DEF FleetInv, CallInv
<1>. QED  BY <1>6, <1>7, <1>8, <1>9 DEF ItemMoves, ItemStep

LEMMA EnqueueKeeps ==
  ASSUME FleetInv, NEW c \in Caller, EnqueueMoves(c) PROVE FleetInv'
<1>1. /\ CallInv /\ SessionInv /\ call \in [Caller -> SoundCall] /\ QueueTypeOK
      /\ row \in Row /\ call[c] \in Call /\ call[c].copy \in Row
  BY DEF FleetInv, CallInv, SessionInv, StoreTypeOK, SoundCall, Call
<1>2. QueueTypeOK'
  BY <1>1 DEF EnqueueMoves, EnqueueStep, EnqueueRead, EnqueueWrite, PutBack, QueueTypeOK
<1>3. Over(call[c]) \in SoundCall /\ Refused(call[c]) \in SoundCall
  BY <1>1, EndsAreSound
<1>4. CASE EnqueueRead(c)
  <2>1. [call[c] EXCEPT !.pc = "enqueue", !.copy = row] \in SoundCall
    <3>1. [call[c] EXCEPT !.pc = "enqueue"] \in Call
      BY <1>1 DEF Call, CallPhase
    <3>2. [[call[c] EXCEPT !.pc = "enqueue"] EXCEPT !.copy = row] \in Call
      BY <1>1, <3>1 DEF Call
    <3>3. [call[c] EXCEPT !.pc = "enqueue", !.copy = row]
            = [[call[c] EXCEPT !.pc = "enqueue"] EXCEPT !.copy = row]
      BY <1>1 DEF Call
    <3>. QED  BY <1>1, <3>2, <3>3 DEF SoundCall, Call
  <2>2. CallInv'
    BY <1>1, <1>3, <1>4, <2>1, AnswerKeeps DEF EnqueueRead
  <2>. QED  BY <1>2, <2>2 DEF FleetInv
<1>5. CASE EnqueueWrite(c)
  <2>1. FreeClaim(0) \in Claim
    BY FreeClaimIsClaim
  <2>2. SessionInv'
    BY <1>1, <1>5, <2>1, MarkerKeeps DEF EnqueueWrite, PutBack
  <2>3. call' \in [Caller -> SoundCall]
    BY <1>1, <1>3, <1>5 DEF EnqueueWrite, Answer
  <2>. QED  BY <1>2, <2>2, <2>3 DEF FleetInv, CallInv
<1>. QED  BY <1>4, <1>5 DEF EnqueueMoves, EnqueueStep

LEMMA CrashKeeps ==
  ASSUME FleetInv, NEW p \in Process, Crash(p) PROVE FleetInv'
<1>1. SessionInv /\ call \in [Caller -> SoundCall] /\ QueueTypeOK
  BY DEF FleetInv, CallInv
<1>2. SessionInv'
  BY <1>1, ProcessLostKeeps DEF Crash
<1>3. \A c \in Caller : call[c] \in SoundCall /\ Refused(call[c]) \in SoundCall
  BY <1>1, EndsAreSound DEF SoundCall
<1>4. call' \in [Caller -> SoundCall]
  BY <1>1, <1>3 DEF Crash
<1>5. Polling \in Tick /\ NoJob \in Job
  <2>1. NoCall.copy \in Row
    BY NoCallIsSound DEF SoundCall, Call
  <2>. QED  BY <2>1 DEF Polling, Tick, NoJob, Job
<1>6. QueueTypeOK'
  BY <1>1, <1>5, QueueAssumption DEF Crash, QueueTypeOK
<1>. QED  BY <1>2, <1>4, <1>6 DEF FleetInv, CallInv

\* A flag raised in the registered session of the worker that stops.
LEMMA ShutdownKeeps ==
  ASSUME FleetInv, NEW w \in Worker, Shutdown(w), UNCHANGED call PROVE FleetInv'
<1>1. SessionInv /\ call \in [Caller -> SoundCall] /\ QueueTypeOK /\ ses \in [Thread -> Returning]
  BY DEF FleetInv, CallInv, SessionInv
<1>2. ASSUME NEW t \in Thread
      PROVE  /\ ses'[t] \in Returning
             /\ ses'[t].pc = ses[t].pc /\ ses'[t].state = ses[t].state
  <2>1. ses[t] \in Returning
    BY <1>1
  <2>2. /\ [ses[t] EXCEPT !.paused = TRUE] \in Returning
        /\ [ses[t] EXCEPT !.paused = TRUE].pc = ses[t].pc
        /\ [ses[t] EXCEPT !.paused = TRUE].state = ses[t].state
    BY <2>1 DEF Returning, Session
  <2>3. ses'[t] = ses[t] \/ ses'[t] = [ses[t] EXCEPT !.paused = TRUE]
    BY DEF Shutdown
  <2>. QED  BY <2>1, <2>2, <2>3
<1>3. ses' \in [Thread -> Returning]
  BY <1>2 DEF Shutdown
<1>4. StoreTypeOK' /\ SessionTypeOK'
  BY <1>1, <1>3 DEF Shutdown, SessionInv, StoreTypeOK, SessionTypeOK, Returning
<1>5. VersionsInOrder'
  BY <1>1, <1>2 DEF Shutdown, SessionInv, VersionsInOrder, At
<1>6. QueueTypeOK'
  BY <1>1 DEF Shutdown, QueueTypeOK
<1>. QED  BY <1>1, <1>3, <1>4, <1>5, <1>6 DEF FleetInv, CallInv, SessionInv

LEMMA FleetNext == FleetInv /\ [Next]_vars => FleetInv'
<1>. SUFFICES ASSUME FleetInv, [Next]_vars PROVE FleetInv'
  OBVIOUS
<1>1. SessionInv /\ CallInv /\ call \in [Caller -> SoundCall] /\ QueueTypeOK
  BY DEF FleetInv, CallInv
<1>2. ASSUME NEW t \in Thread, SessionMoves(t) PROVE FleetInv'
  <2>1. SessionInv'
    BY <1>1, <1>2, SessionStepKeepsInv DEF SessionMoves
  <2>2. call' \in [Caller -> SoundCall] /\ QueueTypeOK'
    BY <1>1, <1>2 DEF SessionMoves, queueVars, QueueTypeOK
  <2>. QED  BY <2>1, <2>2 DEF FleetInv, CallInv
<1>3. ASSUME NEW c \in Caller, CallMoves(c) PROVE FleetInv'
  <2>1. CallInv'
    BY <1>1, <1>3, CallStepKeepsInv DEF CallMoves
  <2>2. QueueTypeOK'
    BY <1>1, <1>3 DEF CallMoves, queueVars, QueueTypeOK
  <2>. QED  BY <2>1, <2>2 DEF FleetInv
<1>4. MayCrash \subseteq Process /\ MayStop \subseteq Worker
  BY FleetAssumption
<1>5. CASE UNCHANGED vars
  BY <1>1, <1>5 DEF vars, storeVars, sessionVars, queueVars, FleetInv, CallInv, SessionInv,
                    StoreTypeOK, SessionTypeOK, VersionsInOrder, At, QueueTypeOK
<1>. QED
  BY <1>2, <1>3, <1>4, <1>5, ItemKeeps, PollKeeps, EnqueueKeeps, CrashKeeps, ShutdownKeeps DEF Next

LEMMA FleetInductive == Spec => []FleetInv
BY FleetInit, FleetNext, PTL DEF Spec

\* Every variable of the fleet keeps its type: a claimed item is always one that
\* an executor can begin, and a row is always one that a worker can read.
THEOREM FleetTypesHold == Spec => []TypeOK
<1>1. FleetInv => TypeOK
  BY DEF FleetInv, CallInv, SoundCall, SessionInv, TypeOK, ControlTypeOK
<1>. QED  BY <1>1, FleetInductive, PTL

\* The stored agent state is never newer than the row it belongs to, whichever
\* worker writes either of them, whoever takes the claim in between, and wherever
\* a process dies.
THEOREM FleetSavedIsNeverAhead == Spec => []SavedNeverAhead
<1>1. FleetInv => SavedNeverAhead
  BY DEF FleetInv, CallInv, SessionInv, VersionsInOrder, SavedNeverAhead
<1>. QED  BY <1>1, FleetInductive, PTL

-----------------------------------------------------------------------------
(* How often a session that lost the run executes tools.                     *)

BoundInv == FleetInv /\ BlindInv

LEMMA BoundInit == Init => BoundInv
<1>1. ASSUME Init PROVE BlindInv
  <2>1. row.version \in Nat
    BY <1>1 DEF Init, StoreInit
  <2>2. \A t \in Thread : ses[t] = IdleSession /\ blind[t] = 0
    BY <1>1 DEF Init, SessionInit
  <2>. QED  BY <2>1, <2>2, IdleIsBounded DEF BlindInv
<1>. QED  BY <1>1, FleetInit DEF BoundInv

\* A step that leaves the sessions alone, but for their flags, and writes the row,
\* if it does, one version further.
LEMMA RowMovesOn ==
  ASSUME BoundInv, FleetInv', row.version <= row'.version, UNCHANGED <<ses, blind>>
  PROVE  BlindInv'
<1>1. row'.version \in Nat
  BY DEF FleetInv, CallInv, SessionInv, StoreTypeOK, Row
<1>. QED  BY <1>1, ElsewhereIsBounded DEF BoundInv, FleetInv, CallInv

\* A claim, a sweep, a release and an enqueueing write the row one version on.
LEMMA MarkerMovesOn ==
  ASSUME FleetInv, NEW copy \in Row, NEW claim \in Claim,
         WriteMarker(copy, claim) \/ UNCHANGED row
  PROVE  row.version <= row'.version
<1>1. row.version \in Nat /\ Marked(copy, claim).version = copy.version + 1
  BY MarkedIsRow DEF FleetInv, CallInv, SessionInv, StoreTypeOK, Row
<1>. QED  BY <1>1 DEF WriteMarker, Accepts, WriteRow

LEMMA PollMovesOn ==
  ASSUME BoundInv, FleetInv', NEW w \in Worker, PollMoves(w) PROVE BlindInv'
<1>1. FleetInv /\ tick[w] \in Tick /\ tick[w].copy \in Row /\ row.version \in Nat
  BY DEF BoundInv, FleetInv, CallInv, SessionInv, StoreTypeOK, QueueTypeOK, Tick, Row
<1>2. UNCHANGED <<ses, blind>>
  BY DEF PollMoves, PollStep, ClaimRead, ClaimWrite, SweepRead, SweepWrite, RunIsElsewhere
<1>3. CASE ClaimRead(w) \/ SweepRead(w)
  BY <1>1, <1>2, <1>3, RowMovesOn DEF ClaimRead, SweepRead, RunIsElsewhere
<1>4. CASE ClaimWrite(w)
  <2>. DEFINE copy == tick[w].copy
              claim == [holder |-> IdOf[w], live |-> TRUE, attempt |-> copy.claim.attempt + 1]
  <2>1. claim \in Claim
    BY <1>1, QueueAssumption DEF Row, Claim
  <2>2. WriteMarker(copy, claim) \/ UNCHANGED row
    BY <1>4 DEF ClaimWrite
  <2>. HIDE DEF claim
  <2>. QED  BY <1>1, <1>2, <2>1, <2>2, MarkerMovesOn, RowMovesOn
<1>5. CASE SweepWrite(w)
  <2>. DEFINE claim == FreeClaim(tick[w].copy.claim.attempt)
  <2>1. claim \in Claim
    BY <1>1, FreeClaimIsClaim DEF Row, Claim
  <2>2. WriteMarker(tick[w].copy, claim) \/ UNCHANGED row
    BY <1>5 DEF SweepWrite
  <2>. HIDE DEF claim
  <2>. QED  BY <1>1, <1>2, <2>1, <2>2, MarkerMovesOn, RowMovesOn
<1>. QED  BY <1>3, <1>4, <1>5 DEF PollMoves, PollStep

LEMMA ItemMovesOn ==
  ASSUME BoundInv, FleetInv', NEW t \in Thread, ItemMoves(t) PROVE BlindInv'
<1>1. /\ FleetInv /\ SessionInv /\ SessionInv' /\ BlindInv /\ row.version \in Nat
      /\ job \in [Thread -> Job] /\ job[t] \in Job
  BY DEF BoundInv, FleetInv, CallInv, SessionInv, StoreTypeOK, QueueTypeOK, Row
<1>2. CASE Refuse(t) \/ RecordFailure(t) \/ ReleaseRead(t)
  BY <1>1, <1>2, RowMovesOn DEF Refuse, RecordFailure, ReleaseRead, RunIsElsewhere
<1>3. CASE Execute(t)
  <2>1. FirstPhase(job[t].action) \in {"resume", "retry", "acquire"}
    BY <1>1 DEF Job, FirstPhase
  <2>. QED  BY <1>1, <1>3, <2>1, BeginIsBounded, SteppedKeeps DEF Execute
<1>4. CASE Return(t)
  <2>1. Bounded(IdleSession, blind[t], row.version)
    <3>1. blind[t] <= BlindLimit /\ blind[t] \in Nat
      BY <1>1, HeldBound
    <3>2. IdleSession.pc = "idle" /\ IdleSession.next = "idle"
      BY DEF IdleSession
    <3>. QED  BY <1>1, <3>1, <3>2, EndingIsBounded DEF Ending
  <2>2. Stepped(t)
    BY <1>1, <1>4, <2>1, BecomingSteps DEF Return, LocalStep
  <2>. QED  BY <1>1, <2>2, SteppedKeeps
<1>5. CASE ReleaseWrite(t)
  <2>1. job[t].copy \in Row /\ FreeClaim(job[t].attempt) \in Claim
    BY <1>1, FreeClaimIsClaim DEF Job
  <2>2. row.version <= row'.version
    BY <1>1, <1>5, <2>1, MarkerMovesOn DEF ReleaseWrite, PutBack
  <2>. QED  BY <1>5, <2>2, RowMovesOn DEF ReleaseWrite
<1>. QED  BY <1>2, <1>3, <1>4, <1>5 DEF ItemMoves, ItemStep

LEMMA EnqueueMovesOn ==
  ASSUME BoundInv, FleetInv', NEW c \in Caller, EnqueueMoves(c) PROVE BlindInv'
<1>1. FleetInv /\ call[c] \in Call /\ call[c].copy \in Row /\ row.version \in Nat
  BY DEF BoundInv, FleetInv, CallInv, SessionInv, StoreTypeOK, SoundCall, Call, Row
<1>2. CASE EnqueueRead(c)
  BY <1>1, <1>2, RowMovesOn DEF EnqueueRead, RunIsElsewhere
<1>3. CASE EnqueueWrite(c)
  <2>1. FreeClaim(0) \in Claim
    BY FreeClaimIsClaim
  <2>2. row.version <= row'.version
    BY <1>1, <1>3, <2>1, MarkerMovesOn DEF EnqueueWrite, PutBack
  <2>. QED  BY <1>3, <2>2, RowMovesOn DEF EnqueueWrite
<1>. QED  BY <1>2, <1>3 DEF EnqueueMoves, EnqueueStep

LEMMA CallMovesOn ==
  ASSUME BoundInv, FleetInv', NEW c \in Caller, CallMoves(c) PROVE BlindInv'
<1>1. /\ FleetInv /\ SessionInv /\ BlindInv /\ ses \in [Thread -> Session]
      /\ call[c] \in Call /\ call[c].copy \in Row /\ row.version \in Nat /\ row'.version \in Nat
      /\ control \in [Process -> Thread \cup {None}]
  BY DEF BoundInv, FleetInv, CallInv, SessionInv, StoreTypeOK, SessionTypeOK, SoundCall, Call, Row
<1>2. CASE \E kind \in CallKinds \cap {"pause", "cancel"} : Signal(c, kind)
  <2>1. row' = row /\ blind' = blind
    BY <1>2 DEF Signal
  <2>2. ASSUME NEW u \in Thread
        PROVE  /\ ses'[u].pc = ses[u].pc /\ ses'[u].next = ses[u].next
               /\ ses'[u].run = ses[u].run /\ ses'[u].tries = ses[u].tries
    <3>1. \/ ses'[u] = ses[u]
          \/ ses'[u] = [ses[u] EXCEPT !.paused = TRUE]
          \/ ses'[u] = [ses[u] EXCEPT !.cancelled = TRUE]
      BY <1>1, <1>2, ControlAssumption DEF Signal
    <3>2. ses[u] \in Session
      BY <1>1
    <3>. QED  BY <3>1, <3>2 DEF Session
  <2>. QED  BY <1>1, <2>1, <2>2, ElsewhereIsBounded
<1>3. CASE \/ \E kind \in CallKinds : MakeCall(c, kind)
           \/ ReadRow(c) \/ LoadVersion(c) \/ SaveCheckpoint(c)
  <2>1. UNCHANGED <<ses, blind>> /\ row' = row
    BY <1>3 DEF MakeCall, ReadRow, LoadVersion, SaveCheckpoint, RunIsElsewhere
  <2>. QED  BY <1>1, <2>1, RowMovesOn
<1>4. CASE WriteHop(c)
  <2>1. UNCHANGED <<ses, blind>>
    BY <1>4 DEF WriteHop
  <2>2. row.version <= row'.version
    <3>. DEFINE hopped == [call[c].copy EXCEPT !.status = Head(call[c].path), !.version = @ + 1]
    <3>1. hopped.version = call[c].copy.version + 1
      BY <1>1 DEF Row
    <3>2. row' = row \/ (row.version = call[c].copy.version /\ row' = hopped)
      BY <1>4 DEF WriteHop, WriteRow, Accepts
    <3>. HIDE DEF hopped
    <3>. QED  BY <1>1, <3>1, <3>2
  <2>. QED  BY <2>1, <2>2, RowMovesOn
<1>. QED  BY <1>2, <1>3, <1>4 DEF CallMoves, CallStep

LEMMA CrashIsBounded ==
  ASSUME BoundInv, FleetInv', NEW p \in Process, Crash(p) PROVE BlindInv'
<1>1. BlindInv /\ row.version \in Nat /\ row' = row
  BY DEF BoundInv, FleetInv, CallInv, SessionInv, StoreTypeOK, Row, Crash, ProcessLost
<1>2. ASSUME NEW t \in Thread PROVE Bounded(ses'[t], blind'[t], row.version)
  <2>1. CASE HostOf[t] = p
    BY <1>1, <2>1, IdleIsBounded DEF Crash, ProcessLost
  <2>2. CASE HostOf[t] # p
    BY <1>1, <2>2 DEF Crash, ProcessLost, BlindInv
  <2>. QED  BY <2>1, <2>2
<1>. QED  BY <1>1, <1>2 DEF BlindInv

LEMMA ShutdownIsBounded ==
  ASSUME BoundInv, FleetInv', NEW w \in Worker, Shutdown(w) PROVE BlindInv'
<1>1. /\ SessionInv /\ BlindInv /\ row.version \in Nat /\ row' = row /\ blind' = blind
      /\ ses \in [Thread -> Session]
  BY DEF BoundInv, FleetInv, CallInv, SessionInv, StoreTypeOK, SessionTypeOK, Row, Shutdown
<1>2. ASSUME NEW t \in Thread
      PROVE  /\ ses'[t].pc = ses[t].pc /\ ses'[t].next = ses[t].next
             /\ ses'[t].run = ses[t].run /\ ses'[t].tries = ses[t].tries
  <2>1. ses'[t] = ses[t] \/ ses'[t] = [ses[t] EXCEPT !.paused = TRUE]
    BY DEF Shutdown
  <2>2. ses[t] \in Session
    BY <1>1
  <2>. QED  BY <2>1, <2>2 DEF Session
<1>. QED  BY <1>1, <1>2, ElsewhereIsBounded

LEMMA BoundNext == BoundInv /\ [Next]_vars => BoundInv'
<1>. SUFFICES ASSUME BoundInv, [Next]_vars PROVE BoundInv'
  OBVIOUS
<1>1. FleetInv /\ FleetInv' /\ SessionInv /\ SessionInv' /\ BlindInv
  BY FleetNext DEF BoundInv, FleetInv, CallInv
<1>2. ASSUME NEW t \in Thread, SessionMoves(t) PROVE BlindInv'
  BY <1>1, <1>2, SessionStepIsBounded, SteppedKeeps DEF SessionMoves
<1>3. MayCrash \subseteq Process /\ MayStop \subseteq Worker
  BY FleetAssumption
<1>4. ASSUME UNCHANGED vars PROVE BlindInv'
  <2>1. row' = row /\ ses' = ses /\ blind' = blind
    BY <1>4 DEF vars, storeVars, sessionVars
  <2>. QED  BY <1>1, <2>1 DEF BlindInv
<1>5. ASSUME NEW t \in Thread, SessionMoves(t) \/ ItemMoves(t) PROVE BlindInv'
  BY <1>1, <1>2, <1>5, ItemMovesOn
<1>6. ASSUME NEW w \in Worker, PollMoves(w) PROVE BlindInv'
  BY <1>1, <1>6, PollMovesOn
<1>7. ASSUME NEW c \in Caller, CallMoves(c) \/ EnqueueMoves(c) PROVE BlindInv'
  BY <1>1, <1>7, CallMovesOn, EnqueueMovesOn
<1>8. ASSUME NEW p \in MayCrash, Crash(p) PROVE BlindInv'
  BY <1>1, <1>3, <1>8, CrashIsBounded
<1>9. ASSUME NEW w \in MayStop, Shutdown(w) PROVE BlindInv'
  BY <1>1, <1>3, <1>9, ShutdownIsBounded
<1>10. BlindInv'
  BY <1>4, <1>5, <1>6, <1>7, <1>8, <1>9 DEF Next
<1>. QED  BY <1>1, <1>10 DEF BoundInv

\* A session that lost the run executes tools once more, or as often as the one
\* recovery it is in retries: its next write of the row is refused, and from the
\* phases that may follow the refusal it reaches no phase that executes tools.
THEOREM LostSessionsStop == Spec => []BlindIsBounded
<1>1. BoundInv => BlindIsBounded
  <2>1. ASSUME BoundInv, NEW t \in Thread PROVE blind[t] <= BlindLimit
    BY <2>1, HeldBound DEF BoundInv, FleetInv, CallInv
  <2>. QED  BY <2>1 DEF BlindIsBounded, BlindLimit
<1>. QED  BY <1>1, BoundInit, BoundNext, PTL DEF Spec

-----------------------------------------------------------------------------
(* Two workers never execute the run at the same time, if no claim outlives  *)
(* its execution's allowance and no call puts the run into the queue again.  *)

\* A claim is swept or freed only when its execution is over.
Undisturbed ==
  RunsOutliveClaims = FALSE /\ CallKinds \cap {"start", "resume", "retry"} = {}

\* An execution of the run holds the claim in the row.
Mine(t) ==
  HostOf[t] \in Worker /\ row.claim.live /\ row.claim.holder = IdOf[HostOf[t]]

\* A copy of the row that could still be written has the row's claim.
InStep(copy) ==
  copy.version <= row.version /\ (copy.version = row.version => copy.claim = row.claim)

\* What a worker found when it read the row for a claim or for a sweep.
Found(w) ==
  /\ InStep(tick[w].copy)
  /\ tick[w].pc = "claim" => ~tick[w].copy.claim.live
  /\ tick[w].pc = "sweep" /\ tick[w].copy.version = row.version
       => Holding(tick[w].copy.claim.holder) = {}

Walking(c) == call[c].pc \in {"load", "save", "hop"}

ExecutorsOwn ==
  /\ \A t \in Thread : Executing(t) => Mine(t)
  /\ \A t, u \in Thread : Executing(t) /\ Executing(u) => t = u
  /\ \A t \in Thread : ses[t].pc # "idle" => job[t].pc = "run"

CopiesInStep ==
  /\ \A t \in Thread : Claimed(ses[t], row.claim)
  /\ \A w \in Worker : tick[w].pc # "poll" => Found(w)
  /\ \A c \in Caller : Walking(c) => InStep(call[c].copy)
  /\ \A c \in Caller : call[c].pc \notin {"dispatch", "enqueue"}

ClaimInv == BoundInv /\ Undisturbed /\ ExecutorsOwn /\ CopiesInStep

\* What the lemmas below read of the state.
LEMMA ClaimTypes ==
  ASSUME ClaimInv
  PROVE  /\ BoundInv /\ FleetInv /\ SessionInv /\ BlindInv /\ row \in Row /\ row.version \in Nat
         /\ ses \in [Thread -> Session] /\ job \in [Thread -> Job]
         /\ tick \in [Worker -> Tick] /\ call \in [Caller -> Call]
         /\ \A w \in Worker : tick[w].copy \in Row /\ tick[w].copy.version \in Nat
         /\ \A c \in Caller : call[c].copy \in Row /\ call[c].copy.version \in Nat
<1>1. /\ BoundInv /\ FleetInv /\ SessionInv /\ BlindInv /\ row \in Row /\ row.version \in Nat
      /\ ses \in [Thread -> Session] /\ job \in [Thread -> Job] /\ tick \in [Worker -> Tick]
  BY DEF ClaimInv, BoundInv, FleetInv, CallInv, SessionInv, StoreTypeOK, SessionTypeOK,
         QueueTypeOK, Row
<1>2. call \in [Caller -> Call]
  BY <1>1 DEF FleetInv, CallInv, SoundCall
<1>3. \A w \in Worker : tick[w].copy \in Row /\ tick[w].copy.version \in Nat
  BY <1>1 DEF Tick, Row
<1>4. \A c \in Caller : call[c].copy \in Row /\ call[c].copy.version \in Nat
  BY <1>2 DEF Call, Row
<1>. QED  BY <1>1, <1>2, <1>3, <1>4

LEMMA ClaimInit == Undisturbed /\ Init => ClaimInv
<1>. SUFFICES ASSUME Undisturbed, Init PROVE ClaimInv
  OBVIOUS
<1>1. BoundInv
  BY BoundInit
<1>2. \A t \in Thread : ses[t] = IdleSession /\ job[t] = NoJob
  BY DEF Init, SessionInit, QueueInit
<1>3. ExecutorsOwn
  BY <1>2 DEF ExecutorsOwn, Executing, NoJob, IdleSession
<1>4. \A w \in Worker : tick[w].pc = "poll"
  BY DEF Init, QueueInit, Polling
<1>5. \A c \in Caller : call[c].pc = "none"
  BY DEF Init, ControlInit, NoCall
<1>6. \A t \in Thread : Claimed(ses[t], row.claim)
  BY <1>2 DEF Claimed, Holds, IdleSession
<1>. QED  BY <1>1, <1>3, <1>4, <1>5, <1>6 DEF ClaimInv, CopiesInStep, Walking

\* A copy in step stays in step while the row moves on without its claim changing.
LEMMA InStepStays ==
  ASSUME NEW copy \in Row, row \in Row, row' \in Row, InStep(copy), row.version <= row'.version,
         row'.claim = row.claim
  PROVE  (copy.version <= row'.version) /\ (copy.version = row'.version => copy.claim = row'.claim)
BY DEF InStep, Row

\* Steps that leave the claim: nobody begins an execution, and what a worker or
\* a call knows of the row it knew before, or has read just now.
LEMMA ClaimStays ==
  ASSUME ClaimInv, BoundInv', row.version <= row'.version, row'.claim = row.claim,
         \A t \in Thread : /\ job'[t].pc # "none" => job[t].pc # "none"
                           /\ ses'[t].pc # "idle" => job'[t].pc = "run"
                           /\ Claimed(ses'[t], row.claim),
         \A w \in Worker : \/ tick'[w] = tick[w]
                           \/ tick'[w].pc = "poll"
                           \/ /\ tick'[w].copy = row /\ row' = row
                              /\ tick'[w].pc = "claim" => ~row.claim.live
                              /\ tick'[w].pc = "sweep" => Holding(row.claim.holder) = {},
         \A c \in Caller : \/ call'[c] = call[c]
                           \/ /\ call'[c].pc \in {"load", "save", "hop"}
                              /\ \/ call'[c].copy = row'
                                 \/ Walking(c) /\ call'[c].copy = call[c].copy
                           \/ call'[c].pc \in {"none", "read", "over"}
  PROVE  ClaimInv'
<1>1. /\ row \in Row /\ row' \in Row /\ row.version \in Nat /\ row'.version \in Nat
      /\ \A w \in Worker : tick[w].copy \in Row
      /\ \A c \in Caller : call[c].copy \in Row
  BY ClaimTypes DEF BoundInv, FleetInv, CallInv, SessionInv, StoreTypeOK, Row
<1>2. ExecutorsOwn'
  BY DEF ClaimInv, ExecutorsOwn, Executing, Mine
<1>3. ASSUME NEW id PROVE (Holding(id) = {}) => Holding(id)' = {}
  BY DEF Holding, Executing
<1>4. ASSUME NEW w \in Worker, tick'[w].pc # "poll" PROVE Found(w)'
  <2>1. CASE tick'[w] = tick[w]
    <3>1. Found(w) /\ tick[w].copy \in Row
      BY <1>1, <1>4, <2>1 DEF ClaimInv, CopiesInStep
    <3>2. InStep(tick[w].copy)
      BY <3>1 DEF Found
    <3>3. InStep(tick[w].copy)'
      BY <1>1, <2>1, <3>1, <3>2, InStepStays DEF InStep
    <3>4. ASSUME tick[w].pc = "sweep", tick[w].copy.version = row'.version
          PROVE  Holding(tick[w].copy.claim.holder) = {}
      BY <1>1, <3>1, <3>2, <3>4 DEF Found, InStep, Row
    <3>5. PICK id : id = tick[w].copy.claim.holder
      OBVIOUS
    <3>6. (Holding(id) = {}) => Holding(id)' = {}
      BY <1>3
    <3>7. tick'[w].copy.claim.holder = id
      BY <2>1, <3>5
    <3>8. tick'[w].pc = "sweep" /\ tick'[w].copy.version = row'.version => Holding(id)' = {}
      BY <2>1, <3>4, <3>5, <3>6
    <3>9. Holding(id)' = Holding(tick[w].copy.claim.holder)'
      BY <3>7 DEF Holding
    <3>. QED  BY <2>1, <3>1, <3>3, <3>8, <3>9 DEF Found
  <2>2. CASE tick'[w] # tick[w]
    <3>1. /\ tick'[w].copy = row /\ row' = row
          /\ tick'[w].pc = "claim" => ~row.claim.live
          /\ tick'[w].pc = "sweep" => Holding(row.claim.holder) = {}
      BY <1>4, <2>2
    <3>2. InStep(tick[w].copy)'
      BY <1>1, <3>1 DEF InStep
    <3>3. PICK id : id = row.claim.holder
      OBVIOUS
    <3>4. tick'[w].pc = "sweep" => Holding(id)' = {}
      BY <1>3, <3>1, <3>3
    <3>5. Holding(id)' = Holding(tick[w].copy.claim.holder)'
      BY <3>1, <3>3 DEF Holding
    <3>. QED  BY <3>1, <3>2, <3>4, <3>5 DEF Found
  <2>. QED  BY <2>1, <2>2
<1>5. ASSUME NEW c \in Caller, Walking(c)' PROVE InStep(call[c].copy)'
  <2>1. CASE call'[c].copy = row'
    BY <1>1, <2>1 DEF InStep
  <2>2. CASE Walking(c) /\ call'[c].copy = call[c].copy
    BY <1>1, <2>2, InStepStays DEF ClaimInv, CopiesInStep, InStep
  <2>. QED  BY <1>5, <2>1, <2>2 DEF Walking
<1>6. ASSUME NEW c \in Caller PROVE call'[c].pc \notin {"dispatch", "enqueue"}
  BY DEF ClaimInv, CopiesInStep
<1>7. CopiesInStep'
  BY <1>4, <1>5, <1>6 DEF CopiesInStep
<1>8. Undisturbed'
  BY DEF ClaimInv, Undisturbed
<1>. QED  BY <1>2, <1>7, <1>8 DEF ClaimInv

\* Steps that change the claim: every copy of the row is out of date.
LEMMA ClaimPasses ==
  ASSUME ClaimInv, BoundInv', row.version < row'.version, UNCHANGED <<ses, call>>,
         \A t \in Thread : ~Holds(ses[t]),
         ExecutorsOwn',
         \A w \in Worker : tick'[w] = tick[w] \/ tick'[w].pc = "poll"
  PROVE  ClaimInv'
<1>1. /\ row \in Row /\ row' \in Row /\ row.version \in Nat /\ row'.version \in Nat
      /\ \A w \in Worker : tick[w].copy \in Row
      /\ \A c \in Caller : call[c].copy \in Row
  BY ClaimTypes DEF BoundInv, FleetInv, CallInv, SessionInv, StoreTypeOK, Row
<1>2. ASSUME NEW copy \in Row, InStep(copy) PROVE copy.version < row'.version
  BY <1>1, <1>2 DEF InStep, Row
<1>3. ASSUME NEW w \in Worker, tick'[w].pc # "poll" PROVE Found(w)'
  <2>1. tick'[w] = tick[w] /\ Found(w)
    BY <1>3 DEF ClaimInv, CopiesInStep
  <2>2. tick[w].copy.version < row'.version /\ tick[w].copy.version \in Nat
    BY <1>1, <1>2, <2>1 DEF Found, Row
  <2>3. tick'[w].copy.version # row'.version /\ tick'[w].copy.version <= row'.version
    BY <1>1, <2>1, <2>2
  <2>. QED  BY <2>1, <2>3 DEF Found, InStep
<1>4. ASSUME NEW c \in Caller, Walking(c)' PROVE InStep(call[c].copy)'
  <2>1. call[c].copy.version < row'.version /\ call[c].copy.version \in Nat
    BY <1>1, <1>2, <1>4 DEF Walking, ClaimInv, CopiesInStep, Row
  <2>. QED  BY <1>1, <2>1 DEF InStep
<1>5. CopiesInStep'
  BY <1>3, <1>4 DEF ClaimInv, CopiesInStep, Claimed
<1>6. Undisturbed'
  BY DEF ClaimInv, Undisturbed
<1>. QED  BY <1>5, <1>6 DEF ClaimInv

LEMMA SessionsKeepClaim ==
  ASSUME ClaimInv, BoundInv', NEW t \in Thread, SessionMoves(t) PROVE ClaimInv'
<1>1. SessionInv /\ BlindInv /\ Claimed(ses[t], row.claim) /\ SessionStep(t)
  BY ClaimTypes DEF ClaimInv, CopiesInStep, SessionMoves
<1>2. Stepped(t) /\ Carried(t)
  BY <1>1, SessionStepIsBounded, SessionStepCarries
<1>3. ASSUME NEW u \in Thread
      PROVE  /\ job'[u] = job[u]
             /\ ses'[u].pc # "idle" => job'[u].pc = "run"
             /\ Claimed(ses'[u], row.claim)
  BY <1>2 DEF Stepped, Carried, SessionMoves, queueVars, ClaimInv, ExecutorsOwn, CopiesInStep
<1>4. tick' = tick /\ call' = call /\ row.version <= row'.version /\ row'.claim = row.claim
  BY <1>2 DEF SessionMoves, queueVars, Stepped, Carried
<1>. QED  BY <1>3, <1>4, ClaimStays

\* While the executor of thread t is not in the runtime, nobody holds the row.
LEMMA NobodyHolds ==
  ASSUME ClaimInv, NEW t \in Thread, job[t].pc \notin {"none", "run"}
  PROVE  \A u \in Thread : ~Holds(ses[u]) /\ (Executing(u) => u = t)
BY DEF ClaimInv, ExecutorsOwn, Holds, Executing

\* A marker that is written carries its claim, one version on.
LEMMA MarkedHasClaim ==
  ASSUME NEW copy \in Row, NEW claim
  PROVE  Marked(copy, claim).claim = claim /\ Marked(copy, claim).version = copy.version + 1
BY DEF Marked, Row

LEMMA ItemsKeepClaim ==
  ASSUME ClaimInv, BoundInv', NEW t \in Thread, ItemMoves(t) PROVE ClaimInv'
<1>1. /\ row.version \in Nat /\ ses \in [Thread -> Session] /\ job \in [Thread -> Job]
      /\ job[t] \in Job
  BY ClaimTypes
<1>2. /\ \A u \in Thread : ses[u].pc # "idle" => job[u].pc = "run"
      /\ \A u \in Thread : Claimed(ses[u], row.claim)
  BY DEF ClaimInv, ExecutorsOwn, CopiesInStep
<1>3. call' = call /\ tick' = tick
  BY DEF ItemMoves, ItemStep, Refuse, Execute, Return, RecordFailure, ReleaseRead, ReleaseWrite
<1>4. ASSUME NEW item \in {job'[t]}, Work(t, item), row' = row, job[t].pc # "none",
             \A u \in Thread \ {t} : ses'[u] = ses[u],
             Claimed(ses'[t], row.claim), ses'[t].pc # "idle" => item.pc = "run"
      PROVE  ClaimInv'
  <2>1. job'[t] = item /\ \A u \in Thread \ {t} : job'[u] = job[u]
    BY <1>1, <1>4 DEF Work
  <2>2. ASSUME NEW u \in Thread
        PROVE  /\ job'[u].pc # "none" => job[u].pc # "none"
               /\ ses'[u].pc # "idle" => job'[u].pc = "run"
               /\ Claimed(ses'[u], row.claim)
    BY <1>2, <1>4, <2>1
  <2>. QED  BY <1>1, <1>3, <1>4, <2>2, ClaimStays
<1>5. CASE Refuse(t) \/ RecordFailure(t) \/ ReleaseRead(t)
  <2>1. /\ row' = row /\ ses' = ses /\ job[t].pc \in {"check", "failed", "release"}
        /\ \E item : Work(t, item)
    BY <1>5 DEF Refuse, RecordFailure, ReleaseRead, RunIsElsewhere
  <2>2. Work(t, job'[t])
    BY <1>1, <2>1 DEF Work
  <2>3. ses[t].pc = "idle" /\ Claimed(ses[t], row.claim)
    BY <1>2, <2>1
  <2>. QED  BY <1>4, <2>1, <2>2, <2>3
<1>6. CASE Execute(t)
  <2>. DEFINE s == Goto(IdleSession, FirstPhase(job[t].action))
              item == [job[t] EXCEPT !.pc = "run"]
  <2>1. s.pc \in {"acquire", "resume"}
    BY <1>1 DEF Goto, IdleSession, FirstPhase, Job
  <2>2. item.pc = "run"
    BY <1>1 DEF Job
  <2>. HIDE DEF s, item
  <2>3. Become(t, s) /\ Work(t, item) /\ row' = row /\ job[t].pc = "check"
    BY <1>6 DEF Execute, Begin, s, item
  <2>4. ses'[t] = s /\ job'[t] = item /\ \A u \in Thread \ {t} : ses'[u] = ses[u]
    BY <1>1, <2>3 DEF Become, Work
  <2>5. Claimed(s, row.claim)
    BY <2>1 DEF Claimed, Holds
  <2>. QED  BY <1>4, <2>2, <2>3, <2>4, <2>5
<1>7. CASE Return(t)
  <2>1. Become(t, IdleSession) /\ row' = row /\ job[t].pc = "run" /\ \E item : Work(t, item)
    BY <1>7 DEF Return, LocalStep
  <2>2. ses'[t] = IdleSession /\ \A u \in Thread \ {t} : ses'[u] = ses[u]
    BY <1>1, <2>1 DEF Become
  <2>3. Work(t, job'[t])
    BY <1>1, <2>1 DEF Work
  <2>4. IdleSession.pc = "idle" /\ Claimed(IdleSession, row.claim)
    BY DEF IdleSession, Claimed, Holds
  <2>. QED  BY <1>4, <2>1, <2>2, <2>3, <2>4
<1>8. CASE ReleaseWrite(t)
  <2>. DEFINE copy == job[t].copy
              claim == FreeClaim(job[t].attempt)
  <2>1. copy \in Row /\ job[t].pc = "put" /\ ses' = ses /\ Work(t, NoJob)
    BY <1>1, <1>8 DEF ReleaseWrite, Job
  <2>2. job'[t] = NoJob /\ \A u \in Thread \ {t} : job'[u] = job[u]
    BY <1>1, <2>1 DEF Work
  <2>3. \A u \in Thread : ~Holds(ses[u]) /\ (Executing(u) => u = t)
    BY <2>1, NobodyHolds
  <2>4. CASE row' = row
    <3>1. ses[t].pc = "idle"
      BY <1>2, <2>1
    <3>2. Work(t, job'[t])
      BY <2>1, <2>2
    <3>. QED  BY <1>2, <1>4, <2>1, <2>4, <3>1, <3>2
  <2>5. CASE WriteMarker(copy, claim)
    <3>1. row.version < row'.version
      BY <1>1, <2>1, <2>5, MarkedHasClaim DEF WriteMarker, Accepts, WriteRow
    <3>2. \A u \in Thread : ~Executing(u)'
      BY <2>2, <2>3 DEF Executing, NoJob
    <3>3. \A u \in Thread : ses'[u].pc = "idle"
      BY <1>2, <2>1, <2>3 DEF Executing
    <3>4. ExecutorsOwn'
      BY <3>2, <3>3 DEF ExecutorsOwn
    <3>. QED  BY <1>3, <2>1, <2>3, <3>1, <3>4, ClaimPasses
  <2>. QED  BY <1>8, <2>4, <2>5 DEF ReleaseWrite, PutBack
<1>. QED  BY <1>5, <1>6, <1>7, <1>8 DEF ItemMoves, ItemStep

LEMMA PollsKeepClaim ==
  ASSUME ClaimInv, BoundInv', NEW w \in Worker, PollMoves(w) PROVE ClaimInv'
<1>1. /\ row.version \in Nat /\ row \in Row /\ job \in [Thread -> Job] /\ tick \in [Worker -> Tick]
      /\ tick[w].copy \in Row
  BY ClaimTypes
<1>2. /\ \A t \in Thread : ses[t].pc # "idle" => job[t].pc = "run"
      /\ \A t \in Thread : Claimed(ses[t], row.claim)
      /\ \A t \in Thread : Executing(t) => Mine(t)
  BY DEF ClaimInv, ExecutorsOwn, CopiesInStep
<1>3. ses' = ses /\ call' = call
  BY DEF PollMoves, PollStep, ClaimRead, ClaimWrite, SweepRead, SweepWrite, RunIsElsewhere
<1>4. ASSUME row' = row, job' = job, NEW next, Poll(w, next),
             \/ next.pc = "poll"
             \/ /\ next.copy = row
                /\ next.pc = "claim" => ~row.claim.live
                /\ next.pc = "sweep" => Holding(row.claim.holder) = {}
      PROVE  ClaimInv'
  <2>1. tick'[w] = next /\ \A v \in Worker \ {w} : tick'[v] = tick[v]
    BY <1>1, <1>4 DEF Poll
  <2>. QED  BY <1>1, <1>2, <1>3, <1>4, <2>1, ClaimStays
<1>5. ASSUME \A t \in Thread : ~Executing(t) PROVE \A t \in Thread : ses[t].pc = "idle"
  BY <1>2, <1>5 DEF Executing
<1>7. ASSUME Poll(w, Polling)
      PROVE  \A v \in Worker : tick'[v] = tick[v] \/ tick'[v].pc = "poll"
  BY <1>1, <1>7 DEF Poll, Polling
<1>8. CASE ClaimRead(w)
  BY <1>4, <1>8 DEF ClaimRead, RunIsElsewhere
<1>9. CASE SweepRead(w)
  <2>1. Holding(row.claim.holder) = {}
    BY <1>9 DEF SweepRead, Stale, ClaimInv, Undisturbed
  <2>. QED  BY <1>4, <1>9, <2>1 DEF SweepRead, RunIsElsewhere
<1>10. CASE ClaimWrite(w)
  <2>. DEFINE copy == tick[w].copy
              claim == [holder |-> IdOf[w], live |-> TRUE, attempt |-> copy.claim.attempt + 1]
              item == [NoJob EXCEPT !.pc = "check", !.action = ActionFor(copy.status),
                                    !.attempt = claim.attempt]
  <2>1. Found(w) /\ tick[w].pc = "claim" /\ Poll(w, Polling)
    BY <1>10 DEF ClaimWrite, ClaimInv, CopiesInStep
  <2>2. CASE row' = row /\ job' = job
    BY <1>4, <2>1, <2>2 DEF Polling
  <2>3. CASE /\ WriteMarker(copy, claim)
             /\ \E t \in ThreadsOf(w) : Idle(t) /\ Work(t, item)
    <3>1. claim.live = TRUE /\ claim.holder = IdOf[w]
      OBVIOUS
    <3>. HIDE DEF claim, item
    <3>2. copy.version = row.version /\ row' = Marked(copy, claim)
      BY <2>3 DEF WriteMarker, Accepts, WriteRow
    <3>3. row.version < row'.version /\ row'.claim = claim
      BY <1>1, <3>2, MarkedHasClaim
    <3>4. ~row.claim.live
      BY <2>1, <3>2 DEF Found, InStep
    <3>5. \A t \in Thread : ~Executing(t)
      BY <1>2, <3>4 DEF Mine
    <3>6. PICK t \in ThreadsOf(w) : Work(t, item)
      BY <2>3
    <3>7. t \in Thread /\ HostOf[t] = w
      BY <3>6 DEF ThreadsOf
    <3>8. \A u \in Thread : Executing(u)' => u = t
      BY <1>1, <3>5, <3>6, <3>7 DEF Executing, Work
    <3>9. \A u \in Thread : ses[u].pc = "idle"
      BY <1>5, <3>5
    <3>10. ExecutorsOwn'
      <4>1. \A u \in Thread : Executing(u)' => Mine(u)'
        BY <3>1, <3>3, <3>7, <3>8 DEF Mine
      <4>2. \A u \in Thread : ses'[u].pc = "idle"
        BY <1>3, <3>9
      <4>. QED  BY <3>8, <4>1, <4>2 DEF ExecutorsOwn
    <3>11. \A u \in Thread : ~Holds(ses[u])
      BY <3>9 DEF Holds
    <3>12. \A v \in Worker : tick'[v] = tick[v] \/ tick'[v].pc = "poll"
      BY <1>7, <2>1
    <3>. QED  BY <1>3, <3>3, <3>10, <3>11, <3>12, ClaimPasses
  <2>. QED  BY <1>10, <2>2, <2>3 DEF ClaimWrite
<1>11. CASE SweepWrite(w)
  <2>. DEFINE copy == tick[w].copy
              claim == FreeClaim(copy.claim.attempt)
  <2>1. Found(w) /\ tick[w].pc = "sweep" /\ Poll(w, Polling) /\ job' = job
    BY <1>11 DEF SweepWrite, ClaimInv, CopiesInStep
  <2>2. CASE row' = row
    BY <1>4, <2>1, <2>2 DEF Polling
  <2>3. CASE WriteMarker(copy, claim)
    <3>. HIDE DEF claim
    <3>1. copy.version = row.version /\ row' = Marked(copy, claim)
      BY <2>3 DEF WriteMarker, Accepts, WriteRow
    <3>2. row.version < row'.version
      BY <1>1, <3>1, MarkedHasClaim
    <3>3. Holding(row.claim.holder) = {}
      BY <2>1, <3>1 DEF Found, InStep
    <3>4. \A t \in Thread : ~Executing(t)
      BY <1>2, <3>3 DEF Mine, Holding
    <3>5. \A t \in Thread : ses[t].pc = "idle"
      BY <1>5, <3>4
    <3>6. \A t \in Thread : ~Executing(t)' /\ ses'[t].pc = "idle"
      BY <1>3, <2>1, <3>4, <3>5 DEF Executing
    <3>7. ExecutorsOwn'
      BY <3>6 DEF ExecutorsOwn
    <3>8. \A t \in Thread : ~Holds(ses[t])
      BY <3>5 DEF Holds
    <3>9. \A v \in Worker : tick'[v] = tick[v] \/ tick'[v].pc = "poll"
      BY <1>7, <2>1
    <3>. QED  BY <1>3, <3>2, <3>7, <3>8, <3>9, ClaimPasses
  <2>. QED  BY <1>11, <2>2, <2>3 DEF SweepWrite
<1>. QED  BY <1>8, <1>9, <1>10, <1>11 DEF PollMoves, PollStep

\* pause, cancel and restore end their call, or go on from the row as it is.
LEMMA ReadsAnswerWithTheRow ==
  ASSUME NEW c \in Caller, NEW read \in Call, read.kind \notin {"start", "resume", "retry"},
         Read(c, read)
  PROVE  \E k : Answer(c, k) /\ (k.pc = "over" \/ (k.pc \in {"load", "hop"} /\ k.copy = row))
<1>. DEFINE moved(path) == [read EXCEPT !.copy = row, !.path = path]
<1>1. ASSUME NEW path
      PROVE  /\ Over(moved(path)).pc = "over" /\ Refused(moved(path)).pc = "over"
             /\ \A pc : [moved(path) EXCEPT !.pc = pc].pc = pc
             /\ \A pc : [moved(path) EXCEPT !.pc = pc].copy = row
  BY DEF Call, Over, Refused
<1>2. ASSUME NEW target \in {"PAUSED", "CANCELLED"}, ReadToMove(c, read, target)
      PROVE  \E k : Answer(c, k) /\ (k.pc = "over" \/ (k.pc = "hop" /\ k.copy = row))
  <2>. DEFINE m == moved(Path[row.status][target])
  <2>. DEFINE hop == [m EXCEPT !.pc = "hop"]
  <2>1. \/ Answer(c, Over(m)) \/ Answer(c, Refused(m)) \/ Answer(c, hop)
    BY <1>2 DEF ReadToMove
  <2>2. /\ Over(m).pc = "over" /\ Refused(m).pc = "over"
        /\ hop.pc = "hop" /\ hop.copy = row
    BY <1>1
  <2>. HIDE DEF m, hop
  <2>. QED  BY <2>1, <2>2
<1>3. ASSUME ReadToRestore(c, read)
      PROVE  \E k : Answer(c, k) /\ (k.pc = "over" \/ (k.pc = "load" /\ k.copy = row))
  <2>. DEFINE m == moved(Path[row.status]["QUEUED"])
  <2>. DEFINE load == [m EXCEPT !.pc = "load"]
  <2>1. \/ Answer(c, Refused(m)) \/ Answer(c, load)
    BY <1>3 DEF ReadToRestore
  <2>2. Refused(m).pc = "over" /\ load.pc = "load" /\ load.copy = row
    BY <1>1
  <2>. HIDE DEF m, load
  <2>. QED  BY <2>1, <2>2
<1>. QED  BY <1>2, <1>3 DEF Read

\* Without calls to start, resume or retry, no call enqueues the run, and one that
\* walks the row writes the claim it read.
LEMMA CallsKeepClaim ==
  ASSUME ClaimInv, BoundInv', NEW c \in Caller, CallMoves(c) PROVE ClaimInv'
<1>1. /\ row.version \in Nat /\ row \in Row /\ ses \in [Thread -> Session]
      /\ call \in [Caller -> Call] /\ call[c] \in Call /\ call[c].copy \in Row
      /\ control \in [Process -> Thread \cup {None}]
  BY ClaimTypes DEF SessionInv, SessionTypeOK
<1>2. /\ \A t \in Thread : ses[t].pc # "idle" => job[t].pc = "run"
      /\ \A t \in Thread : Claimed(ses[t], row.claim)
      /\ \A d \in Caller : Walking(d) => InStep(call[d].copy)
  BY DEF ClaimInv, ExecutorsOwn, CopiesInStep
<1>3. job' = job /\ tick' = tick
  BY DEF CallMoves, queueVars
<1>4. ASSUME NEW k, Answer(c, k), row.version <= row'.version, row'.claim = row.claim,
             \A t \in Thread : ses'[t].pc = ses[t].pc /\ ses'[t].run = ses[t].run,
             \/ k.pc \in {"load", "save", "hop"}
                /\ (k.copy = row' \/ (Walking(c) /\ k.copy = call[c].copy))
             \/ k.pc \in {"none", "read", "over"}
      PROVE  ClaimInv'
  <2>1. call'[c] = k /\ \A d \in Caller \ {c} : call'[d] = call[d]
    BY <1>1, <1>4 DEF Answer
  <2>2. \A t \in Thread : Claimed(ses'[t], row.claim) /\ (ses'[t].pc # "idle" => job'[t].pc = "run")
    BY <1>2, <1>3, <1>4 DEF Claimed, Holds
  <2>. QED  BY <1>3, <1>4, <2>1, <2>2, ClaimStays
<1>5. ASSUME NEW k, Answer(c, k), RunIsElsewhere,
             \/ k.pc \in {"load", "save", "hop"}
                /\ (k.copy = row \/ (Walking(c) /\ k.copy = call[c].copy))
             \/ k.pc \in {"none", "read", "over"}
      PROVE  ClaimInv'
  BY <1>1, <1>4, <1>5 DEF RunIsElsewhere
<1>6. ASSUME NEW read \in Call, read.kind \in CallKinds \cup {"none"}, Read(c, read), RunIsElsewhere
      PROVE  ClaimInv'
  <2>1. read.kind \notin {"start", "resume", "retry"}
    BY <1>6 DEF ClaimInv, Undisturbed
  <2>2. \E k : Answer(c, k) /\ (k.pc = "over" \/ (k.pc \in {"load", "hop"} /\ k.copy = row))
    BY <1>6, <2>1, ReadsAnswerWithTheRow
  <2>. QED  BY <1>5, <1>6, <2>2
<1>7. CASE \E kind \in CallKinds \cap {"pause", "cancel"} : Signal(c, kind)
  <2>1. PICK kind \in CallKinds : Signal(c, kind)
    BY <1>7
  <2>. DEFINE k == [NoCall EXCEPT !.pc = "over", !.kind = kind, !.flagged = TRUE]
  <2>2. k.pc = "over"
    BY DEF NoCall
  <2>. HIDE DEF k
  <2>3. Answer(c, k) /\ row' = row
    BY <2>1 DEF Signal, k
  <2>4. ASSUME NEW u \in Thread PROVE ses'[u].pc = ses[u].pc /\ ses'[u].run = ses[u].run
    <3>1. \/ ses'[u] = ses[u]
          \/ ses'[u] = [ses[u] EXCEPT !.paused = TRUE]
          \/ ses'[u] = [ses[u] EXCEPT !.cancelled = TRUE]
      BY <1>1, <2>1, ControlAssumption DEF Signal
    <3>2. ses[u] \in Session
      BY <1>1
    <3>. QED  BY <3>1, <3>2 DEF Session
  <2>. QED  BY <1>1, <1>4, <2>2, <2>3, <2>4
<1>8. CASE \E kind \in CallKinds : MakeCall(c, kind)
  <2>1. PICK kind \in CallKinds : MakeCall(c, kind)
    BY <1>8
  <2>. DEFINE k == [NoCall EXCEPT !.pc = "read", !.kind = kind]
  <2>2. k \in Call /\ k.pc = "read" /\ k.kind = kind
    BY NoCallIsSound DEF NoCall, SoundCall, Call, CallPhase
  <2>. HIDE DEF k
  <2>3. RunIsElsewhere /\ (Read(c, k) \/ Answer(c, k))
    BY <2>1 DEF MakeCall, k
  <2>. QED  BY <1>5, <1>6, <2>2, <2>3
<1>9. CASE ReadRow(c)
  <2>1. call[c].kind \in CallKinds \cup {"none"}
    BY <1>1 DEF Call
  <2>. QED  BY <1>1, <1>6, <1>9, <2>1 DEF ReadRow
<1>10. CASE WriteHop(c)
  <2>. DEFINE k == call[c]
              hopped == [k.copy EXCEPT !.status = Head(k.path), !.version = @ + 1]
              hops == [k EXCEPT !.copy = hopped, !.path = Tail(k.path)]
  <2>1. ses' = ses /\ Walking(c) /\ k.pc = "hop"
    BY <1>10 DEF WriteHop, CallAt, Walking
  <2>2. Over(k).pc = "over" /\ Refused(k).pc = "over"
    BY <1>1 DEF Over, Refused, Call
  <2>3. hopped.claim = k.copy.claim /\ hopped.version = k.copy.version + 1
    BY <1>1 DEF Row
  <2>4. hops.pc = "hop" /\ hops.copy = hopped
    BY <1>1, <2>1 DEF Call
  <2>5. \/ row' = row /\ (Answer(c, Over(k)) \/ Answer(c, Refused(k)))
        \/ k.copy.version = row.version /\ row' = hopped /\ Answer(c, hops)
    BY <1>10 DEF WriteHop, Accepts, WriteRow
  <2>. HIDE DEF hopped, hops
  <2>6. CASE row' = row /\ (Answer(c, Over(k)) \/ Answer(c, Refused(k)))
    BY <1>1, <1>4, <2>1, <2>2, <2>6
  <2>7. CASE k.copy.version = row.version /\ row' = hopped /\ Answer(c, hops)
    <3>1. k.copy.claim = row.claim
      BY <1>2, <2>1, <2>7 DEF InStep
    <3>. QED  BY <1>1, <1>4, <2>1, <2>3, <2>4, <2>7, <3>1
  <2>. QED  BY <2>5, <2>6, <2>7
<1>11. CASE LoadVersion(c)
  <2>. DEFINE k == [call[c] EXCEPT !.pc = "save", !.expected = saved]
  <2>1. k.pc = "save" /\ k.copy = call[c].copy
    BY <1>1 DEF Call
  <2>. HIDE DEF k
  <2>2. Answer(c, k) /\ RunIsElsewhere /\ Walking(c)
    BY <1>11 DEF LoadVersion, CallAt, Walking, k
  <2>. QED  BY <1>5, <2>1, <2>2
<1>12. CASE SaveCheckpoint(c)
  <2>. DEFINE k == [call[c] EXCEPT !.pc = "hop"]
  <2>1. k.pc = "hop" /\ k.copy = call[c].copy /\ Refused(call[c]).pc = "over"
    BY <1>1 DEF Call, Refused
  <2>. HIDE DEF k
  <2>2. (Answer(c, k) \/ Answer(c, Refused(call[c]))) /\ Walking(c) /\ row' = row /\ ses' = ses
    BY <1>12 DEF SaveCheckpoint, CallAt, Walking, k
  <2>. QED  BY <1>1, <1>4, <2>1, <2>2
<1>. QED  BY <1>7, <1>8, <1>9, <1>10, <1>11, <1>12 DEF CallMoves, CallStep

LEMMA CrashKeepsClaim ==
  ASSUME ClaimInv, BoundInv', NEW p \in Process, Crash(p) PROVE ClaimInv'
<1>1. row.version \in Nat /\ row' = row /\ call \in [Caller -> Call]
  BY ClaimTypes DEF Crash, ProcessLost
<1>2. ASSUME NEW t \in Thread
      PROVE  /\ job'[t].pc # "none" => job[t].pc # "none"
             /\ ses'[t].pc # "idle" => job'[t].pc = "run"
             /\ Claimed(ses'[t], row.claim)
  <2>1. CASE HostOf[t] = p
    <3>1. ses'[t] = IdleSession /\ job'[t] = NoJob
      BY <2>1 DEF Crash, ProcessLost
    <3>. QED  BY <3>1 DEF IdleSession, NoJob, Claimed, Holds
  <2>2. CASE HostOf[t] # p
    <3>1. ses'[t] = ses[t] /\ job'[t] = job[t]
      BY <2>2 DEF Crash, ProcessLost
    <3>. QED  BY <3>1 DEF ClaimInv, ExecutorsOwn, CopiesInStep
  <2>. QED  BY <2>1, <2>2
<1>3. \A w \in Worker : tick'[w] = tick[w] \/ tick'[w].pc = "poll"
  BY DEF Crash, Polling
<1>4. ASSUME NEW c \in Caller PROVE call'[c] = call[c] \/ call'[c].pc = "over"
  <2>1. Refused(call[c]).pc = "over"
    BY <1>1 DEF Refused, Call
  <2>. QED  BY <2>1 DEF Crash
<1>. QED  BY <1>1, <1>2, <1>3, <1>4, ClaimStays

LEMMA ShutdownKeepsClaim ==
  ASSUME ClaimInv, BoundInv', NEW w \in Worker, Shutdown(w), UNCHANGED call PROVE ClaimInv'
<1>1. row.version \in Nat /\ row' = row /\ job' = job /\ tick' = tick /\ call' = call
  BY ClaimTypes DEF Shutdown
<1>2. ASSUME NEW t \in Thread
      PROVE  Claimed(ses'[t], row.claim) /\ (ses'[t].pc # "idle" => job'[t].pc = "run")
  <2>1. ses'[t] = ses[t] \/ ses'[t] = [ses[t] EXCEPT !.paused = TRUE]
    BY DEF Shutdown
  <2>2. ses[t] \in Session
    BY ClaimTypes
  <2>3. ses'[t].pc = ses[t].pc /\ ses'[t].run = ses[t].run
    BY <2>1, <2>2 DEF Session
  <2>. QED  BY <1>1, <2>3 DEF ClaimInv, ExecutorsOwn, CopiesInStep, Claimed, Holds
<1>. QED  BY <1>1, <1>2, ClaimStays

LEMMA ClaimNext == ClaimInv /\ [Next]_vars => ClaimInv'
<1>. SUFFICES ASSUME ClaimInv, [Next]_vars PROVE ClaimInv'
  OBVIOUS
<1>1. BoundInv'
  BY BoundNext DEF ClaimInv
<1>2. ASSUME NEW t \in Thread, SessionMoves(t) \/ ItemMoves(t) PROVE ClaimInv'
  BY <1>1, <1>2, SessionsKeepClaim, ItemsKeepClaim
<1>3. ASSUME NEW w \in Worker, PollMoves(w) PROVE ClaimInv'
  BY <1>1, <1>3, PollsKeepClaim
<1>4. ASSUME NEW c \in Caller, CallMoves(c) PROVE ClaimInv'
  BY <1>1, <1>4, CallsKeepClaim
<1>5. ASSUME NEW c \in Caller, EnqueueMoves(c) PROVE ClaimInv'
  BY <1>5 DEF EnqueueMoves, EnqueueStep, EnqueueRead, EnqueueWrite, CallAt, ClaimInv, CopiesInStep
<1>6. ASSUME NEW p \in MayCrash, Crash(p) PROVE ClaimInv'
  BY <1>1, <1>6, FleetAssumption, CrashKeepsClaim
<1>7. ASSUME NEW w \in MayStop, Shutdown(w), UNCHANGED call PROVE ClaimInv'
  BY <1>1, <1>7, FleetAssumption, ShutdownKeepsClaim
<1>8. ASSUME UNCHANGED vars PROVE ClaimInv'
  <2>1. row' = row /\ ses' = ses /\ job' = job /\ tick' = tick /\ call' = call /\ row.version \in Nat
    BY <1>8, ClaimTypes DEF vars, storeVars, sessionVars, queueVars
  <2>. QED  BY <1>1, <2>1, ClaimStays DEF ClaimInv, ExecutorsOwn, CopiesInStep
<1>. QED  BY <1>2, <1>3, <1>4, <1>5, <1>6, <1>7, <1>8 DEF Next

\* Whatever the workers, their ids, their crashes and their shutdowns: two of them
\* never execute the run at the same time, if every execution ends before its claim
\* looks stale and no start, resume or retry puts the run back into the queue under
\* its executor.  Both conditions are needed: without either the store hands the
\* run to a second worker.
THEOREM OneWorkerExecutes ==
  ASSUME RunsOutliveClaims = FALSE, CallKinds \cap {"start", "resume", "retry"} = {}
  PROVE  Spec => []OneExecution
<1>1. Undisturbed
  BY DEF Undisturbed
<1>2. Init => ClaimInv
  BY <1>1, ClaimInit
<1>3. ClaimInv => OneExecution
  <2>1. ASSUME ClaimInv, NEW t \in Thread, Iterating(t) PROVE Executing(t)
    BY <2>1 DEF ClaimInv, ExecutorsOwn, Iterating, Executing
  <2>. QED  BY <2>1 DEF OneExecution, ClaimInv, ExecutorsOwn
<1>. QED  BY <1>2, <1>3, ClaimNext, PTL DEF Spec

-----------------------------------------------------------------------------
(* What is left of the guarantee when an execution may outlive its claim:    *)
(* one session can write, and it is the one that holds the claim.            *)

\* The threads whose writes the store may still take.
Writer(t) == Starting(t) \/ Near(t)

OneWriter == \A t, u \in Thread : Writer(t) /\ Writer(u) => t = u

\* A thread that is about to begin, or holds the version in the row, holds the claim.
Backed(t) ==
  /\ Executing(t) => HostOf[t] \in Worker
  /\ ses[t].pc # "idle" => job[t].pc = "run"
  /\ Starting(t) => Mine(t)
  /\ Current(t) => ses[t].run.claim = row.claim /\ Mine(t)
  /\ Iterating(t) => ses[t].run.version <= row.version /\ Inside(ses[t])
  /\ ses[t].pc \in {"requeue", "init"} =>
       /\ ses[t].run.version <= row.version + 1
       /\ ses[t].run.version = row.version + 1 => ses[t].run.claim = row.claim

\* While the row a worker read is the row there is, nobody is preparing; and when
\* it is about to claim it, whoever is near the row handles an exception.
Fresh(w) ==
  /\ tick[w].copy.version <= row.version
  /\ tick[w].copy.version = row.version =>
       \A t \in Thread : ~Starting(t) /\ (tick[w].pc = "claim" => ~Current(t))

\* What a call writes leaves the claim to a thread that is preparing.
InHand(c) ==
  /\ call[c].copy.version <= row.version
  /\ call[c].copy.version = row.version /\ (\E t \in Thread : Starting(t))
       => call[c].copy.claim = row.claim

CopiesAreOld ==
  /\ \A w \in Worker : tick[w].pc # "poll" => Fresh(w)
  /\ \A c \in Caller : Walking(c) => InHand(c)

OverlapInv ==
  FleetInv /\ (\A t \in Thread : Backed(t)) /\ OneWriter /\ CopiesAreOld

\* What the lemmas below read of the state.
LEMMA OverlapTypes ==
  ASSUME OverlapInv
  PROVE  /\ FleetInv /\ SessionInv /\ row \in Row /\ row.version \in Nat
         /\ ses \in [Thread -> Session] /\ job \in [Thread -> Job]
         /\ tick \in [Worker -> Tick] /\ call \in [Caller -> Call]
         /\ \A w \in Worker : tick[w].copy \in Row /\ tick[w].copy.version \in Nat
         /\ \A c \in Caller : call[c].copy \in Row /\ call[c].copy.version \in Nat
         /\ \A t \in Thread : ses[t] \in Session /\ ses[t].run \in Row /\ ses[t].run.version \in Nat
<1>1. /\ FleetInv /\ SessionInv /\ row \in Row /\ row.version \in Nat
      /\ ses \in [Thread -> Session] /\ job \in [Thread -> Job] /\ tick \in [Worker -> Tick]
  BY DEF OverlapInv, FleetInv, CallInv, SessionInv, StoreTypeOK, SessionTypeOK, QueueTypeOK, Row
<1>2. call \in [Caller -> Call]
  BY <1>1 DEF FleetInv, CallInv, SoundCall
<1>3. \A w \in Worker : tick[w].copy \in Row /\ tick[w].copy.version \in Nat
  BY <1>1 DEF Tick, Row
<1>4. \A c \in Caller : call[c].copy \in Row /\ call[c].copy.version \in Nat
  BY <1>2 DEF Call, Row
<1>5. \A t \in Thread : ses[t] \in Session /\ ses[t].run \in Row /\ ses[t].run.version \in Nat
  BY <1>1 DEF Session, Row
<1>. QED  BY <1>1, <1>2, <1>3, <1>4, <1>5

LEMMA OverlapInit == Init => OverlapInv
<1>. SUFFICES ASSUME Init PROVE OverlapInv
  OBVIOUS
<1>1. \A t \in Thread : ses[t].pc = "idle" /\ job[t].pc = "none"
  BY DEF Init, SessionInit, QueueInit, IdleSession, NoJob
<1>2. \A t \in Thread : ~Starting(t) /\ ~Near(t) /\ ~Current(t) /\ ~Iterating(t) /\ ~Executing(t)
  BY <1>1 DEF Starting, Near, Current, Iterating, Executing, Readying
<1>3. \A t \in Thread : Backed(t)
  BY <1>1, <1>2 DEF Backed
<1>4. OneWriter
  BY <1>2 DEF OneWriter, Writer
<1>5. \A w \in Worker : tick[w].pc = "poll"
  BY DEF Init, QueueInit, Polling
<1>6. \A c \in Caller : call[c].pc = "none"
  BY DEF Init, ControlInit, NoCall
<1>. QED  BY <1>3, <1>4, <1>5, <1>6, FleetInit DEF OverlapInv, CopiesAreOld, Walking

\* A thread that the step leaves alone, but for the flags of its RunControl.
AsBefore(t) ==
  /\ ses'[t].pc = ses[t].pc /\ ses'[t].next = ses[t].next
  /\ ses'[t].run = ses[t].run /\ ses'[t].contained = ses[t].contained
  /\ job'[t] = job[t]

LEMMA AsBeforeStays ==
  ASSUME OverlapInv, FleetInv', NEW t \in Thread, AsBefore(t), row.version <= row'.version,
         \/ row'.claim = row.claim
         \/ ~Starting(t) /\ (row.version < row'.version \/ ~Current(t))
  PROVE  /\ Backed(t)'
         /\ Writer(t)' => Writer(t)
         /\ Starting(t)' => Starting(t)
         /\ row'.version = row.version => (Current(t)' => Current(t))
<1>1. /\ row.version \in Nat /\ ses[t].run.version \in Nat /\ Backed(t)
  BY OverlapTypes DEF OverlapInv
<1>2. row'.version \in Nat
  BY DEF FleetInv, CallInv, SessionInv, StoreTypeOK, Row
<1>3. Starting(t)' <=> Starting(t)
  BY DEF AsBefore, Starting, Readying
<1>4. (Iterating(t)' <=> Iterating(t)) /\ (Executing(t)' <=> Executing(t))
  BY DEF AsBefore, Iterating, Executing
<1>5. PICK n : n = Reach(ses[t])
  OBVIOUS
<1>6. n \in Nat
  BY <1>1, <1>5 DEF Reach
<1>7. Reach(ses[t])' = n
  BY <1>5 DEF AsBefore, Reach, Late
<1>8. Near(t)' => Near(t)
  BY <1>1, <1>2, <1>4, <1>5, <1>6, <1>7 DEF Near
<1>9. Current(t)' => Current(t) /\ row'.version = row.version
  <2>1. ASSUME Current(t)' PROVE row'.version < n /\ Iterating(t)
    BY <1>4, <1>7, <2>1 DEF Current
  <2>2. ASSUME Current(t)' PROVE row.version < n
    BY <1>1, <1>2, <1>6, <2>1, <2>2
  <2>3. Iterating(t) => n <= row.version + 1
    BY <1>1, <1>5 DEF Reach, Backed
  <2>4. ASSUME Current(t)' PROVE row'.version = row.version
    BY <1>1, <1>2, <1>6, <2>1, <2>3, <2>4
  <2>. QED  BY <1>5, <2>1, <2>2, <2>4 DEF Current
<1>10. Inside(ses[t]) => Inside(ses[t])'
  BY DEF AsBefore, Inside
<1>11. Starting(t)' => Mine(t)'
  BY <1>1, <1>3 DEF Backed, Mine
<1>12. Current(t)' => ses'[t].run.claim = row'.claim /\ Mine(t)'
  BY <1>1, <1>9 DEF Backed, Mine, AsBefore
<1>13. Iterating(t)' => ses'[t].run.version <= row'.version /\ Inside(ses[t])'
  BY <1>1, <1>2, <1>4, <1>10 DEF Backed, AsBefore
<1>14. ses'[t].pc \in {"requeue", "init"} =>
         /\ ses'[t].run.version <= row'.version + 1
         /\ ses'[t].run.version = row'.version + 1 => ses'[t].run.claim = row'.claim
  <2>1. ses[t].pc \in {"requeue", "init"} => Starting(t)
    BY <1>1 DEF Backed, Starting, Readying
  <2>. QED  BY <1>1, <1>2, <2>1 DEF Backed, AsBefore
<1>15. (Executing(t)' => HostOf[t] \in Worker)
       /\ (ses'[t].pc # "idle" => job'[t].pc = "run")
  BY <1>1, <1>4 DEF Backed, AsBefore
<1>16. Backed(t)'
  BY <1>11, <1>12, <1>13, <1>14, <1>15 DEF Backed
<1>. QED  BY <1>3, <1>8, <1>9, <1>16 DEF Writer

\* The other parts of the invariant.  A write that moves the row on makes every
\* copy of it old; one that does not brings nobody nearer.
LEMMA OverlapStays ==
  ASSUME OverlapInv, FleetInv', row.version <= row'.version,
         \A t \in Thread : Backed(t)',
         OneWriter',
         \A t \in Thread : row'.version = row.version =>
                             /\ Starting(t)' => Starting(t) /\ row'.claim = row.claim
                             /\ Current(t)' => Current(t),
         \A w \in Worker : \/ tick'[w] = tick[w]
                           \/ tick'[w].pc = "poll"
                           \/ /\ tick'[w].copy = row /\ row' = row
                              /\ \A t \in Thread : ~Starting(t)
                              /\ tick'[w].pc = "claim" => \A t \in Thread : ~Current(t),
         \A c \in Caller : \/ call'[c] = call[c]
                           \/ /\ call'[c].pc \in {"load", "save", "hop"}
                              /\ \/ call'[c].copy = row'
                                 \/ Walking(c) /\ call'[c].copy = call[c].copy
                           \/ call'[c].pc \notin {"load", "save", "hop"}
  PROVE  OverlapInv'
<1>1. /\ row.version \in Nat
      /\ \A w \in Worker : tick[w].copy.version \in Nat
      /\ \A c \in Caller : call[c].copy.version \in Nat
  BY OverlapTypes
<1>2. row'.version \in Nat
  BY DEF FleetInv, CallInv, SessionInv, StoreTypeOK, Row
<1>3. ASSUME NEW w \in Worker, tick'[w].pc # "poll" PROVE Fresh(w)'
  <2>1. CASE tick'[w] = tick[w]
    <3>1. Fresh(w)
      BY <1>3, <2>1 DEF OverlapInv, CopiesAreOld
    <3>2. tick'[w].copy.version <= row'.version
      BY <1>1, <1>2, <2>1, <3>1 DEF Fresh
    <3>3. ASSUME tick'[w].copy.version = row'.version, NEW t \in Thread
          PROVE  ~Starting(t)' /\ (tick'[w].pc = "claim" => ~Current(t)')
      <4>1. row'.version = row.version /\ tick[w].copy.version = row.version
        BY <1>1, <1>2, <2>1, <3>1, <3>3 DEF Fresh
      <4>. QED  BY <2>1, <3>1, <4>1 DEF Fresh
    <3>. QED  BY <3>2, <3>3 DEF Fresh
  <2>2. CASE tick'[w] # tick[w]
    <3>1. /\ tick'[w].copy = row /\ row' = row
          /\ \A t \in Thread : ~Starting(t)
          /\ tick'[w].pc = "claim" => \A t \in Thread : ~Current(t)
      BY <1>3, <2>2
    <3>2. \A t \in Thread : ~Starting(t)' /\ (tick'[w].pc = "claim" => ~Current(t)')
      BY <3>1
    <3>. QED  BY <1>1, <3>1, <3>2 DEF Fresh
  <2>. QED  BY <2>1, <2>2
<1>4. ASSUME NEW c \in Caller, Walking(c)' PROVE InHand(c)'
  <2>1. CASE call'[c].copy = row'
    BY <1>2, <2>1 DEF InHand
  <2>2. CASE Walking(c) /\ call'[c].copy = call[c].copy
    <3>1. InHand(c)
      BY <2>2 DEF OverlapInv, CopiesAreOld
    <3>2. call'[c].copy.version <= row'.version
      BY <1>1, <1>2, <2>2, <3>1 DEF InHand
    <3>3. ASSUME call'[c].copy.version = row'.version, NEW t \in Thread, Starting(t)'
          PROVE  call'[c].copy.claim = row'.claim
      <4>1. row'.version = row.version /\ call[c].copy.version = row.version
        BY <1>1, <1>2, <2>2, <3>1, <3>3 DEF InHand
      <4>2. Starting(t) /\ row'.claim = row.claim
        BY <3>3, <4>1
      <4>. QED  BY <2>2, <3>1, <4>1, <4>2 DEF InHand
    <3>. QED  BY <3>2, <3>3 DEF InHand
  <2>. QED  BY <1>4, <2>1, <2>2 DEF Walking
<1>5. CopiesAreOld'
  BY <1>3, <1>4 DEF CopiesAreOld
<1>. QED  BY <1>5 DEF OverlapInv

\* Nobody else writes while a thread may.
LEMMA OthersAreFar ==
  ASSUME OverlapInv, NEW t \in Thread, Writer(t), NEW u \in Thread \ {t}
  PROVE  ~Starting(u) /\ ~Near(u) /\ ~Current(u)
<1>1. ~Writer(u)
  BY DEF OverlapInv, OneWriter
<1>2. ses[u].run.version \in Nat /\ row.version \in Nat
  BY OverlapTypes
<1>3. Current(u) => Near(u)
  BY <1>2 DEF Current, Near, Reach
<1>. QED  BY <1>1, <1>3 DEF Writer

\* A session inside start writes only the row it has, under the claim it has.
LEMMA IteratingOverlaps ==
  ASSUME OverlapInv, FleetInv', NEW t \in Thread, SessionMoves(t), Iterating(t)
  PROVE  OverlapInv'
<1>1. /\ SessionInv /\ row.version \in Nat /\ ses[t].run.version \in Nat /\ Backed(t)
      /\ ses \in [Thread -> Session] /\ SessionStep(t)
      /\ job' = job /\ tick' = tick /\ call' = call
  BY OverlapTypes DEF OverlapInv, SessionMoves, queueVars
<1>2. Fenced(t)
  BY <1>1, IteratingIsFenced DEF Backed
<1>3. row.version <= row'.version
  BY <1>1, <1>2 DEF Fenced
<1>4. row' = row \/ (Near(t) /\ row'.claim = ses[t].run.claim)
  BY <1>1, <1>2 DEF Fenced, Accepts, Near, Reach
<1>5. ASSUME NEW u \in Thread \ {t}
      PROVE  /\ AsBefore(u)
             /\ row'.claim = row.claim \/ (~Starting(u) /\ ~Current(u))
  <2>1. AsBefore(u)
    BY <1>1, <1>2 DEF Fenced, AsBefore
  <2>. QED  BY <1>4, <2>1, OthersAreFar DEF Writer
<1>6. ~Starting(t) /\ ~Starting(t)'
  <2>1. job[t].pc = "run" /\ ses[t].pc \notin Readying
    BY <1>1 DEF Backed, Iterating, Readying
  <2>2. ses'[t].pc \notin Readying
    BY <1>2 DEF Fenced, Inside, Within, Readying
  <2>. QED  BY <1>1, <2>1, <2>2 DEF Starting, Readying
<1>7. Backed(t)'
  <2>1. Current(t)' => ses'[t].run.claim = row'.claim /\ Mine(t)'
    BY <1>1, <1>2, <1>4 DEF Fenced, Backed, Mine, Current
  <2>2. Executing(t)' <=> Executing(t)
    BY <1>1 DEF Executing
  <2>3. /\ ses'[t].pc \notin {"requeue", "init"} /\ job[t].pc = "run"
        /\ Iterating(t)' => Inside(ses[t])'
    BY <1>1, <1>2 DEF Fenced, Inside, Within, Readying, Iterating, Backed
  <2>4. Iterating(t)' => ses'[t].run.version <= row'.version
    BY <1>2 DEF Fenced
  <2>. QED  BY <1>1, <1>6, <2>1, <2>2, <2>3, <2>4 DEF Backed
<1>8. ASSUME NEW u \in Thread
      PROVE  /\ Backed(u)'
             /\ Writer(u)' => Writer(u)
             /\ row'.version = row.version =>
                  /\ Starting(u)' => Starting(u) /\ row'.claim = row.claim
                  /\ Current(u)' => Current(u)
  <2>1. CASE u = t
    BY <1>2, <1>6, <1>7, <2>1 DEF Fenced, Writer
  <2>2. CASE u # t
    <3>1. /\ Backed(u)' /\ (Writer(u)' => Writer(u)) /\ (Starting(u)' => Starting(u))
          /\ row'.version = row.version => (Current(u)' => Current(u))
      BY <1>3, <1>5, <2>2, AsBeforeStays
    <3>. QED  BY <1>5, <2>2, <3>1
  <2>. QED  BY <2>1, <2>2
<1>9. OneWriter'
  BY <1>8 DEF OverlapInv, OneWriter
<1>. QED  BY <1>1, <1>3, <1>8, <1>9, OverlapStays

\* Before the loop a session writes the row it has read, whose claim is its own.
LEMMA ReadyingOverlaps ==
  ASSUME OverlapInv, FleetInv', NEW t \in Thread, SessionMoves(t), ~Iterating(t)
  PROVE  OverlapInv'
<1>1. /\ SessionInv /\ row.version \in Nat /\ ses[t].run.version \in Nat /\ Backed(t)
      /\ ses \in [Thread -> Session] /\ SessionStep(t)
      /\ job' = job /\ tick' = tick /\ call' = call
  BY OverlapTypes DEF OverlapInv, SessionMoves, queueVars
<1>2. Readied(t)
  BY <1>1, OthersAreReadied
<1>3. row.version <= row'.version /\ row'.claim = row.claim
  BY <1>1, <1>2 DEF Readied, Backed
<1>4. job[t].pc = "run" /\ ~Near(t) /\ ~Current(t)
  BY <1>1, <1>2 DEF Readied, Backed, Near, Current
<1>5. Executing(t)' <=> Executing(t)
  BY <1>1 DEF Executing
<1>6. /\ Backed(t)' /\ (Starting(t)' => Starting(t)) /\ (Writer(t)' => Writer(t))
      /\ row'.version = row.version => ~Current(t)'
  <2>1. CASE row' = row /\ ses'[t].pc \in {"leave", "left"}
    <3>1. ~Iterating(t)' /\ ses'[t].pc \notin Readying
      BY <2>1 DEF Iterating, Readying
    <3>2. ~Starting(t)' /\ ~Near(t)' /\ ~Current(t)'
      BY <1>1, <1>4, <3>1 DEF Starting, Near, Current, Readying
    <3>. QED  BY <1>1, <1>4, <1>5, <2>1, <3>1, <3>2 DEF Backed, Writer, Readying
  <2>2. CASE row' = row /\ ses[t].pc \in Readying /\ ses'[t].pc \in {"acquire", "load"}
    <3>1. ~Iterating(t)' /\ ~Near(t)' /\ ~Current(t)'
      BY <2>2 DEF Iterating, Near, Current
    <3>2. Starting(t) /\ Mine(t)'
      BY <1>1, <1>4, <2>2 DEF Starting, Backed, Mine, Readying
    <3>. QED  BY <1>1, <1>4, <1>5, <2>2, <3>1, <3>2 DEF Backed, Writer
  <2>3. CASE /\ row' = row /\ ses[t].pc \in Readying /\ ses'[t].pc \in {"requeue", "init"}
             /\ ses'[t].run.version = row.version + 1 /\ ses'[t].run.claim = row.claim
    <3>1. ~Iterating(t)' /\ ~Near(t)' /\ ~Current(t)'
      BY <2>3 DEF Iterating, Near, Current
    <3>2. Starting(t) /\ Mine(t)'
      BY <1>1, <1>4, <2>3 DEF Starting, Backed, Mine, Readying
    <3>. QED  BY <1>1, <1>4, <1>5, <2>3, <3>1, <3>2 DEF Backed, Writer
  <2>4. CASE /\ ses[t].pc \in {"requeue", "init"} /\ ses'[t].pc \in {"acquire", "setup"}
             /\ ses[t].run.version = row.version + 1
             /\ row' = ses[t].run /\ ses'[t].run = ses[t].run
    <3>1. Starting(t)
      BY <1>4, <2>4 DEF Starting, Readying
    <3>2. Mine(t)' /\ ses'[t].run.claim = row'.claim /\ ses'[t].run.version = row'.version
      BY <1>1, <1>3, <2>4, <3>1 DEF Backed, Mine
    <3>3. Iterating(t)' => Inside(ses[t])'
      BY <2>4 DEF Inside, Within, Phase, Readying, Iterating
    <3>4. row'.version # row.version /\ row'.version <= row'.version
      BY <1>1, <2>4
    <3>. QED  BY <1>1, <1>4, <1>5, <2>4, <3>1, <3>2, <3>3, <3>4 DEF Backed, Writer
  <2>. QED  BY <1>2, <2>1, <2>2, <2>3, <2>4 DEF Readied
<1>7. ASSUME NEW u \in Thread
      PROVE  /\ Backed(u)'
             /\ Writer(u)' => Writer(u)
             /\ row'.version = row.version =>
                  /\ Starting(u)' => Starting(u) /\ row'.claim = row.claim
                  /\ Current(u)' => Current(u)
  <2>1. CASE u = t
    BY <1>3, <1>6, <2>1
  <2>2. CASE u # t
    <3>1. AsBefore(u)
      BY <1>1, <1>2, <2>2 DEF Readied, AsBefore
    <3>. QED  BY <1>3, <3>1, AsBeforeStays
  <2>. QED  BY <2>1, <2>2
<1>8. OneWriter'
  BY <1>7 DEF OverlapInv, OneWriter
<1>. QED  BY <1>1, <1>3, <1>7, <1>8, OverlapStays

\* Steps that leave the row, and at most end what a thread is doing.
LEMMA QuietOverlaps ==
  ASSUME OverlapInv, FleetInv', row' = row,
         \A t \in Thread : \/ AsBefore(t)
                           \/ /\ Backed(t)' /\ ~Near(t)' /\ ~Current(t)'
                              /\ Starting(t)' => Starting(t),
         \A w \in Worker : \/ tick'[w] = tick[w]
                           \/ tick'[w].pc = "poll"
                           \/ /\ tick'[w].copy = row
                              /\ \A t \in Thread : ~Starting(t)
                              /\ tick'[w].pc = "claim" => \A t \in Thread : ~Current(t),
         \A c \in Caller : \/ call'[c] = call[c]
                           \/ /\ call'[c].pc \in {"load", "save", "hop"}
                              /\ \/ call'[c].copy = row'
                                 \/ Walking(c) /\ call'[c].copy = call[c].copy
                           \/ call'[c].pc \notin {"load", "save", "hop"}
  PROVE  OverlapInv'
<1>1. row.version \in Nat /\ row.version <= row'.version
  BY OverlapTypes
<1>2. ASSUME NEW t \in Thread
      PROVE  /\ Backed(t)' /\ (Writer(t)' => Writer(t)) /\ (Starting(t)' => Starting(t))
             /\ Current(t)' => Current(t)
  <2>1. CASE AsBefore(t)
    BY <1>1, <2>1, AsBeforeStays
  <2>2. CASE Backed(t)' /\ ~Near(t)' /\ ~Current(t)' /\ (Starting(t)' => Starting(t))
    BY <2>2 DEF Writer
  <2>. QED  BY <2>1, <2>2
<1>3. OneWriter'
  BY <1>2 DEF OverlapInv, OneWriter
<1>. QED  BY <1>1, <1>2, <1>3, OverlapStays

\* A step that moves the row on while it brings nobody nearer makes every copy old.
LEMMA OverlapMoves ==
  ASSUME OverlapInv, FleetInv', row.version < row'.version,
         \A c \in Caller : call'[c] = call[c] \/ call'[c].pc \notin {"load", "save", "hop"},
         \A t \in Thread : Backed(t)' /\ (Writer(t)' => Writer(t)),
         \A w \in Worker : tick'[w] = tick[w] \/ tick'[w].pc = "poll"
  PROVE  OverlapInv'
<1>1. row.version \in Nat
  BY OverlapTypes
<1>2. row'.version \in Nat
  BY DEF FleetInv, CallInv, SessionInv, StoreTypeOK, Row
<1>3. row.version <= row'.version /\ row'.version # row.version
  BY <1>1, <1>2
<1>4. OneWriter'
  BY DEF OverlapInv, OneWriter
<1>. QED  BY <1>3, <1>4, OverlapStays

\* Items: a claimed item is prepared by the one thread that took it.
LEMMA ItemsOverlap ==
  ASSUME OverlapInv, FleetInv', NEW t \in Thread, ItemMoves(t), ~undercut' PROVE OverlapInv'
<1>1. /\ row.version \in Nat /\ ses \in [Thread -> Session] /\ job \in [Thread -> Job]
      /\ job[t] \in Job /\ Backed(t)
  BY OverlapTypes DEF OverlapInv
<1>2. call' = call /\ tick' = tick
  BY DEF ItemMoves, ItemStep, Refuse, Execute, Return, RecordFailure, ReleaseRead, ReleaseWrite
<1>3. ASSUME NEW item \in {job'[t]}, Work(t, item), \A u \in Thread \ {t} : ses'[u] = ses[u]
      PROVE  /\ job'[t] = item
             /\ \A u \in Thread \ {t} : AsBefore(u)
  <2>1. job'[t] = item /\ \A u \in Thread \ {t} : job'[u] = job[u]
    BY <1>1, <1>3 DEF Work
  <2>. QED  BY <1>3, <2>1 DEF AsBefore
<1>4. ASSUME NEW item \in {job'[t]}, Work(t, item), row' = row, Executing(t),
             \A u \in Thread \ {t} : ses'[u] = ses[u],
             \/ ses'[t].pc = "idle" /\ item.pc \in {"none", "failed", "release", "put"}
             \/ ses'[t].pc \in {"acquire", "resume"} /\ item.pc = "run" /\ Starting(t)
      PROVE  OverlapInv'
  <2>1. job'[t] = item /\ \A u \in Thread \ {t} : AsBefore(u)
    BY <1>3, <1>4
  <2>2. ~Iterating(t)' /\ ses'[t].pc \notin {"requeue", "init"}
    BY <1>4 DEF Iterating
  <2>3. ~Near(t)' /\ ~Current(t)'
    BY <2>2 DEF Near, Current
  <2>4. Starting(t)' => Starting(t)
    BY <1>4, <2>1 DEF Starting, Readying
  <2>5. Starting(t)' => Mine(t)'
    BY <1>1, <1>4, <2>4 DEF Backed, Mine
  <2>6. Executing(t)' => HostOf[t] \in Worker
    BY <1>1, <1>4, <2>1 DEF Backed, Executing
  <2>7. ses'[t].pc # "idle" => job'[t].pc = "run"
    BY <1>4, <2>1
  <2>8. Backed(t)'
    BY <2>2, <2>3, <2>5, <2>6, <2>7 DEF Backed
  <2>. QED  BY <1>2, <1>4, <2>1, <2>3, <2>4, <2>8, QuietOverlaps
<1>5. job[t].pc \notin {"none", "run"} => ses[t].pc = "idle" /\ Executing(t)
  BY <1>1 DEF Backed, Executing
<1>6. CASE Refuse(t)
  <2>. DEFINE item == [job[t] EXCEPT !.pc = "release"]
  <2>1. item.pc = "release"
    BY <1>1 DEF Job
  <2>. HIDE DEF item
  <2>2. Work(t, item) /\ row' = row /\ ses' = ses /\ job[t].pc = "check"
    BY <1>6 DEF Refuse, RunIsElsewhere, item
  <2>3. job'[t] = item
    BY <1>1, <2>2 DEF Work
  <2>. QED  BY <1>4, <1>5, <2>1, <2>2, <2>3
<1>7. CASE Execute(t)
  <2>. DEFINE s == Goto(IdleSession, FirstPhase(job[t].action))
              item == [job[t] EXCEPT !.pc = "run"]
  <2>1. s.pc \in {"acquire", "resume"}
    BY <1>1 DEF Goto, IdleSession, FirstPhase, Job
  <2>2. item.pc = "run"
    BY <1>1 DEF Job
  <2>. HIDE DEF s, item
  <2>3. Become(t, s) /\ Work(t, item) /\ row' = row /\ job[t].pc = "check"
    BY <1>7 DEF Execute, Begin, s, item
  <2>4. ses'[t] = s /\ job'[t] = item /\ \A u \in Thread \ {t} : ses'[u] = ses[u]
    BY <1>1, <2>3 DEF Become, Work
  <2>5. Starting(t)
    BY <2>3 DEF Starting, Readying
  <2>. QED  BY <1>4, <1>5, <2>1, <2>2, <2>3, <2>4, <2>5
<1>8. CASE Return(t)
  <2>. DEFINE item == IF ses[t].rejected THEN [job[t] EXCEPT !.pc = "failed"] ELSE NoJob
  <2>1. item.pc \in {"none", "failed"}
    BY <1>1 DEF Job, NoJob
  <2>. HIDE DEF item
  <2>2. Become(t, IdleSession) /\ row' = row /\ job[t].pc = "run" /\ Work(t, item)
    BY <1>8 DEF Return, LocalStep, item
  <2>3. ses'[t] = IdleSession /\ job'[t] = item /\ \A u \in Thread \ {t} : ses'[u] = ses[u]
    BY <1>1, <2>2 DEF Become, Work
  <2>4. IdleSession.pc = "idle" /\ Executing(t)
    BY <2>2 DEF IdleSession, Executing
  <2>. QED  BY <1>4, <2>1, <2>2, <2>3, <2>4
<1>9. CASE RecordFailure(t)
  <2>1. job[t].pc = "failed" /\ row' = row /\ ses' = ses
    BY <1>9 DEF RecordFailure, RunIsElsewhere
  <2>2. PICK item : Work(t, item) /\ item.pc \in {"none", "release"}
    <3>1. NoJob.pc = "none" /\ [job[t] EXCEPT !.pc = "release"].pc = "release"
      BY <1>1 DEF NoJob, Job
    <3>. QED  BY <1>9, <3>1 DEF RecordFailure
  <2>3. job'[t] = item
    BY <1>1, <2>2 DEF Work
  <2>. QED  BY <1>4, <1>5, <2>1, <2>2, <2>3
<1>10. CASE ReleaseRead(t)
  <2>. DEFINE item == [job[t] EXCEPT !.pc = "put", !.copy = row]
  <2>1. item.pc = "put"
    BY <1>1 DEF Job
  <2>. HIDE DEF item
  <2>2. Work(t, item) /\ row' = row /\ ses' = ses /\ job[t].pc = "release"
    BY <1>10 DEF ReleaseRead, RunIsElsewhere, item
  <2>3. job'[t] = item
    BY <1>1, <2>2 DEF Work
  <2>. QED  BY <1>4, <1>5, <2>1, <2>2, <2>3
<1>11. CASE ReleaseWrite(t)
  <2>. DEFINE copy == job[t].copy
              attempt == job[t].attempt
  <2>1. copy \in Row /\ job[t].pc = "put" /\ ses' = ses /\ Work(t, NoJob)
    BY <1>1, <1>11 DEF ReleaseWrite, Job
  <2>2. job'[t] = NoJob /\ NoJob.pc = "none" /\ \A u \in Thread \ {t} : AsBefore(u)
    BY <1>1, <1>3, <2>1 DEF Work, NoJob
  <2>3. CASE row' = row
    BY <1>4, <1>5, <2>1, <2>2, <2>3
  <2>4. CASE PutBack(copy, attempt)
    <3>1. row.version < row'.version /\ row.version <= row'.version
      BY <1>1, <2>1, <2>4, MarkedHasClaim DEF PutBack, WriteMarker, Accepts, WriteRow, Row
    <3>2. \A u \in Thread : ~Starting(u)
      BY <2>4 DEF PutBack
    <3>3. ASSUME NEW u \in Thread \ {t} PROVE Backed(u)' /\ (Writer(u)' => Writer(u))
      BY <2>2, <3>1, <3>2, <3>3, AsBeforeStays
    <3>4. ses'[t].pc = "idle" /\ job'[t].pc = "none"
      BY <1>5, <2>1, <2>2
    <3>5. ~Starting(t)' /\ ~Iterating(t)' /\ ~Executing(t)' /\ ~Near(t)' /\ ~Current(t)'
      BY <3>4 DEF Starting, Iterating, Executing, Near, Current, Readying
    <3>6. Backed(t)' /\ ~Writer(t)'
      BY <3>4, <3>5 DEF Backed, Writer
    <3>7. \A u \in Thread : Backed(u)' /\ (Writer(u)' => Writer(u))
      BY <3>3, <3>6
    <3>. QED  BY <1>2, <3>1, <3>7, OverlapMoves
  <2>. QED  BY <1>11, <2>3, <2>4 DEF ReleaseWrite
<1>. QED  BY <1>6, <1>7, <1>8, <1>9, <1>10, <1>11 DEF ItemMoves, ItemStep

\* Polling: a claim is written against a row nobody prepares or may write, and so
\* makes its thread the only one that can; a sweep takes a claim only from a
\* session that is iterating.
LEMMA PollsOverlap ==
  ASSUME OverlapInv, FleetInv', NEW w \in Worker, PollMoves(w) PROVE OverlapInv'
<1>1. /\ row.version \in Nat /\ row \in Row /\ job \in [Thread -> Job] /\ tick \in [Worker -> Tick]
      /\ tick[w].copy \in Row
      /\ \A t \in Thread : Backed(t)
  BY OverlapTypes DEF OverlapInv
<1>2. ses' = ses /\ call' = call
  BY DEF PollMoves, PollStep, ClaimRead, ClaimWrite, SweepRead, SweepWrite, RunIsElsewhere
<1>3. ASSUME row' = row, job' = job, NEW next, Poll(w, next),
             \/ next.pc = "poll"
             \/ /\ next.copy = row
                /\ \A t \in Thread : ~Starting(t)
                /\ next.pc = "claim" => \A t \in Thread : ~Current(t)
      PROVE  OverlapInv'
  <2>1. tick'[w] = next /\ \A v \in Worker \ {w} : tick'[v] = tick[v]
    BY <1>1, <1>3 DEF Poll
  <2>2. \A t \in Thread : AsBefore(t)
    BY <1>2, <1>3 DEF AsBefore
  <2>. QED  BY <1>2, <1>3, <2>1, <2>2, QuietOverlaps
<1>4. ASSUME Poll(w, Polling)
      PROVE  \A v \in Worker : tick'[v] = tick[v] \/ tick'[v].pc = "poll"
  BY <1>1, <1>4 DEF Poll, Polling
<1>5. CASE ClaimRead(w)
  <2>1. ~row.claim.live
    BY <1>5 DEF ClaimRead
  <2>2. \A t \in Thread : ~Starting(t) /\ ~Current(t)
    BY <1>1, <2>1 DEF Backed, Mine
  <2>3. Poll(w, [pc |-> "claim", copy |-> row]) /\ row' = row /\ job' = job
    BY <1>5 DEF ClaimRead, RunIsElsewhere
  <2>. QED  BY <1>3, <2>2, <2>3
<1>6. CASE SweepRead(w)
  <2>1. Stale(row.claim) /\ Poll(w, [pc |-> "sweep", copy |-> row]) /\ row' = row /\ job' = job
    BY <1>6 DEF SweepRead, RunIsElsewhere
  <2>2. ASSUME NEW t \in Thread, Starting(t) PROVE FALSE
    <3>1. Executing(t) /\ ~Iterating(t)
      BY <1>1, <2>2 DEF Starting, Executing, Iterating, Readying, Backed
    <3>2. HostOf[t] \in Worker /\ row.claim.holder = IdOf[HostOf[t]]
      BY <1>1, <2>2 DEF Backed, Mine
    <3>3. t \in Holding(row.claim.holder)
      BY <3>1, <3>2 DEF Holding
    <3>. QED  BY <2>1, <3>1, <3>3 DEF Stale
  <2>. QED  BY <1>3, <2>1, <2>2
<1>7. CASE ClaimWrite(w)
  <2>. DEFINE copy == tick[w].copy
              claim == [holder |-> IdOf[w], live |-> TRUE, attempt |-> copy.claim.attempt + 1]
              item == [NoJob EXCEPT !.pc = "check", !.action = ActionFor(copy.status),
                                    !.attempt = claim.attempt]
  <2>1. Fresh(w) /\ tick[w].pc = "claim" /\ Poll(w, Polling)
    BY <1>7 DEF ClaimWrite, OverlapInv, CopiesAreOld
  <2>2. CASE row' = row /\ job' = job
    BY <1>3, <2>1, <2>2 DEF Polling
  <2>3. CASE /\ WriteMarker(copy, claim)
             /\ \E t \in ThreadsOf(w) : Idle(t) /\ Work(t, item)
    <3>1. claim.live = TRUE /\ claim.holder = IdOf[w]
      OBVIOUS
    <3>2. item.pc = "check"
      BY DEF NoJob
    <3>. HIDE DEF claim, item
    <3>3. copy.version = row.version /\ row' = Marked(copy, claim)
      BY <2>3 DEF WriteMarker, Accepts, WriteRow
    <3>4. row.version < row'.version /\ row.version <= row'.version /\ row'.claim = claim
      BY <1>1, <3>3, MarkedHasClaim
    <3>5. \A t \in Thread : ~Starting(t) /\ ~Current(t)
      BY <2>1, <3>3 DEF Fresh
    <3>6. PICK t \in ThreadsOf(w) : Idle(t) /\ Work(t, item)
      BY <2>3
    <3>7. t \in Thread /\ HostOf[t] = w
      BY <3>6 DEF ThreadsOf
    <3>8. job'[t] = item /\ \A u \in Thread \ {t} : job'[u] = job[u]
      BY <1>1, <3>6, <3>7 DEF Work
    <3>9. ASSUME NEW u \in Thread \ {t} PROVE Backed(u)' /\ ~Starting(u)'
      <4>1. AsBefore(u)
        BY <1>2, <3>8, <3>9 DEF AsBefore
      <4>2. Backed(u)' /\ (Starting(u)' => Starting(u))
        BY <3>4, <3>5, <4>1, AsBeforeStays
      <4>. QED  BY <3>5, <4>2
    <3>10. ASSUME NEW u \in Thread PROVE ~Near(u)' /\ ~Current(u)'
      <4>1. ses[u].run.version \in Nat /\ ~Current(u)
        BY <3>5, OverlapTypes
      <4>2. row'.version = row.version + 1
        BY <1>1, <3>3, MarkedHasClaim
      <4>3. PICK n : n = Reach(ses[u])
        OBVIOUS
      <4>4. n \in Nat /\ Reach(ses[u])' = n /\ (Iterating(u)' <=> Iterating(u))
        BY <1>2, <4>1, <4>3 DEF Reach, Late, Iterating
      <4>5. Near(u)' => Iterating(u) /\ row.version + 1 <= n
        BY <4>2, <4>4 DEF Near
      <4>6. Current(u)' => Iterating(u) /\ row.version + 1 < n
        BY <4>2, <4>4 DEF Current
      <4>. QED  BY <1>1, <4>1, <4>3, <4>4, <4>5, <4>6 DEF Current
    <3>11. ses'[t].pc = "idle" /\ Mine(t)'
      BY <1>2, <3>1, <3>4, <3>6, <3>7 DEF Idle, Mine
    <3>12. ~Iterating(t)' /\ Starting(t)'
      BY <3>2, <3>8, <3>11 DEF Iterating, Starting, Readying
    <3>13. Backed(t)'
      BY <3>1, <3>2, <3>7, <3>8, <3>10, <3>11, <3>12 DEF Backed
    <3>14. \A u \in Thread : Backed(u)' /\ (Writer(u)' => u = t)
      BY <3>9, <3>10, <3>13 DEF Writer
    <3>15. OneWriter'
      BY <3>14 DEF OneWriter
    <3>16. row'.version # row.version
      BY <1>1, <3>4
    <3>. QED  BY <1>2, <1>4, <2>1, <3>4, <3>14, <3>15, <3>16, OverlapStays
  <2>. QED  BY <1>7, <2>2, <2>3 DEF ClaimWrite
<1>8. CASE SweepWrite(w)
  <2>. DEFINE copy == tick[w].copy
              claim == FreeClaim(copy.claim.attempt)
  <2>1. Fresh(w) /\ tick[w].pc = "sweep" /\ Poll(w, Polling) /\ job' = job
    BY <1>8 DEF SweepWrite, OverlapInv, CopiesAreOld
  <2>2. CASE row' = row
    BY <1>3, <2>1, <2>2 DEF Polling
  <2>3. CASE WriteMarker(copy, claim)
    <3>. HIDE DEF claim
    <3>1. copy.version = row.version /\ row' = Marked(copy, claim)
      BY <2>3 DEF WriteMarker, Accepts, WriteRow
    <3>2. row.version < row'.version /\ row.version <= row'.version
      BY <1>1, <3>1, MarkedHasClaim
    <3>3. \A t \in Thread : ~Starting(t)
      BY <2>1, <3>1 DEF Fresh
    <3>4. \A t \in Thread : AsBefore(t)
      BY <1>2, <2>1 DEF AsBefore
    <3>5. \A t \in Thread : Backed(t)' /\ (Writer(t)' => Writer(t))
      BY <3>2, <3>3, <3>4, AsBeforeStays
    <3>6. \A v \in Worker : tick'[v] = tick[v] \/ tick'[v].pc = "poll"
      BY <1>4, <2>1
    <3>. QED  BY <1>2, <3>2, <3>5, <3>6, OverlapMoves
  <2>. QED  BY <1>8, <2>2, <2>3 DEF SweepWrite
<1>. QED  BY <1>5, <1>6, <1>7, <1>8 DEF PollMoves, PollStep

\* Calls: a hop writes the claim of the row it was read from, so a thread that
\* prepares under that claim keeps it; a flag changes nothing that counts here.
LEMMA CallsOverlap ==
  ASSUME OverlapInv, FleetInv', NEW c \in Caller, CallMoves(c) PROVE OverlapInv'
<1>1. /\ row.version \in Nat /\ row \in Row /\ ses \in [Thread -> Session]
      /\ call \in [Caller -> Call] /\ call[c] \in Call /\ call[c].copy \in Row
      /\ control \in [Process -> Thread \cup {None}]
  BY OverlapTypes DEF SessionInv, SessionTypeOK
<1>2. job' = job /\ tick' = tick
  BY DEF CallMoves, queueVars
<1>3. ASSUME NEW k, Answer(c, k), row' = row,
             \A t \in Thread : AsBefore(t),
             \/ k.pc \in {"load", "save", "hop"}
                /\ (k.copy = row' \/ (Walking(c) /\ k.copy = call[c].copy))
             \/ k.pc \notin {"load", "save", "hop"}
      PROVE  OverlapInv'
  <2>1. call'[c] = k /\ \A d \in Caller \ {c} : call'[d] = call[d]
    BY <1>1, <1>3 DEF Answer
  <2>. QED  BY <1>2, <1>3, <2>1, QuietOverlaps
<1>4. ASSUME ses' = ses PROVE \A t \in Thread : AsBefore(t)
  BY <1>2, <1>4 DEF AsBefore
<1>5. ASSUME NEW k, Answer(c, k), RunIsElsewhere,
             \/ k.pc \in {"load", "save", "hop"}
                /\ (k.copy = row \/ (Walking(c) /\ k.copy = call[c].copy))
             \/ k.pc \notin {"load", "save", "hop"}
      PROVE  OverlapInv'
  BY <1>3, <1>4, <1>5 DEF RunIsElsewhere
<1>6. ASSUME NEW read \in Call, read.kind \in CallKinds \cup {"none"}, Read(c, read), RunIsElsewhere
      PROVE  OverlapInv'
  <2>1. CASE read.kind \notin {"start", "resume", "retry"}
    <3>1. \E k : Answer(c, k) /\ (k.pc = "over" \/ (k.pc \in {"load", "hop"} /\ k.copy = row))
      BY <1>6, <2>1, ReadsAnswerWithTheRow
    <3>. QED  BY <1>5, <1>6, <3>1
  <2>2. CASE read.kind \in {"start", "resume", "retry"}
    <3>1. [read EXCEPT !.pc = "dispatch"].pc = "dispatch" /\ Refused(read).pc = "over"
      BY <1>6 DEF Call, Refused
    <3>2. \E k : Answer(c, k) /\ k.pc \in {"dispatch", "over"}
      BY <1>6, <2>2, <3>1 DEF Read, ReadToDispatch
    <3>. QED  BY <1>5, <1>6, <3>2
  <2>. QED  BY <2>1, <2>2
<1>7. CASE \E kind \in CallKinds \cap {"pause", "cancel"} : Signal(c, kind)
  <2>1. PICK kind \in CallKinds : Signal(c, kind)
    BY <1>7
  <2>. DEFINE k == [NoCall EXCEPT !.pc = "over", !.kind = kind, !.flagged = TRUE]
  <2>2. k.pc = "over"
    BY DEF NoCall
  <2>. HIDE DEF k
  <2>3. Answer(c, k) /\ row' = row
    BY <2>1 DEF Signal, k
  <2>4. ASSUME NEW u \in Thread PROVE AsBefore(u)
    <3>1. \/ ses'[u] = ses[u]
          \/ ses'[u] = [ses[u] EXCEPT !.paused = TRUE]
          \/ ses'[u] = [ses[u] EXCEPT !.cancelled = TRUE]
      BY <1>1, <2>1, ControlAssumption DEF Signal
    <3>2. ses[u] \in Session
      BY <1>1
    <3>. QED  BY <1>2, <3>1, <3>2 DEF AsBefore, Session
  <2>. QED  BY <1>3, <2>2, <2>3, <2>4
<1>8. CASE \E kind \in CallKinds : MakeCall(c, kind)
  <2>1. PICK kind \in CallKinds : MakeCall(c, kind)
    BY <1>8
  <2>. DEFINE k == [NoCall EXCEPT !.pc = "read", !.kind = kind]
  <2>2. k \in Call /\ k.pc = "read" /\ k.kind = kind
    BY NoCallIsSound DEF NoCall, SoundCall, Call, CallPhase
  <2>. HIDE DEF k
  <2>3. RunIsElsewhere /\ (Read(c, k) \/ Answer(c, k))
    BY <2>1 DEF MakeCall, k
  <2>. QED  BY <1>5, <1>6, <2>2, <2>3
<1>9. CASE ReadRow(c)
  <2>1. call[c].kind \in CallKinds \cup {"none"}
    BY <1>1 DEF Call
  <2>. QED  BY <1>1, <1>6, <1>9, <2>1 DEF ReadRow
<1>10. CASE WriteHop(c)
  <2>. DEFINE k == call[c]
              hopped == [k.copy EXCEPT !.status = Head(k.path), !.version = @ + 1]
              hops == [k EXCEPT !.copy = hopped, !.path = Tail(k.path)]
  <2>1. ses' = ses /\ Walking(c) /\ k.pc = "hop"
    BY <1>10 DEF WriteHop, CallAt, Walking
  <2>2. Over(k).pc = "over" /\ Refused(k).pc = "over"
    BY <1>1 DEF Over, Refused, Call
  <2>3. hopped.claim = k.copy.claim /\ hopped.version = k.copy.version + 1
    BY <1>1 DEF Row
  <2>4. hops.pc = "hop" /\ hops.copy = hopped
    BY <1>1, <2>1 DEF Call
  <2>5. \/ row' = row /\ (Answer(c, Over(k)) \/ Answer(c, Refused(k)))
        \/ k.copy.version = row.version /\ row' = hopped /\ Answer(c, hops)
    BY <1>10 DEF WriteHop, Accepts, WriteRow
  <2>. HIDE DEF hopped, hops
  <2>6. CASE row' = row /\ (Answer(c, Over(k)) \/ Answer(c, Refused(k)))
    BY <1>3, <1>4, <2>1, <2>2, <2>6
  <2>7. CASE k.copy.version = row.version /\ row' = hopped /\ Answer(c, hops)
    <3>1. /\ row.version < row'.version /\ row.version <= row'.version
          /\ row'.version # row.version
      BY <1>1, <2>3, <2>7
    <3>2. (\E t \in Thread : Starting(t)) => row'.claim = row.claim
      BY <2>1, <2>3, <2>7 DEF OverlapInv, CopiesAreOld, InHand
    <3>3. \A t \in Thread : AsBefore(t)
      BY <1>4, <2>1
    <3>4. \A t \in Thread : Backed(t)' /\ (Writer(t)' => Writer(t))
      BY <3>1, <3>2, <3>3, AsBeforeStays
    <3>5. OneWriter'
      BY <3>4 DEF OverlapInv, OneWriter
    <3>6. \A d \in Caller : call'[d] = call[d] \/ (call'[d].pc = "hop" /\ call'[d].copy = row')
      BY <1>1, <2>4, <2>7 DEF Answer
    <3>. QED  BY <1>2, <3>1, <3>4, <3>5, <3>6, OverlapStays
  <2>. QED  BY <2>5, <2>6, <2>7
<1>11. CASE LoadVersion(c)
  <2>. DEFINE k == [call[c] EXCEPT !.pc = "save", !.expected = saved]
  <2>1. k.pc = "save" /\ k.copy = call[c].copy
    BY <1>1 DEF Call
  <2>. HIDE DEF k
  <2>2. Answer(c, k) /\ RunIsElsewhere /\ Walking(c)
    BY <1>11 DEF LoadVersion, CallAt, Walking, k
  <2>. QED  BY <1>5, <2>1, <2>2
<1>12. CASE SaveCheckpoint(c)
  <2>. DEFINE k == [call[c] EXCEPT !.pc = "hop"]
  <2>1. k.pc = "hop" /\ k.copy = call[c].copy /\ Refused(call[c]).pc = "over"
    BY <1>1 DEF Call, Refused
  <2>. HIDE DEF k
  <2>2. (Answer(c, k) \/ Answer(c, Refused(call[c]))) /\ Walking(c) /\ row' = row /\ ses' = ses
    BY <1>12 DEF SaveCheckpoint, CallAt, Walking, k
  <2>. QED  BY <1>3, <1>4, <2>1, <2>2
<1>. QED  BY <1>7, <1>8, <1>9, <1>10, <1>11, <1>12 DEF CallMoves, CallStep

\* An accepted call puts the run back like a release: no harm where nobody starts it.
LEMMA EnqueuesOverlap ==
  ASSUME OverlapInv, FleetInv', NEW c \in Caller, EnqueueMoves(c), ~undercut' PROVE OverlapInv'
<1>1. /\ row.version \in Nat /\ row \in Row /\ call \in [Caller -> Call]
      /\ call[c] \in Call /\ call[c].copy \in Row
  BY OverlapTypes
<1>2. job' = job /\ tick' = tick /\ ses' = ses
  BY DEF EnqueueMoves, EnqueueStep, EnqueueRead, EnqueueWrite, RunIsElsewhere
<1>3. \A t \in Thread : AsBefore(t)
  BY <1>2 DEF AsBefore
<1>4. \A d \in Caller : call'[d] = call[d] \/ call'[d].pc \notin {"load", "save", "hop"}
  <2>1. /\ Over(call[c]).pc = "over" /\ Refused(call[c]).pc = "over"
        /\ [call[c] EXCEPT !.pc = "enqueue", !.copy = row].pc = "enqueue"
    BY <1>1 DEF Over, Refused, Call
  <2>2. PICK k : Answer(c, k) /\ k.pc \in {"over", "enqueue"}
    BY <2>1 DEF EnqueueMoves, EnqueueStep, EnqueueRead, EnqueueWrite
  <2>. QED  BY <1>1, <2>2 DEF Answer
<1>5. CASE row' = row
  BY <1>2, <1>3, <1>4, <1>5, QuietOverlaps
<1>6. CASE PutBack(call[c].copy, 0)
  <2>1. row.version < row'.version /\ row.version <= row'.version
    BY <1>1, <1>6, MarkedHasClaim DEF PutBack, WriteMarker, Accepts, WriteRow, Row
  <2>2. \A t \in Thread : ~Starting(t)
    BY <1>6 DEF PutBack
  <2>3. \A t \in Thread : Backed(t)' /\ (Writer(t)' => Writer(t))
    BY <1>3, <2>1, <2>2, AsBeforeStays
  <2>. QED  BY <1>2, <1>4, <2>1, <2>3, OverlapMoves
<1>. QED  BY <1>5, <1>6 DEF EnqueueMoves, EnqueueStep, EnqueueRead, EnqueueWrite, RunIsElsewhere

LEMMA CrashOverlaps ==
  ASSUME OverlapInv, FleetInv', NEW p \in Process, Crash(p) PROVE OverlapInv'
<1>1. row' = row /\ call \in [Caller -> Call]
  BY OverlapTypes DEF Crash, ProcessLost
<1>2. ASSUME NEW t \in Thread
      PROVE  \/ AsBefore(t)
             \/ Backed(t)' /\ ~Near(t)' /\ ~Current(t)' /\ (Starting(t)' => Starting(t))
  <2>1. CASE HostOf[t] = p
    <3>1. ses'[t].pc = "idle" /\ job'[t].pc = "none"
      BY <2>1 DEF Crash, ProcessLost, IdleSession, NoJob
    <3>2. ~Starting(t)' /\ ~Near(t)' /\ ~Current(t)' /\ ~Iterating(t)' /\ ~Executing(t)'
      BY <3>1 DEF Starting, Near, Current, Iterating, Executing, Readying
    <3>. QED  BY <3>1, <3>2 DEF Backed
  <2>2. CASE HostOf[t] # p
    BY <2>2 DEF Crash, ProcessLost, AsBefore
  <2>. QED  BY <2>1, <2>2
<1>3. \A w \in Worker : tick'[w] = tick[w] \/ tick'[w].pc = "poll"
  BY DEF Crash, Polling
<1>4. ASSUME NEW c \in Caller PROVE call'[c] = call[c] \/ call'[c].pc = "over"
  <2>1. Refused(call[c]).pc = "over"
    BY <1>1 DEF Refused, Call
  <2>. QED  BY <1>1, <2>1 DEF Crash
<1>. QED  BY <1>1, <1>2, <1>3, <1>4, QuietOverlaps

LEMMA ShutdownOverlaps ==
  ASSUME OverlapInv, FleetInv', NEW w \in Worker, Shutdown(w), UNCHANGED call PROVE OverlapInv'
<1>1. row' = row /\ job' = job /\ tick' = tick /\ call' = call
  BY DEF Shutdown
<1>2. ASSUME NEW t \in Thread PROVE AsBefore(t)
  <2>1. ses'[t] = ses[t] \/ ses'[t] = [ses[t] EXCEPT !.paused = TRUE]
    BY DEF Shutdown
  <2>2. ses[t] \in Session
    BY OverlapTypes
  <2>. QED  BY <1>1, <2>1, <2>2 DEF AsBefore, Session
<1>. QED  BY <1>1, <1>2, QuietOverlaps

LEMMA OverlapNext == OverlapInv /\ [Next]_vars /\ ~undercut' => OverlapInv'
<1>. SUFFICES ASSUME OverlapInv, [Next]_vars, ~undercut' PROVE OverlapInv'
  OBVIOUS
<1>1. FleetInv'
  BY FleetNext DEF OverlapInv
<1>2. ASSUME NEW t \in Thread, SessionMoves(t) PROVE OverlapInv'
  BY <1>1, <1>2, IteratingOverlaps, ReadyingOverlaps
<1>3. ASSUME NEW t \in Thread, ItemMoves(t) PROVE OverlapInv'
  BY <1>1, <1>3, ItemsOverlap
<1>4. ASSUME NEW w \in Worker, PollMoves(w) PROVE OverlapInv'
  BY <1>1, <1>4, PollsOverlap
<1>5. ASSUME NEW c \in Caller, CallMoves(c) PROVE OverlapInv'
  BY <1>1, <1>5, CallsOverlap
<1>6. ASSUME NEW c \in Caller, EnqueueMoves(c) PROVE OverlapInv'
  BY <1>1, <1>6, EnqueuesOverlap
<1>7. ASSUME NEW p \in MayCrash, Crash(p) PROVE OverlapInv'
  BY <1>1, <1>7, FleetAssumption, CrashOverlaps
<1>8. ASSUME NEW w \in MayStop, Shutdown(w), UNCHANGED call PROVE OverlapInv'
  BY <1>1, <1>8, FleetAssumption, ShutdownOverlaps
<1>9. ASSUME UNCHANGED vars PROVE OverlapInv'
  <2>1. row' = row /\ ses' = ses /\ job' = job /\ tick' = tick /\ call' = call
    BY <1>9 DEF vars, storeVars, sessionVars, queueVars
  <2>2. \A t \in Thread : AsBefore(t)
    BY <2>1 DEF AsBefore
  <2>. QED  BY <1>1, <2>1, <2>2, QuietOverlaps
<1>. QED  BY <1>2, <1>3, <1>4, <1>5, <1>6, <1>7, <1>8, <1>9 DEF Next

-----------------------------------------------------------------------------
(* What the versions alone guarantee, whatever puts the run back and when:   *)
(* of the sessions that have been told of nothing, one holds the row's.      *)

Behind(t) == Iterating(t) => ses[t].run.version <= row.version /\ Inside(ses[t])

OneCurrent == \A t, u \in Thread : Current(t) /\ Current(u) => t = u

FenceInv == FleetInv /\ (\A t \in Thread : Behind(t)) /\ OneCurrent

LEMMA FenceTypes ==
  ASSUME FenceInv
  PROVE  /\ SessionInv /\ row \in Row /\ row.version \in Nat
         /\ ses \in [Thread -> Session] /\ job \in [Thread -> Job]
         /\ tick \in [Worker -> Tick] /\ call \in [Caller -> Call]
         /\ \A t \in Thread : ses[t] \in Session /\ ses[t].run.version \in Nat
<1>1. /\ SessionInv /\ row \in Row /\ row.version \in Nat
      /\ ses \in [Thread -> Session] /\ job \in [Thread -> Job] /\ tick \in [Worker -> Tick]
  BY DEF FenceInv, FleetInv, CallInv, SessionInv, StoreTypeOK, SessionTypeOK, QueueTypeOK, Row
<1>2. call \in [Caller -> Call]
  BY DEF FenceInv, FleetInv, CallInv, SoundCall
<1>. QED  BY <1>1, <1>2 DEF Session, Row

\* A thread that holds what it held comes no nearer to the row.
LEMMA HeldFence ==
  ASSUME FenceInv, FleetInv', row.version <= row'.version, NEW t \in Thread,
         ses'[t].pc = ses[t].pc, ses'[t].next = ses[t].next,
         ses'[t].run = ses[t].run, ses'[t].contained = ses[t].contained
  PROVE  /\ Behind(t)'
         /\ Current(t)' => Current(t) /\ row'.version = row.version
<1>1. row.version \in Nat /\ ses[t].run.version \in Nat /\ Behind(t)
  BY FenceTypes DEF FenceInv
<1>2. row'.version \in Nat
  BY DEF FleetInv, CallInv, SessionInv, StoreTypeOK, Row
<1>3. (Iterating(t)' <=> Iterating(t)) /\ (Inside(ses[t]) => Inside(ses[t])')
  BY DEF Iterating, Inside
<1>4. Behind(t)'
  BY <1>1, <1>2, <1>3 DEF Behind
<1>5. PICK n : n = Reach(ses[t])
  OBVIOUS
<1>6. n \in Nat /\ Reach(ses[t])' = n /\ (Iterating(t) => n <= row.version + 1)
  BY <1>1, <1>5 DEF Reach, Late, Behind
<1>7. Current(t)' <=> Iterating(t) /\ row'.version < n
  BY <1>3, <1>6 DEF Current
<1>8. Current(t) <=> Iterating(t) /\ row.version < n
  BY <1>5 DEF Current
<1>9. Current(t)' => Current(t) /\ row'.version = row.version
  BY <1>1, <1>2, <1>6, <1>7, <1>8
<1>. QED  BY <1>4, <1>9

\* Steps of the others: a session goes on with what it has, or is over.
LEMMA FenceStays ==
  ASSUME FenceInv, FleetInv', row.version <= row'.version,
         \A t \in Thread :
           \/ /\ ses'[t].pc = ses[t].pc /\ ses'[t].next = ses[t].next
              /\ ses'[t].run = ses[t].run /\ ses'[t].contained = ses[t].contained
           \/ ses'[t].pc \in {"idle", "resume", "acquire"}
  PROVE  FenceInv'
<1>1. ASSUME NEW t \in Thread PROVE Behind(t)' /\ (Current(t)' => Current(t))
  <2>1. CASE ses'[t].pc \in {"idle", "resume", "acquire"}
    BY <2>1 DEF Behind, Current, Iterating
  <2>2. CASE /\ ses'[t].pc = ses[t].pc /\ ses'[t].next = ses[t].next
             /\ ses'[t].run = ses[t].run /\ ses'[t].contained = ses[t].contained
    BY <2>2, HeldFence
  <2>. QED  BY <2>1, <2>2
<1>. QED  BY <1>1 DEF FenceInv, OneCurrent

LEMMA SessionsKeepFence ==
  ASSUME FenceInv, FleetInv', NEW t \in Thread, SessionMoves(t) PROVE FenceInv'
<1>1. /\ SessionInv /\ row.version \in Nat /\ ses[t].run.version \in Nat /\ Behind(t)
      /\ ses \in [Thread -> Session] /\ SessionStep(t)
  BY FenceTypes DEF FenceInv, SessionMoves
<1>2. CASE Iterating(t)
  <2>1. Fenced(t)
    BY <1>1, <1>2, IteratingIsFenced DEF Behind
  <2>2. /\ row.version <= row'.version
        /\ row'.version # row.version => ses[t].run.version = row.version
    BY <1>1, <2>1 DEF Fenced, Accepts
  <2>3. ASSUME NEW u \in Thread PROVE Behind(u)' /\ (Current(u)' => Current(u))
    <3>1. CASE u = t
      BY <2>1, <3>1 DEF Fenced, Behind, Iterating, Inside, Within, Readying
    <3>2. CASE u # t
      BY <2>1, <2>2, <3>2, HeldFence DEF Fenced
    <3>. QED  BY <3>1, <3>2
  <2>. QED  BY <2>3 DEF FenceInv, OneCurrent
<1>3. CASE ~Iterating(t)
  <2>1. Readied(t)
    BY <1>1, <1>3, OthersAreReadied
  <2>2. /\ row.version <= row'.version
        /\ row'.version = row.version => ~Iterating(t)'
    BY <1>1, <2>1 DEF Readied, Iterating
  <2>3. Behind(t)'
    <3>1. CASE ses'[t].pc = "setup"
      <4>1. row' = ses[t].run /\ ses'[t].run = ses[t].run
        BY <2>1, <3>1 DEF Readied
      <4>2. ses'[t].run.version <= row'.version
        BY <1>1, <4>1
      <4>3. Inside(ses[t])'
        BY <3>1 DEF Inside, Within, Phase, Readying
      <4>. QED  BY <4>2, <4>3 DEF Behind
    <3>2. CASE ses'[t].pc # "setup"
      BY <2>1, <3>2 DEF Readied, Behind, Iterating
    <3>. QED  BY <3>1, <3>2
  <2>4. ASSUME NEW u \in Thread \ {t}
        PROVE  /\ Behind(u)'
               /\ Current(u)' => Current(u) /\ row'.version = row.version
    BY <2>1, <2>2, HeldFence DEF Readied
  <2>5. Current(t)' => row'.version # row.version
    BY <2>2 DEF Current
  <2>6. OneCurrent'
    BY <2>4, <2>5 DEF FenceInv, OneCurrent
  <2>. QED  BY <2>3, <2>4, <2>6 DEF FenceInv
<1>. QED  BY <1>2, <1>3

LEMMA FenceInit == Init => FenceInv
<1>1. ASSUME Init, NEW t \in Thread PROVE ~Iterating(t)
  BY <1>1 DEF Init, SessionInit, IdleSession, Iterating
<1>. QED  BY <1>1, FleetInit DEF FenceInv, OneCurrent, Behind, Current

\* A worker's write of a marker, and a call's hop, move the row on.
LEMMA FenceNext == FenceInv /\ [Next]_vars => FenceInv'
<1>. SUFFICES ASSUME FenceInv, [Next]_vars PROVE FenceInv'
  OBVIOUS
<1>1. FleetInv /\ FleetInv'
  BY FleetNext DEF FenceInv
<1>2. /\ row \in Row /\ row.version \in Nat /\ ses \in [Thread -> Session]
      /\ job \in [Thread -> Job] /\ tick \in [Worker -> Tick] /\ call \in [Caller -> Call]
      /\ control \in [Process -> Thread \cup {None}]
  BY FenceTypes DEF SessionInv, SessionTypeOK
<1>3. ASSUME ses' = ses, row.version <= row'.version PROVE FenceInv'
  BY <1>1, <1>3, FenceStays
<1>4. ASSUME NEW copy \in Row, NEW claim \in Claim, WriteMarker(copy, claim) \/ row' = row
      PROVE  row.version <= row'.version
  BY <1>1, <1>4, MarkerMovesOn
<1>5. row.version <= row.version
  BY <1>2
<1>6. ASSUME NEW t \in Thread, SessionMoves(t) PROVE FenceInv'
  BY <1>1, <1>6, SessionsKeepFence
<1>7. ASSUME NEW t \in Thread, ItemMoves(t) PROVE FenceInv'
  <2>1. job[t] \in Job /\ job[t].copy \in Row /\ job[t].attempt \in Nat
    BY <1>2 DEF Job
  <2>2. CASE Refuse(t) \/ RecordFailure(t) \/ ReleaseRead(t)
    BY <1>3, <1>5, <2>2 DEF Refuse, RecordFailure, ReleaseRead, RunIsElsewhere
  <2>3. CASE Execute(t) \/ Return(t)
    <3>1. \E s : Become(t, s) /\ s.pc \in {"idle", "resume", "acquire"}
      BY <2>1, <2>3 DEF Execute, Begin, Return, Goto, IdleSession, FirstPhase, Job
    <3>2. row' = row
      BY <2>3 DEF Execute, Begin, Return, LocalStep
    <3>3. \A u \in Thread : ses'[u] = ses[u] \/ ses'[u].pc \in {"idle", "resume", "acquire"}
      BY <1>2, <3>1 DEF Become
    <3>. QED  BY <1>1, <1>5, <3>2, <3>3, FenceStays
  <2>4. CASE ReleaseWrite(t)
    <3>1. FreeClaim(job[t].attempt) \in Claim
      BY <2>1, FreeClaimIsClaim
    <3>2. ses' = ses /\ (WriteMarker(job[t].copy, FreeClaim(job[t].attempt)) \/ row' = row)
      BY <2>4 DEF ReleaseWrite, PutBack
    <3>. QED  BY <1>3, <1>4, <2>1, <3>1, <3>2
  <2>. QED  BY <1>7, <2>2, <2>3, <2>4 DEF ItemMoves, ItemStep
<1>8. ASSUME NEW w \in Worker, PollMoves(w) PROVE FenceInv'
  <2>. DEFINE copy == tick[w].copy
              taken == [holder |-> IdOf[w], live |-> TRUE, attempt |-> copy.claim.attempt + 1]
              freed == FreeClaim(copy.claim.attempt)
  <2>1. copy \in Row
    BY <1>2 DEF Tick
  <2>2. taken \in Claim /\ freed \in Claim
    BY <2>1, QueueAssumption, FreeClaimIsClaim DEF Row, Claim
  <2>3. ses' = ses /\ (WriteMarker(copy, taken) \/ WriteMarker(copy, freed) \/ row' = row)
    BY <1>8 DEF PollMoves, PollStep, ClaimRead, ClaimWrite, SweepRead, SweepWrite, RunIsElsewhere
  <2>. HIDE DEF copy, taken, freed
  <2>. QED  BY <1>3, <1>4, <2>1, <2>2, <2>3
<1>9. ASSUME NEW c \in Caller, EnqueueMoves(c) PROVE FenceInv'
  <2>1. call[c].copy \in Row /\ FreeClaim(0) \in Claim
    BY <1>2, FreeClaimIsClaim DEF Call
  <2>2. ses' = ses /\ (WriteMarker(call[c].copy, FreeClaim(0)) \/ row' = row)
    BY <1>9 DEF EnqueueMoves, EnqueueStep, EnqueueRead, EnqueueWrite, PutBack, RunIsElsewhere
  <2>. QED  BY <1>3, <1>4, <2>1, <2>2
<1>10. ASSUME NEW c \in Caller, CallMoves(c) PROVE FenceInv'
  <2>1. CASE \E kind \in CallKinds \cap {"pause", "cancel"} : Signal(c, kind)
    <3>1. row' = row
      BY <2>1 DEF Signal
    <3>2. ASSUME NEW u \in Thread
          PROVE  /\ ses'[u].pc = ses[u].pc /\ ses'[u].next = ses[u].next
                 /\ ses'[u].run = ses[u].run /\ ses'[u].contained = ses[u].contained
      <4>1. \/ ses'[u] = ses[u]
            \/ ses'[u] = [ses[u] EXCEPT !.paused = TRUE]
            \/ ses'[u] = [ses[u] EXCEPT !.cancelled = TRUE]
        BY <1>2, <2>1, ControlAssumption DEF Signal
      <4>2. ses[u] \in Session
        BY <1>2
      <4>. QED  BY <4>1, <4>2 DEF Session
    <3>. QED  BY <1>1, <1>5, <3>1, <3>2, FenceStays
  <2>2. CASE \/ \E kind \in CallKinds : MakeCall(c, kind)
             \/ ReadRow(c) \/ LoadVersion(c) \/ SaveCheckpoint(c)
    BY <1>3, <1>5, <2>2 DEF MakeCall, ReadRow, LoadVersion, SaveCheckpoint, RunIsElsewhere
  <2>3. CASE WriteHop(c)
    <3>. DEFINE hopped == [call[c].copy EXCEPT !.status = Head(call[c].path), !.version = @ + 1]
    <3>1. call[c].copy \in Row /\ call[c].copy.version \in Nat
      BY <1>2 DEF Call, Row
    <3>2. hopped.version = call[c].copy.version + 1
      BY <3>1 DEF Row
    <3>3. ses' = ses /\ (row' = row \/ (row.version = call[c].copy.version /\ row' = hopped))
      BY <2>3 DEF WriteHop, WriteRow, Accepts
    <3>. HIDE DEF hopped
    <3>4. row.version <= row'.version
      BY <1>2, <3>1, <3>2, <3>3
    <3>. QED  BY <1>3, <3>3, <3>4
  <2>. QED  BY <1>10, <2>1, <2>2, <2>3 DEF CallMoves, CallStep
<1>11. ASSUME NEW p \in MayCrash, Crash(p) PROVE FenceInv'
  <2>1. row' = row /\ \A t \in Thread : ses'[t] = ses[t] \/ ses'[t].pc = "idle"
    BY <1>11 DEF Crash, ProcessLost, IdleSession
  <2>. QED  BY <1>1, <1>5, <2>1, FenceStays
<1>12. ASSUME NEW w \in MayStop, Shutdown(w) PROVE FenceInv'
  <2>1. ASSUME NEW t \in Thread
        PROVE  /\ ses'[t].pc = ses[t].pc /\ ses'[t].next = ses[t].next
               /\ ses'[t].run = ses[t].run /\ ses'[t].contained = ses[t].contained
    <3>1. ses'[t] = ses[t] \/ ses'[t] = [ses[t] EXCEPT !.paused = TRUE]
      BY <1>12 DEF Shutdown
    <3>2. ses[t] \in Session
      BY <1>2
    <3>. QED  BY <3>1, <3>2 DEF Session
  <2>2. row' = row
    BY <1>12 DEF Shutdown
  <2>. QED  BY <1>1, <1>5, <2>1, <2>2, FenceStays
<1>13. ASSUME UNCHANGED vars PROVE FenceInv'
  BY <1>3, <1>5, <1>13 DEF vars, storeVars, sessionVars
<1>. QED  BY <1>6, <1>7, <1>8, <1>9, <1>10, <1>11, <1>12, <1>13 DEF Next

-----------------------------------------------------------------------------

\* What was put back under a starting worker stays so.
LEMMA UndercutStays == undercut /\ [Next]_vars => undercut'
BY DEF Next, SessionMoves, ItemMoves, PollMoves, CallMoves, EnqueueMoves, vars, queueVars,
       ItemStep, Refuse, Execute, Return, RecordFailure, ReleaseRead, ReleaseWrite, PutBack,
       PollStep, ClaimRead, ClaimWrite, SweepRead, SweepWrite,
       EnqueueStep, EnqueueRead, EnqueueWrite, Crash, Shutdown

WriterInv == FenceInv /\ (undercut \/ OverlapInv)

LEMMA WriterInductive == Spec => []WriterInv
<1>1. Init => WriterInv
  BY OverlapInit, FenceInit DEF WriterInv
<1>2. WriterInv /\ [Next]_vars => WriterInv'
  BY FenceNext, OverlapNext, UndercutStays DEF WriterInv
<1>. QED  BY <1>1, <1>2, PTL DEF Spec

\* Of the sessions that hold the run at most one holds the version in the row, for
\* any number of attempts, claims, calls, crashes and shutdowns, however long an
\* execution outlives its claim.  For two sessions that were told of nothing it is
\* the compare-and-set: each of them wrote the version it holds.  A session that was
\* refused a write raised its version in memory all the same, and stays behind the row
\* because it lost the run by a write, a claim and the write of INITIALIZING - unless a
\* release or an enqueueing call undid the claim before that last write.
THEOREM OneSessionWrites == Spec => []OneSessionIsCurrent
<1>1. WriterInv => OneSessionIsCurrent
  <2>. SUFFICES ASSUME WriterInv, NEW t \in Thread, NEW u \in Thread,
                       Iterating(t), Accepts(ses[t].run.version),
                       Iterating(u), Accepts(ses[u].run.version),
                       undercut => Unwarned(t) /\ Unwarned(u)
                PROVE  t = u
    BY DEF OneSessionIsCurrent
  <2>1. /\ row.version \in Nat
        /\ ses[t].run.version = row.version /\ ses[u].run.version = row.version
    BY FenceTypes DEF WriterInv, Accepts
  <2>2. CASE undercut
    <3>1. Current(t) /\ Current(u)
      BY <2>1, <2>2 DEF Unwarned, At, Current, Reach, Late
    <3>. QED  BY <3>1 DEF WriterInv, FenceInv, OneCurrent
  <2>3. CASE ~undercut
    <3>1. Writer(t) /\ Writer(u)
      BY <2>1 DEF Writer, Near, Reach
    <3>. QED  BY <2>3, <3>1 DEF WriterInv, OverlapInv, OneWriter
  <2>. QED  BY <2>2, <2>3
<1>. QED  BY <1>1, WriterInductive, PTL

\* A session that may write the row, and has not been told otherwise by a refused
\* write, has a live claim of its own worker in it: losing the claim and losing the
\* row's version go together, until the run is put back under a worker that is
\* getting it started.
THEOREM WriterHoldsTheClaim == Spec => []CurrentSessionHoldsClaim
<1>1. WriterInv => CurrentSessionHoldsClaim
  <2>1. ASSUME WriterInv, NEW t \in Thread, Iterating(t), Unwarned(t),
               Accepts(ses[t].run.version), ~undercut
        PROVE  Mine(t)
    <3>1. Current(t)
      BY <2>1, FenceTypes DEF WriterInv, Accepts, Unwarned, At, Current, Reach, Late
    <3>. QED  BY <2>1, <3>1 DEF WriterInv, OverlapInv, Backed
  <2>. QED  BY <2>1 DEF CurrentSessionHoldsClaim, Mine
<1>. QED  BY <1>1, WriterInductive, PTL
============================================================================
