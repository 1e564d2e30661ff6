---------------------------- MODULE InlineProofs ----------------------------
(***************************************************************************)
(* What holds of a process that executes its runs itself, for every number *)
(* of threads, calls and crashes, every state table and every limit: the   *)
(* types, the order of the two stored versions; as long as a run does not  *)
(* outlive its lock, that one session of a process iterates at a time; and *)
(* where there is one process, with the store in it, that an ending stays  *)
(* and that no run is left half way.                                       *)
(***************************************************************************)
EXTENDS InlineDeployment, LifecycleProofs

\* The deployment's own variable is disturbed by Restart alone.
IndInv == CallInv /\ crashes \in Nat

LEMMA InitEstablishes == Init => IndInv
<1>. SUFFICES ASSUME Init PROVE IndInv
  OBVIOUS
<1>1. row \in Row /\ row.version = 1 /\ saved = 1
  BY StatusesAreStates, FreeClaimIsClaim DEF Init, StoreInit, Row
<1>2. IdleSession \in Ready
  BY IdleSessionIsReady
<1>3. ses \in [Thread -> Returning] /\ \A t \in Thread : ~At(t, "persistState")
  BY <1>2 DEF Init, SessionInit, At, Ready
<1>4. SessionTypeOK
  BY <1>3 DEF Init, SessionInit, SessionTypeOK, Returning
<1>5. SessionInv
  BY <1>1, <1>3, <1>4 DEF SessionInv, StoreTypeOK, VersionsInOrder
<1>6. call \in [Caller -> SoundCall]
  BY NoCallIsSound DEF Init, ControlInit
<1>. QED  BY <1>5, <1>6 DEF IndInv, CallInv, Init

LEMMA NextKeeps == IndInv /\ [Next]_vars => IndInv'
<1>. SUFFICES ASSUME IndInv, [Next]_vars PROVE IndInv'
  OBVIOUS
<1>1. CallInv /\ SessionInv /\ call \in [Caller -> SoundCall] /\ crashes \in Nat
  BY DEF IndInv, CallInv
<1>2. ASSUME NEW t \in Thread, SessionStep(t), UNCHANGED <<call, crashes>> PROVE IndInv'
  <2>1. SessionInv'
    BY <1>1, <1>2, SessionStepKeepsInv
  <2>. QED  BY <1>1, <1>2, <2>1 DEF IndInv, CallInv
<1>3. ASSUME NEW t \in Thread, ReturnInline(t), UNCHANGED <<call, crashes>> PROVE IndInv'
  <2>1. SessionInv'
    BY <1>1, <1>3, IdleSessionIsReady, LocalQuiet DEF ReturnInline, BecomeOneOf
  <2>. QED  BY <1>1, <1>3, <2>1 DEF IndInv, CallInv
<1>4. ASSUME NEW c \in Caller, CallStep(c), UNCHANGED crashes PROVE IndInv'
  BY <1>1, <1>4, CallStepKeepsInv DEF IndInv
<1>5. ASSUME NEW c \in Caller, NEW t \in Thread, DispatchInline(c, t), UNCHANGED crashes
      PROVE  IndInv'
  <2>1. call[c] \in SoundCall
    BY <1>1
  <2>2. CallAt(c, "dispatch") => FirstPhase(call[c].kind) \in Phase \ {"persistState"}
    BY <2>1 DEF SoundCall, CallAt, FirstPhase, Phase
  <2>3. SessionInv'
    BY <1>1, <1>5, <2>2, BeginKeeps DEF DispatchInline
  <2>4. Over(call[c]) \in SoundCall
    BY <2>1 DEF Over, SoundCall, Call, CallPhase
  <2>5. call' \in [Caller -> SoundCall]
    BY <1>1, <1>5, <2>4 DEF DispatchInline, Answer
  <2>. QED  BY <1>1, <1>5, <2>3, <2>5 DEF IndInv, CallInv
<1>6. ASSUME NEW p \in Process, Restart(p) PROVE IndInv'
  <2>1. SessionInv'
    BY <1>1, <1>6, ProcessLostKeeps DEF Restart
  <2>2. \A c \in Caller : Refused(call[c]) \in SoundCall /\ call[c] \in SoundCall
    BY <1>1, EndsAreSound DEF SoundCall
  <2>3. call' \in [Caller -> SoundCall] /\ crashes' \in Nat
    BY <1>1, <1>6, <2>2 DEF Restart
  <2>. QED  BY <2>1, <2>3 DEF IndInv, CallInv
<1>7. CASE UNCHANGED vars
  BY <1>1, <1>7 DEF vars, storeVars, sessionVars, IndInv, CallInv, SessionInv, StoreTypeOK,
                    SessionTypeOK, VersionsInOrder, At
<1>. QED  BY <1>2, <1>3, <1>4, <1>5, <1>6, <1>7 DEF Next

LEMMA Inductive == Spec => []IndInv
BY InitEstablishes, NextKeeps, PTL DEF Spec

\* Every variable keeps the type declared for it: no write of a session or of an
\* operator's call puts the row, the locks or a call in a state the code's types
\* do not have.
THEOREM TypesHold == Spec => []TypeOK
<1>1. IndInv => TypeOK
  BY DEF IndInv, CallInv, SoundCall, SessionInv, TypeOK, ControlTypeOK
<1>. QED  BY <1>1, Inductive, PTL

\* The stored agent state is never newer than the row it belongs to: persist's
\* two writes, a restore and a crash between any of them included.
THEOREM SavedIsNeverAhead == Spec => []SavedNeverAhead
<1>1. IndInv => SavedNeverAhead
  BY DEF IndInv, CallInv, SessionInv, VersionsInOrder, SavedNeverAhead
<1>. QED  BY <1>1, Inductive, PTL

-----------------------------------------------------------------------------
(* The run lock.                                                            *)

\* From the lock's acquisition to the finally that gives it back.
Held(t) == ses[t].pc \notin {"idle", "resume", "retry", "requeue", "acquire", "left"}

HeldByOwner == \A t \in Thread : Held(t) => lock[HostOf[t]] = t

LockInv == IndInv /\ HeldByOwner

\* Only one thread changes, and it did hold the lock: the owners stay.
LEMMA HolderKeeps ==
  ASSUME HeldByOwner, NEW t \in Thread, Held(t), NEW s, Become(t, s), lock' = lock
  PROVE  HeldByOwner'
BY DEF HeldByOwner, Held, Become

\* Only one thread changes, to a phase that does not hold the lock.
LEMMA OutsiderKeeps ==
  ASSUME IndInv, HeldByOwner, NEW t \in Thread, NEW s, Become(t, s), lock' = lock,
         s.pc \in {"idle", "resume", "retry", "requeue", "acquire", "left"}
  PROVE  HeldByOwner'
<1>1. ses \in [Thread -> Returning]
  BY DEF IndInv, CallInv, SessionInv
<1>. QED  BY <1>1 DEF HeldByOwner, Held, Become

\* The steps of a thread inside start's try leave the lock alone until the last.
LEMMA InsideKeeps ==
  ASSUME HeldByOwner, NEW t \in Thread,
         \/ LoopStep(t) \/ PersistRow(t) \/ PersistState(t) \/ Settle(t) \/ Contain(t)
         \/ Load(t) \/ WriteInitializing(t) \/ Setup(t)
  PROVE  HeldByOwner'
<1>1. CASE PersistRow(t) \/ PersistState(t) \/ Settle(t) \/ Contain(t)
  BY <1>1, HolderKeeps
     DEF PersistRow, PersistState, Settle, Contain, Advance, AdvanceTo, BecomeOneOf, LocalStep,
         At, Held
<1>2. CASE Load(t) \/ WriteInitializing(t) \/ Setup(t)
  BY <1>2, HolderKeeps DEF Load, WriteInitializing, Setup, LocalStep, At, Held
<1>3. CASE Top(t) \/ Look(t) \/ Think(t) \/ DecisionRecovery(t) \/ Recorded(t) \/ Repair(t)
  BY <1>3, HolderKeeps
     DEF Top, Look, Think, DecisionRecovery, Recorded, Repair, BecomeOneOf, LocalStep, At, Held
<1>4. CASE StepDone(t) \/ Complete(t) \/ Judge(t) \/ Act(t) \/ RetryAction(t)
  BY <1>4, HolderKeeps
     DEF StepDone, Complete, Judge, Act, RetryAction, BecomeOneOf, LocalStep, At, Held
<1>5. CASE Observe(t) \/ Plan(t) \/ Decide(t) \/ DecisionFailed(t)
  BY <1>5, HolderKeeps
     DEF Observe, Plan, Decide, DecisionFailed, Advance, AdvanceTo, BecomeOneOf, At, Held
<1>6. CASE Recover(t) \/ Verify(t) \/ Rework(t)
  BY <1>6, HolderKeeps
     DEF Recover, Verify, Rework, Advance, AdvanceTo, BecomeOneOf, At, Held
<1>. QED  BY <1>1, <1>2, <1>3, <1>4, <1>5, <1>6 DEF LoopStep

\* The steps outside it: a lock is taken when nobody has it, and given back by
\* its owner.
LEMMA OutsideKeeps ==
  ASSUME IndInv, HeldByOwner, ~LockExpires, NEW t \in Thread,
         Resume(t) \/ Retry(t) \/ Requeue(t) \/ Acquire(t) \/ Leave(t)
  PROVE  HeldByOwner'
<1>1. /\ ses \in [Thread -> Returning] /\ lock \in [Process -> Thread \cup {None}]
      /\ HostOf \in [Thread -> Process] /\ None \notin Thread
  BY SessionAssumption DEF IndInv, CallInv, SessionInv, SessionTypeOK
<1>2. CASE Resume(t) \/ Retry(t) \/ Requeue(t)
  <2>1. PICK s : Become(t, s) /\ s.pc \in {"requeue", "acquire", "left"}
    <3>1. ses[t] \in Session
      BY <1>1 DEF Returning
    <3>2. \A pc \in Phase : Goto(ses[t], pc).pc = pc /\ Rejecting(ses[t], pc).pc = pc
      BY <3>1 DEF Goto, Rejecting, Session
    <3>3. \A r : [Goto(ses[t], "requeue") EXCEPT !.run = r].pc = "requeue"
      BY <3>1 DEF Goto, Session
    <3>4. {"requeue", "acquire", "left"} \subseteq Phase
      BY DEF Phase
    <3>. QED  BY <1>2, <3>2, <3>3, <3>4 DEF Resume, Retry, Requeue
  <2>2. lock' = lock
    BY <1>2 DEF Resume, Retry, Requeue, LocalStep
  <2>. QED  BY <2>1, <2>2, OutsiderKeeps
<1>3. CASE Acquire(t)
  <2>1. CASE lock' = lock /\ Become(t, Rejecting(ses[t], "left"))
    BY <1>1, <2>1, OutsiderKeeps DEF Rejecting, Returning, Session
  <2>2. CASE lock[HostOf[t]] = None /\ lock' = [lock EXCEPT ![HostOf[t]] = t]
    <3>1. \A u \in Thread : Held(u) => HostOf[u] # HostOf[t]
      BY <1>1, <2>2 DEF HeldByOwner
    <3>2. \A u \in Thread \ {t} : ses'[u] = ses[u]
      <4>1. PICK s : Become(t, s)
        BY <1>3 DEF Acquire
      <4>. QED  BY <1>1, <4>1 DEF Become
    <3>3. lock[HostOf[t]] = None => HostOf[t] \in DOMAIN lock
      BY <1>1
    <3>. QED  BY <1>1, <2>2, <3>1, <3>2 DEF HeldByOwner, Held
  <2>. QED  BY <1>3, <2>1, <2>2 DEF Acquire
<1>4. CASE Leave(t)
  <2>1. lock[HostOf[t]] = t
    BY <1>4 DEF Leave, At, Held, HeldByOwner
  <2>2. \A u \in Thread \ {t} : ses'[u] = ses[u] /\ (Held(u) => HostOf[u] # HostOf[t])
    BY <1>4, <2>1 DEF Leave, Become, HeldByOwner
  <2>3. ses'[t].pc = "left"
    BY <1>1, <1>4 DEF Leave, Become, IdleSession
  <2>. QED  BY <1>1, <1>4, <2>2, <2>3 DEF Leave, HeldByOwner, Held
<1>. QED  BY <1>2, <1>3, <1>4

LEMMA LockNextKeeps == ~LockExpires => (LockInv /\ [Next]_vars => LockInv')
<1>. SUFFICES ASSUME ~LockExpires, LockInv, [Next]_vars PROVE LockInv'
  OBVIOUS
<1>1. IndInv' /\ IndInv /\ HeldByOwner
  BY NextKeeps DEF LockInv
<1>2. /\ ses \in [Thread -> Returning] /\ lock \in [Process -> Thread \cup {None}]
      /\ control \in [Process -> Thread \cup {None}] /\ call \in [Caller -> SoundCall]
      /\ HostOf \in [Thread -> Process] /\ None \notin Thread
  BY <1>1, SessionAssumption DEF IndInv, CallInv, SessionInv, SessionTypeOK
<1>3. ASSUME NEW t \in Thread, SessionStep(t) PROVE HeldByOwner'
  BY <1>1, <1>3, InsideKeeps, OutsideKeeps DEF SessionStep, StartStep
<1>4. ASSUME NEW t \in Thread, ReturnInline(t) PROVE HeldByOwner'
  BY <1>1, <1>4, OutsiderKeeps DEF ReturnInline, LocalStep, IdleSession
<1>5. ASSUME NEW c \in Caller, CallStep(c) PROVE HeldByOwner'
  <2>1. lock' = lock /\ \A u \in Thread : ses'[u].pc = ses[u].pc
    <3>1. CASE \E kind \in CallKinds : Signal(c, kind)
      BY <1>2, <3>1 DEF Signal, Returning, Session
    <3>2. CASE RunIsElsewhere \/ WriteHop(c) \/ SaveCheckpoint(c)
      BY <3>2 DEF RunIsElsewhere, WriteHop, SaveCheckpoint
    <3>. QED  BY <1>5, <3>1, <3>2 DEF CallStep, MakeCall, ReadRow, LoadVersion
  <2>. QED  BY <1>1, <2>1 DEF HeldByOwner, Held
<1>6. ASSUME NEW c \in Caller, NEW t \in Thread, DispatchInline(c, t) PROVE HeldByOwner'
  <2>1. FirstPhase(call[c].kind) \in {"acquire", "resume", "retry"}
    BY <1>2, <1>6 DEF DispatchInline, SoundCall, CallAt, FirstPhase
  <2>2. Goto(IdleSession, FirstPhase(call[c].kind)).pc \in {"acquire", "resume", "retry"}
    BY <2>1 DEF Goto, IdleSession
  <2>. QED  BY <1>1, <1>6, <2>2, OutsiderKeeps DEF DispatchInline, Begin
<1>7. ASSUME NEW p \in Process, Restart(p) PROVE HeldByOwner'
  <2>1. \A u \in Thread : HostOf[u] = p => ses'[u].pc = "idle"
    BY <1>7 DEF Restart, ProcessLost, IdleSession
  <2>2. \A u \in Thread : HostOf[u] # p => ses'[u] = ses[u] /\ lock'[HostOf[u]] = lock[HostOf[u]]
    BY <1>2, <1>7 DEF Restart, ProcessLost
  <2>. QED  BY <1>1, <2>1, <2>2 DEF HeldByOwner, Held
<1>8. ASSUME UNCHANGED vars PROVE HeldByOwner'
  BY <1>1, <1>8 DEF vars, sessionVars, HeldByOwner, Held
<1>9. HeldByOwner'
  BY <1>3, <1>4, <1>5, <1>6, <1>7, <1>8 DEF Next
<1>. QED  BY <1>1, <1>9 DEF LockInv

\* Of the sessions of one process at most one iterates, provided that no run
\* outlives its lock: however many starts, resumes and retries are dispatched,
\* and whatever ends them, an error, a missing slot or a crash included.
THEOREM OneSessionAtATime == ~LockExpires => (Spec => []OneSession)
<1>. SUFFICES ASSUME ~LockExpires PROVE Spec => []OneSession
  OBVIOUS
<1>1. Init => LockInv
  <2>. SUFFICES ASSUME Init PROVE LockInv
    OBVIOUS
  <2>1. \A t \in Thread : ses[t].pc = "idle"
    BY DEF Init, SessionInit, IdleSession
  <2>. QED  BY <2>1, InitEstablishes DEF LockInv, HeldByOwner, Held
<1>2. LockInv /\ [Next]_vars => LockInv'
  BY LockNextKeeps
<1>3. LockInv => OneSession
  BY DEF LockInv, HeldByOwner, Held, OneSession, Iterating
<1>. QED  BY <1>1, <1>2, <1>3, PTL DEF Spec

-----------------------------------------------------------------------------
(* What becomes of the run in one process with an embedded store.           *)

\* The deployment of dispatcher.ts's in-process executor over embedded-store.ts:
\* one process with the store in it.  Its runs end before their lock does, and
\* no call puts an older state back.
InOneProcess ==
  /\ \A p, q \in Process : p = q
  /\ Embedded /\ ~LockExpires /\ "restore" \notin CallKinds

\* Where a run may rest, which statuses an execution goes on from, and which
\* ones a resume or a retry puts back in the queue.
Resting == Terminal \cup {"CREATED", "QUEUED", "WAITING", "PAUSED"}

Running == RunState \ (Terminal \cup {"PAUSED"})

Requeueable == {"FAILED", "TIMED_OUT", "PAUSED"}

\* The phases of iterate, without persist and without the endings.
Looping == Within \ {"leave", "setup", "contain", "settle", "persistRow", "persistState"}

\* At the last persist, behind which start leaves the loop.
Leaving(s) == s.pc \in {"persistRow", "persistState"} /\ s.next = "leave"

\* The session's copy is the row, as far as its next write depends on it.
Same(s) == s.run.version = row.version /\ s.run.status = row.status

\* The run was requeued between the first write of its ending and the last.
Overtaken(s) == row.status = "QUEUED" /\ s.run.status \in Requeueable

\* Where an iterating session may be, next to the row: level with it, or at an
\* ending that a requeue overtook.
Follows(s) ==
  \/ ~Leaving(s) /\ Same(s) /\ row.status \in Running
  \/ /\ s.pc = "contain" \/ (s.pc = "settle" /\ s.contained)
     /\ s.run.version = row.version /\ Overtaken(s)
  \/ Leaving(s) /\ s.pc = "persistRow" /\ Same(s)
  \/ Leaving(s) /\ s.pc = "persistRow" /\ s.contained /\ s.run.version = row.version /\ Overtaken(s)
  \/ Leaving(s) /\ s.pc = "persistRow" /\ s.run.version + 1 = row.version /\ Overtaken(s)
  \/ Leaving(s) /\ s.pc = "persistState"

\* Only an ending handles an exception, only a resting status is headed for, and
\* persist comes back to iterate or leaves.
Shaped(s) ==
  /\ s.contained => s.pc = "settle" \/ Leaving(s)
  /\ s.pc = "settle" => s.goal \in Terminal \cup {"WAITING", "PAUSED"}
  /\ s.pc \in {"persistRow", "persistState"} => s.next \in Looping \cup {"leave"}

\* The state version the session has is the stored one, unless it handles an
\* exception or has not read it yet.
KnowsSaved(s) ==
  s.contained \/ s.pc \in {"contain", "setup"}
    \/ saved = (IF s.pc = "persistState" THEN s.expected ELSE s.state)

\* A start handles no exception, and a row that was read to be written one
\* version on had the status that the write is for.
Pending(s) ==
  /\ s.pc \in Readying => ~s.contained
  /\ s.pc \in {"requeue", "init"} =>
       /\ s.run.version <= row.version + 1
       /\ s.run.status = (IF s.pc = "requeue" THEN "QUEUED" ELSE "INITIALIZING")
       /\ s.run.version = row.version + 1 =>
            row.status \in (IF s.pc = "requeue" THEN Requeueable ELSE Running)

\* A walk through the table: no hop but the last leads to an ending.
Walk(status, path) ==
  IF path = <<>> THEN status \in Resting
  ELSE /\ status \notin Terminal
       /\ \A i \in 1..(Len(path) - 1) : path[i] \notin Terminal
       /\ path[Len(path)] \in Resting

\* A call that moves the row is behind it, or alone with it.
Hops(k) ==
  k.pc = "hop" =>
    /\ k.copy.version <= row.version
    /\ Walk(k.copy.status, k.path)
    /\ k.copy.version = row.version =>
         k.copy.status = row.status /\ \A t \in Thread : ~Iterating(t)

Registered(t) == Iterating(t) \/ At(t, "init") => control[HostOf[t]] = t

\* Nothing is left half way: a run without a resting status is being executed or
\* moved, and an execution that leaves has given it one.
SomebodyMoves ==
  /\ \/ row.status \in Resting
     \/ \E t \in Thread : Iterating(t)
     \/ \E c \in Caller : CallAt(c, "hop") /\ call[c].copy.version = row.version
  /\ \A t \in Thread : Iterating(t) /\ Leaving(ses[t]) => row.status \in Resting

Composed(t) == Iterating(t) => Follows(ses[t]) /\ Shaped(ses[t]) /\ KnowsSaved(ses[t])

RunInv ==
  /\ \A t \in Thread : Registered(t) /\ Pending(ses[t])
  /\ \A t \in Thread : Composed(t)
  /\ \A c \in Caller : Hops(call[c]) /\ call[c].pc \in {"none", "hop", "dispatch", "over"}
  /\ ~SetupFails /\ crashes = 0 => SomebodyMoves

-----------------------------------------------------------------------------

\* Session r is s but for its flags and its counts.
Alike(s, r) ==
  /\ r.pc = s.pc /\ r.next = s.next /\ r.goal = s.goal /\ r.run = s.run
  /\ r.state = s.state /\ r.expected = s.expected /\ r.contained = s.contained

\* A call is left alone, or is answered without giving up a row left half way.
Answered(c) ==
  \/ call'[c] = call[c]
  \/ /\ call'[c].pc \in {"none", "hop", "dispatch", "over"}
     /\ Hops(call'[c])
     /\ CallAt(c, "hop") /\ call[c].copy.version = row.version => row.status \in Resting

\* A step that writes nothing: what matters of the executions stays, and whoever
\* begins or ends one reads the row.
LEMMA RowStays ==
  ASSUME RunInv, row' = row, saved' = saved, crashes' = crashes,
         \A u \in Thread : \/ Alike(ses[u], ses'[u])
                           \/ ~Iterating(u) /\ ~Iterating(u)' /\ Pending(ses'[u]),
         \A u \in Thread : Registered(u)',
         \A c \in Caller : Answered(c)
  PROVE  RunInv'
<1>1. \A u \in Thread : Iterating(u)' <=> Iterating(u)
  BY DEF Iterating, Alike
<1>2. ASSUME NEW u \in Thread PROVE Pending(ses[u])'
  BY <1>2 DEF RunInv, Alike, Pending
<1>3. ASSUME NEW u \in Thread PROVE Composed(u)'
  <2>1. CASE ~Iterating(u)
    BY <1>1, <2>1 DEF Composed
  <2>2. CASE Iterating(u)
    <3>1. Alike(ses[u], ses'[u]) /\ Composed(u)
      BY <2>2 DEF RunInv
    <3>2. Follows(ses[u])'
      BY <2>2, <3>1 DEF Composed, Alike, Follows, Leaving, Same, Overtaken
    <3>3. Shaped(ses[u])' /\ KnowsSaved(ses[u])'
      BY <2>2, <3>1 DEF Composed, Alike, Shaped, KnowsSaved, Leaving
    <3>. QED  BY <3>2, <3>3 DEF Composed
  <2>. QED  BY <2>1, <2>2
<1>4. ASSUME NEW c \in Caller
      PROVE  Hops(call[c])' /\ call'[c].pc \in {"none", "hop", "dispatch", "over"}
  <2>1. Hops(call'[c]) /\ call'[c].pc \in {"none", "hop", "dispatch", "over"}
    BY DEF RunInv, Answered
  <2>. QED  BY <1>1, <2>1 DEF Hops
<1>5. ASSUME ~SetupFails, crashes = 0 PROVE SomebodyMoves'
  <2>1. SomebodyMoves
    BY <1>5 DEF RunInv
  <2>2. ASSUME NEW c \in Caller, CallAt(c, "hop"), call[c].copy.version = row.version,
               row.status \notin Resting
        PROVE  CallAt(c, "hop")' /\ call'[c].copy.version = row'.version
    BY <2>2 DEF Answered, CallAt
  <2>3. ASSUME NEW u \in Thread, Iterating(u)', Leaving(ses'[u]) PROVE row.status \in Resting
    <3>1. Alike(ses[u], ses'[u]) /\ Iterating(u)
      BY <1>1, <2>3
    <3>. QED  BY <2>1, <2>3, <3>1 DEF Alike, Leaving, SomebodyMoves
  <2>4. \/ row'.status \in Resting
        \/ \E u \in Thread : Iterating(u)'
        \/ \E c \in Caller : CallAt(c, "hop")' /\ call'[c].copy.version = row'.version
    BY <1>1, <2>1, <2>2 DEF SomebodyMoves
  <2>. QED  BY <2>3, <2>4 DEF SomebodyMoves, Leaving
<1>. QED  BY <1>2, <1>3, <1>4, <1>5 DEF RunInv

\* At most one thread is inside start.
LEMMA OneIsInside ==
  ASSUME InOneProcess, LockInv, NEW t \in Thread, NEW u \in Thread, Held(t), Held(u)
  PROVE  t = u
<1>1. HostOf[t] = HostOf[u]
  BY SessionAssumption DEF InOneProcess
<1>. QED  BY <1>1 DEF LockInv, HeldByOwner

\* A step of the thread inside start that may write the row: the others are
\* outside, and every call that reads the row as it was is behind it afterwards.
LEMMA HolderSteps ==
  ASSUME InOneProcess, LockInv, RunInv, NEW t \in Thread, Iterating(t),
         row'.version \in Nat,
         \A u \in Thread \ {t} : ses'[u] = ses[u],
         call' = call, crashes' = crashes,
         \A u \in Thread : Iterating(u)' => control'[HostOf[u]] = u,
         \/ row' = row
         \/ row'.version = row.version /\ row.status \in Running
         \/ row'.version = row.version + 1,
         ses'[t].pc \notin Readying, Composed(t)',
         ~SetupFails /\ crashes = 0 =>
           (~Iterating(t)' \/ Leaving(ses'[t]) => row'.status \in Resting)
  PROVE  RunInv'
<1>1. ASSUME NEW u \in Thread, u # t
      PROVE  ~Held(u) /\ ses'[u] = ses[u] /\ ~Iterating(u) /\ ~Iterating(u)' /\ ~At(u, "init")
  <2>1. Held(t) /\ ~Held(u)
    BY <1>1, OneIsInside DEF Held, Iterating
  <2>. QED  BY <1>1, <2>1 DEF Held, Iterating, At
<1>2. row.version \in Nat /\ \A u \in Thread : ses[u].run.version \in Nat
  <2>1. SessionInv
    BY DEF LockInv, IndInv, CallInv
  <2>. QED  BY <2>1, HeldSession DEF Row
<1>3. \A c \in Caller : call[c].copy.version \in Nat
  BY DEF LockInv, IndInv, CallInv, SoundCall, Call, Row
<1>4. ASSUME NEW u \in Thread PROVE Registered(u)' /\ Pending(ses[u])'
  <2>1. CASE u = t
    BY <2>1 DEF Registered, Pending, Readying, At
  <2>2. CASE u # t
    <3>1. Pending(ses[u]) /\ ses'[u] = ses[u] /\ ~Iterating(u)' /\ ses[u].pc # "init"
      BY <1>1, <2>2 DEF RunInv, At
    <3>2. row.status \in Running => row.status \notin Requeueable
      BY StatesAssumption DEF Running, Requeueable
    <3>3. ASSUME ses[u].pc = "requeue" PROVE Pending(ses[u])'
      <4>1. /\ ~ses[u].contained /\ ses[u].run.status = "QUEUED"
            /\ ses[u].run.version <= row.version + 1
            /\ ses[u].run.version = row.version + 1 => row.status \in Requeueable
        BY <3>1, <3>3 DEF Pending, Readying
      <4>2. /\ ses[u].run.version <= row'.version + 1
            /\ ses[u].run.version = row'.version + 1 => row'.status \in Requeueable
        BY <1>2, <3>2, <4>1
      <4>. QED  BY <3>1, <3>3, <4>1, <4>2 DEF Pending
    <3>4. ASSUME ses[u].pc # "requeue" PROVE Pending(ses[u])'
      BY <3>1, <3>4 DEF Pending
    <3>. QED  BY <3>1, <3>3, <3>4 DEF Registered, At
  <2>. QED  BY <2>1, <2>2
<1>5. \A u \in Thread : Composed(u)'
  BY <1>1 DEF Composed
<1>6. ASSUME NEW c \in Caller
      PROVE  Hops(call[c])' /\ call'[c].pc \in {"none", "hop", "dispatch", "over"}
  BY <1>2, <1>3 DEF RunInv, Hops
<1>7. ASSUME ~SetupFails, crashes = 0 PROVE SomebodyMoves'
  BY <1>1, <1>7 DEF SomebodyMoves, Leaving
<1>. QED  BY <1>4, <1>5, <1>6, <1>7 DEF RunInv

-----------------------------------------------------------------------------
(* The steps of an execution.                                               *)

\* Session r is where iterate goes on: it handles no exception, and persist
\* comes back to it.
Onward(r) ==
  /\ ~r.contained
  /\ r.pc \in Looping \cup {"contain", "settle", "persistRow"}
  /\ r.pc = "settle" => r.goal \in Terminal \cup {"WAITING", "PAUSED"}
  /\ r.pc = "persistRow" => r.next \in Looping

LEMMA ContinuationsGoOnward ==
  ASSUME NEW s \in Session, ~s.contained
  PROVE  /\ \A pc \in Looping : Onward(Goto(s, pc)) /\ Onward(Persisting(s, pc))
         /\ \A status \in Terminal \cup {"WAITING", "PAUSED"} : Onward(Settling(s, status))
         /\ Onward(Raised(s)) /\ Onward(DecisionRaised(s))
         /\ \A pc : Goto(s, pc).state = s.state /\ Persisting(s, pc).state = s.state
         /\ \A status : Settling(s, status).state = s.state
         /\ Raised(s).state = s.state /\ DecisionRaised(s).state = s.state
<1>1. "decisionFailed" \in Looping /\ Looping \cap {"contain", "settle", "persistRow"} = {}
  BY DEF Looping, Within, Phase, Readying
<1>2. \A pc \in Looping : Onward(Goto(s, pc)) /\ Onward(Persisting(s, pc))
  BY <1>1 DEF Onward, Goto, Persisting, Session
<1>3. \A pc : Goto(s, pc).state = s.state /\ Persisting(s, pc).state = s.state
  BY DEF Goto, Persisting, Session
<1>4. ASSUME NEW status PROVE Settling(s, status).state = s.state
  BY DEF Settling, Unwound, Session
<1>5. ASSUME NEW status \in Terminal \cup {"WAITING", "PAUSED"} PROVE Onward(Settling(s, status))
  BY <1>1 DEF Onward, Settling, Unwound, Session
<1>6. Onward(Raised(s)) /\ Raised(s).state = s.state
  BY <1>1 DEF Onward, Raised, Goto, Unwound, Session
<1>7. "CANCELLED" \in Terminal
  BY StatesAssumption
<1>8. Onward(DecisionRaised(s)) /\ DecisionRaised(s).state = s.state
  BY <1>1, <1>2, <1>3, <1>4, <1>5, <1>7 DEF DecisionRaised
<1>. QED  BY <1>2, <1>3, <1>4, <1>5, <1>6, <1>8

\* What a phase of iterate does: it goes on with the row level with its copy,
\* which it may have moved among the statuses an execution goes on from.
Advanced(t) ==
  /\ \E r : /\ Become(t, r) /\ Onward(r)
            /\ r.state = ses[t].state /\ r.run.version = ses[t].run.version
            /\ r.run.status = row'.status
  /\ row'.version = row.version /\ row'.status \in Running
  /\ saved' = saved /\ control' = control

LEMMA DecisionsAdvance ==
  ASSUME SessionInv, NEW t \in Thread, ~ses[t].contained, Same(ses[t]), row.status \in Running,
         \/ Top(t) \/ Look(t) \/ Think(t) \/ DecisionRecovery(t) \/ Act(t) \/ Recorded(t)
         \/ Repair(t) \/ RetryAction(t) \/ StepDone(t) \/ Complete(t) \/ Judge(t)
  PROVE  Advanced(t)
<1>. DEFINE s == ses[t]
            counted == [s EXCEPT !.steps = @ + 1]
            Fits(r) == Onward(r) /\ r.state = s.state /\ r.run = s.run
<1>1. s \in Session
  BY HeldSession
<1>2. /\ counted \in Session /\ counted.run = s.run /\ counted.state = s.state
      /\ counted.contained = s.contained
  BY <1>1, CountedKeepsRun DEF Session
<1>3. row' = row /\ saved' = saved /\ control' = control
  BY DEF LocalStep, Top, Look, Think, DecisionRecovery, Act, Recorded, Repair, RetryAction,
         StepDone, Complete, Judge
<1>4. {"look", "observe", "act", "finish", "top", "stepDone", "recover", "rework", "done",
       "waiting", "failed"} \subseteq Looping
  BY DEF Looping, Within, Phase, Readying
<1>5. {"FAILED", "CANCELLED", "TIMED_OUT", "COMPLETED", "WAITING", "PAUSED"}
        \subseteq Terminal \cup {"WAITING", "PAUSED"}
  BY StatesAssumption
<1>6. ASSUME NEW x \in {s, counted}
      PROVE  /\ \A pc \in Looping : Fits(Goto(x, pc)) /\ Fits(Persisting(x, pc))
             /\ \A status \in Terminal \cup {"WAITING", "PAUSED"} : Fits(Settling(x, status))
             /\ Fits(Raised(x)) /\ Fits(DecisionRaised(x))
  <2>1. x \in Session /\ ~x.contained /\ x.run = s.run /\ x.state = s.state
    BY <1>1, <1>2
  <2>. HIDE DEF counted
  <2>. QED  BY <2>1, ContinuationsGoOnward, ContinuationsKeepRun
<1>. HIDE DEF counted, Fits
<1>7. ASSUME NEW r, Become(t, r), Fits(r) PROVE Advanced(t)
  BY <1>3, <1>7 DEF Advanced, Fits, Same
<1>8. CASE Top(t)
  BY <1>4, <1>5, <1>6, <1>7, <1>8 DEF Top, BecomeOneOf, counted
<1>9. CASE Look(t)
  BY <1>4, <1>5, <1>6, <1>7, <1>9 DEF Look
<1>10. CASE Think(t)
  BY <1>4, <1>5, <1>6, <1>7, <1>10 DEF Think, BecomeOneOf
<1>11. CASE DecisionRecovery(t)
  BY <1>4, <1>5, <1>6, <1>7, <1>11 DEF DecisionRecovery, BecomeOneOf
<1>12. CASE Act(t)
  BY <1>4, <1>5, <1>6, <1>7, <1>12 DEF Act, BecomeOneOf
<1>13. CASE Recorded(t)
  BY <1>4, <1>5, <1>6, <1>7, <1>13 DEF Recorded, BecomeOneOf
<1>14. CASE Repair(t)
  BY <1>4, <1>5, <1>6, <1>7, <1>14 DEF Repair, BecomeOneOf
<1>15. CASE RetryAction(t)
  BY <1>4, <1>5, <1>6, <1>7, <1>15 DEF RetryAction, BecomeOneOf
<1>16. CASE StepDone(t) \/ Complete(t) \/ Judge(t)
  BY <1>4, <1>5, <1>6, <1>7, <1>16 DEF StepDone, Complete, Judge, BecomeOneOf
<1>. QED  BY <1>8, <1>9, <1>10, <1>11, <1>12, <1>13, <1>14, <1>15, <1>16

\* advanceTo is accepted, or has nothing to write.
LEMMA AdvanceAdvances ==
  ASSUME SessionInv, NEW t \in Thread, Same(ses[t]), row.status \in Running,
         NEW target \in Running, NEW after, NEW raised,
         AdvanceTo(t, target, after, raised),
         \A r \in after : /\ Onward(r) /\ r.state = ses[t].state
                          /\ r.run = Moved(t, target).run
  PROVE  Advanced(t)
<1>1. ses[t] \in Session /\ ses[t].run \in Row /\ row \in Row
  BY HeldSession
<1>2. /\ Moved(t, target).run.version = ses[t].run.version
      /\ Moved(t, target).run.status
           = (IF Path[ses[t].run.status][target] = <<>> THEN ses[t].run.status ELSE target)
  BY <1>1 DEF Moved, Session, Row
<1>3. /\ BecomeOneOf(t, after) /\ saved' = saved /\ control' = control
      /\ IF Path[ses[t].run.status][target] = <<>> THEN row' = row
         ELSE row' = Moved(t, target).run
  BY DEF AdvanceTo, Same, Accepts, WriteRow
<1>4. PICK r \in after : Become(t, r)
  BY <1>3 DEF BecomeOneOf
<1>5. row'.status = Moved(t, target).run.status /\ row'.version = row.version
  BY <1>2, <1>3 DEF Same
<1>6. row'.status \in Running
  BY <1>2, <1>5 DEF Same
<1>. QED  BY <1>2, <1>3, <1>4, <1>5, <1>6 DEF Advanced

LEMMA AdvancesAdvance ==
  ASSUME SessionInv, NEW t \in Thread, ~ses[t].contained, Same(ses[t]), row.status \in Running,
         \/ Observe(t) \/ Plan(t) \/ Decide(t) \/ DecisionFailed(t)
         \/ Recover(t) \/ Verify(t) \/ Rework(t)
  PROVE  Advanced(t)
<1>. DEFINE s == ses[t]
            m(target) == Moved(t, target)
            tried(target) == [m(target) EXCEPT !.tries = @ + 1]
            Fits(r, target) == Onward(r) /\ r.state = s.state /\ r.run = Moved(t, target).run
<1>1. s \in Session
  BY HeldSession
<1>2. ASSUME NEW target \in RunState
      PROVE  /\ m(target) \in Session /\ tried(target) \in Session
             /\ tried(target).run = m(target).run
             /\ m(target).contained = s.contained /\ tried(target).contained = s.contained
             /\ m(target).state = s.state /\ tried(target).state = s.state
  <2>1. m(target) \in Session /\ tried(target) \in Session
    BY <1>1, MovedKeepsVersion
  <2>2. m(target).contained = s.contained /\ m(target).state = s.state
    BY <1>1 DEF Moved, Session
  <2>. HIDE DEF m
  <2>3. /\ tried(target).run = m(target).run /\ tried(target).contained = m(target).contained
        /\ tried(target).state = m(target).state
    BY <2>1 DEF Session
  <2>. QED  BY <2>1, <2>2, <2>3
<1>. HIDE DEF tried
<1>3. ASSUME NEW target \in RunState, NEW x \in {m(target), tried(target)}
      PROVE  /\ \A pc \in Looping : Fits(Goto(x, pc), target) /\ Fits(Persisting(x, pc), target)
             /\ \A status \in Terminal \cup {"WAITING", "PAUSED"} :
                  Fits(Settling(x, status), target)
             /\ Fits(Raised(x), target)
  <2>1. /\ x \in Session /\ ~x.contained /\ x.run = Moved(t, target).run /\ x.state = s.state
    BY <1>2, <1>3
  <2>. QED  BY <2>1, ContinuationsGoOnward, ContinuationsKeepRun
<1>. HIDE DEF m
<1>4. /\ {"OBSERVING", "PLANNING", "EXECUTING", "RECOVERING", "VERIFYING"} \subseteq Running
      /\ Running \subseteq RunState /\ {"FAILED", "WAITING"} \subseteq Terminal \cup {"WAITING"}
      /\ {"decide", "plan", "think", "repair", "judge", "top", "decisionRecovery"} \subseteq Looping
  BY StatesAssumption DEF Running, Looping, Within, Phase, Readying
<1>5. ASSUME NEW target \in Running, NEW after, \A r \in after : Fits(r, target), NEW raised,
             AdvanceTo(t, target, after, raised)
      PROVE  Advanced(t)
  BY <1>5, AdvanceAdvances
<1>. HIDE DEF Fits
<1>6. CASE Observe(t)
  <2>. DEFINE after == {Goto(m("OBSERVING"), "decide")} \cup
                       IF m("OBSERVING").steps = 1 THEN {Goto(m("OBSERVING"), "plan")} ELSE {}
  <2>1. AdvanceTo(t, "OBSERVING", after, Raised(m("OBSERVING")))
    BY <1>6 DEF Observe, Advance, m
  <2>2. \A r \in after : Fits(r, "OBSERVING")
    BY <1>3, <1>4
  <2>. QED  BY <1>4, <1>5, <2>1, <2>2
<1>7. CASE Plan(t)
  <2>. DEFINE after == {Persisting(m("PLANNING"), "decide"), Raised(m("PLANNING"))}
  <2>1. AdvanceTo(t, "PLANNING", after, Raised(m("PLANNING")))
    BY <1>7 DEF Plan, Advance, m
  <2>2. \A r \in after : Fits(r, "PLANNING")
    BY <1>3, <1>4
  <2>. QED  BY <1>4, <1>5, <2>1, <2>2
<1>8. CASE Decide(t)
  <2>1. AdvanceTo(t, "EXECUTING", {Goto(m("EXECUTING"), "think")}, DecisionRaised(m("EXECUTING")))
    BY <1>8 DEF Decide, m
  <2>2. Fits(Goto(m("EXECUTING"), "think"), "EXECUTING")
    BY <1>3, <1>4
  <2>. QED  BY <1>4, <1>5, <2>1, <2>2
<1>9. CASE DecisionFailed(t)
  <2>1. AdvanceTo(t, "RECOVERING", {Persisting(tried("RECOVERING"), "decisionRecovery")},
                  Raised(m("RECOVERING")))
    BY <1>9 DEF DecisionFailed, Advance, m, tried
  <2>2. Fits(Persisting(tried("RECOVERING"), "decisionRecovery"), "RECOVERING")
    BY <1>3, <1>4
  <2>. QED  BY <1>4, <1>5, <2>1, <2>2
<1>10. CASE Recover(t)
  <2>1. AdvanceTo(t, "RECOVERING", {Goto(tried("RECOVERING"), "repair")}, Raised(m("RECOVERING")))
    BY <1>10 DEF Recover, Advance, m, tried
  <2>2. Fits(Goto(tried("RECOVERING"), "repair"), "RECOVERING")
    BY <1>3, <1>4
  <2>. QED  BY <1>4, <1>5, <2>1, <2>2
<1>11. CASE Verify(t)
  <2>. DEFINE after == {Persisting(m("VERIFYING"), "judge"), Raised(m("VERIFYING"))}
  <2>1. AdvanceTo(t, "VERIFYING", after, Raised(m("VERIFYING")))
    BY <1>11 DEF Verify, Advance, m
  <2>2. \A r \in after : Fits(r, "VERIFYING")
    BY <1>3, <1>4
  <2>. QED  BY <1>4, <1>5, <2>1, <2>2
<1>12. CASE Rework(t)
  <2>. DEFINE after == {Settling(tried("RECOVERING"), "FAILED")} \cup
                       IF tried("RECOVERING").tries > MaxRecovery THEN {}
                       ELSE {Settling(tried("RECOVERING"), "WAITING"),
                             Persisting(tried("RECOVERING"), "top")}
  <2>1. AdvanceTo(t, "RECOVERING", after, Raised(m("RECOVERING")))
    BY <1>12 DEF Rework, Advance, m, tried
  <2>2. \A r \in after : Fits(r, "RECOVERING")
    BY <1>3, <1>4
  <2>. QED  BY <1>4, <1>5, <2>1, <2>2
<1>. QED  BY <1>6, <1>7, <1>8, <1>9, <1>10, <1>11, <1>12

\* What the steps below may do to a finished run.
OnlyRetried ==
  row.status \in Terminal /\ row'.status # row.status =>
    row.status \in {"FAILED", "TIMED_OUT"} /\ row'.status = "QUEUED"

RunLockInv == LockInv /\ RunInv

\* What the lemmas below read of an iterating session, and what they leave to show.
LEMMA Iterated ==
  ASSUME RunLockInv, NEW t \in Thread, Iterating(t)
  PROVE  /\ SessionInv /\ ses[t] \in Session /\ row \in Row /\ row.version \in Nat
         /\ ses[t].run.version \in Nat
         /\ Follows(ses[t]) /\ Shaped(ses[t]) /\ KnowsSaved(ses[t])
         /\ \A u \in Thread : Iterating(u) => control[HostOf[u]] = u
         /\ \A u \in Thread : Iterating(u) => u = t \/ ~InOneProcess
         /\ ~SetupFails /\ crashes = 0 => (Leaving(ses[t]) => row.status \in Resting)
<1>1. SessionInv
  BY DEF RunLockInv, LockInv, IndInv, CallInv
<1>2. ses[t] \in Session /\ row \in Row /\ row.version \in Nat /\ ses[t].run.version \in Nat
  BY <1>1, HeldSession DEF Row
<1>3. Follows(ses[t]) /\ Shaped(ses[t]) /\ KnowsSaved(ses[t])
  BY DEF RunLockInv, RunInv, Composed
<1>4. \A u \in Thread : Iterating(u) => control[HostOf[u]] = u
  BY DEF RunLockInv, RunInv, Registered
<1>5. \A u \in Thread : Iterating(u) => u = t \/ ~InOneProcess
  BY OneIsInside DEF RunLockInv, Held, Iterating
<1>6. ~SetupFails /\ crashes = 0 => (Leaving(ses[t]) => row.status \in Resting)
  BY DEF RunLockInv, RunInv, SomebodyMoves
<1>. QED  BY <1>1, <1>2, <1>3, <1>4, <1>5, <1>6

\* A step of the executing thread, by what it becomes.
LEMMA BecomingKeepsRun ==
  ASSUME InOneProcess, RunLockInv, NEW t \in Thread, Iterating(t), NEW r, Become(t, r),
         control' = control, call' = call, crashes' = crashes, row' \in Row,
         \/ row' = row
         \/ row'.version = row.version /\ row.status \in Running
         \/ row'.version = row.version + 1 /\ (row.status \in Terminal => row'.status = row.status),
         r.pc \notin Readying \cup {"idle", "left"},
         r.pc # "leave" => Follows(r)' /\ Shaped(r) /\ KnowsSaved(r)',
         ~SetupFails /\ crashes = 0 => (r.pc = "leave" \/ Leaving(r) => row'.status \in Resting)
  PROVE  RunInv' /\ OnlyRetried
<1>1. /\ ses'[t] = r /\ \A u \in Thread \ {t} : ses'[u] = ses[u]
  BY Iterated DEF SessionInv, SessionTypeOK, Become
<1>2. ASSUME NEW u \in Thread, Iterating(u)' PROVE control'[HostOf[u]] = u
  BY <1>1, <1>2, Iterated DEF Iterating
<1>3. Iterating(t)' <=> r.pc # "leave"
  BY <1>1 DEF Iterating, Readying
<1>4. Composed(t)'
  BY <1>1, <1>3 DEF Composed, Shaped
<1>5. row'.version \in Nat
  BY DEF Row
<1>6. ~SetupFails /\ crashes = 0 =>
        (~Iterating(t)' \/ Leaving(ses'[t]) => row'.status \in Resting)
  BY <1>1, <1>3
<1>7. RunInv'
  BY <1>1, <1>2, <1>4, <1>5, <1>6, HolderSteps DEF RunLockInv
<1>8. row.status \in Running => row.status \notin Terminal
  BY DEF Running
<1>. QED  BY <1>7, <1>8 DEF OnlyRetried

\* A phase of iterate.
LEMMA LoopKeepsRun ==
  ASSUME InOneProcess, RunLockInv, NEW t \in Thread, LoopStep(t), call' = call, crashes' = crashes
  PROVE  RunInv' /\ OnlyRetried
<1>1. ses[t].pc \in Looping
  BY DEF LoopStep, Top, Look, Observe, Plan, Decide, Think, DecisionFailed, DecisionRecovery, Act,
         Recorded, Recover, Repair, RetryAction, StepDone, Complete, Verify, Judge, Rework, At,
         Looping, Within, Phase, Readying
<1>2. /\ Iterating(t) /\ ~Leaving(ses[t])
      /\ ses[t].pc \notin {"contain", "settle", "setup", "persistRow", "persistState"}
  BY <1>1 DEF Iterating, Leaving, Looping, Within, Phase, Readying
<1>3. /\ SessionInv /\ row \in Row /\ Same(ses[t]) /\ row.status \in Running /\ ~ses[t].contained
      /\ saved = ses[t].state
  BY <1>2, Iterated DEF Follows, Shaped, KnowsSaved, Leaving
<1>4. Advanced(t)
  BY <1>3, DecisionsAdvance, AdvancesAdvance DEF LoopStep
<1>5. PICK r : /\ Become(t, r) /\ Onward(r)
               /\ r.state = ses[t].state /\ r.run.version = ses[t].run.version
               /\ r.run.status = row'.status
  BY <1>4 DEF Advanced
<1>6. r.pc \notin Readying \cup {"idle", "left", "leave", "persistState", "setup"} /\ ~Leaving(r)
  BY <1>5 DEF Onward, Looping, Within, Phase, Readying, Leaving
<1>7. /\ row'.version = row.version /\ row'.status \in Running
      /\ saved' = saved /\ control' = control
  BY <1>4 DEF Advanced
<1>8. Follows(r)' /\ Shaped(r) /\ KnowsSaved(r)'
  BY <1>3, <1>5, <1>6, <1>7 DEF Follows, Same, Shaped, KnowsSaved, Onward
<1>9. row' \in Row
  <2>1. SessionInv'
    BY <1>3, SessionStepKeepsInv DEF SessionStep
  <2>. QED  BY <2>1 DEF SessionInv, StoreTypeOK
<1>. QED  BY <1>2, <1>3, <1>5, <1>6, <1>7, <1>8, <1>9, BecomingKeepsRun

\* What containFailure and the endings are made of.
LEMMA EndingFields ==
  ASSUME NEW s \in Session, s.run \in Row
  PROVE  /\ \A status : LET r == Settling([s EXCEPT !.contained = TRUE], status)
                        IN  /\ r.pc = "settle" /\ r.goal = status /\ r.contained
                            /\ r.run = s.run
         /\ LET r == Raised(s)
            IN  /\ r.run = s.run /\ r.state = s.state /\ r.contained = s.contained
                /\ r.pc = (IF s.contained THEN "leave" ELSE "contain")
         /\ LET b == Bumped(s)
            IN  /\ b \in Session /\ b.run \in Row
                /\ b.run.version = s.run.version + 1 /\ b.run.status = s.run.status
                /\ b.contained = s.contained /\ b.next = s.next /\ b.expected = s.state
         /\ LET r == Goto(Bumped(s), "persistState")
            IN  /\ r.pc = "persistState" /\ r.run = Bumped(s).run /\ r.contained = s.contained
                /\ r.next = s.next /\ r.expected = s.state
<1>1. ASSUME NEW status
      PROVE  LET r == Settling([s EXCEPT !.contained = TRUE], status)
             IN  r.pc = "settle" /\ r.goal = status /\ r.contained /\ r.run = s.run
  BY DEF Settling, Unwound, Session
<1>2. LET r == Raised(s)
      IN  /\ r.run = s.run /\ r.state = s.state /\ r.contained = s.contained
          /\ r.pc = (IF s.contained THEN "leave" ELSE "contain")
  BY DEF Raised, Rejecting, Goto, Unwound, Session
<1>3. LET b == Bumped(s)
      IN  /\ b \in Session /\ b.run \in Row
          /\ b.run.version = s.run.version + 1 /\ b.run.status = s.run.status
          /\ b.contained = s.contained /\ b.next = s.next /\ b.expected = s.state
  <2>1. [s.run EXCEPT !.version = @ + 1] \in Row
    BY DEF Row
  <2>. QED  BY <2>1 DEF Bumped, Session, Row
<1>4. LET r == Goto(Bumped(s), "persistState")
      IN  /\ r.pc = "persistState" /\ r.run = Bumped(s).run /\ r.contained = s.contained
          /\ r.next = s.next /\ r.expected = s.state
  <2>. DEFINE b == Bumped(s)
  <2>1. b \in Session /\ b.contained = s.contained /\ b.next = s.next /\ b.expected = s.state
    BY <1>3
  <2>. HIDE DEF b
  <2>2. LET r == Goto(b, "persistState")
        IN  /\ r.pc = "persistState" /\ r.run = b.run /\ r.contained = b.contained
            /\ r.next = b.next /\ r.expected = b.expected
    BY <2>1 DEF Goto, Session
  <2>. QED  BY <2>1, <2>2 DEF b
<1>. QED  BY <1>1, <1>2, <1>3, <1>4

\* containFailure, from wherever an exception came.
LEMMA ContainKeepsRun ==
  ASSUME InOneProcess, RunLockInv, NEW t \in Thread, Contain(t), call' = call, crashes' = crashes
  PROVE  RunInv' /\ OnlyRetried
<1>1. Iterating(t) /\ ses[t].pc = "contain" /\ LocalStep
  BY DEF Contain, At, Iterating
<1>2. /\ ses[t] \in Session /\ ses[t].run \in Row /\ row \in Row
      /\ \/ Same(ses[t]) /\ row.status \in Running
         \/ ses[t].run.version = row.version /\ Overtaken(ses[t])
  BY <1>1, Iterated DEF Follows, Leaving, Session
<1>3. PICK r : /\ Become(t, r) /\ r.pc = "settle" /\ r.goal \in Terminal /\ r.contained
               /\ r.run = ses[t].run
  <2>1. \A status : LET r == Settling([ses[t] EXCEPT !.contained = TRUE], status)
                    IN  r.pc = "settle" /\ r.goal = status /\ r.contained /\ r.run = ses[t].run
    BY <1>2, EndingFields
  <2>2. \E status \in Terminal : Become(t, Settling([ses[t] EXCEPT !.contained = TRUE], status))
    BY StatesAssumption DEF Contain
  <2>. QED  BY <2>1, <2>2
<1>4. Follows(r) /\ Shaped(r) /\ KnowsSaved(r) /\ ~Leaving(r)
  BY <1>2, <1>3 DEF Follows, Same, Overtaken, Leaving, Shaped, KnowsSaved
<1>5. Follows(r)' /\ KnowsSaved(r)'
  BY <1>1, <1>4 DEF LocalStep, Follows, Same, Overtaken, KnowsSaved
<1>. QED  BY <1>1, <1>2, <1>3, <1>4, <1>5, BecomingKeepsRun DEF LocalStep, Readying

\* The endings: the run has its resting status before the last persist.
LEMMA SettleKeepsRun ==
  ASSUME InOneProcess, RunLockInv, NEW t \in Thread, Settle(t), call' = call, crashes' = crashes
  PROVE  RunInv' /\ OnlyRetried
<1>. DEFINE s == ses[t]
            m == Moved(t, s.goal)
            r == Persisting(Unwound(m), "leave")
<1>1. Iterating(t) /\ s.pc = "settle" /\ ~Leaving(s)
  BY DEF Settle, At, Iterating, Leaving
<1>2. /\ SessionInv /\ s \in Session /\ s \in Returning /\ s.run \in Row /\ row \in Row
      /\ s.goal \in RunState
  BY <1>1, Iterated, HeldSession
<1>3. /\ s.goal \in Terminal \cup {"WAITING", "PAUSED"} /\ (s.contained \/ saved = s.state)
      /\ s.run.version = row.version /\ row.status \in Running
      /\ \/ Same(s)
         \/ s.contained /\ Overtaken(s)
  <2>1. "QUEUED" \in Running
    BY StatesAssumption DEF Running
  <2>. QED  BY <1>1, <2>1, Iterated DEF Follows, Shaped, KnowsSaved, Same, Overtaken
<1>4. /\ m \in Session /\ m.run \in Row
      /\ m.state = s.state /\ m.contained = s.contained /\ m.run.version = s.run.version
      /\ m.run.status = (IF Path[s.run.status][s.goal] = <<>> THEN s.run.status ELSE s.goal)
  <2>1. m \in Session
    BY <1>2, MovedIsReturning DEF Returning
  <2>2. m.state = s.state /\ m.contained = s.contained
    BY <1>2 DEF Moved, Session
  <2>3. /\ m.run.version = s.run.version
        /\ m.run.status = (IF Path[s.run.status][s.goal] = <<>> THEN s.run.status ELSE s.goal)
    BY <1>2 DEF Moved, Session, Row
  <2>. QED  BY <2>1, <2>2, <2>3 DEF Session
<1>5. /\ r.pc = "persistRow" /\ r.next = "leave" /\ r.contained = s.contained
      /\ r.state = s.state /\ r.run = m.run
  <2>. HIDE DEF m
  <2>. QED  BY <1>4 DEF Persisting, Unwound, Session
<1>6. /\ Become(t, r) /\ saved' = saved /\ control' = control
      /\ IF Path[s.run.status][s.goal] = <<>> THEN row' = row ELSE row' = m.run
  BY <1>3 DEF Settle, Advance, AdvanceTo, BecomeOneOf, Accepts, WriteRow
<1>7. s.goal \in Resting /\ "QUEUED" \in Resting
  BY <1>3 DEF Resting
<1>8. Same(s) => m.run.status = s.goal
  <2>1. s.run.status \in RunState \ Terminal \/ ~Same(s)
    BY <1>3 DEF Same, Running
  <2>2. Same(s) /\ s.run.status # s.goal => Path[s.run.status][s.goal] # <<>>
    BY <1>3, <2>1, WalksAssumption
  <2>. QED  BY <1>4, <2>2
<1>. HIDE DEF m, r
<1>9. /\ row' \in Row /\ row'.version = row.version /\ row'.status \in Resting
      /\ \/ m.run.version = row'.version /\ m.run.status = row'.status
         \/ /\ s.contained /\ m.run.version = row'.version
            /\ row'.status = "QUEUED" /\ m.run.status \in Requeueable
  <2>1. CASE Path[s.run.status][s.goal] # <<>>
    BY <1>2, <1>3, <1>4, <1>6, <1>7, <2>1
  <2>2. CASE Path[s.run.status][s.goal] = <<>>
    BY <1>2, <1>3, <1>4, <1>6, <1>7, <1>8, <2>2 DEF Same, Overtaken
  <2>. QED  BY <2>1, <2>2
<1>10. PICK q : q = r
  OBVIOUS
<1>11. Follows(q)' /\ Shaped(q) /\ KnowsSaved(q)' /\ q.pc = "persistRow"
  BY <1>3, <1>5, <1>6, <1>9, <1>10 DEF Follows, Same, Overtaken, Leaving, Shaped, KnowsSaved
<1>12. Become(t, q)
  BY <1>6, <1>10
<1>. QED  BY <1>1, <1>3, <1>6, <1>9, <1>11, <1>12, BecomingKeepsRun DEF Readying

\* persist's first write.
LEMMA PersistRowKeepsRun ==
  ASSUME InOneProcess, RunLockInv, NEW t \in Thread, PersistRow(t), call' = call,
         crashes' = crashes
  PROVE  RunInv' /\ OnlyRetried
<1>. DEFINE s == ses[t]
            b == Bumped(s)
<1>1. Iterating(t) /\ s.pc = "persistRow"
  BY DEF PersistRow, At, Iterating
<1>2. /\ SessionInv /\ s \in Session /\ s.run \in Row /\ row \in Row /\ row.version \in Nat
      /\ s.run.version \in Nat
      /\ Follows(s) /\ Shaped(s) /\ KnowsSaved(s)
      /\ ~SetupFails /\ crashes = 0 => (Leaving(s) => row.status \in Resting)
  BY <1>1, Iterated, HeldSession
<1>3. saved' = saved /\ control' = control
  BY DEF PersistRow
<1>4. Requeueable \subseteq Resting /\ "QUEUED" \in Resting /\ "QUEUED" \notin Terminal
  BY StatesAssumption DEF Requeueable, Resting
<1>5. CASE Accepts(s.run.version)
  <2>1. PICK r : r = Goto(b, "persistState")
    OBVIOUS
  <2>2. Become(t, r) /\ row' = b.run
    BY <1>5, <2>1 DEF PersistRow, WriteRow
  <2>3. /\ r.pc = "persistState" /\ r.run = b.run /\ r.contained = s.contained
        /\ r.next = s.next /\ r.expected = s.state
        /\ b.run \in Row /\ b.run.version = s.run.version + 1 /\ b.run.status = s.run.status
    BY <1>2, <2>1, EndingFields
  <2>4. s.run.version = row.version
    BY <1>5 DEF Accepts
  <2>5. Leaving(s) <=> Leaving(r)
    BY <1>1, <2>3 DEF Leaving
  <2>. HIDE DEF b
  <2>6. \/ ~Leaving(s) /\ s.run.status = row.status /\ row.status \in Running
        \/ Leaving(s) /\ s.run.status = row.status
        \/ Leaving(s) /\ s.contained /\ Overtaken(s)
    BY <1>1, <1>2, <2>4 DEF Follows, Same
  <2>7. Follows(r)'
    <3>1. r.run.version = row'.version /\ r.run.status = row'.status
      BY <2>2, <2>3
    <3>2. ~Leaving(r) => row'.status \in Running
      BY <2>2, <2>3, <2>5, <2>6
    <3>. QED  BY <2>3, <3>1, <3>2 DEF Follows, Same, Leaving
  <2>8. Shaped(r)
    BY <1>1, <1>2, <2>3, <2>5 DEF Shaped
  <2>9. KnowsSaved(r)'
    BY <1>1, <1>2, <1>3, <2>3 DEF KnowsSaved
  <2>10. ~SetupFails /\ crashes = 0 => (r.pc = "leave" \/ Leaving(r) => row'.status \in Resting)
    BY <1>2, <1>4, <2>2, <2>3, <2>5, <2>6 DEF Overtaken
  <2>11. row'.version = row.version + 1 /\ (row.status \in Terminal => row'.status = row.status)
    BY <1>4, <2>2, <2>3, <2>4, <2>6 DEF Overtaken, Running
  <2>12. r.pc \notin Readying \cup {"idle", "left"}
    BY <2>3 DEF Readying
  <2>13. row' \in Row
    BY <2>2, <2>3
  <2>. QED  BY <1>1, <1>3, <2>2, <2>7, <2>8, <2>9, <2>10, <2>11, <2>12, <2>13, BecomingKeepsRun
<1>6. CASE ~Accepts(s.run.version)
  <2>1. PICK r : r = Raised(b)
    OBVIOUS
  <2>2. Become(t, r) /\ row' = row
    BY <1>6, <2>1 DEF PersistRow
  <2>3. /\ b \in Session /\ b.run \in Row /\ b.run.version = s.run.version + 1
        /\ b.run.status = s.run.status /\ b.contained = s.contained
    BY <1>2, EndingFields
  <2>. HIDE DEF b
  <2>4. /\ r.run = b.run /\ r.contained = s.contained
        /\ r.pc = (IF s.contained THEN "leave" ELSE "contain")
    BY <2>1, <2>3, EndingFields
  <2>5. s.run.version + 1 = row.version /\ Overtaken(s)
    BY <1>1, <1>2, <1>6 DEF Follows, Same, Accepts
  <2>6. r.pc = "contain" => Follows(r)' /\ Shaped(r) /\ KnowsSaved(r)'
    BY <2>2, <2>3, <2>4, <2>5 DEF Follows, Overtaken, Shaped, KnowsSaved, Leaving
  <2>7. row.status \in Resting
    BY <1>4, <2>5 DEF Overtaken
  <2>8. r.pc \in {"leave", "contain"}
    BY <2>4
  <2>9. r.pc \notin Readying \cup {"idle", "left"} /\ (r.pc # "leave" => r.pc = "contain")
    BY <2>8 DEF Readying
  <2>. QED  BY <1>1, <1>2, <1>3, <2>2, <2>6, <2>7, <2>9, BecomingKeepsRun
<1>. QED  BY <1>5, <1>6

\* persist's second write.
LEMMA PersistStateKeepsRun ==
  ASSUME InOneProcess, RunLockInv, NEW t \in Thread, PersistState(t), call' = call,
         crashes' = crashes
  PROVE  RunInv' /\ OnlyRetried
<1>. DEFINE s == ses[t]
            back == [s EXCEPT !.pc = s.next, !.next = "idle", !.expected = 0]
<1>1. Iterating(t) /\ s.pc = "persistState"
  BY DEF PersistState, At, Iterating
<1>2. /\ s \in Session /\ s.run \in Row /\ row \in Row
      /\ Follows(s) /\ Shaped(s) /\ KnowsSaved(s)
      /\ ~SetupFails /\ crashes = 0 => (Leaving(s) => row.status \in Resting)
  BY <1>1, Iterated, HeldSession
<1>3. row' = row /\ control' = control
  BY DEF PersistState
<1>4. CASE saved = s.expected /\ saved' = s.state /\ Become(t, back)
  <2>1. PICK r : r = back
    OBVIOUS
  <2>2. r.pc = s.next /\ r.run = s.run /\ r.state = s.state /\ r.contained = s.contained
    BY <1>2, <2>1 DEF Session
  <2>3. CASE s.next = "leave"
    <3>1. Leaving(s)
      BY <1>1, <2>3 DEF Leaving
    <3>. QED  BY <1>1, <1>2, <1>3, <1>4, <2>1, <2>2, <2>3, <3>1, BecomingKeepsRun DEF Readying
  <2>4. CASE s.next \in Looping
    <3>1. /\ r.pc \notin Readying \cup {"idle", "left", "persistRow", "persistState", "settle"}
          /\ ~Leaving(s) /\ r.pc # "leave"
      BY <2>2, <2>4 DEF Looping, Within, Phase, Readying, Leaving
    <3>2. Same(s) /\ row.status \in Running /\ ~s.contained
      BY <1>1, <1>2, <3>1 DEF Follows, Shaped, Leaving
    <3>3. Follows(r)' /\ Shaped(r) /\ KnowsSaved(r)' /\ ~Leaving(r)
      BY <1>3, <1>4, <2>2, <3>1, <3>2 DEF Follows, Same, Shaped, KnowsSaved, Leaving
    <3>. QED  BY <1>1, <1>2, <1>3, <1>4, <2>1, <3>1, <3>3, BecomingKeepsRun
  <2>. QED  BY <1>1, <1>2, <2>3, <2>4 DEF Shaped
<1>5. CASE saved # s.expected /\ Become(t, Raised(s)) /\ saved' = saved
  <2>1. PICK r : r = Raised(s)
    OBVIOUS
  <2>2. s.contained
    BY <1>1, <1>2, <1>5 DEF KnowsSaved
  <2>3. r.pc = "leave" /\ Leaving(s)
    BY <1>1, <1>2, <2>1, <2>2, EndingFields DEF Shaped
  <2>. QED  BY <1>1, <1>2, <1>3, <1>5, <2>1, <2>3, BecomingKeepsRun DEF Readying
<1>. QED  BY <1>4, <1>5 DEF PersistState

\* The loading of what an execution needs; a start that fails here leaves the
\* run INITIALIZING.
LEMMA SetupKeepsRun ==
  ASSUME InOneProcess, RunLockInv, NEW t \in Thread, Setup(t), call' = call, crashes' = crashes
  PROVE  RunInv' /\ OnlyRetried
<1>. DEFINE s == ses[t]
<1>1. Iterating(t) /\ s.pc = "setup" /\ ~Leaving(s) /\ LocalStep
  BY DEF Setup, At, Iterating, Leaving
<1>2. s \in Session /\ row \in Row /\ Same(s) /\ row.status \in Running /\ ~s.contained
  BY <1>1, Iterated DEF Follows, Shaped
<1>3. CASE Become(t, [Goto(s, "top") EXCEPT !.state = saved])
  <2>1. PICK r : r = [Goto(s, "top") EXCEPT !.state = saved]
    OBVIOUS
  <2>2. r.pc = "top" /\ r.state = saved /\ r.run = s.run /\ r.contained = s.contained
    BY <1>2, <2>1 DEF Goto, Session
  <2>3. Follows(r)' /\ Shaped(r) /\ KnowsSaved(r)' /\ ~Leaving(r)
    BY <1>1, <1>2, <2>2 DEF LocalStep, Follows, Same, Shaped, KnowsSaved, Leaving
  <2>. QED  BY <1>1, <1>2, <1>3, <2>1, <2>2, <2>3, BecomingKeepsRun DEF LocalStep, Readying
<1>4. CASE SetupFails /\ Become(t, Rejecting(s, "leave"))
  <2>1. PICK r : r = Rejecting(s, "leave")
    OBVIOUS
  <2>2. r.pc = "leave"
    BY <1>2, <2>1 DEF Rejecting, Session
  <2>. QED  BY <1>1, <1>2, <1>4, <2>1, <2>2, BecomingKeepsRun DEF LocalStep, Readying
<1>. QED  BY <1>3, <1>4 DEF Setup

-----------------------------------------------------------------------------
(* The steps outside an execution.                                          *)

\* A thread outside an execution that writes nothing, and stays outside.
LEMMA OutsideKeepsRun ==
  ASSUME RunLockInv, NEW t \in Thread, ~Iterating(t), NEW r, Become(t, r),
         r.pc \in Readying \cup {"idle", "leave", "left"}, Pending(r),
         row' = row, saved' = saved, crashes' = crashes,
         control' = control \/ (InOneProcess /\ Held(t)),
         r.pc = "init" => control'[HostOf[t]] = t,
         \A c \in Caller : Answered(c)
  PROVE  RunInv' /\ OnlyRetried
<1>1. ses'[t] = r /\ \A u \in Thread \ {t} : ses'[u] = ses[u]
  BY DEF RunLockInv, LockInv, IndInv, CallInv, SessionInv, SessionTypeOK, Become
<1>2. ~Iterating(t)'
  BY <1>1 DEF Iterating, Readying
<1>3. \A u \in Thread : \/ Alike(ses[u], ses'[u])
                        \/ ~Iterating(u) /\ ~Iterating(u)' /\ Pending(ses'[u])
  BY <1>1, <1>2 DEF Alike
<1>4. ASSUME NEW u \in Thread, Iterating(u)' \/ At(u, "init")' PROVE control'[HostOf[u]] = u
  <2>1. CASE u = t
    BY <1>1, <1>2, <1>4, <2>1 DEF At
  <2>2. CASE u # t
    <3>1. Iterating(u) \/ At(u, "init")
      BY <1>1, <1>4, <2>2 DEF Iterating, At
    <3>2. Registered(u) /\ Held(u)
      BY <3>1 DEF RunLockInv, RunInv, Held, Iterating, At
    <3>3. control' = control
      BY <2>2, <3>2, OneIsInside DEF RunLockInv
    <3>. QED  BY <3>1, <3>2, <3>3 DEF Registered
  <2>. QED  BY <2>1, <2>2
<1>5. \A u \in Thread : Registered(u)'
  BY <1>4 DEF Registered
<1>6. RunInv'
  BY <1>3, <1>5, RowStays DEF RunLockInv
<1>. QED  BY <1>6 DEF OnlyRetried

\* The row as it was read, on its way one version on.
Begun(s, pc, status) ==
  [Goto(s, pc) EXCEPT !.run = [row EXCEPT !.status = status, !.version = @ + 1]]

\* What the starts are made of.
LEMMA StartFields ==
  ASSUME NEW s \in Session, row \in Row
  PROVE  /\ \A pc : Goto(s, pc).pc = pc /\ Goto(s, pc).contained = s.contained
         /\ \A pc : Rejecting(s, pc).pc = pc
         /\ \A pc, status : /\ Begun(s, pc, status).pc = pc
                            /\ Begun(s, pc, status).contained = s.contained
                            /\ Begun(s, pc, status).run.version = row.version + 1
                            /\ Begun(s, pc, status).run.status = status
<1>1. /\ \A pc : Goto(s, pc).pc = pc /\ Goto(s, pc).contained = s.contained
      /\ \A pc : Rejecting(s, pc).pc = pc
  BY DEF Goto, Rejecting, Session
<1>2. ASSUME NEW pc, NEW status
      PROVE  LET r == Begun(s, pc, status)
             IN  /\ r.pc = pc /\ r.contained = s.contained
                 /\ r.run.version = row.version + 1 /\ r.run.status = status
  <2>. DEFINE begun == [row EXCEPT !.status = status, !.version = @ + 1]
  <2>1. begun.version = row.version + 1 /\ begun.status = status
    BY DEF Row
  <2>. HIDE DEF begun
  <2>2. LET r == [Goto(s, pc) EXCEPT !.run = begun]
        IN  r.pc = pc /\ r.contained = s.contained /\ r.run = begun
    BY DEF Goto, Session
  <2>. QED  BY <2>1, <2>2 DEF begun, Begun
<1>. QED  BY <1>1, <1>2

\* The reads and the lock of a start, and its end.
LEMMA StartsKeepRun ==
  ASSUME InOneProcess, RunLockInv, NEW t \in Thread,
         Resume(t) \/ Retry(t) \/ Acquire(t) \/ Load(t) \/ Leave(t),
         call' = call, crashes' = crashes
  PROVE  RunInv' /\ OnlyRetried
<1>. DEFINE s == ses[t]
<1>1. /\ s \in Session /\ row \in Row /\ row.version \in Nat /\ Pending(s)
      /\ HostOf[t] \in Process /\ control \in [Process -> Thread \cup {None}]
  <2>1. SessionInv /\ Pending(s)
    BY DEF RunLockInv, LockInv, IndInv, CallInv, RunInv
  <2>. QED  BY <2>1, HeldSession, SessionAssumption DEF Row, SessionInv, SessionTypeOK
<1>0. /\ \A pc : Goto(s, pc).pc = pc /\ Goto(s, pc).contained = s.contained
      /\ \A pc : Rejecting(s, pc).pc = pc
      /\ \A pc, status : /\ Begun(s, pc, status).pc = pc
                         /\ Begun(s, pc, status).contained = s.contained
                         /\ Begun(s, pc, status).run.version = row.version + 1
                         /\ Begun(s, pc, status).run.status = status
  BY <1>1, StartFields
<1>2. /\ ~Iterating(t) /\ row' = row /\ saved' = saved
      /\ Acquire(t) \/ Resume(t) \/ Retry(t) => control' = control
      /\ Load(t) \/ Leave(t) => Held(t)
  BY DEF Resume, Retry, Acquire, Load, Leave, LocalStep, At, Iterating, Held
<1>3. \A c \in Caller : Answered(c)
  BY DEF Answered
<1>4. ASSUME NEW r, Become(t, r), r.pc \in {"left", "leave"}
      PROVE  RunInv' /\ OnlyRetried
  <2>1. control' = control \/ Held(t)
    BY <1>2
  <2>. QED  BY <1>2, <1>3, <1>4, <2>1, OutsideKeepsRun DEF Pending, Readying
<1>5. ASSUME s.pc \in Readying, NEW pc \in {"acquire", "load"}, Become(t, Goto(s, pc))
      PROVE  RunInv' /\ OnlyRetried
  <2>1. PICK r : r = Goto(s, pc)
    OBVIOUS
  <2>2. r.pc = pc /\ ~r.contained
    BY <1>0, <1>1, <1>5, <2>1 DEF Pending
  <2>. QED  BY <1>2, <1>3, <1>5, <2>1, <2>2, OutsideKeepsRun DEF Pending, Readying
<1>6. ASSUME s.pc \in Readying, Become(t, Begun(s, "requeue", "QUEUED")), row.status \in Requeueable
      PROVE  RunInv' /\ OnlyRetried
  <2>1. PICK r : r = Begun(s, "requeue", "QUEUED")
    OBVIOUS
  <2>2. /\ r.pc = "requeue" /\ ~r.contained
        /\ r.run.version = row.version + 1 /\ r.run.status = "QUEUED"
    BY <1>0, <1>1, <1>6, <2>1 DEF Pending
  <2>3. Pending(r) /\ r.pc \in Readying
    BY <1>1, <1>6, <2>2 DEF Pending, Readying
  <2>4. control' = control \/ Held(t)
    BY <1>2
  <2>. QED  BY <1>2, <1>3, <1>6, <2>1, <2>2, <2>3, <2>4, OutsideKeepsRun
<1>7. ASSUME s.pc \in Readying, Become(t, Begun(s, "init", "INITIALIZING")), row.status \in Running,
             Held(t), control' = [control EXCEPT ![HostOf[t]] = t]
      PROVE  RunInv' /\ OnlyRetried
  <2>1. PICK r : r = Begun(s, "init", "INITIALIZING")
    OBVIOUS
  <2>2. /\ r.pc = "init" /\ ~r.contained
        /\ r.run.version = row.version + 1 /\ r.run.status = "INITIALIZING"
    BY <1>0, <1>1, <1>7, <2>1 DEF Pending
  <2>3. Pending(r) /\ r.pc \in Readying
    BY <1>1, <1>7, <2>2 DEF Pending, Readying
  <2>4. control'[HostOf[t]] = t
    BY <1>1, <1>7
  <2>. QED  BY <1>2, <1>3, <1>7, <2>1, <2>3, <2>4, OutsideKeepsRun
<1>9. CASE Resume(t)
  <2>1. \/ Become(t, Rejecting(s, "left")) \/ Become(t, Goto(s, "acquire"))
        \/ row.status = "PAUSED" /\ Become(t, Begun(s, "requeue", "QUEUED"))
    BY <1>9, Zenon DEF Resume, Begun
  <2>2. s.pc \in Readying
    BY <1>9 DEF Resume, At, Readying
  <2>3. ASSUME Become(t, Rejecting(s, "left")) PROVE RunInv' /\ OnlyRetried
    <3>1. PICK r : r = Rejecting(s, "left")
      OBVIOUS
    <3>. QED  BY <1>0, <1>4, <2>3, <3>1
  <2>. QED  BY <1>5, <1>6, <2>1, <2>2, <2>3 DEF Requeueable
<1>10. CASE Retry(t)
  <2>1. \/ Become(t, Rejecting(s, "left"))
        \/ row.status \in Requeueable /\ Become(t, Begun(s, "requeue", "QUEUED"))
    BY <1>10, Zenon DEF Retry, Requeueable, Begun
  <2>2. s.pc \in Readying
    BY <1>10 DEF Retry, At, Readying
  <2>3. ASSUME Become(t, Rejecting(s, "left")) PROVE RunInv' /\ OnlyRetried
    <3>1. PICK r : r = Rejecting(s, "left")
      OBVIOUS
    <3>. QED  BY <1>0, <1>4, <2>3, <3>1
  <2>. QED  BY <1>6, <2>1, <2>2, <2>3
<1>11. CASE Acquire(t)
  <2>1. Become(t, Rejecting(s, "left")) \/ Become(t, Goto(s, "load"))
    BY <1>11 DEF Acquire
  <2>2. s.pc \in Readying
    BY <1>11 DEF Acquire, At, Readying
  <2>3. ASSUME Become(t, Rejecting(s, "left")) PROVE RunInv' /\ OnlyRetried
    <3>1. PICK r : r = Rejecting(s, "left")
      OBVIOUS
    <3>. QED  BY <1>0, <1>4, <2>3, <3>1
  <2>. QED  BY <1>5, <2>1, <2>2, <2>3
<1>12. CASE Load(t)
  <2>1. \/ Become(t, Rejecting(s, "leave")) \/ Become(t, Goto(s, "leave"))
        \/ /\ row.status \notin Terminal \cup {"PAUSED"}
           /\ Become(t, Begun(s, "init", "INITIALIZING"))
           /\ control' = [control EXCEPT ![HostOf[t]] = t]
    BY <1>12, Zenon DEF Load, Begun
  <2>2. s.pc \in Readying /\ Held(t) /\ row.status \in RunState
    BY <1>1, <1>2, <1>12 DEF Load, At, Readying, Row
  <2>3. ASSUME NEW q \in {Rejecting(s, "leave"), Goto(s, "leave")}, Become(t, q)
        PROVE  RunInv' /\ OnlyRetried
    <3>1. PICK r : r = q
      OBVIOUS
    <3>. QED  BY <1>0, <1>4, <2>3, <3>1
  <2>4. row.status \notin Terminal \cup {"PAUSED"} => row.status \in Running
    BY <2>2 DEF Running
  <2>. QED  BY <1>7, <2>1, <2>2, <2>3, <2>4
<1>13. CASE Leave(t)
  <2>1. PICK r : r = [IdleSession EXCEPT !.pc = "left", !.rejected = s.rejected]
    OBVIOUS
  <2>2. r.pc = "left" /\ Become(t, r)
    BY <1>13, <2>1 DEF Leave, IdleSession
  <2>. QED  BY <1>4, <2>2
<1>. QED  BY <1>9, <1>10, <1>11, <1>12, <1>13

\* resume and retry put the run back in the queue; an execution that has not
\* left yet is at the last writes of its ending.
LEMMA RequeueKeepsRun ==
  ASSUME InOneProcess, RunLockInv, NEW t \in Thread, Requeue(t), call' = call, crashes' = crashes
  PROVE  RunInv' /\ OnlyRetried
<1>. DEFINE s == ses[t]
<1>1. /\ SessionInv /\ RunInv /\ s \in Session /\ s.run \in Row /\ row \in Row
      /\ row.version \in Nat /\ s.run.version \in Nat /\ Pending(s)
  <2>1. SessionInv /\ RunInv /\ Pending(s)
    BY DEF RunLockInv, LockInv, IndInv, CallInv, RunInv
  <2>. QED  BY <2>1, HeldSession DEF Row
<1>2. s.pc = "requeue" /\ ~Iterating(t) /\ saved' = saved /\ control' = control
  BY DEF Requeue, At, Iterating
<1>3. CASE Become(t, Rejecting(s, "left")) /\ row' = row
  <2>1. PICK r : r = Rejecting(s, "left")
    OBVIOUS
  <2>2. r.pc = "left"
    BY <1>1, <2>1, StartFields
  <2>3. Pending(r) /\ r.pc \in {"left"} /\ \A c \in Caller : Answered(c)
    BY <2>2 DEF Pending, Readying, Answered
  <2>. QED  BY <1>2, <1>3, <2>1, <2>2, <2>3, OutsideKeepsRun
<1>4. CASE Accepts(s.run.version - 1) /\ row' = s.run /\ Become(t, Goto(s, "acquire"))
  <2>1. s.run.version = row.version + 1
    BY <1>1, <1>4 DEF Accepts
  <2>2. row.status \in Requeueable /\ row'.status = "QUEUED" /\ row'.version = row.version + 1
    BY <1>1, <1>2, <1>4, <2>1 DEF Pending
  <2>3. /\ ses'[t] = Goto(s, "acquire") /\ \A u \in Thread \ {t} : ses'[u] = ses[u]
    BY <1>1, <1>4 DEF SessionInv, SessionTypeOK, Become
  <2>4. ses'[t].pc = "acquire" /\ ~ses'[t].contained
    BY <1>1, <1>2, <2>3, StartFields DEF Pending, Readying
  <2>5. \A u \in Thread : Iterating(u)' <=> Iterating(u)
    BY <1>2, <2>3, <2>4 DEF Iterating
  <2>6. /\ "QUEUED" \notin Requeueable /\ "QUEUED" \in Resting
        /\ row.status \notin Running
    BY <2>2, StatesAssumption DEF Requeueable, Resting, Running
  <2>7. ASSUME NEW u \in Thread PROVE Registered(u)' /\ Pending(ses[u])'
    <3>1. CASE u = t
      BY <2>4, <3>1 DEF Registered, Pending, Iterating, At, Readying
    <3>2. CASE u # t
      <4>1. Pending(ses[u]) /\ ses'[u] = ses[u] /\ ses[u].run.version \in Nat
        BY <1>1, <2>3, <3>2, HeldSession DEF RunInv, Row
      <4>2. Pending(ses[u])'
        BY <1>1, <2>2, <4>1 DEF Pending
      <4>3. Registered(u)
        BY <1>1 DEF RunInv
      <4>. QED  BY <1>2, <2>5, <4>1, <4>2, <4>3 DEF Registered, At
    <3>. QED  BY <3>1, <3>2
  <2>8. ASSUME NEW u \in Thread, Iterating(u)
        PROVE  ses'[u] = ses[u] /\ Leaving(ses[u]) /\ Composed(u)'
    <3>1. u # t /\ ses'[u] = ses[u] /\ Composed(u)
      BY <1>1, <1>2, <2>3, <2>8 DEF RunInv
    <3>2. Follows(ses[u]) /\ Shaped(ses[u]) /\ KnowsSaved(ses[u])
      BY <2>8, <3>1 DEF Composed
    <3>3. \/ Leaving(ses[u]) /\ ses[u].pc = "persistRow" /\ Same(ses[u])
          \/ Leaving(ses[u]) /\ ses[u].pc = "persistState"
      BY <2>2, <2>6, <3>2 DEF Follows, Overtaken
    <3>4. Follows(ses[u])'
      BY <2>2, <3>1, <3>3 DEF Follows, Same, Overtaken, Leaving
    <3>5. Shaped(ses[u])' /\ KnowsSaved(ses[u])'
      BY <1>2, <3>1, <3>2 DEF Shaped, KnowsSaved, Leaving
    <3>. QED  BY <3>1, <3>3, <3>4, <3>5 DEF Composed
  <2>9. \A u \in Thread : Composed(u)'
    BY <2>5, <2>8 DEF Composed
  <2>10. ASSUME NEW c \in Caller
         PROVE  Hops(call[c])' /\ call'[c].pc \in {"none", "hop", "dispatch", "over"}
    <3>1. call[c].copy.version \in Nat
      BY DEF RunLockInv, LockInv, IndInv, CallInv, SoundCall, Call, Row
    <3>2. Hops(call[c]) /\ call[c].pc \in {"none", "hop", "dispatch", "over"}
      BY <1>1 DEF RunInv
    <3>3. call[c].copy.version <= row.version =>
            call[c].copy.version <= row'.version /\ call[c].copy.version # row'.version
      BY <1>1, <2>2, <3>1
    <3>. QED  BY <3>2, <3>3 DEF Hops
  <2>11. SomebodyMoves'
    BY <2>2, <2>6 DEF SomebodyMoves
  <2>12. RunInv'
    BY <2>7, <2>9, <2>10, <2>11 DEF RunInv
  <2>. QED  BY <2>2, <2>12, StatesAssumption DEF OnlyRetried, Requeueable
<1>. QED  BY <1>3, <1>4 DEF Requeue, WriteRow

\* start's first write: the run is the thread's.
LEMMA InitializingKeepsRun ==
  ASSUME InOneProcess, RunLockInv, NEW t \in Thread, WriteInitializing(t), call' = call,
         crashes' = crashes
  PROVE  RunInv' /\ OnlyRetried
<1>. DEFINE s == ses[t]
<1>1. /\ SessionInv /\ RunInv /\ s \in Session /\ s.run \in Row /\ row \in Row
      /\ row.version \in Nat /\ s.run.version \in Nat /\ Pending(s)
  <2>1. SessionInv /\ RunInv /\ Pending(s)
    BY DEF RunLockInv, LockInv, IndInv, CallInv, RunInv
  <2>. QED  BY <2>1, HeldSession DEF Row
<1>2. s.pc = "init" /\ ~Iterating(t) /\ Held(t) /\ saved' = saved /\ control' = control
  BY DEF WriteInitializing, At, Iterating, Held
<1>3. CASE Become(t, Rejecting(s, "leave")) /\ row' = row
  <2>1. PICK r : r = Rejecting(s, "leave")
    OBVIOUS
  <2>2. r.pc = "leave"
    BY <1>1, <2>1, StartFields
  <2>3. Pending(r) /\ r.pc \in {"leave"} /\ \A c \in Caller : Answered(c)
    BY <2>2 DEF Pending, Readying, Answered
  <2>. QED  BY <1>2, <1>3, <2>1, <2>2, <2>3, OutsideKeepsRun
<1>4. CASE Accepts(s.run.version - 1) /\ row' = s.run /\ Become(t, Goto(s, "setup"))
  <2>1. s.run.version = row.version + 1
    BY <1>1, <1>4 DEF Accepts
  <2>2. /\ row.status \in Running /\ row'.status = "INITIALIZING"
        /\ row'.version = row.version + 1
    BY <1>1, <1>2, <1>4, <2>1 DEF Pending
  <2>3. /\ ses'[t] = Goto(s, "setup") /\ \A u \in Thread \ {t} : ses'[u] = ses[u]
    BY <1>1, <1>4 DEF SessionInv, SessionTypeOK, Become
  <2>4. ses'[t].pc = "setup" /\ ~ses'[t].contained /\ ses'[t].run = s.run
    <3>1. Goto(s, "setup").run = s.run
      BY <1>1, ContinuationsKeepRun
    <3>. QED  BY <1>1, <1>2, <2>3, <3>1, StartFields DEF Pending, Readying
  <2>5. Iterating(t)'
    BY <2>4 DEF Iterating
  <2>6. ASSUME NEW u \in Thread, u # t
        PROVE  ses'[u] = ses[u] /\ ~Iterating(u)' /\ ~At(u, "init")'
    <3>1. ~Held(u) /\ ses'[u] = ses[u]
      BY <1>2, <2>3, <2>6, OneIsInside DEF RunLockInv
    <3>. QED  BY <3>1 DEF Held, Iterating, At
  <2>7. ASSUME NEW u \in Thread PROVE Registered(u)' /\ Pending(ses[u])' /\ Composed(u)'
    <3>1. CASE u = t
      <4>1. Registered(t) /\ At(t, "init") /\ "INITIALIZING" \in Running
        BY <1>1, <1>2, StatesAssumption DEF RunInv, At, Running
      <4>2. Registered(t)' /\ Pending(ses[t])'
        BY <1>2, <2>4, <4>1 DEF Registered, Pending, Readying
      <4>3. Follows(ses[t])' /\ Shaped(ses[t])' /\ KnowsSaved(ses[t])'
        BY <1>4, <2>2, <2>4, <4>1 DEF Follows, Same, Leaving, Shaped, KnowsSaved
      <4>. QED  BY <3>1, <4>2, <4>3 DEF Composed
    <3>2. CASE u # t
      <4>1. Pending(ses[u]) /\ ses[u].run.version \in Nat
        BY <1>1, HeldSession DEF RunInv, Row
      <4>2. Pending(ses[u])'
        BY <1>1, <2>2, <2>6, <3>2, <4>1 DEF Pending
      <4>. QED  BY <2>6, <3>2, <4>2 DEF Registered, Composed
    <3>. QED  BY <3>1, <3>2
  <2>8. ASSUME NEW c \in Caller
        PROVE  Hops(call[c])' /\ call'[c].pc \in {"none", "hop", "dispatch", "over"}
    <3>1. call[c].copy.version \in Nat
      BY DEF RunLockInv, LockInv, IndInv, CallInv, SoundCall, Call, Row
    <3>2. Hops(call[c]) /\ call[c].pc \in {"none", "hop", "dispatch", "over"}
      BY <1>1 DEF RunInv
    <3>3. call[c].copy.version <= row.version =>
            call[c].copy.version <= row'.version /\ call[c].copy.version # row'.version
      BY <1>1, <2>2, <3>1
    <3>. QED  BY <3>2, <3>3 DEF Hops
  <2>9. SomebodyMoves'
    BY <2>4, <2>5, <2>6 DEF SomebodyMoves, Leaving
  <2>10. RunInv'
    BY <2>7, <2>8, <2>9 DEF RunInv
  <2>. QED  BY <2>2, <2>10 DEF OnlyRetried, Running
<1>. QED  BY <1>3, <1>4 DEF WriteInitializing, WriteRow

LEMMA SessionStepKeepsRun ==
  ASSUME InOneProcess, RunLockInv, NEW t \in Thread, SessionStep(t), call' = call,
         crashes' = crashes
  PROVE  RunInv' /\ OnlyRetried
BY LoopKeepsRun, ContainKeepsRun, SettleKeepsRun, PersistRowKeepsRun, PersistStateKeepsRun,
   SetupKeepsRun, StartsKeepRun, RequeueKeepsRun, InitializingKeepsRun
   DEF SessionStep, StartStep

-----------------------------------------------------------------------------
(* The operators' calls.                                                    *)

\* The rest of a walk is a walk, and its last hop is to a resting status.
LEMMA WalkGoesOn ==
  ASSUME NEW path \in Seq(RunState), path # <<>>, NEW status, Walk(status, path)
  PROVE  /\ status \notin Terminal /\ Head(path) \in RunState /\ Tail(path) \in Seq(RunState)
         /\ Walk(Head(path), Tail(path))
         /\ Tail(path) = <<>> => Head(path) \in Resting
<1>1. /\ status \notin Terminal /\ path[Len(path)] \in Resting
      /\ \A i \in 1..(Len(path) - 1) : path[i] \notin Terminal
  BY DEF Walk
<1>2. /\ Len(path) \in Nat /\ Len(path) >= 1
      /\ Head(path) = path[1] /\ Tail(path) \in Seq(RunState)
      /\ Len(Tail(path)) = Len(path) - 1
      /\ \A i \in 1..(Len(path) - 1) : Tail(path)[i] = path[i + 1]
  OBVIOUS
<1>3. Tail(path) = <<>> <=> Len(Tail(path)) = 0
  <2>1. \A q \in Seq(RunState) : q = <<>> <=> Len(q) = 0
    OBVIOUS
  <2>. QED  BY <1>2, <2>1, Zenon
<1>4. CASE Len(path) = 1
  <2>1. Tail(path) = <<>> /\ Head(path) \in Resting
    BY <1>1, <1>2, <1>4, <1>3
  <2>. QED  BY <1>1, <1>2, <2>1 DEF Walk
<1>5. CASE Len(path) > 1
  <2>1. Tail(path) # <<>> /\ Head(path) \notin Terminal
    <3>1. 1 \in 1..(Len(path) - 1) /\ Len(Tail(path)) # 0
      BY <1>2, <1>5
    <3>. QED  BY <1>1, <1>2, <1>3, <3>1
  <2>2. Tail(path)[Len(Tail(path))] \in Resting
    BY <1>1, <1>2, <1>5
  <2>3. ASSUME NEW i \in 1..(Len(Tail(path)) - 1) PROVE Tail(path)[i] \notin Terminal
    BY <1>1, <1>2, <1>5
  <2>. QED  BY <1>1, <1>2, <2>1, <2>2, <2>3 DEF Walk
<1>. QED  BY <1>2, <1>4, <1>5

\* The walk that pause and cancel begin.
LEMMA PathIsWalk ==
  ASSUME row.status \in RunState \ Terminal, NEW target \in {"PAUSED", "CANCELLED"},
         row.status # target
  PROVE  Walk(row.status, Path[row.status][target])
<1>1. target \in Terminal \cup {"WAITING", "PAUSED"} /\ target \in Resting
  BY StatesAssumption DEF Resting
<1>2. /\ Path[row.status][target] # <<>>
      /\ Path[row.status][target][Len(Path[row.status][target])] = target
      /\ \A i \in 1..(Len(Path[row.status][target]) - 1) :
           Path[row.status][target][i] \notin Terminal
  BY <1>1, WalksAssumption
<1>. QED  BY <1>1, <1>2 DEF Walk

LEMMA MakeCallKeepsRun ==
  ASSUME InOneProcess, RunLockInv, NEW c \in Caller, NEW kind \in CallKinds,
         MakeCall(c, kind), crashes' = crashes
  PROVE  RunInv' /\ OnlyRetried
<1>. DEFINE k == [NoCall EXCEPT !.pc = "read", !.kind = kind]
            at(target) == [k EXCEPT !.copy = row, !.path = Path[row.status][target]]
            hop(target) == [at(target) EXCEPT !.pc = "hop"]
<1>1. /\ RunInv /\ row \in Row /\ row.version \in Nat /\ call \in [Caller -> SoundCall]
      /\ SiteOf[c] \in Process /\ HostOf \in [Thread -> Process]
      /\ control \in [Process -> Thread \cup {None}] /\ None \notin Thread
  BY SessionAssumption, ControlAssumption
     DEF RunLockInv, LockInv, IndInv, CallInv, SessionInv, StoreTypeOK, SessionTypeOK, Row
<1>2. CallAt(c, "none") /\ RunIsElsewhere /\ Read(c, k)
  BY DEF MakeCall, InOneProcess
<1>3. kind \in {"pause", "cancel"} => \A t \in Thread : ~Iterating(t)
  <2>1. ASSUME NEW t \in Thread, Iterating(t) PROVE control[SiteOf[c]] = t
    <3>1. HostOf[t] = SiteOf[c]
      BY <1>1 DEF InOneProcess
    <3>. QED  BY <1>1, <2>1, <3>1 DEF RunInv, Registered
  <2>. QED  BY <1>1, <2>1 DEF MakeCall
<1>4. k.kind = kind
  BY DEF NoCall
<1>5. ASSUME NEW target
      PROVE  /\ at(target).pc = "read" /\ hop(target).pc = "hop"
             /\ hop(target).copy = row /\ hop(target).path = Path[row.status][target]
             /\ Over(at(target)).pc = "over" /\ Refused(at(target)).pc = "over"
  BY DEF NoCall, Over, Refused
<1>6. [k EXCEPT !.pc = "dispatch"].pc = "dispatch" /\ Refused(k).pc = "over"
  BY DEF NoCall, Refused
<1>7. \E a : /\ Answer(c, a)
             /\ \/ a.pc \in {"over", "dispatch"}
                \/ /\ a.pc = "hop" /\ \A t \in Thread : ~Iterating(t)
                   /\ a.copy = row /\ Walk(row.status, a.path)
  <2>1. ASSUME NEW target \in {"PAUSED", "CANCELLED"}, kind \in {"pause", "cancel"},
               ReadToMove(c, k, target)
        PROVE  \E a : /\ Answer(c, a)
                      /\ \/ a.pc \in {"over", "dispatch"}
                         \/ /\ a.pc = "hop" /\ \A t \in Thread : ~Iterating(t)
                            /\ a.copy = row /\ Walk(row.status, a.path)
    <3>1. \/ Answer(c, Refused(at(target))) \/ Answer(c, Over(at(target)))
          \/ row.status \notin Terminal \cup {target} /\ Answer(c, hop(target))
      BY <2>1, Zenon DEF ReadToMove
    <3>2. row.status \notin Terminal \cup {target} => Walk(row.status, hop(target).path)
      BY <1>1, <1>5, PathIsWalk DEF Row
    <3>. HIDE DEF at, hop, k
    <3>. QED  BY <1>3, <1>5, <2>1, <3>1, <3>2
  <2>2. ASSUME ReadToDispatch(c, k)
        PROVE  \E a : Answer(c, a) /\ a.pc \in {"over", "dispatch"}
    <3>. HIDE DEF k
    <3>. QED  BY <1>6, <2>2 DEF ReadToDispatch
  <2>3. kind # "restore"
    BY DEF InOneProcess
  <2>. HIDE DEF k
  <2>. QED  BY <1>2, <1>4, <2>1, <2>2, <2>3 DEF Read
<1>8. PICK a : /\ Answer(c, a)
               /\ \/ a.pc \in {"over", "dispatch"}
                  \/ /\ a.pc = "hop" /\ \A t \in Thread : ~Iterating(t)
                     /\ a.copy = row /\ Walk(row.status, a.path)
  BY <1>7
<1>. HIDE DEF k
<1>9. call'[c] = a /\ \A d \in Caller \ {c} : call'[d] = call[d]
  BY <1>1, <1>8 DEF Answer
<1>10. ASSUME NEW d \in Caller PROVE Answered(d)
  <2>1. Hops(a)
    BY <1>1, <1>8 DEF Hops
  <2>. QED  BY <1>2, <1>8, <1>9, <2>1 DEF Answered, CallAt
<1>11. \A u \in Thread : Alike(ses[u], ses'[u]) /\ Registered(u)'
  BY <1>1, <1>2 DEF RunIsElsewhere, Alike, RunInv, Registered, Iterating, At
<1>12. row' = row /\ saved' = saved
  BY <1>2 DEF RunIsElsewhere
<1>13. RunInv'
  BY <1>1, <1>10, <1>11, <1>12, RowStays
<1>. QED  BY <1>12, <1>13 DEF OnlyRetried

LEMMA SignalKeepsRun ==
  ASSUME RunLockInv, NEW c \in Caller, NEW kind \in CallKinds, Signal(c, kind),
         crashes' = crashes
  PROVE  RunInv' /\ OnlyRetried
<1>1. /\ RunInv /\ call \in [Caller -> SoundCall] /\ ses \in [Thread -> Session]
  BY DEF RunLockInv, LockInv, IndInv, CallInv, SessionInv, SessionTypeOK
<1>2. \A u \in Thread : Alike(ses[u], ses'[u])
  BY <1>1 DEF Signal, Alike, Session
<1>3. row' = row /\ saved' = saved /\ control' = control
  BY DEF Signal
<1>4. \A u \in Thread : Registered(u)'
  BY <1>1, <1>2, <1>3 DEF RunInv, Registered, Iterating, At, Alike
<1>5. ASSUME NEW d \in Caller PROVE Answered(d)
  <2>1. CASE d = c
    <3>1. call'[c].pc = "over" /\ CallAt(c, "none")
      BY <1>1 DEF Signal, Answer, NoCall
    <3>. QED  BY <2>1, <3>1 DEF Answered, Hops, CallAt
  <2>2. CASE d # c
    <3>1. call'[d] = call[d]
      BY <1>1, <2>2 DEF Signal, Answer
    <3>. QED  BY <3>1 DEF Answered
  <2>. QED  BY <2>1, <2>2
<1>6. RunInv'
  BY <1>1, <1>2, <1>3, <1>4, <1>5, RowStays
<1>. QED  BY <1>3, <1>6 DEF OnlyRetried

\* A hop of pause or cancel that is accepted: nobody executes the run.
LEMMA WriteHopKeepsRun ==
  ASSUME RunLockInv, NEW c \in Caller, WriteHop(c), crashes' = crashes
  PROVE  RunInv' /\ OnlyRetried
<1>. DEFINE k == call[c]
            hopped == [k.copy EXCEPT !.status = Head(k.path), !.version = @ + 1]
            further == [k EXCEPT !.copy = hopped, !.path = Tail(k.path)]
<1>1. /\ RunInv /\ row \in Row /\ row.version \in Nat /\ call \in [Caller -> SoundCall]
  BY DEF RunLockInv, LockInv, IndInv, CallInv, SessionInv, StoreTypeOK, Row
<1>2. /\ k.pc = "hop" /\ k \in Call /\ k.copy \in Row /\ k.copy.version \in Nat
      /\ k.path \in Seq(RunState)
      /\ k.copy.version <= row.version /\ Walk(k.copy.status, k.path)
      /\ k.copy.version = row.version =>
           k.copy.status = row.status /\ \A t \in Thread : ~Iterating(t)
  <2>1. k \in Call /\ Hops(k) /\ k.pc = "hop"
    BY <1>1 DEF RunInv, SoundCall, WriteHop, CallAt
  <2>. QED  BY <2>1 DEF Hops, Call, Row
<1>3. ses' = ses /\ saved' = saved /\ control' = control
  BY DEF WriteHop
<1>4. CASE row' = row /\ (Answer(c, Over(k)) \/ Answer(c, Refused(k)))
           /\ (k.copy.version = row.version => k.path = <<>>)
  <2>1. call'[c].pc = "over" /\ \A d \in Caller \ {c} : call'[d] = call[d]
    BY <1>1, <1>2, <1>4 DEF Answer, Over, Refused, Call
  <2>2. k.copy.version = row.version => row.status \in Resting
    BY <1>2, <1>4 DEF Walk
  <2>3. \A d \in Caller : Answered(d)
    BY <2>1, <2>2 DEF Answered, Hops
  <2>4. \A u \in Thread : Alike(ses[u], ses'[u]) /\ Registered(u)'
    BY <1>1, <1>3 DEF Alike, RunInv, Registered, Iterating, At
  <2>5. RunInv'
    BY <1>1, <1>3, <1>4, <2>3, <2>4, RowStays
  <2>. QED  BY <1>4, <2>5 DEF OnlyRetried
<1>5. CASE k.path # <<>> /\ Accepts(k.copy.version) /\ row' = hopped /\ Answer(c, further)
  <2>1. /\ k.copy.version = row.version /\ k.copy.status = row.status
        /\ \A t \in Thread : ~Iterating(t)
    BY <1>2, <1>5 DEF Accepts
  <2>2. /\ row.status \notin Terminal /\ Walk(Head(k.path), Tail(k.path))
        /\ Tail(k.path) = <<>> => Head(k.path) \in Resting
    BY <1>2, <1>5, <2>1, WalkGoesOn
  <2>3. row'.version = row.version + 1 /\ row'.status = Head(k.path)
    BY <1>2, <1>5, <2>1 DEF Row
  <2>. HIDE DEF hopped
  <2>4. further.pc = "hop" /\ further.copy = hopped /\ further.path = Tail(k.path)
    BY <1>2 DEF Call
  <2>. HIDE DEF further
  <2>5. call'[c] = further /\ \A d \in Caller \ {c} : call'[d] = call[d]
    BY <1>1, <1>5 DEF Answer
  <2>6. \A u \in Thread : ~Iterating(u)'
    BY <1>3, <2>1 DEF Iterating
  <2>7. ASSUME NEW u \in Thread PROVE Registered(u)' /\ Pending(ses[u])' /\ Composed(u)'
    <3>1. Registered(u) /\ Pending(ses[u]) /\ ses[u].run.version \in Nat
      <4>1. SessionInv
        BY DEF RunLockInv, LockInv, IndInv, CallInv
      <4>. QED  BY <1>1, <4>1, HeldSession DEF RunInv, Row
    <3>2. Pending(ses[u])'
      BY <1>1, <1>3, <2>3, <3>1 DEF Pending
    <3>. QED  BY <1>3, <2>6, <3>1, <3>2 DEF Registered, At, Composed
  <2>8. ASSUME NEW d \in Caller
        PROVE  Hops(call[d])' /\ call'[d].pc \in {"none", "hop", "dispatch", "over"}
    <3>1. CASE d = c
      BY <1>1, <1>5, <2>2, <2>3, <2>4, <2>5, <2>6, <3>1 DEF Hops
    <3>2. CASE d # c
      <4>1. call[d].copy.version \in Nat
        BY <1>1 DEF SoundCall, Call, Row
      <4>2. Hops(call[d]) /\ call[d].pc \in {"none", "hop", "dispatch", "over"}
        BY <1>1 DEF RunInv
      <4>3. call[d].copy.version <= row.version =>
              call[d].copy.version <= row'.version /\ call[d].copy.version # row'.version
        BY <1>1, <2>3, <4>1
      <4>. QED  BY <2>5, <3>2, <4>2, <4>3 DEF Hops
    <3>. QED  BY <3>1, <3>2
  <2>9. SomebodyMoves'
    BY <1>5, <2>4, <2>5, <2>6 DEF SomebodyMoves, CallAt
  <2>10. RunInv'
    BY <2>7, <2>8, <2>9 DEF RunInv
  <2>. QED  BY <2>2, <2>10 DEF OnlyRetried
<1>6. \/ k.path = <<>> /\ Answer(c, Over(k)) /\ row' = row
      \/ k.path # <<>> /\ Accepts(k.copy.version) /\ row' = hopped /\ Answer(c, further)
      \/ ~Accepts(k.copy.version) /\ Answer(c, Refused(k)) /\ row' = row
  BY Zenon DEF WriteHop, WriteRow
<1>. QED  BY <1>4, <1>5, <1>6 DEF Accepts

LEMMA CallStepKeepsRun ==
  ASSUME InOneProcess, RunLockInv, NEW c \in Caller, CallStep(c), crashes' = crashes
  PROVE  RunInv' /\ OnlyRetried
<1>1. ~(ReadRow(c) \/ LoadVersion(c) \/ SaveCheckpoint(c))
  BY DEF RunLockInv, RunInv, ReadRow, LoadVersion, SaveCheckpoint, CallAt
<1>. QED  BY <1>1, MakeCallKeepsRun, SignalKeepsRun, WriteHopKeepsRun DEF CallStep

\* What becomes of the whole: the invariant, and what may happen to an ending.
LEMMA RunNextKeeps ==
  ASSUME InOneProcess, RunLockInv, [Next]_vars
  PROVE  RunLockInv' /\ OnlyRetried
<1>1. LockInv'
  BY LockNextKeeps DEF RunLockInv, InOneProcess
<1>2. /\ RunInv /\ ses \in [Thread -> Session] /\ call \in [Caller -> SoundCall] /\ crashes \in Nat
  BY DEF RunLockInv, LockInv, IndInv, CallInv, SessionInv, SessionTypeOK
<1>3. ASSUME NEW t \in Thread, SessionStep(t), UNCHANGED <<call, crashes>>
      PROVE  RunInv' /\ OnlyRetried
  BY <1>3, SessionStepKeepsRun
<1>4. ASSUME NEW t \in Thread, ReturnInline(t), UNCHANGED <<call, crashes>>
      PROVE  RunInv' /\ OnlyRetried
  <2>1. PICK r : r = IdleSession
    OBVIOUS
  <2>2. r.pc = "idle" /\ ~Iterating(t) /\ Become(t, r)
    BY <1>4, <2>1 DEF IdleSession, ReturnInline, At, Iterating
  <2>3. Pending(r) /\ \A c \in Caller : Answered(c)
    BY <1>4, <2>2 DEF Pending, Readying, Answered
  <2>. QED  BY <1>4, <2>2, <2>3, OutsideKeepsRun DEF ReturnInline, LocalStep
<1>5. ASSUME NEW c \in Caller, CallStep(c), UNCHANGED crashes
      PROVE  RunInv' /\ OnlyRetried
  BY <1>5, CallStepKeepsRun
<1>6. ASSUME NEW c \in Caller, NEW t \in Thread, DispatchInline(c, t), UNCHANGED crashes
      PROVE  RunInv' /\ OnlyRetried
  <2>1. FirstPhase(call[c].kind) \in {"acquire", "resume", "retry"} /\ call[c] \in Call
    BY <1>2, <1>6 DEF DispatchInline, SoundCall, CallAt, FirstPhase
  <2>2. PICK r : r = Goto(IdleSession, FirstPhase(call[c].kind))
    OBVIOUS
  <2>3. r.pc \in {"acquire", "resume", "retry"} /\ ~r.contained
    BY <2>1, <2>2 DEF Goto, IdleSession
  <2>4. /\ Become(t, r) /\ ~Iterating(t)
        /\ row' = row /\ saved' = saved /\ control' = control
    BY <1>6, <2>2 DEF DispatchInline, Begin, At, Iterating
  <2>5. \A d \in Caller : Answered(d)
    <3>1. call'[c].pc = "over" /\ call[c].pc = "dispatch"
      BY <1>2, <1>6, <2>1 DEF DispatchInline, Answer, Over, CallAt, Call
    <3>2. \A d \in Caller \ {c} : call'[d] = call[d]
      BY <1>2, <1>6 DEF DispatchInline, Answer
    <3>. QED  BY <3>1, <3>2 DEF Answered, Hops, CallAt
  <2>6. Pending(r)
    BY <2>3 DEF Pending
  <2>. QED  BY <1>6, <2>3, <2>4, <2>5, <2>6, OutsideKeepsRun DEF Readying
<1>7. ASSUME NEW p \in Process, Restart(p) PROVE RunInv' /\ OnlyRetried
  <2>1. /\ row' = row /\ saved' = saved /\ crashes' # 0
        /\ \A t \in Thread : ses'[t].pc = "idle"
    BY <1>2, <1>7, SessionAssumption DEF Restart, ProcessLost, IdleSession, InOneProcess
  <2>2. \A c \in Caller : call'[c].pc \in {"none", "over"}
    <3>1. ASSUME NEW c \in Caller PROVE SiteOf[c] = p /\ Refused(call[c]).pc = "over"
      BY <1>2, <3>1, ControlAssumption DEF InOneProcess, Refused, SoundCall, Call
    <3>. QED  BY <1>7, <3>1 DEF Restart, CallAt
  <2>3. RunInv'
    BY <2>1, <2>2 DEF RunInv, Registered, Pending, Composed, Hops, Iterating, At, Readying
  <2>. QED  BY <2>1, <2>3 DEF OnlyRetried
<1>8. ASSUME UNCHANGED vars PROVE RunInv' /\ OnlyRetried
  <2>1. /\ row' = row /\ saved' = saved /\ crashes' = crashes /\ ses' = ses
        /\ control' = control /\ call' = call
    BY <1>8 DEF vars, storeVars, sessionVars
  <2>2. \A u \in Thread : Alike(ses[u], ses'[u]) /\ Registered(u)'
    BY <1>2, <2>1 DEF Alike, RunInv, Registered, Iterating, At
  <2>3. \A c \in Caller : Answered(c)
    BY <2>1 DEF Answered
  <2>4. RunInv'
    BY <1>2, <2>1, <2>2, <2>3, RowStays
  <2>. QED  BY <2>1, <2>4 DEF OnlyRetried
<1>9. RunInv' /\ OnlyRetried
  BY <1>3, <1>4, <1>5, <1>6, <1>7, <1>8 DEF Next
<1>. QED  BY <1>1, <1>9 DEF RunLockInv

LEMMA RunInit == Init => RunLockInv
<1>. SUFFICES ASSUME Init PROVE RunLockInv
  OBVIOUS
<1>1. /\ \A t \in Thread : ses[t].pc = "idle"
      /\ \A c \in Caller : call[c].pc = "none"
      /\ row.status = "CREATED"
  BY DEF Init, SessionInit, ControlInit, StoreInit, IdleSession, NoCall
<1>2. LockInv
  BY <1>1, InitEstablishes DEF LockInv, HeldByOwner, Held
<1>3. RunInv
  BY <1>1 DEF RunInv, Registered, Pending, Composed, Hops, SomebodyMoves, Iterating, At,
              Readying, Resting
<1>. QED  BY <1>2, <1>3 DEF RunLockInv

\* In a process with the store in it an ending is final but for the retry of a
\* failure: no session that comes late to its last persist, no operator's call
\* that read the row before, and no crash moves the run away from it or replaces
\* it by another.
THEOREM EndingsAreFinal == InOneProcess => (Spec => FinishedMovesOnlyByRetry)
<1>. SUFFICES ASSUME InOneProcess PROVE Spec => FinishedMovesOnlyByRetry
  OBVIOUS
<1>1. RunLockInv /\ [Next]_vars => RunLockInv'
  BY RunNextKeeps
<1>2. RunLockInv /\ [Next]_vars =>
        [row.status \in Terminal /\ row'.status # row.status =>
           row.status \in {"FAILED", "TIMED_OUT"} /\ row'.status = "QUEUED"]_vars
  BY RunNextKeeps DEF OnlyRetried
<1>. QED  BY <1>1, <1>2, RunInit, PTL DEF Spec, FinishedMovesOnlyByRetry

\* An execution that ends, by whichever exception or refused write, has given
\* the run a status that an operator or a dispatcher can take it from, unless
\* the process died or what start loads outside the loop's containment threw.
THEOREM NobodyIsStranded == InOneProcess /\ ~SetupFails => (Spec => []NotStranded)
<1>. SUFFICES ASSUME InOneProcess, ~SetupFails PROVE Spec => []NotStranded
  OBVIOUS
<1>1. RunLockInv /\ [Next]_vars => RunLockInv'
  BY RunNextKeeps
<1>2. RunLockInv => NotStranded
  BY DEF RunLockInv, RunInv, SomebodyMoves, NotStranded, Iterating, At, Resting
<1>. QED  BY <1>1, <1>2, RunInit, PTL DEF Spec
=============================================================================
