-------------------------- MODULE LifecycleProofs --------------------------
(***************************************************************************)
(* Facts about one step of a session (RunSession) or of an operator's call *)
(* (RunControl), whatever deployment takes the step: it keeps the types,   *)
(* the row's version never goes down, the stored state never gets ahead of *)
(* it, a session behind the row runs out of tools to execute, nobody but   *)
(* the queue changes the claim, and a session goes on from the copy of the *)
(* row it has, which it writes only over the version it has.  The proofs   *)
(* of a deployment build its invariants on these.                          *)
(***************************************************************************)
EXTENDS RunControl, TLAPS

\* Sessions that come back from persist to a phase of their own, and among them
\* those that are not between persist's two writes.
Returning == {s \in Session : s.next # "persistState"}

Ready == {s \in Returning : s.pc # "persistState"}

\* The stored state is not newer than the row, nor is the state that a session
\* between persist's two writes is about to store.
VersionsInOrder ==
  /\ saved <= row.version
  /\ \A t \in Thread : At(t, "persistState") => ses[t].state <= row.version

\* The part of the deployments' inductive invariants that is about sessions.
SessionInv ==
  /\ StoreTypeOK
  /\ SessionTypeOK
  /\ ses \in [Thread -> Returning]
  /\ VersionsInOrder

-----------------------------------------------------------------------------
(* The session-building operators stay within Ready.                        *)

\* Every status the code names is a state of the table.
LEMMA StatusesAreStates ==
  {"CREATED", "QUEUED", "INITIALIZING", "PLANNING", "EXECUTING", "OBSERVING",
   "VERIFYING", "RECOVERING", "WAITING", "PAUSED", "COMPLETED", "FAILED",
   "CANCELLED", "TIMED_OUT"} = RunState
BY StatesAssumption

\* A free claim, as enqueue and release write it, is a claim.
LEMMA FreeClaimIsClaim == ASSUME NEW n \in Nat PROVE FreeClaim(n) \in Claim
BY DEF FreeClaim, Claim

\* A thread that executes nothing is ready.
LEMMA IdleSessionIsReady == IdleSession \in Ready
BY StatusesAreStates, FreeClaimIsClaim DEF IdleSession, Ready, Returning, Session, Phase, Row

\* Moving a session to another phase, unless it is persist's second write.
LEMMA GotoIsReady ==
  ASSUME NEW s \in Returning, NEW pc \in Phase \ {"persistState"}
  PROVE  Goto(s, pc) \in Ready
BY DEF Goto, Ready, Returning, Session

\* Calling persist.
LEMMA PersistingIsReady ==
  ASSUME NEW s \in Returning, NEW next \in Phase \ {"persistState"}
  PROVE  Persisting(s, next) \in Ready
<1>1. [s EXCEPT !.next = next] \in Returning
  BY DEF Returning, Session, Phase
<1>2. Goto([s EXCEPT !.next = next], "persistRow") \in Ready
  BY <1>1, GotoIsReady DEF Phase
<1>3. Persisting(s, next) = Goto([s EXCEPT !.next = next], "persistRow")
  BY DEF Persisting, Goto, Returning, Session
<1>. QED  BY <1>2, <1>3

\* Forgetting the loop's local variables.
LEMMA UnwoundIsReturning ==
  ASSUME NEW s \in Session
  PROVE  Unwound(s) \in Returning /\ Unwound(s).pc = s.pc
<1>1. "idle" \in Phase
  BY DEF Phase
<1>2. "CREATED" \in RunState
  BY StatusesAreStates
<1>3. [s EXCEPT !.next = "idle", !.goal = "CREATED"] \in Session
  BY <1>1, <1>2 DEF Session
<1>4. [[s EXCEPT !.next = "idle", !.goal = "CREATED"]
        EXCEPT !.expected = 0, !.steps = 0, !.tries = 0] \in Session
  BY <1>3 DEF Session
<1>5. Unwound(s) = [[s EXCEPT !.next = "idle", !.goal = "CREATED"]
                     EXCEPT !.expected = 0, !.steps = 0, !.tries = 0]
  BY DEF Unwound, Session
<1>6. Unwound(s).next = "idle" /\ Unwound(s).pc = s.pc
  BY DEF Unwound, Session
<1>. QED  BY <1>4, <1>5, <1>6 DEF Returning

\* Heading for a resting status.
LEMMA SettlingIsReady ==
  ASSUME NEW s \in Session, NEW status \in RunState
  PROVE  Settling(s, status) \in Ready
<1>1. Unwound(s) \in Returning
  BY UnwoundIsReturning
<1>2. [Unwound(s) EXCEPT !.goal = status] \in Returning
  BY <1>1 DEF Returning, Session
<1>3. Goto([Unwound(s) EXCEPT !.goal = status], "settle") \in Ready
  BY <1>2, GotoIsReady DEF Phase
<1>4. Settling(s, status) = Goto([Unwound(s) EXCEPT !.goal = status], "settle")
  BY <1>1 DEF Settling, Goto, Returning, Session
<1>. QED  BY <1>3, <1>4

\* Ending start() with an error.
LEMMA RejectingIsReady ==
  ASSUME NEW s \in Returning, NEW pc \in Phase \ {"persistState"}
  PROVE  Rejecting(s, pc) \in Ready
BY DEF Rejecting, Ready, Returning, Session

\* An exception in the loop.
LEMMA RaisedIsReady ==
  ASSUME NEW s \in Returning
  PROVE  Raised(s) \in Ready
<1>1. CASE s.contained
  BY <1>1, RejectingIsReady DEF Raised, Phase
<1>2. CASE ~s.contained
  <2>1. Unwound(s) \in Returning
    BY UnwoundIsReturning DEF Returning
  <2>. QED  BY <1>2, <2>1, GotoIsReady DEF Raised, Phase
<1>. QED  BY <1>1, <1>2

\* An exception in the decision.
LEMMA DecisionRaisedIsReady ==
  ASSUME NEW s \in Returning
  PROVE  DecisionRaised(s) \in Ready
<1>1. s \in Session /\ "CANCELLED" \in RunState
  BY StatusesAreStates DEF Returning
<1>. QED  BY <1>1, SettlingIsReady, GotoIsReady DEF DecisionRaised, Phase

\* persist raising both versions in memory: the state gets the row's new one.
LEMMA BumpedIsReturning ==
  ASSUME NEW s \in Returning
  PROVE  /\ Bumped(s) \in Returning
         /\ Bumped(s).pc = s.pc
         /\ Bumped(s).run.version = s.run.version + 1
         /\ Bumped(s).state = s.run.version + 1
<1>. DEFINE r == [s.run EXCEPT !.version = @ + 1]
<1>1. s \in Session /\ s.run \in Row /\ s.run.version \in Nat /\ s.state \in Nat
  BY DEF Returning, Session, Row
<1>2. r \in Row /\ r.version = s.run.version + 1
  BY <1>1 DEF Row
<1>3. s.run.version + 1 \in Nat
  BY <1>1
<1>4. [s EXCEPT !.run = r] \in Returning
  BY <1>2 DEF Session, Returning
<1>5. \A n, m \in Nat : [[s EXCEPT !.run = r] EXCEPT !.state = n, !.expected = m] \in Returning
  BY <1>4 DEF Session, Returning
<1>6. Bumped(s) = [[s EXCEPT !.run = r] EXCEPT !.state = s.run.version + 1, !.expected = s.state]
  BY <1>1 DEF Bumped, Session
<1>7. Bumped(s).pc = s.pc /\ Bumped(s).run = r /\ Bumped(s).state = s.run.version + 1
  BY <1>1 DEF Bumped, Session
<1>. QED  BY <1>1, <1>2, <1>3, <1>5, <1>6, <1>7

\* advanceTo changing the status in memory.
LEMMA MovedIsReturning ==
  ASSUME NEW t \in Thread, ses[t] \in Returning, NEW target \in RunState
  PROVE  /\ Moved(t, target) \in Returning
         /\ Moved(t, target).pc = ses[t].pc
         /\ Moved(t, target).run.version = ses[t].run.version
BY DEF Moved, Returning, Session, Row

-----------------------------------------------------------------------------
(* The three shapes that a step of a session has                            *)

\* A thread becomes a ready session, and the row does not go back.
LEMMA Quiet ==
  ASSUME SessionInv, NEW t \in Thread, NEW s \in Ready, Become(t, s),
         row' \in Row, row.version <= row'.version, saved' = saved,
         lock' \in [Process -> Thread \cup {None}],
         control' \in [Process -> Thread \cup {None}],
         blind' \in [Thread -> Nat]
  PROVE  SessionInv'
<1>1. ses' \in [Thread -> Returning]
  BY DEF SessionInv, Become, Ready
<1>2. row.version \in Nat /\ row'.version \in Nat /\ saved \in Nat
  BY DEF SessionInv, StoreTypeOK, Row
<1>3. StoreTypeOK'
  BY DEF SessionInv, StoreTypeOK
<1>4. SessionTypeOK'
  BY <1>1 DEF SessionTypeOK, Returning
<1>5. saved' <= row'.version
  BY <1>2 DEF SessionInv, VersionsInOrder
<1>6. ASSUME NEW u \in Thread, At(u, "persistState")'
      PROVE  ses'[u].state <= row'.version
  <2>1. ses \in [Thread -> Returning]
    BY DEF SessionInv
  <2>2. u # t
    BY <1>6, <2>1 DEF Become, At, Ready
  <2>3. ses'[u] = ses[u]
    BY <2>1, <2>2 DEF Become
  <2>4. ses[u].state \in Nat /\ ses[u].state <= row.version
    BY <1>6, <2>1, <2>3 DEF At, SessionInv, VersionsInOrder, Returning, Session
  <2>. QED  BY <1>2, <2>3, <2>4
<1>. QED  BY <1>1, <1>3, <1>4, <1>5, <1>6 DEF SessionInv, VersionsInOrder

\* A decision: the thread alone changes, to one of some ready sessions.
LEMMA LocalQuiet ==
  ASSUME SessionInv, NEW t \in Thread, NEW after, after \subseteq Ready,
         BecomeOneOf(t, after), LocalStep
  PROVE  SessionInv'
<1>1. PICK s \in after : Become(t, s)
  BY DEF BecomeOneOf
<1>2. row \in Row /\ row.version <= row.version
  BY DEF SessionInv, StoreTypeOK, Row
<1>3. /\ lock \in [Process -> Thread \cup {None}]
      /\ control \in [Process -> Thread \cup {None}]
      /\ blind \in [Thread -> Nat]
  BY DEF SessionInv, SessionTypeOK
<1>. QED  BY <1>1, <1>2, <1>3, Quiet DEF LocalStep

\* advanceTo: the row is written at the version it has.
LEMMA AdvanceQuiet ==
  ASSUME SessionInv, NEW t \in Thread, NEW target \in RunState,
         NEW after, after \subseteq Ready, NEW raised \in Ready,
         AdvanceTo(t, target, after, raised)
  PROVE  SessionInv'
<1>1. ses[t] \in Returning /\ row \in Row /\ row.version \in Nat
  BY DEF SessionInv, StoreTypeOK, Row
<1>2. Moved(t, target).run \in Row /\ Moved(t, target).run.version = ses[t].run.version
  BY <1>1, MovedIsReturning DEF Returning, Session
<1>3. row' \in Row /\ row.version <= row'.version
  BY <1>1, <1>2 DEF AdvanceTo, Accepts, WriteRow
<1>4. \E s \in Ready : Become(t, s)
  BY DEF AdvanceTo, BecomeOneOf
<1>5. /\ saved' = saved
      /\ lock' \in [Process -> Thread \cup {None}]
      /\ control' \in [Process -> Thread \cup {None}]
      /\ blind' \in [Thread -> Nat]
  BY DEF SessionInv, SessionTypeOK, AdvanceTo
<1>. QED  BY <1>3, <1>4, <1>5, Quiet

-----------------------------------------------------------------------------
(* Every step of a session keeps SessionInv: one lemma per action, or per    *)
(* group of actions with one argument.                                       *)

\* What the lemmas below read of a thread's session.
LEMMA HeldSession ==
  ASSUME SessionInv, NEW t \in Thread
  PROVE  /\ ses[t] \in Returning /\ ses[t] \in Session
         /\ ses[t].run \in Row /\ ses[t].goal \in RunState /\ ses[t].next \in Phase
         /\ row \in Row /\ row.version \in Nat /\ saved \in Nat
BY DEF SessionInv, StoreTypeOK, Returning, Session, Row

\* Counting an iteration, or an attempt to recover.
LEMMA CountedIsReturning ==
  ASSUME NEW s \in Returning
  PROVE  /\ [s EXCEPT !.steps = @ + 1] \in Returning
         /\ [s EXCEPT !.tries = @ + 1] \in Returning
BY DEF Returning, Session

LEMMA TopKeeps == ASSUME SessionInv, NEW t \in Thread, Top(t) PROVE SessionInv'
<1>. DEFINE s == [ses[t] EXCEPT !.steps = @ + 1]
<1>1. s \in Returning /\ s \in Session
  BY HeldSession, CountedIsReturning DEF Returning
<1>2. \A status \in RunState : Settling(s, status) \in Ready
  BY <1>1, SettlingIsReady
<1>3. Goto(s, "look") \in Ready
  BY <1>1, GotoIsReady DEF Phase
<1>4. BecomeOneOf(t, Ready) /\ LocalStep
  BY <1>2, <1>3, StatusesAreStates DEF Top, BecomeOneOf
<1>. QED  BY <1>4, LocalQuiet

LEMMA LookKeeps == ASSUME SessionInv, NEW t \in Thread, Look(t) PROVE SessionInv'
<1>1. ses[t] \in Returning /\ ses[t] \in Session
  BY HeldSession
<1>2. \A status \in RunState : Settling(ses[t], status) \in Ready
  BY <1>1, SettlingIsReady
<1>3. Goto(ses[t], "observe") \in Ready
  BY <1>1, GotoIsReady DEF Phase
<1>4. row.status \in RunState
  BY HeldSession DEF Row
<1>5. BecomeOneOf(t, Ready) /\ LocalStep
  BY <1>2, <1>3, <1>4, StatusesAreStates DEF Look, BecomeOneOf
<1>. QED  BY <1>5, LocalQuiet

\* What an action of the loop may make of a session that keeps `next`.
LEMMA ContinuationsAreReady ==
  ASSUME NEW s \in Returning
  PROVE  /\ \A pc \in Phase \ {"persistState"} :
              Goto(s, pc) \in Ready /\ Persisting(s, pc) \in Ready
         /\ \A status \in RunState : Settling(s, status) \in Ready
         /\ Raised(s) \in Ready /\ DecisionRaised(s) \in Ready
<1>1. s \in Session
  BY DEF Returning
<1>. QED
  BY <1>1, GotoIsReady, PersistingIsReady, SettlingIsReady, RaisedIsReady, DecisionRaisedIsReady

\* The decisions of the loop that write nothing.
LEMMA DecisionsKeep ==
  ASSUME SessionInv, NEW t \in Thread,
         \/ Think(t) \/ DecisionRecovery(t) \/ Recorded(t) \/ Repair(t)
         \/ StepDone(t) \/ Complete(t) \/ Judge(t)
  PROVE  SessionInv'
<1>1. ses[t] \in Returning
  BY HeldSession
<1>2. /\ \A pc \in Phase \ {"persistState"} :
            Goto(ses[t], pc) \in Ready /\ Persisting(ses[t], pc) \in Ready
      /\ \A status \in RunState : Settling(ses[t], status) \in Ready
      /\ Raised(ses[t]) \in Ready /\ DecisionRaised(ses[t]) \in Ready
  BY <1>1, ContinuationsAreReady
<1>3. {"act", "finish", "top", "stepDone", "recover", "rework"} \subseteq Phase \ {"persistState"}
  BY DEF Phase
<1>4. {"FAILED", "WAITING", "CANCELLED", "COMPLETED"} \subseteq RunState
  BY StatusesAreStates
<1>5. ASSUME Think(t) PROVE BecomeOneOf(t, Ready) /\ LocalStep
  BY <1>2, <1>3, <1>4, <1>5 DEF Think, BecomeOneOf
<1>6. ASSUME DecisionRecovery(t) PROVE BecomeOneOf(t, Ready) /\ LocalStep
  BY <1>2, <1>3, <1>4, <1>6 DEF DecisionRecovery, BecomeOneOf
<1>7. ASSUME Recorded(t) PROVE BecomeOneOf(t, Ready) /\ LocalStep
  BY <1>2, <1>3, <1>4, <1>7 DEF Recorded, BecomeOneOf
<1>8. ASSUME Repair(t) PROVE BecomeOneOf(t, Ready) /\ LocalStep
  BY <1>2, <1>3, <1>4, <1>8 DEF Repair, BecomeOneOf
<1>9. ASSUME StepDone(t) PROVE BecomeOneOf(t, Ready) /\ LocalStep
  BY <1>2, <1>3, <1>4, <1>9 DEF StepDone, BecomeOneOf
<1>10. ASSUME Complete(t) PROVE BecomeOneOf(t, Ready) /\ LocalStep
  BY <1>2, <1>3, <1>4, <1>10 DEF Complete, BecomeOneOf
<1>11. ASSUME Judge(t) PROVE BecomeOneOf(t, Ready) /\ LocalStep
  BY <1>2, <1>3, <1>4, <1>11 DEF Judge, BecomeOneOf
<1>. QED  BY <1>5, <1>6, <1>7, <1>8, <1>9, <1>10, <1>11, LocalQuiet

\* The steps that execute tools also count whether they were behind.
LEMMA ToolStepsKeep ==
  ASSUME SessionInv, NEW t \in Thread, Act(t) \/ RetryAction(t)
  PROVE  SessionInv'
<1>1. ses[t] \in Returning
  BY HeldSession
<1>2. /\ \A pc \in Phase \ {"persistState"} :
            Goto(ses[t], pc) \in Ready /\ Persisting(ses[t], pc) \in Ready
      /\ \A status \in RunState : Settling(ses[t], status) \in Ready
      /\ Raised(ses[t]) \in Ready
  BY <1>1, ContinuationsAreReady
<1>3. {"done", "waiting", "failed", "stepDone", "recover"} \subseteq Phase \ {"persistState"}
  BY DEF Phase
<1>4. CountBlind(t)
  BY DEF Act, RetryAction
<1>5. blind' \in [Thread -> Nat]
  BY <1>4 DEF CountBlind, SessionInv, SessionTypeOK
<1>6. ASSUME Act(t) PROVE BecomeOneOf(t, Ready)
  BY <1>2, <1>3, <1>6 DEF Act, BecomeOneOf
<1>7. ASSUME RetryAction(t) PROVE BecomeOneOf(t, Ready)
  BY <1>2, <1>3, <1>7, StatusesAreStates DEF RetryAction, BecomeOneOf
<1>8. PICK s \in Ready : Become(t, s)
  BY <1>6, <1>7 DEF BecomeOneOf
<1>9. row' = row /\ saved' = saved /\ lock' = lock /\ control' = control
  BY DEF Act, RetryAction
<1>10. row.version <= row.version /\ row \in Row
  BY HeldSession
<1>11. /\ lock \in [Process -> Thread \cup {None}]
       /\ control \in [Process -> Thread \cup {None}]
  BY DEF SessionInv, SessionTypeOK
<1>. QED  BY <1>5, <1>8, <1>9, <1>10, <1>11, Quiet

\* The phases that begin with a call of advanceTo.
LEMMA AdvancesKeep ==
  ASSUME SessionInv, NEW t \in Thread,
         \/ Observe(t) \/ Plan(t) \/ Decide(t) \/ DecisionFailed(t)
         \/ Recover(t) \/ Verify(t) \/ Rework(t)
  PROVE  SessionInv'
<1>1. ses[t] \in Returning
  BY HeldSession
<1>. DEFINE m(target) == Moved(t, target)
            tried(target) == [m(target) EXCEPT !.tries = @ + 1]
<1>2. \A target \in RunState : m(target) \in Returning /\ tried(target) \in Returning
  BY <1>1, MovedIsReturning, CountedIsReturning
<1>3. ASSUME NEW target \in RunState
      PROVE  /\ \A pc \in Phase \ {"persistState"} :
                  /\ Goto(m(target), pc) \in Ready /\ Persisting(m(target), pc) \in Ready
                  /\ Goto(tried(target), pc) \in Ready /\ Persisting(tried(target), pc) \in Ready
             /\ \A status \in RunState : Settling(tried(target), status) \in Ready
             /\ Raised(m(target)) \in Ready /\ DecisionRaised(m(target)) \in Ready
  BY <1>2, ContinuationsAreReady
<1>4. {"decide", "plan", "think", "decisionRecovery", "repair", "judge", "top"}
        \subseteq Phase \ {"persistState"}
  BY DEF Phase
<1>5. {"OBSERVING", "PLANNING", "EXECUTING", "RECOVERING", "VERIFYING", "FAILED", "WAITING"}
        \subseteq RunState
  BY StatusesAreStates
<1>6. ASSUME NEW target \in RunState, NEW after, after \subseteq Ready, Advance(t, target, after)
      PROVE  SessionInv'
  BY <1>3, <1>6, AdvanceQuiet DEF Advance
<1>7. CASE Observe(t)
  <2>. DEFINE s == m("OBSERVING")
              after == {Goto(s, "decide")} \cup IF s.steps = 1 THEN {Goto(s, "plan")} ELSE {}
  <2>1. Advance(t, "OBSERVING", after)
    BY <1>7 DEF Observe
  <2>2. after \subseteq Ready
    BY <1>3, <1>4, <1>5
  <2>. QED  BY <1>5, <1>6, <2>1, <2>2
<1>8. CASE Plan(t)
  BY <1>3, <1>4, <1>5, <1>6, <1>8 DEF Plan
<1>9. CASE Decide(t)
  BY <1>3, <1>4, <1>5, <1>9, AdvanceQuiet DEF Decide
<1>10. CASE DecisionFailed(t)
  BY <1>3, <1>4, <1>5, <1>6, <1>10 DEF DecisionFailed
<1>11. CASE Recover(t)
  BY <1>3, <1>4, <1>5, <1>6, <1>11 DEF Recover
<1>12. CASE Verify(t)
  BY <1>3, <1>4, <1>5, <1>6, <1>12 DEF Verify
<1>13. CASE Rework(t)
  <2>. DEFINE s == tried("RECOVERING")
              after == {Settling(s, "FAILED")} \cup
                       IF s.tries > MaxRecovery THEN {}
                       ELSE {Settling(s, "WAITING"), Persisting(s, "top")}
  <2>1. Advance(t, "RECOVERING", after)
    BY <1>13 DEF Rework
  <2>2. after \subseteq Ready
    BY <1>3, <1>4, <1>5
  <2>. QED  BY <1>5, <1>6, <2>1, <2>2
<1>. QED  BY <1>7, <1>8, <1>9, <1>10, <1>11, <1>12, <1>13

\* The endings: heading for one, and writing it.
LEMMA EndingsKeep ==
  ASSUME SessionInv, NEW t \in Thread, Settle(t) \/ Contain(t)
  PROVE  SessionInv'
<1>1. ses[t] \in Returning /\ ses[t] \in Session /\ ses[t].goal \in RunState
  BY HeldSession
<1>2. CASE Settle(t)
  <2>. DEFINE m == Moved(t, ses[t].goal)
  <2>1. m \in Returning
    BY <1>1, MovedIsReturning
  <2>2. Unwound(m) \in Returning
    BY <2>1, UnwoundIsReturning DEF Returning
  <2>3. Persisting(Unwound(m), "leave") \in Ready
    BY <2>2, PersistingIsReady DEF Phase
  <2>4. Raised(m) \in Ready
    BY <2>1, RaisedIsReady
  <2>. QED  BY <1>1, <1>2, <2>3, <2>4, AdvanceQuiet DEF Settle, Advance
<1>3. CASE Contain(t)
  <2>. DEFINE s == [ses[t] EXCEPT !.contained = TRUE]
  <2>1. s \in Session
    BY <1>1 DEF Session
  <2>2. Settling(s, "CANCELLED") \in Ready /\ Settling(s, "FAILED") \in Ready
    BY <2>1, SettlingIsReady, StatusesAreStates
  <2>3. BecomeOneOf(t, Ready) /\ LocalStep
    BY <1>3, <2>2 DEF Contain, BecomeOneOf
  <2>. QED  BY <2>3, LocalQuiet
<1>. QED  BY <1>2, <1>3

\* persist's first write: the thread now holds the version it just wrote, which
\* is what its second write will store.
LEMMA PersistRowKeeps ==
  ASSUME SessionInv, NEW t \in Thread, PersistRow(t) PROVE SessionInv'
<1>. DEFINE s == ses[t]
            b == Bumped(s)
<1>1. /\ s \in Returning /\ s.run \in Row /\ row \in Row
      /\ row.version \in Nat /\ saved \in Nat /\ s.run.version \in Nat
  BY HeldSession DEF Row
<1>2. /\ b \in Returning /\ b.run.version = s.run.version + 1 /\ b.state = s.run.version + 1
  BY <1>1, BumpedIsReturning
<1>3. CASE Accepts(s.run.version) /\ WriteRow(b.run) /\ Become(t, Goto(b, "persistState"))
  <2>1. Goto(b, "persistState") \in Returning /\ Goto(b, "persistState").state = row.version + 1
    BY <1>1, <1>2, <1>3 DEF Accepts, Goto, Returning, Session, Phase
  <2>2. row' \in Row /\ row'.version = row.version + 1
    BY <1>1, <1>2, <1>3 DEF WriteRow, Accepts, Returning, Session
  <2>3. ses' \in [Thread -> Returning]
    BY <1>3, <2>1 DEF SessionInv, Become
  <2>4. StoreTypeOK' /\ saved' = saved
    BY <1>1, <2>2 DEF StoreTypeOK, PersistRow
  <2>5. SessionTypeOK'
    BY <2>3 DEF SessionTypeOK, SessionInv, Returning, PersistRow
  <2>6. saved' <= row'.version
    BY <1>1, <2>2, <2>4 DEF SessionInv, VersionsInOrder
  <2>7. ASSUME NEW u \in Thread, At(u, "persistState")' PROVE ses'[u].state <= row'.version
    <3>1. CASE u = t
      BY <1>1, <1>3, <2>1, <2>2, <3>1 DEF Become, SessionInv
    <3>2. CASE u # t
      <4>1. ses'[u] = ses[u] /\ ses[u] \in Returning
        BY <1>3, <3>2 DEF Become, SessionInv
      <4>2. ses[u].state <= row.version /\ ses[u].state \in Nat
        BY <2>7, <4>1 DEF At, SessionInv, VersionsInOrder, Returning, Session
      <4>. QED  BY <1>1, <2>2, <4>1, <4>2
    <3>. QED  BY <3>1, <3>2
  <2>. QED  BY <2>3, <2>4, <2>5, <2>6, <2>7 DEF SessionInv, VersionsInOrder
<1>4. CASE ~Accepts(s.run.version) /\ Become(t, Raised(b)) /\ UNCHANGED row
  <2>1. Raised(b) \in Ready
    BY <1>2, RaisedIsReady
  <2>2. LocalStep
    BY <1>4 DEF PersistRow, LocalStep
  <2>. QED  BY <1>4, <2>1, <2>2, LocalQuiet DEF BecomeOneOf
<1>. QED  BY <1>3, <1>4 DEF PersistRow

\* persist's second write: the stored state catches up, at most with the row.
LEMMA PersistStateKeeps ==
  ASSUME SessionInv, NEW t \in Thread, PersistState(t) PROVE SessionInv'
<1>. DEFINE s == ses[t]
            back == [s EXCEPT !.pc = s.next, !.next = "idle", !.expected = 0]
<1>1. /\ s \in Returning /\ s \in Session /\ row.version \in Nat /\ s.next \in Phase
      /\ s.next # "persistState" /\ s.state \in Nat /\ At(t, "persistState")
  BY HeldSession DEF Returning, Session, PersistState
<1>2. CASE saved' = s.state /\ Become(t, back)
  <2>1. Goto(s, s.next) \in Ready
    BY <1>1, GotoIsReady
  <2>2. [Goto(s, s.next) EXCEPT !.next = "idle"] \in Ready
    BY <2>1 DEF Ready, Returning, Session, Phase
  <2>3. back \in Ready
    <3>1. [[Goto(s, s.next) EXCEPT !.next = "idle"] EXCEPT !.expected = 0] \in Ready
      BY <2>2 DEF Ready, Returning, Session
    <3>2. back = [[Goto(s, s.next) EXCEPT !.next = "idle"] EXCEPT !.expected = 0]
      BY <1>1 DEF Goto, Session
    <3>. QED  BY <3>1, <3>2
  <2>4. ses' \in [Thread -> Returning]
    BY <1>2, <2>3 DEF SessionInv, Become, Ready
  <2>5. StoreTypeOK' /\ row' = row
    BY <1>1, <1>2 DEF StoreTypeOK, SessionInv, PersistState
  <2>6. SessionTypeOK'
    BY <2>4 DEF SessionTypeOK, SessionInv, Returning, PersistState
  <2>7. saved' <= row'.version
    BY <1>1, <1>2, <2>5 DEF SessionInv, VersionsInOrder
  <2>8. ASSUME NEW u \in Thread, At(u, "persistState")' PROVE ses'[u].state <= row'.version
    BY <1>2, <2>3, <2>5, <2>8 DEF Become, SessionInv, VersionsInOrder, At, Ready
  <2>. QED  BY <2>4, <2>5, <2>6, <2>7, <2>8 DEF SessionInv, VersionsInOrder
<1>3. CASE Become(t, Raised(s)) /\ UNCHANGED saved
  <2>1. Raised(s) \in Ready
    BY <1>1, RaisedIsReady
  <2>2. LocalStep
    BY <1>3 DEF PersistState, LocalStep
  <2>. QED  BY <1>3, <2>1, <2>2, LocalQuiet DEF BecomeOneOf
<1>. QED  BY <1>2, <1>3 DEF PersistState

\* resume, retry and start, up to and after the loop.
LEMMA StartsKeep ==
  ASSUME SessionInv, NEW t \in Thread, StartStep(t)
  PROVE  SessionInv'
<1>1. /\ ses[t] \in Returning /\ ses[t] \in Session /\ ses[t].run \in Row
      /\ row \in Row /\ row.version \in Nat /\ ses[t].run.version \in Nat /\ saved \in Nat
  BY HeldSession DEF Row
<1>2. \A pc \in Phase \ {"persistState"} : Goto(ses[t], pc) \in Ready /\ Rejecting(ses[t], pc) \in Ready
  BY <1>1, GotoIsReady, RejectingIsReady
<1>3. {"requeue", "acquire", "load", "leave", "init", "setup", "top", "left"}
        \subseteq Phase \ {"persistState"}
  BY DEF Phase
<1>4. \A r \in Row : \A pc \in Phase \ {"persistState"} :
        [Goto(ses[t], pc) EXCEPT !.run = r] \in Ready
  BY <1>2 DEF Ready, Returning, Session
<1>5. /\ [row EXCEPT !.status = "QUEUED", !.version = @ + 1] \in Row
      /\ [row EXCEPT !.status = "INITIALIZING", !.version = @ + 1] \in Row
  <2>1. \A status \in RunState : [row EXCEPT !.status = status] \in Row
    BY <1>1 DEF Row
  <2>2. \A status \in RunState :
          [[row EXCEPT !.status = status] EXCEPT !.version = row.version + 1] \in Row
    <3>. TAKE status \in RunState
    <3>. DEFINE r == [row EXCEPT !.status = status]
    <3>1. r \in Row
      BY <2>1
    <3>. HIDE DEF r
    <3>2. [r EXCEPT !.version = row.version + 1] \in Row
      BY <1>1, <3>1 DEF Row
    <3>. QED  BY <3>2 DEF r
  <2>3. \A status \in RunState :
          [row EXCEPT !.status = status, !.version = @ + 1]
            = [[row EXCEPT !.status = status] EXCEPT !.version = row.version + 1]
    BY <1>1 DEF Row
  <2>. QED  BY <2>2, <2>3, StatusesAreStates
<1>6. /\ lock \in [Process -> Thread \cup {None}]
      /\ control \in [Process -> Thread \cup {None}]
      /\ blind \in [Thread -> Nat]
  BY DEF SessionInv, SessionTypeOK
<1>7. ASSUME Resume(t) PROVE BecomeOneOf(t, Ready) /\ LocalStep
  BY <1>2, <1>3, <1>4, <1>5, <1>7 DEF Resume, BecomeOneOf
<1>8. ASSUME Retry(t) PROVE BecomeOneOf(t, Ready) /\ LocalStep
  BY <1>2, <1>3, <1>4, <1>5, <1>8 DEF Retry, BecomeOneOf
<1>9. ASSUME Setup(t) PROVE BecomeOneOf(t, Ready) /\ LocalStep
  <2>1. [Goto(ses[t], "top") EXCEPT !.state = saved] \in Ready
    BY <1>1, <1>2, <1>3 DEF Ready, Returning, Session
  <2>. QED  BY <1>2, <1>3, <1>9, <2>1 DEF Setup, BecomeOneOf
<1>10. CASE Requeue(t) \/ WriteInitializing(t)
  <2>1. BecomeOneOf(t, Ready)
    BY <1>2, <1>3, <1>10 DEF Requeue, WriteInitializing, BecomeOneOf
  <2>2. row' = row \/ (row' = ses[t].run /\ row.version = ses[t].run.version - 1)
    BY <1>10 DEF Requeue, WriteInitializing, Accepts, WriteRow
  <2>3. row' \in Row /\ row.version <= row'.version
    BY <1>1, <2>2
  <2>4. saved' = saved /\ lock' = lock /\ control' = control /\ blind' = blind
    BY <1>10 DEF Requeue, WriteInitializing
  <2>. QED  BY <1>6, <2>1, <2>3, <2>4, Quiet DEF BecomeOneOf
<1>11. CASE Acquire(t)
  <2>1. BecomeOneOf(t, Ready)
    BY <1>2, <1>3, <1>11 DEF Acquire, BecomeOneOf
  <2>2. lock' \in [Process -> Thread \cup {None}]
    BY <1>6, <1>11 DEF Acquire
  <2>3. row' = row /\ saved' = saved /\ control' = control /\ blind' = blind
    BY <1>11 DEF Acquire
  <2>. QED  BY <1>1, <1>6, <2>1, <2>2, <2>3, Quiet DEF BecomeOneOf
<1>12. CASE Load(t)
  <2>1. BecomeOneOf(t, Ready)
    BY <1>2, <1>3, <1>4, <1>5, <1>12 DEF Load, BecomeOneOf
  <2>2. control' \in [Process -> Thread \cup {None}]
    BY <1>6, <1>12 DEF Load
  <2>3. row' = row /\ saved' = saved /\ lock' = lock /\ blind' = blind
    BY <1>12 DEF Load
  <2>. QED  BY <1>1, <1>6, <2>1, <2>2, <2>3, Quiet DEF BecomeOneOf
<1>13. CASE Leave(t)
  <2>. DEFINE gone == [IdleSession EXCEPT !.pc = "left", !.rejected = ses[t].rejected]
  <2>1. ses[t].rejected \in BOOLEAN /\ IdleSession \in Returning
    BY <1>1, IdleSessionIsReady DEF Session, Ready
  <2>2. Rejecting(IdleSession, "left") \in Ready /\ Goto(IdleSession, "left") \in Ready
    BY <1>3, <2>1, RejectingIsReady, GotoIsReady
  <2>3. [Goto(IdleSession, "left") EXCEPT !.rejected = ses[t].rejected] \in Ready
    BY <2>1, <2>2 DEF Ready, Returning, Session
  <2>4. gone = [Goto(IdleSession, "left") EXCEPT !.rejected = ses[t].rejected]
    BY DEF Goto, IdleSession
  <2>5. gone \in Ready
    BY <2>3, <2>4
  <2>6. Become(t, gone) /\ row' = row /\ saved' = saved /\ blind' = blind
    BY <1>13 DEF Leave
  <2>7. /\ lock' \in [Process -> Thread \cup {None}]
        /\ control' \in [Process -> Thread \cup {None}]
    BY <1>6, <1>13 DEF Leave
  <2>. QED  BY <1>1, <1>6, <2>5, <2>6, <2>7, Quiet
<1>. QED  BY <1>7, <1>8, <1>9, <1>10, <1>11, <1>12, <1>13, LocalQuiet DEF StartStep

\* A step of a session, whichever it is, keeps what the sessions promise.
THEOREM SessionStepKeepsInv ==
  ASSUME SessionInv, NEW t \in Thread, SessionStep(t)
  PROVE  SessionInv'
<1>1. CASE StartStep(t)
  BY <1>1, StartsKeep
<1>2. CASE LoopStep(t)
  BY <1>2, TopKeeps, LookKeeps, AdvancesKeep, DecisionsKeep, ToolStepsKeep DEF LoopStep
<1>3. CASE PersistRow(t) \/ PersistState(t) \/ Settle(t) \/ Contain(t)
  BY <1>3, PersistRowKeeps, PersistStateKeeps, EndingsKeep
<1>. QED  BY <1>1, <1>2, <1>3 DEF SessionStep

\* Beginning a call of the runtime, and losing a process.
LEMMA BeginKeeps ==
  ASSUME SessionInv, NEW t \in Thread, NEW pc \in Phase \ {"persistState"}, Begin(t, pc)
  PROVE  SessionInv'
<1>1. Goto(IdleSession, pc) \in Ready
  BY IdleSessionIsReady, GotoIsReady DEF Ready
<1>2. blind' \in [Thread -> Nat]
  BY DEF Begin, SessionInv, SessionTypeOK
<1>3. /\ row \in Row /\ row.version <= row.version
      /\ lock \in [Process -> Thread \cup {None}]
      /\ control \in [Process -> Thread \cup {None}]
  BY DEF SessionInv, StoreTypeOK, SessionTypeOK, Row
<1>. QED  BY <1>1, <1>2, <1>3, Quiet DEF Begin

LEMMA ProcessLostKeeps ==
  ASSUME SessionInv, NEW p \in Process, ProcessLost(p)
  PROVE  SessionInv'
<1>1. IdleSession \in Returning /\ ~(IdleSession.pc = "persistState")
  BY IdleSessionIsReady DEF Ready
<1>2. ses' \in [Thread -> Returning]
  BY <1>1 DEF SessionInv, ProcessLost
<1>3. StoreTypeOK' /\ row' = row /\ saved' = saved
  BY DEF SessionInv, StoreTypeOK, ProcessLost
<1>4. SessionTypeOK'
  BY <1>2 DEF SessionInv, SessionTypeOK, ProcessLost, Returning
<1>5. VersionsInOrder'
  BY <1>1, <1>3 DEF SessionInv, VersionsInOrder, ProcessLost, At
<1>. QED  BY <1>2, <1>3, <1>4, <1>5 DEF SessionInv

-----------------------------------------------------------------------------
(* Operators' calls                                                         *)

\* Only start, resume and retry are handed to an executor; and a raised flag is
\* all that a call does to a session.
SoundCall == {k \in Call : k.pc = "dispatch" => k.kind \in {"start", "resume", "retry"}}

CallInv == SessionInv /\ call \in [Caller -> SoundCall]

LEMMA NoCallIsSound == NoCall \in SoundCall
<1>1. NoCall.copy \in Row
  BY StatusesAreStates, FreeClaimIsClaim DEF NoCall, Row
<1>. QED  BY <1>1 DEF NoCall, SoundCall, Call, CallPhase

\* The ends of a call.
LEMMA EndsAreSound ==
  ASSUME NEW k \in Call
  PROVE  Over(k) \in SoundCall /\ Refused(k) \in SoundCall
BY DEF Over, Refused, SoundCall, Call, CallPhase

\* The session fields other than its flags decide SessionInv.
LEMMA UnchangedSessionsKeep ==
  ASSUME SessionInv, StoreTypeOK', ses' = ses, UNCHANGED <<lock, control, blind>>,
         row.version <= row'.version, saved' <= saved
  PROVE  SessionInv'
<1>1. row.version \in Nat /\ row'.version \in Nat /\ saved \in Nat /\ saved' \in Nat
  BY DEF SessionInv, StoreTypeOK, Row
<1>2. SessionTypeOK'
  BY DEF SessionInv, SessionTypeOK
<1>3. saved' <= row'.version
  BY <1>1 DEF SessionInv, VersionsInOrder
<1>4. ASSUME NEW u \in Thread, At(u, "persistState")' PROVE ses'[u].state <= row'.version
  <2>1. ses[u].state <= row.version /\ ses[u].state \in Nat
    BY <1>4 DEF At, SessionInv, VersionsInOrder, SessionTypeOK, Session
  <2>. QED  BY <1>1, <2>1
<1>. QED  BY <1>2, <1>3, <1>4 DEF SessionInv, VersionsInOrder

\* A call that writes nothing but its own progress.
LEMMA AnswerKeeps ==
  ASSUME CallInv, NEW c \in Caller, NEW k \in SoundCall, Answer(c, k), RunIsElsewhere
  PROVE  CallInv'
<1>1. SessionInv'
  <2>1. StoreTypeOK' /\ row.version <= row.version /\ saved <= saved
    BY DEF CallInv, SessionInv, StoreTypeOK, RunIsElsewhere, Row
  <2>. QED  BY <2>1, UnchangedSessionsKeep DEF CallInv, RunIsElsewhere
<1>2. call' \in [Caller -> SoundCall]
  BY DEF CallInv, Answer
<1>. QED  BY <1>1, <1>2 DEF CallInv

\* pause and cancel in the process that executes the run.
LEMMA SignalKeeps ==
  ASSUME CallInv, NEW c \in Caller, NEW kind \in CallKinds, Signal(c, kind)
  PROVE  CallInv'
<1>. DEFINE t == control[SiteOf[c]]
<1>1. t \in Thread
  BY ControlAssumption DEF CallInv, SessionInv, SessionTypeOK, Signal
<1>2. ses[t] \in Returning /\ ses \in [Thread -> Returning]
  BY <1>1 DEF CallInv, SessionInv
<1>3. PICK s \in Returning :
        /\ Become(t, s)
        /\ s.pc = ses[t].pc /\ s.state = ses[t].state
  <2>1. /\ [ses[t] EXCEPT !.paused = TRUE] \in Returning
        /\ [ses[t] EXCEPT !.cancelled = TRUE] \in Returning
    BY <1>2 DEF Returning, Session
  <2>. QED  BY <1>2, <2>1 DEF Signal, Become, Returning, Session
<1>4. ses' \in [Thread -> Returning]
  BY <1>2, <1>3 DEF Become
<1>5. StoreTypeOK' /\ SessionTypeOK'
  BY <1>4 DEF CallInv, SessionInv, StoreTypeOK, SessionTypeOK, Signal, Returning
<1>6. VersionsInOrder'
  BY <1>2, <1>3 DEF CallInv, SessionInv, VersionsInOrder, Signal, Become, At
<1>7. call' \in [Caller -> SoundCall]
  <2>1. [NoCall EXCEPT !.pc = "over", !.kind = kind, !.flagged = TRUE] \in SoundCall
    BY NoCallIsSound DEF NoCall, SoundCall, Call, CallPhase
  <2>. QED  BY <2>1 DEF CallInv, Signal, Answer
<1>. QED  BY <1>4, <1>5, <1>6, <1>7 DEF CallInv, SessionInv

\* The read that a call begins with: it decides what the call will do.
LEMMA ReadKeeps ==
  ASSUME CallInv, NEW c \in Caller, NEW k \in Call, Read(c, k), RunIsElsewhere
  PROVE  CallInv'
<1>1. row \in Row /\ row.status \in RunState
  BY DEF CallInv, SessionInv, StoreTypeOK, Row
<1>2. ASSUME NEW target \in RunState
      PROVE  [k EXCEPT !.copy = row, !.path = Path[row.status][target]] \in Call
  <2>1. Path[row.status][target] \in Seq(RunState)
    BY <1>1, PathAssumption
  <2>2. [k EXCEPT !.copy = row] \in Call
    BY <1>1 DEF Call
  <2>3. \A path \in Seq(RunState) : [[k EXCEPT !.copy = row] EXCEPT !.path = path] \in Call
    BY <2>2 DEF Call
  <2>4. [k EXCEPT !.copy = row, !.path = Path[row.status][target]]
          = [[k EXCEPT !.copy = row] EXCEPT !.path = Path[row.status][target]]
    BY DEF Call
  <2>. QED  BY <2>1, <2>3, <2>4
<1>3. \A j \in Call :
        /\ Over(j) \in SoundCall /\ Refused(j) \in SoundCall
        /\ [j EXCEPT !.pc = "hop"] \in SoundCall /\ [j EXCEPT !.pc = "load"] \in SoundCall
        /\ j.kind \in {"start", "resume", "retry"} => [j EXCEPT !.pc = "dispatch"] \in SoundCall
  BY DEF Over, Refused, SoundCall, Call, CallPhase
<1>4. "PAUSED" \in RunState /\ "CANCELLED" \in RunState /\ "QUEUED" \in RunState
  BY StatusesAreStates
<1>5. ASSUME NEW target \in {"PAUSED", "CANCELLED"}, ReadToMove(c, k, target)
      PROVE  \E j \in SoundCall : Answer(c, j)
  BY <1>2, <1>3, <1>4, <1>5 DEF ReadToMove
<1>6. ASSUME ReadToRestore(c, k) PROVE \E j \in SoundCall : Answer(c, j)
  BY <1>2, <1>3, <1>4, <1>6 DEF ReadToRestore
<1>7. ASSUME ReadToDispatch(c, k), k.kind \in {"start", "resume", "retry"}
      PROVE  \E j \in SoundCall : Answer(c, j)
  BY <1>3, <1>7 DEF ReadToDispatch
<1>8. PICK j \in SoundCall : Answer(c, j)
  BY <1>5, <1>6, <1>7 DEF Read
<1>. QED  BY <1>8, AnswerKeeps

\* One hop of a walk: one version more, whatever the status.
LEMMA WriteHopKeeps ==
  ASSUME CallInv, NEW c \in Caller, WriteHop(c)
  PROVE  CallInv'
<1>. DEFINE k == call[c]
            hopped == [k.copy EXCEPT !.status = Head(k.path), !.version = @ + 1]
            hops == [k EXCEPT !.copy = hopped, !.path = Tail(k.path)]
<1>1. /\ k \in Call /\ k.copy \in Row /\ k.path \in Seq(RunState) /\ k.copy.version \in Nat
      /\ row \in Row /\ row.version \in Nat /\ saved \in Nat
  BY DEF CallInv, SoundCall, SessionInv, StoreTypeOK, Call, Row
<1>2. CASE Answer(c, Over(k)) /\ UNCHANGED row
  <2>1. Over(k) \in SoundCall
    BY <1>1 DEF Over, SoundCall, Call, CallPhase
  <2>. QED  BY <1>2, <2>1, AnswerKeeps DEF WriteHop, RunIsElsewhere
<1>3. CASE Answer(c, Refused(k)) /\ UNCHANGED row
  <2>1. Refused(k) \in SoundCall
    BY <1>1 DEF Refused, SoundCall, Call, CallPhase
  <2>. QED  BY <1>3, <2>1, AnswerKeeps DEF WriteHop, RunIsElsewhere
<1>4. CASE k.path # <<>> /\ Accepts(k.copy.version) /\ WriteRow(hopped) /\ Answer(c, hops)
  <2>1. Head(k.path) \in RunState /\ Tail(k.path) \in Seq(RunState)
    BY <1>1, <1>4
  <2>2. hopped \in Row /\ hopped.version = k.copy.version + 1
    <3>. DEFINE moved == [k.copy EXCEPT !.status = Head(k.path)]
    <3>1. moved \in Row /\ moved.version = k.copy.version
      BY <1>1, <2>1 DEF Row
    <3>2. hopped = [moved EXCEPT !.version = k.copy.version + 1]
      BY <1>1 DEF Row
    <3>. HIDE DEF moved, hopped
    <3>. QED  BY <1>1, <3>1, <3>2 DEF Row
  <2>3. hops \in SoundCall
    <3>1. \A r \in Row : [k EXCEPT !.copy = r] \in Call
      BY <1>1 DEF Call
    <3>2. \A r \in Row : [[k EXCEPT !.copy = r] EXCEPT !.path = Tail(k.path)] \in Call
      BY <2>1, <3>1 DEF Call
    <3>3. \A r \in Row : [k EXCEPT !.copy = r, !.path = Tail(k.path)]
                           = [[k EXCEPT !.copy = r] EXCEPT !.path = Tail(k.path)]
      BY <1>1 DEF Call
    <3>4. hops.pc = "hop"
      BY <1>1 DEF Call, WriteHop, CallAt
    <3>. HIDE DEF hopped
    <3>. QED  BY <2>2, <3>2, <3>3, <3>4 DEF SoundCall
  <2>. HIDE DEF hopped, hops
  <2>4. call' \in [Caller -> SoundCall]
    BY <1>4, <2>3 DEF CallInv, Answer
  <2>5. StoreTypeOK' /\ row.version <= row'.version /\ saved' <= saved
    BY <1>1, <1>4, <2>2 DEF StoreTypeOK, WriteRow, Accepts, WriteHop
  <2>6. SessionInv'
    BY <2>5, UnchangedSessionsKeep DEF CallInv, WriteHop
  <2>. QED  BY <2>4, <2>6 DEF CallInv
<1>. QED  BY <1>2, <1>3, <1>4 DEF WriteHop

\* restore writes an older state: the stored version can only go down.
LEMMA RestoreKeeps ==
  ASSUME CallInv, NEW c \in Caller, LoadVersion(c) \/ SaveCheckpoint(c)
  PROVE  CallInv'
<1>1. /\ call[c] \in Call /\ saved \in Nat /\ row \in Row /\ row.version \in Nat
      /\ SessionInv /\ call \in [Caller -> SoundCall]
  BY DEF CallInv, SoundCall, SessionInv, StoreTypeOK, Row
<1>2. CASE LoadVersion(c)
  <2>1. [call[c] EXCEPT !.pc = "save"] \in Call
    BY <1>1 DEF Call, CallPhase
  <2>2. [[call[c] EXCEPT !.pc = "save"] EXCEPT !.expected = saved] \in Call
    BY <1>1, <2>1 DEF Call
  <2>3. [call[c] EXCEPT !.pc = "save", !.expected = saved]
          = [[call[c] EXCEPT !.pc = "save"] EXCEPT !.expected = saved]
    BY <1>1 DEF Call
  <2>4. [call[c] EXCEPT !.pc = "save", !.expected = saved] \in SoundCall
    BY <1>1, <2>2, <2>3 DEF SoundCall, Call
  <2>. QED  BY <1>2, <2>4, AnswerKeeps DEF LoadVersion
<1>3. CASE SaveCheckpoint(c)
  <2>1. [call[c] EXCEPT !.pc = "hop"] \in SoundCall /\ Refused(call[c]) \in SoundCall
    BY <1>1 DEF SoundCall, Call, CallPhase, Refused
  <2>2. call' \in [Caller -> SoundCall]
    BY <1>1, <1>3, <2>1 DEF SaveCheckpoint, Answer
  <2>3. StoreTypeOK' /\ saved' <= saved /\ row.version <= row'.version
    BY <1>1, <1>3 DEF StoreTypeOK, SaveCheckpoint
  <2>4. SessionInv'
    BY <1>1, <1>3, <2>3, UnchangedSessionsKeep DEF SaveCheckpoint
  <2>. QED  BY <2>2, <2>4 DEF CallInv
<1>. QED  BY <1>2, <1>3

\* A step of an operator's call, whichever it is, keeps what sessions promise.
THEOREM CallStepKeepsInv ==
  ASSUME CallInv, NEW c \in Caller, CallStep(c)
  PROVE  CallInv'
<1>1. CASE \E kind \in CallKinds \cap {"pause", "cancel"} : Signal(c, kind)
  BY <1>1, SignalKeeps
<1>2. CASE \E kind \in CallKinds : MakeCall(c, kind)
  <2>1. PICK kind \in CallKinds : MakeCall(c, kind)
    BY <1>2
  <2>. DEFINE k == [NoCall EXCEPT !.pc = "read", !.kind = kind]
  <2>2. k \in SoundCall /\ k \in Call
    BY NoCallIsSound DEF NoCall, SoundCall, Call, CallPhase
  <2>. QED  BY <2>1, <2>2, ReadKeeps, AnswerKeeps DEF MakeCall
<1>3. CASE ReadRow(c)
  <2>1. call[c] \in Call
    BY DEF CallInv, SoundCall
  <2>. QED  BY <1>3, <2>1, ReadKeeps DEF ReadRow
<1>4. CASE WriteHop(c) \/ LoadVersion(c) \/ SaveCheckpoint(c)
  BY <1>4, WriteHopKeeps, RestoreKeeps
<1>. QED  BY <1>1, <1>2, <1>3, <1>4 DEF CallStep

-----------------------------------------------------------------------------
(* How often a session executes tools behind the row: once it is behind, it  *)
(* can do so again only within one recovery, whose attempts are counted.     *)

\* Where a session's way out of the loop has begun: it executes no more tools.
Ending(s) ==
  \/ s.pc \in {"idle", "settle", "contain", "leave", "left"}
  \/ s.pc \in {"persistRow", "persistState"} /\ s.next = "leave"

BlindLimit == IF MaxRecovery = 0 THEN 1 ELSE MaxRecovery

\* What a session s that has executed tools b times behind a row of version v is
\* about to do: it has not been behind yet; or it is on its way out; or it is behind
\* and next writes the row, unless a recovery that has attempts left retries first.
Sighted(s, b, v) ==
  /\ b = 0
  /\ s.pc \notin {"requeue", "init"} /\ ~Ending(s) => s.run.version <= v
  /\ s.pc = "repair" => s.tries >= 1

Blind(s, b, v) ==
  /\ s.run.version < v /\ b <= BlindLimit
  /\ \/ s.pc \in {"persistRow", "stepDone"}
     \/ s.pc = "recover" /\ b <= s.tries /\ s.tries < MaxRecovery
     \/ s.pc = "repair" /\ b < s.tries /\ s.tries <= MaxRecovery

Bounded(s, b, v) ==
  /\ s.next # "repair"
  /\ \/ Sighted(s, b, v)
     \/ Ending(s) /\ b <= BlindLimit
     \/ Blind(s, b, v)

BlindInv == \A t \in Thread : Bounded(ses[t], blind[t], row.version)

LEMMA BlindLimitIsPositive == BlindLimit \in Nat /\ 1 <= BlindLimit /\ MaxRecovery <= BlindLimit
BY SessionAssumption DEF BlindLimit

\* Whatever the session is about to do, the bound holds of it now.
LEMMA BoundedCount ==
  ASSUME NEW s \in Session, NEW b \in Nat, NEW v \in Nat, Bounded(s, b, v)
  PROVE  b <= BlindLimit /\ s.next # "repair"
BY BlindLimitIsPositive DEF Bounded, Sighted, Blind

\* A row that others write moves on, and the session keeps what it promised.
LEMMA BoundedStays ==
  ASSUME NEW s \in Session, NEW b \in Nat, NEW v \in Nat, NEW w \in Nat, v <= w,
         Bounded(s, b, v)
  PROVE  Bounded(s, b, w)
<1>1. s.run.version \in Nat
  BY DEF Session, Row
<1>. QED  BY <1>1, BlindLimitIsPositive DEF Bounded, Sighted, Blind

\* In a phase of the loop that neither persists nor recovers, a session has not
\* executed tools behind the row.
LEMMA SightedPhases ==
  ASSUME NEW s \in Session, NEW b \in Nat, NEW v \in Nat, Bounded(s, b, v),
         s.pc \notin {"idle", "settle", "contain", "leave", "left", "requeue", "init",
                      "persistRow", "persistState", "stepDone", "recover", "repair"}
  PROVE  b = 0 /\ s.run.version <= v
BY DEF Bounded, Sighted, Blind, Ending

\* The ends of the loop.
LEMMA EndingIsBounded ==
  ASSUME NEW s, NEW b \in Nat, NEW v \in Nat, b <= BlindLimit, Ending(s), s.next # "repair"
  PROVE  Bounded(s, b, v)
BY DEF Bounded

LEMMA SettlingIsBounded ==
  ASSUME NEW s \in Session, NEW status \in RunState, NEW b \in Nat, NEW v \in Nat, b <= BlindLimit
  PROVE  Bounded(Settling(s, status), b, v)
<1>1. Settling(s, status).pc = "settle" /\ Settling(s, status).next = "idle"
  BY DEF Settling, Unwound, Session
<1>. QED  BY <1>1, EndingIsBounded DEF Ending

LEMMA RejectingIsBounded ==
  ASSUME NEW s \in Session, NEW pc \in {"leave", "left"}, s.next # "repair",
         NEW b \in Nat, NEW v \in Nat, b <= BlindLimit
  PROVE  Bounded(Rejecting(s, pc), b, v)
<1>1. Rejecting(s, pc).pc = pc /\ Rejecting(s, pc).next = s.next
  BY DEF Rejecting, Session
<1>. QED  BY <1>1, EndingIsBounded DEF Ending

LEMMA RaisedIsBounded ==
  ASSUME NEW s \in Session, s.next # "repair", NEW b \in Nat, NEW v \in Nat, b <= BlindLimit
  PROVE  Bounded(Raised(s), b, v)
<1>1. CASE s.contained
  BY <1>1, RejectingIsBounded DEF Raised
<1>2. CASE ~s.contained
  <2>1. Raised(s).pc = "contain" /\ Raised(s).next = "idle"
    BY <1>2 DEF Raised, Goto, Unwound, Session
  <2>. QED  BY <2>1, EndingIsBounded DEF Ending
<1>. QED  BY <1>1, <1>2

\* A session that is not behind goes on.
LEMMA GotoIsBounded ==
  ASSUME NEW s \in Session, NEW pc \in Phase, NEW v \in Nat,
         s.next # "repair", s.run.version <= v, pc = "repair" => s.tries >= 1
  PROVE  Bounded(Goto(s, pc), 0, v)
<1>1. /\ Goto(s, pc).pc = pc /\ Goto(s, pc).next = s.next
      /\ Goto(s, pc).run = s.run /\ Goto(s, pc).tries = s.tries
  BY DEF Goto, Session
<1>. QED  BY <1>1 DEF Bounded, Sighted

\* A session calls persist: behind or not, it is about to write the row.
LEMMA PersistingIsBounded ==
  ASSUME NEW s \in Session, NEW next \in Phase \ {"repair"}, NEW b \in Nat, NEW v \in Nat,
         b <= BlindLimit, s.run.version <= v, b = 0 \/ s.run.version < v
  PROVE  Bounded(Persisting(s, next), b, v)
<1>1. /\ Persisting(s, next).pc = "persistRow" /\ Persisting(s, next).next = next
      /\ Persisting(s, next).run = s.run
  BY DEF Persisting, Session
<1>. QED  BY <1>1 DEF Bounded, Sighted, Blind

LEMMA DecisionRaisedIsBounded ==
  ASSUME NEW s \in Session, NEW v \in Nat, s.next # "repair", s.run.version <= v
  PROVE  Bounded(DecisionRaised(s), 0, v)
<1>1. "CANCELLED" \in RunState /\ "decisionFailed" \in Phase /\ 0 <= BlindLimit
  BY StatusesAreStates, BlindLimitIsPositive DEF Phase
<1>. QED  BY <1>1, SettlingIsBounded, GotoIsBounded DEF DecisionRaised

\* What a step of thread t does to the bound: the row moves on, the others are
\* left alone, and t goes on within it.
Stepped(t) ==
  /\ row.version <= row'.version
  /\ \A u \in Thread \ {t} : ses'[u] = ses[u] /\ blind'[u] = blind[u]
  /\ Bounded(ses'[t], blind'[t], row'.version)

LEMMA HeldBound ==
  ASSUME SessionInv, BlindInv, NEW t \in Thread
  PROVE  /\ ses[t] \in Session /\ ses[t].run.version \in Nat /\ ses[t].tries \in Nat
         /\ blind[t] \in Nat /\ row.version \in Nat
         /\ Bounded(ses[t], blind[t], row.version)
         /\ blind[t] <= BlindLimit /\ ses[t].next # "repair"
<1>1. ses[t] \in Session /\ blind[t] \in Nat /\ row.version \in Nat
  BY DEF SessionInv, SessionTypeOK, StoreTypeOK, Row
<1>2. ses[t].run.version \in Nat /\ ses[t].tries \in Nat
  BY <1>1 DEF Session, Row
<1>3. Bounded(ses[t], blind[t], row.version)
  BY DEF BlindInv
<1>. QED  BY <1>1, <1>2, <1>3, BoundedCount

\* The thread becomes a session within the bound; the row and the counts stay.
LEMMA BecomingSteps ==
  ASSUME SessionInv, NEW t \in Thread, NEW s, Become(t, s), blind' = blind,
         row.version <= row'.version, Bounded(s, blind[t], row'.version)
  PROVE  Stepped(t)
<1>1. ses \in [Thread -> Session]
  BY DEF SessionInv, SessionTypeOK
<1>2. ses'[t] = s /\ \A u \in Thread \ {t} : ses'[u] = ses[u]
  BY <1>1 DEF Become
<1>. QED  BY <1>2 DEF Stepped

LEMMA LocalSteps ==
  ASSUME SessionInv, NEW t \in Thread, NEW after, BecomeOneOf(t, after), LocalStep,
         \A s \in after : Bounded(s, blind[t], row.version)
  PROVE  Stepped(t)
<1>1. PICK s \in after : Become(t, s)
  BY DEF BecomeOneOf
<1>2. row.version \in Nat
  BY DEF SessionInv, StoreTypeOK, Row
<1>. QED  BY <1>1, <1>2, BecomingSteps DEF LocalStep

LEMMA AdvanceSteps ==
  ASSUME SessionInv, NEW t \in Thread, NEW target \in RunState, NEW after, NEW raised,
         AdvanceTo(t, target, after, raised),
         \A s \in after \cup {raised} : Bounded(s, blind[t], row.version)
  PROVE  Stepped(t)
<1>1. PICK s \in after \cup {raised} : Become(t, s)
  BY DEF AdvanceTo, BecomeOneOf
<1>2. ses[t] \in Returning /\ row.version \in Nat
  BY HeldSession
<1>3. row'.version = row.version
  BY <1>2, MovedIsReturning DEF AdvanceTo, WriteRow, Accepts
<1>. QED  BY <1>1, <1>2, <1>3, BecomingSteps DEF AdvanceTo

\* Counting an iteration and handling an exception leave the copy of the row alone.
LEMMA CountedKeepsRun ==
  ASSUME NEW s \in Session
  PROVE  /\ [s EXCEPT !.steps = @ + 1] \in Session
         /\ [s EXCEPT !.contained = TRUE] \in Session
         /\ [s EXCEPT !.steps = @ + 1].next = s.next
         /\ [s EXCEPT !.steps = @ + 1].run = s.run
<1>1. s.steps \in Nat
  BY DEF Session
<1>2. [s EXCEPT !.steps = s.steps + 1] \in Session
  BY <1>1 DEF Session
<1>3. [s EXCEPT !.contained = TRUE] \in Session
  BY DEF Session
<1>4. [s EXCEPT !.steps = @ + 1].next = s.next /\ [s EXCEPT !.steps = @ + 1].run = s.run
  BY DEF Session
<1>. QED  BY <1>2, <1>3, <1>4

\* The decisions of the loop that write nothing and execute nothing.
LEMMA DecisionsStep ==
  ASSUME SessionInv, BlindInv, NEW t \in Thread,
         \/ Top(t) \/ Look(t) \/ Think(t) \/ DecisionRecovery(t) \/ Recorded(t) \/ Repair(t)
         \/ StepDone(t) \/ Complete(t) \/ Judge(t) \/ Contain(t)
  PROVE  Stepped(t)
<1>. DEFINE s == ses[t]
            b == blind[t]
            v == row.version
            counted == [s EXCEPT !.steps = @ + 1]
            handling == [s EXCEPT !.contained = TRUE]
<1>1. /\ s \in Session /\ s.run.version \in Nat /\ s.tries \in Nat /\ b \in Nat /\ v \in Nat
      /\ Bounded(s, b, v) /\ b <= BlindLimit /\ s.next # "repair"
  BY HeldBound
<1>2. /\ counted \in Session /\ handling \in Session
      /\ counted.next = s.next /\ counted.run = s.run
  BY <1>1, CountedKeepsRun
<1>3. /\ \A status \in RunState : /\ Bounded(Settling(s, status), b, v)
                                  /\ Bounded(Settling(counted, status), b, v)
                                  /\ Bounded(Settling(handling, status), b, v)
      /\ Bounded(Raised(s), b, v)
  BY <1>1, <1>2, SettlingIsBounded, RaisedIsBounded
<1>4. ASSUME b = 0, s.run.version <= v
      PROVE  /\ \A pc \in Phase \ {"repair"} :
                  /\ Bounded(Goto(s, pc), b, v) /\ Bounded(Persisting(s, pc), b, v)
                  /\ Bounded(Goto(counted, pc), b, v)
             /\ Bounded(DecisionRaised(s), b, v)
  BY <1>1, <1>2, <1>4, GotoIsBounded, PersistingIsBounded, DecisionRaisedIsBounded
<1>5. {"look", "observe", "act", "finish", "top", "stepDone", "recover", "rework"} \subseteq Phase \ {"repair"}
  BY DEF Phase
<1>6. row.status \in RunState
  BY HeldSession DEF Row
<1>7. ASSUME NEW r, Become(t, r), LocalStep, Bounded(r, b, v) PROVE Stepped(t)
  BY <1>1, <1>7, BecomingSteps DEF LocalStep
<1>. HIDE DEF counted, handling
<1>8. ASSUME s.pc \in {"top", "look", "think", "decisionRecovery", "done", "waiting", "failed",
                       "finish", "judge"}
      PROVE  b = 0 /\ s.run.version <= v
  BY <1>1, <1>8, SightedPhases
<1>9. CASE Top(t)
  BY <1>3, <1>4, <1>5, <1>7, <1>8, <1>9, StatusesAreStates DEF Top, BecomeOneOf, At, counted
<1>10. CASE Look(t)
  BY <1>3, <1>4, <1>5, <1>6, <1>7, <1>8, <1>10, StatusesAreStates DEF Look, At
<1>11. CASE Think(t)
  BY <1>3, <1>4, <1>5, <1>7, <1>8, <1>11, StatusesAreStates DEF Think, BecomeOneOf, At
<1>12. CASE DecisionRecovery(t)
  BY <1>3, <1>4, <1>5, <1>7, <1>8, <1>12, StatusesAreStates DEF DecisionRecovery, BecomeOneOf, At
<1>13. CASE Recorded(t)
  BY <1>3, <1>4, <1>5, <1>7, <1>8, <1>13, StatusesAreStates DEF Recorded, BecomeOneOf
<1>14. CASE Repair(t) \/ StepDone(t)
  <2>1. s.run.version <= v /\ (b = 0 \/ s.run.version < v)
    BY <1>1, <1>14 DEF Bounded, Sighted, Blind, Ending, Repair, StepDone, At
  <2>2. Bounded(Persisting(s, "stepDone"), b, v) /\ Bounded(Persisting(s, "top"), b, v)
    BY <1>1, <1>5, <2>1, PersistingIsBounded
  <2>. QED  BY <1>3, <1>7, <1>14, <2>2, StatusesAreStates DEF Repair, StepDone, BecomeOneOf
<1>15. CASE Complete(t)
  BY <1>3, <1>7, <1>15, StatusesAreStates DEF Complete
<1>16. CASE Judge(t)
  BY <1>3, <1>4, <1>5, <1>7, <1>8, <1>16, StatusesAreStates DEF Judge, BecomeOneOf, At
<1>17. CASE Contain(t)
  BY <1>3, <1>7, <1>17, StatusesAreStates DEF Contain, handling
<1>. QED
  BY <1>9, <1>10, <1>11, <1>12, <1>13, <1>14, <1>15, <1>16, <1>17

\* The two steps that execute tools: a session that is behind the row counts the
\* execution, and its next write, or the last attempt, ends it.
LEMMA ToolsStep ==
  ASSUME SessionInv, BlindInv, NEW t \in Thread, Act(t) \/ RetryAction(t)
  PROVE  Stepped(t)
<1>. DEFINE s == ses[t]
            b == blind[t]
            v == row.version
            n == IF Accepts(s.run.version) THEN b ELSE b + 1
<1>1. /\ s \in Session /\ s.run.version \in Nat /\ s.tries \in Nat /\ b \in Nat /\ v \in Nat
      /\ Bounded(s, b, v) /\ b <= BlindLimit /\ s.next # "repair"
  BY HeldBound
<1>2. CountBlind(t) /\ row' = row
  BY DEF Act, RetryAction
<1>3. blind'[t] = n /\ \A u \in Thread \ {t} : blind'[u] = blind[u]
  BY <1>2 DEF CountBlind, SessionInv, SessionTypeOK
<1>4. ASSUME NEW r, Become(t, r), Bounded(r, n, v) PROVE Stepped(t)
  <2>1. ses'[t] = r /\ \A u \in Thread \ {t} : ses'[u] = ses[u]
    BY <1>4 DEF Become, SessionInv, SessionTypeOK
  <2>. QED  BY <1>1, <1>2, <1>3, <1>4, <2>1 DEF Stepped
<1>5. n \in Nat
  BY <1>1
<1>6. MaxRecovery \in Nat /\ BlindLimit \in Nat /\ 1 <= BlindLimit /\ MaxRecovery <= BlindLimit
  BY SessionAssumption, BlindLimitIsPositive
<1>7. {"done", "waiting", "failed", "stepDone"} \subseteq Phase \ {"repair"} /\ "recover" \in Phase
  BY DEF Phase
<1>8. CASE Act(t)
  <2>1. b = 0 /\ s.run.version <= v
    BY <1>1, <1>8, SightedPhases DEF Act, At
  <2>2. n <= BlindLimit /\ (n = 0 \/ s.run.version < v)
    BY <1>1, <1>6, <2>1 DEF Accepts
  <2>. HIDE DEF n
  <2>3. Bounded(Raised(s), n, v)
    BY <1>1, <1>5, <2>2, RaisedIsBounded
  <2>4. \A outcome \in {"done", "waiting", "failed"} : Bounded(Persisting(s, outcome), n, v)
    BY <1>1, <1>5, <1>7, <2>1, <2>2, PersistingIsBounded
  <2>. QED  BY <1>4, <1>8, <2>3, <2>4 DEF Act, BecomeOneOf
<1>9. CASE RetryAction(t)
  <2>1. s.pc = "repair"
    BY <1>9 DEF RetryAction, At
  <2>2. /\ s.run.version <= v
        /\ \/ b = 0 /\ s.tries >= 1
           \/ s.run.version < v /\ b < s.tries /\ s.tries <= MaxRecovery
    BY <2>1 , <1>1 DEF Bounded, Sighted, Blind, Ending
  <2>3. n = 0 \/ (s.run.version < v /\ n <= s.tries /\ n <= BlindLimit)
    BY <1>1, <1>6, <2>2 DEF Accepts
  <2>. HIDE DEF n
  <2>4. n <= BlindLimit
    BY <1>6, <2>3
  <2>5. Bounded(Persisting(s, "stepDone"), n, v) /\ Bounded(Settling(s, "FAILED"), n, v)
    BY <1>1, <1>5, <1>7, <2>2, <2>3, <2>4, PersistingIsBounded, SettlingIsBounded, StatusesAreStates
  <2>6. ASSUME NEW pc \in {"recover", "stepDone"}, s.tries < MaxRecovery
        PROVE  Bounded(Goto(s, pc), n, v)
    <3>1. /\ Goto(s, pc).pc = pc /\ Goto(s, pc).next = s.next
          /\ Goto(s, pc).run = s.run /\ Goto(s, pc).tries = s.tries
      BY <1>1 DEF Goto, Session
    <3>. QED  BY <1>1, <2>2, <2>3, <2>4, <2>6, <3>1 DEF Bounded, Sighted, Blind
  <2>7. \E r : Become(t, r) /\ Bounded(r, n, v)
    <3>1. PICK r \in {Persisting(s, "stepDone")} \cup
                     IF s.tries >= MaxRecovery THEN {Settling(s, "FAILED")}
                     ELSE {Goto(s, "recover"), Goto(s, "stepDone")} : Become(t, r)
      BY <1>9 DEF RetryAction, BecomeOneOf
    <3>2. s.tries >= MaxRecovery \/ s.tries < MaxRecovery
      BY <1>1, <1>6
    <3>. QED  BY <2>5, <2>6, <3>1, <3>2
  <2>. QED  BY <1>4, <2>7
<1>. QED  BY <1>8, <1>9

\* advanceTo leaves the version alone, and counting an attempt everything else.
LEMMA MovedKeepsVersion ==
  ASSUME SessionInv, NEW t \in Thread, NEW target \in RunState
  PROVE  LET m == Moved(t, target)
             tried == [m EXCEPT !.tries = @ + 1]
         IN  /\ m \in Session /\ tried \in Session
             /\ m.next = ses[t].next /\ tried.next = ses[t].next
             /\ m.run.version = ses[t].run.version /\ tried.run.version = ses[t].run.version
             /\ m.tries = ses[t].tries /\ tried.tries = ses[t].tries + 1
<1>. DEFINE m == Moved(t, target)
<1>1. ses[t] \in Returning /\ m \in Returning /\ m.run.version = ses[t].run.version
  BY HeldSession, MovedIsReturning
<1>2. m.next = ses[t].next /\ m.tries = ses[t].tries
  BY <1>1 DEF Moved, Returning, Session
<1>3. m \in Session /\ m.tries \in Nat
  BY <1>1 DEF Returning, Session
<1>. HIDE DEF m
<1>4. /\ [m EXCEPT !.tries = @ + 1] \in Session
      /\ [m EXCEPT !.tries = @ + 1].next = m.next
      /\ [m EXCEPT !.tries = @ + 1].run = m.run
      /\ [m EXCEPT !.tries = @ + 1].tries = m.tries + 1
  BY <1>3 DEF Session
<1>. QED  BY <1>1, <1>2, <1>3, <1>4 DEF m

\* The phases that begin with a call of advanceTo.
LEMMA AdvancesStep ==
  ASSUME SessionInv, BlindInv, NEW t \in Thread,
         \/ Observe(t) \/ Plan(t) \/ Decide(t) \/ DecisionFailed(t)
         \/ Recover(t) \/ Verify(t) \/ Rework(t) \/ Settle(t)
  PROVE  Stepped(t)
<1>. DEFINE s == ses[t]
            b == blind[t]
            v == row.version
            m(target) == Moved(t, target)
            tried(target) == [m(target) EXCEPT !.tries = @ + 1]
<1>1. /\ s \in Session /\ s.run.version \in Nat /\ s.tries \in Nat /\ b \in Nat /\ v \in Nat
      /\ Bounded(s, b, v) /\ b <= BlindLimit /\ s.next # "repair" /\ s.goal \in RunState
  BY HeldBound, HeldSession
<1>2. ASSUME NEW target \in RunState
      PROVE  /\ m(target) \in Session /\ tried(target) \in Session
             /\ m(target).next = s.next /\ tried(target).next = s.next
             /\ m(target).run.version = s.run.version
             /\ tried(target).run.version = s.run.version
             /\ m(target).tries = s.tries /\ tried(target).tries = s.tries + 1
  BY MovedKeepsVersion
<1>. HIDE DEF m, tried
<1>3. ASSUME NEW target \in RunState
      PROVE  /\ Bounded(Raised(m(target)), b, v)
             /\ \A status \in RunState : Bounded(Settling(tried(target), status), b, v)
  BY <1>1, <1>2, RaisedIsBounded, SettlingIsBounded
<1>4. ASSUME NEW target \in RunState, b = 0, s.run.version <= v
      PROVE  /\ \A pc \in Phase \ {"repair"} :
                  /\ Bounded(Goto(m(target), pc), b, v)
                  /\ Bounded(Persisting(m(target), pc), b, v)
                  /\ Bounded(Persisting(tried(target), pc), b, v)
             /\ Bounded(DecisionRaised(m(target)), b, v)
  BY <1>1, <1>2, <1>4, GotoIsBounded, PersistingIsBounded, DecisionRaisedIsBounded
<1>5. {"decide", "plan", "think", "decisionRecovery", "judge", "top"} \subseteq Phase \ {"repair"}
  BY DEF Phase
<1>6. {"OBSERVING", "PLANNING", "EXECUTING", "RECOVERING", "VERIFYING", "FAILED", "WAITING"}
        \subseteq RunState
  BY StatusesAreStates
<1>7. ASSUME s.pc \in {"observe", "plan", "decide", "decisionFailed", "finish", "rework"}
      PROVE  b = 0 /\ s.run.version <= v
  BY <1>1, <1>7, SightedPhases
<1>8. CASE Observe(t)
  <2>. DEFINE after == {Goto(m("OBSERVING"), "decide")} \cup
                       IF m("OBSERVING").steps = 1 THEN {Goto(m("OBSERVING"), "plan")} ELSE {}
  <2>1. AdvanceTo(t, "OBSERVING", after, Raised(m("OBSERVING")))
    BY <1>8 DEF Observe, Advance, m
  <2>2. \A r \in after : Bounded(r, b, v)
    BY <1>4, <1>5, <1>6, <1>7, <1>8 DEF Observe, At
  <2>. QED  BY <1>3, <1>6, <2>1, <2>2, AdvanceSteps
<1>9. CASE Plan(t)
  <2>. DEFINE after == {Persisting(m("PLANNING"), "decide"), Raised(m("PLANNING"))}
  <2>1. AdvanceTo(t, "PLANNING", after, Raised(m("PLANNING")))
    BY <1>9 DEF Plan, Advance, m
  <2>2. \A r \in after : Bounded(r, b, v)
    BY <1>3, <1>4, <1>5, <1>6, <1>7, <1>9 DEF Plan, At
  <2>. QED  BY <1>3, <1>6, <2>1, <2>2, AdvanceSteps
<1>10. CASE Decide(t)
  <2>1. AdvanceTo(t, "EXECUTING", {Goto(m("EXECUTING"), "think")}, DecisionRaised(m("EXECUTING")))
    BY <1>10 DEF Decide, m
  <2>2. /\ Bounded(Goto(m("EXECUTING"), "think"), b, v)
        /\ Bounded(DecisionRaised(m("EXECUTING")), b, v)
    BY <1>4, <1>5, <1>6, <1>7, <1>10 DEF Decide, At
  <2>. QED  BY <1>6, <2>1, <2>2, AdvanceSteps
<1>11. CASE DecisionFailed(t)
  <2>1. /\ AdvanceTo(t, "RECOVERING", {Persisting(tried("RECOVERING"), "decisionRecovery")},
                     Raised(m("RECOVERING")))
    BY <1>11 DEF DecisionFailed, Advance, m, tried
  <2>2. Bounded(Persisting(tried("RECOVERING"), "decisionRecovery"), b, v)
    BY <1>4, <1>5, <1>6, <1>7, <1>11 DEF DecisionFailed, At
  <2>. QED  BY <1>3, <1>6, <2>1, <2>2, AdvanceSteps
<1>12. CASE Recover(t)
  <2>. DEFINE r == Goto(tried("RECOVERING"), "repair")
  <2>1. AdvanceTo(t, "RECOVERING", {r}, Raised(m("RECOVERING")))
    BY <1>12 DEF Recover, Advance, m, tried
  <2>2. /\ r.pc = "repair" /\ r.next = s.next
        /\ r.run.version = s.run.version /\ r.tries = s.tries + 1
    BY <1>2, <1>6 DEF Goto, Session
  <2>3. s.pc = "recover"
    BY <1>12 DEF Recover, At
  <2>4. \/ b = 0 /\ s.run.version <= v
        \/ s.run.version < v /\ b <= BlindLimit /\ b <= s.tries /\ s.tries < MaxRecovery
    BY <1>1, <2>3 DEF Bounded, Sighted, Blind, Ending
  <2>. HIDE DEF r
  <2>5. Bounded(r, b, v)
    BY <1>1, <2>2, <2>4, SessionAssumption DEF Bounded, Sighted, Blind
  <2>. QED  BY <1>3, <1>6, <2>1, <2>5, AdvanceSteps
<1>13. CASE Verify(t)
  <2>. DEFINE after == {Persisting(m("VERIFYING"), "judge"), Raised(m("VERIFYING"))}
  <2>1. AdvanceTo(t, "VERIFYING", after, Raised(m("VERIFYING")))
    BY <1>13 DEF Verify, Advance, m
  <2>2. \A r \in after : Bounded(r, b, v)
    BY <1>3, <1>4, <1>5, <1>6, <1>7, <1>13 DEF Verify, At
  <2>. QED  BY <1>3, <1>6, <2>1, <2>2, AdvanceSteps
<1>14. CASE Rework(t)
  <2>. DEFINE after == {Settling(tried("RECOVERING"), "FAILED")} \cup
                       IF tried("RECOVERING").tries > MaxRecovery THEN {}
                       ELSE {Settling(tried("RECOVERING"), "WAITING"),
                             Persisting(tried("RECOVERING"), "top")}
  <2>1. AdvanceTo(t, "RECOVERING", after, Raised(m("RECOVERING")))
    BY <1>14 DEF Rework, Advance, m, tried
  <2>2. /\ Bounded(Settling(tried("RECOVERING"), "FAILED"), b, v)
        /\ Bounded(Settling(tried("RECOVERING"), "WAITING"), b, v)
        /\ Bounded(Persisting(tried("RECOVERING"), "top"), b, v)
    BY <1>3, <1>4, <1>5, <1>6, <1>7, <1>14 DEF Rework, At
  <2>3. \A r \in after : Bounded(r, b, v)
    BY <2>2
  <2>. QED  BY <1>3, <1>6, <2>1, <2>3, AdvanceSteps
<1>15. CASE Settle(t)
  <2>. DEFINE u == Unwound(m(s.goal))
              r == Persisting(u, "leave")
  <2>1. AdvanceTo(t, s.goal, {r}, Raised(m(s.goal)))
    BY <1>15 DEF Settle, Advance, m
  <2>2. u \in Session
    BY <1>1, <1>2, UnwoundIsReturning DEF Returning
  <2>3. r.pc = "persistRow" /\ r.next = "leave"
    BY <2>2 DEF Persisting, Session
  <2>4. Bounded(r, b, v)
    BY <1>1, <2>3, EndingIsBounded DEF Ending
  <2>. QED  BY <1>1, <1>3, <2>1, <2>4, AdvanceSteps
<1>. QED
  BY <1>8, <1>9, <1>10, <1>11, <1>12, <1>13, <1>14, <1>15

\* persist: a session that is behind cannot write the row, and goes to its ending.
LEMMA PersistsStep ==
  ASSUME SessionInv, BlindInv, NEW t \in Thread, PersistRow(t) \/ PersistState(t)
  PROVE  Stepped(t)
<1>. DEFINE s == ses[t]
            b == blind[t]
            v == row.version
<1>1. /\ s \in Session /\ s.run.version \in Nat /\ b \in Nat /\ v \in Nat
      /\ Bounded(s, b, v) /\ b <= BlindLimit /\ s.next # "repair" /\ s \in Returning
  BY HeldBound, HeldSession
<1>2. blind' = blind /\ saved \in Nat
  BY HeldSession DEF PersistRow, PersistState
<1>3. CASE PersistRow(t)
  <2>. DEFINE r == Bumped(s)
  <2>1. r \in Session /\ r.run.version = s.run.version + 1 /\ r.next = s.next
    <3>1. r \in Returning /\ r.run.version = s.run.version + 1
      BY <1>1, BumpedIsReturning
    <3>2. r.next = s.next
      BY <1>1 DEF Bumped, Session
    <3>. QED  BY <3>1, <3>2 DEF Returning
  <2>2. s.pc = "persistRow"
    BY <1>3 DEF PersistRow, At
  <2>3. CASE Accepts(s.run.version) /\ WriteRow(r.run) /\ Become(t, Goto(r, "persistState"))
    <3>. DEFINE g == Goto(r, "persistState")
    <3>1. g.pc = "persistState" /\ g.next = s.next /\ g.run = r.run
      BY <2>1 DEF Goto, Session
    <3>2. row'.version = s.run.version + 1 /\ v = s.run.version
      BY <2>1, <2>3 DEF Accepts, WriteRow
    <3>. HIDE DEF g
    <3>3. b = 0 \/ s.next = "leave"
      BY <1>1, <2>2, <3>2 DEF Bounded, Sighted, Blind, Ending
    <3>4. Bounded(g, b, row'.version)
      BY <1>1, <2>1, <3>1, <3>2, <3>3 DEF Bounded, Sighted, Ending
    <3>5. Become(t, g)
      BY <2>3 DEF g
    <3>. QED  BY <1>1, <1>2, <3>2, <3>4, <3>5, BecomingSteps
  <2>4. CASE Become(t, Raised(r)) /\ UNCHANGED row
    <3>. HIDE DEF r
    <3>1. Bounded(Raised(r), b, v)
      BY <1>1, <2>1, RaisedIsBounded
    <3>. QED  BY <1>1, <1>2, <2>4, <3>1, BecomingSteps
  <2>. QED  BY <1>3, <2>3, <2>4 DEF PersistRow
<1>4. CASE PersistState(t)
  <2>. DEFINE r == [s EXCEPT !.pc = s.next, !.next = "idle", !.expected = 0]
  <2>1. s.pc = "persistState" /\ row' = row
    BY <1>4 DEF PersistState, At
  <2>2. CASE Become(t, r)
    <3>1. r.pc = s.next /\ r.next = "idle" /\ r.run = s.run
      BY <1>1 DEF Session
    <3>. HIDE DEF r
    <3>2. s.next = "leave" \/ (b = 0 /\ s.run.version <= v)
      BY <1>1, <2>1 DEF Bounded, Sighted, Blind, Ending
    <3>3. Bounded(r, b, v)
      BY <1>1, <3>1, <3>2 DEF Bounded, Sighted, Ending
    <3>. QED  BY <1>1, <1>2, <2>1, <2>2, <3>3, BecomingSteps
  <2>3. CASE Become(t, Raised(s))
    <3>1. Bounded(Raised(s), b, v)
      BY <1>1, RaisedIsBounded
    <3>. QED  BY <1>1, <1>2, <2>1, <2>3, <3>1, BecomingSteps
  <2>. QED  BY <1>4, <2>2, <2>3 DEF PersistState
<1>. QED  BY <1>3, <1>4

\* resume, retry and start: a session that begins has executed nothing.
LEMMA StartsStep ==
  ASSUME SessionInv, BlindInv, NEW t \in Thread, StartStep(t)
  PROVE  Stepped(t)
<1>. DEFINE s == ses[t]
            b == blind[t]
            v == row.version
            begun(pc, status) == [Goto(s, pc) EXCEPT
                                    !.run = [row EXCEPT !.status = status, !.version = @ + 1]]
<1>1. /\ s \in Session /\ s.run.version \in Nat /\ b \in Nat /\ v \in Nat
      /\ Bounded(s, b, v) /\ b <= BlindLimit /\ s.next # "repair"
      /\ row \in Row
  BY HeldBound, HeldSession
<1>2. \A pc \in {"leave", "left"} : Bounded(Rejecting(s, pc), b, v)
  BY <1>1, RejectingIsBounded
<1>3. ASSUME b = 0, s.run.version <= v, NEW pc \in {"acquire", "load", "setup", "top", "leave"}
      PROVE  Bounded(Goto(s, pc), b, v)
  BY <1>1, <1>3, GotoIsBounded DEF Phase
<1>4. ASSUME b = 0, NEW pc \in {"requeue", "init"}, NEW status \in RunState
      PROVE  Bounded(begun(pc, status), b, v)
  <2>1. \A r \in Row : /\ [Goto(s, pc) EXCEPT !.run = r].pc = pc
                       /\ [Goto(s, pc) EXCEPT !.run = r].next = s.next
    BY <1>1 DEF Goto, Session
  <2>2. [row EXCEPT !.status = status, !.version = @ + 1] \in Row
    <3>1. [row EXCEPT !.status = status] \in Row
      BY <1>1 DEF Row
    <3>2. \A n \in Nat : [[row EXCEPT !.status = status] EXCEPT !.version = n] \in Row
      BY <3>1 DEF Row
    <3>3. [row EXCEPT !.status = status, !.version = @ + 1]
            = [[row EXCEPT !.status = status] EXCEPT !.version = row.version + 1]
      BY <1>1 DEF Row
    <3>4. row.version + 1 \in Nat
      BY <1>1
    <3>. QED  BY <3>2, <3>3, <3>4
  <2>. HIDE DEF s
  <2>. QED  BY <1>1, <1>4, <2>1, <2>2 DEF Bounded, Sighted
<1>5. ASSUME s.pc \in {"resume", "retry", "acquire", "load", "setup"}
      PROVE  b = 0 /\ s.run.version <= v
  BY <1>1, <1>5, SightedPhases
<1>6. ASSUME NEW r, Become(t, r), UNCHANGED <<row, blind>>, Bounded(r, b, v)
      PROVE  Stepped(t)
  BY <1>1, <1>6, BecomingSteps
<1>7. CASE Resume(t) \/ Retry(t)
  <2>1. b = 0 /\ s.run.version <= v /\ UNCHANGED <<row, blind>>
    BY <1>5, <1>7 DEF Resume, Retry, At, LocalStep
  <2>2. "QUEUED" \in RunState
    BY StatusesAreStates
  <2>3. \/ Become(t, Rejecting(s, "left")) \/ Become(t, Goto(s, "acquire"))
        \/ Become(t, begun("requeue", "QUEUED"))
    <3>1. CASE Resume(t)
      BY <3>1, Zenon DEF Resume
    <3>2. CASE Retry(t)
      BY <3>2, Zenon DEF Retry
    <3>. QED  BY <1>7, <3>1, <3>2
  <2>. HIDE DEF begun
  <2>4. \E r : Become(t, r) /\ Bounded(r, b, v)
    BY <1>2, <1>3, <1>4, <2>1, <2>2, <2>3
  <2>. QED  BY <1>6, <2>1, <2>4
<1>8. CASE Requeue(t) \/ WriteInitializing(t)
  <2>1. s.pc \in {"requeue", "init"} /\ blind' = blind
    BY <1>8 DEF Requeue, WriteInitializing, At
  <2>2. b = 0
    BY <1>1, <2>1 DEF Bounded, Sighted, Blind, Ending
  <2>3. CASE \E pc \in {"acquire", "setup"} :
               Accepts(s.run.version - 1) /\ WriteRow(s.run) /\ Become(t, Goto(s, pc))
    <3>1. PICK pc \in {"acquire", "setup"} : Become(t, Goto(s, pc))
      BY <2>3
    <3>2. row'.version = s.run.version /\ v <= row'.version
      BY <1>1, <2>3 DEF Accepts, WriteRow
    <3>3. Bounded(Goto(s, pc), b, row'.version)
      BY <1>1, <2>2, <3>2, GotoIsBounded DEF Phase
    <3>. QED  BY <2>1, <3>1, <3>2, <3>3, BecomingSteps
  <2>4. CASE \E pc \in {"leave", "left"} : Become(t, Rejecting(s, pc)) /\ UNCHANGED row
    BY <1>2, <1>6, <2>1, <2>4
  <2>. QED  BY <1>8, <2>3, <2>4 DEF Requeue, WriteInitializing
<1>9. CASE Acquire(t) \/ Load(t)
  <2>1. b = 0 /\ s.run.version <= v /\ UNCHANGED <<row, blind>>
    BY <1>5, <1>9 DEF Acquire, Load, At
  <2>2. "INITIALIZING" \in RunState
    BY StatusesAreStates
  <2>3. \E r : Become(t, r) /\ Bounded(r, b, v)
    <3>1. CASE Acquire(t)
      BY <1>2, <1>3, <2>1, <3>1 DEF Acquire
    <3>2. CASE Load(t)
      <4>1. \/ Become(t, Goto(s, "leave")) \/ Become(t, Rejecting(s, "leave"))
            \/ Become(t, begun("init", "INITIALIZING"))
        BY <3>2, Zenon DEF Load
      <4>. HIDE DEF begun
      <4>. QED  BY <1>2, <1>3, <1>4, <2>1, <2>2, <4>1
    <3>. QED  BY <1>9, <3>1, <3>2
  <2>. QED  BY <1>6, <2>1, <2>3
<1>10. CASE Setup(t)
  <2>1. b = 0 /\ s.run.version <= v /\ UNCHANGED <<row, blind>>
    BY <1>5, <1>10 DEF Setup, At, LocalStep
  <2>2. Bounded([Goto(s, "top") EXCEPT !.state = saved], b, v)
    <3>. DEFINE r == [Goto(s, "top") EXCEPT !.state = saved]
    <3>1. r.pc = "top" /\ r.next = s.next /\ r.run = s.run
      BY <1>1 DEF Goto, Session
    <3>. QED  BY <1>1, <2>1, <3>1 DEF Bounded, Sighted
  <2>. QED  BY <1>2, <1>6, <1>10, <2>1, <2>2 DEF Setup
<1>11. CASE Leave(t)
  <2>. DEFINE gone == [IdleSession EXCEPT !.pc = "left", !.rejected = s.rejected]
  <2>1. gone.pc = "left" /\ gone.next = "idle"
    BY DEF IdleSession
  <2>2. Bounded(gone, b, v)
    BY <1>1, <2>1, EndingIsBounded DEF Ending
  <2>. QED  BY <1>6, <1>11, <2>2 DEF Leave
<1>. QED  BY <1>7, <1>8, <1>9, <1>10, <1>11 DEF StartStep

\* A step of a session, whichever it is, keeps its thread within the bound.
LEMMA SessionStepIsBounded ==
  ASSUME SessionInv, BlindInv, NEW t \in Thread, SessionStep(t)
  PROVE  Stepped(t)
BY DecisionsStep, ToolsStep, AdvancesStep, PersistsStep, StartsStep DEF SessionStep, LoopStep

\* A thread begins with a session that has executed nothing.
LEMMA BeginIsBounded ==
  ASSUME SessionInv, NEW t \in Thread, NEW pc \in {"resume", "retry", "acquire"}, Begin(t, pc)
  PROVE  Stepped(t)
<1>1. IdleSession \in Session /\ IdleSession.next = "idle" /\ IdleSession.run.version = 0
  BY IdleSessionIsReady DEF Ready, Returning, IdleSession
<1>2. row.version \in Nat /\ pc \in Phase
  BY HeldSession DEF Phase
<1>3. Bounded(Goto(IdleSession, pc), 0, row.version)
  BY <1>1, <1>2, GotoIsBounded
<1>4. /\ ses'[t] = Goto(IdleSession, pc) /\ blind'[t] = 0
      /\ \A u \in Thread \ {t} : ses'[u] = ses[u] /\ blind'[u] = blind[u]
  BY DEF Begin, Become, SessionInv, SessionTypeOK
<1>. QED  BY <1>2, <1>3, <1>4 DEF Stepped, Begin

LEMMA IdleIsBounded == ASSUME NEW v \in Nat PROVE Bounded(IdleSession, 0, v)
<1>1. IdleSession.pc = "idle" /\ IdleSession.next = "idle"
  BY DEF IdleSession
<1>. QED  BY <1>1, BlindLimitIsPositive, EndingIsBounded DEF Ending

\* A step of one thread within the bound keeps it for all threads.
LEMMA SteppedKeeps ==
  ASSUME SessionInv, BlindInv, SessionInv', NEW t \in Thread, Stepped(t)
  PROVE  BlindInv'
<1>1. row.version \in Nat /\ row'.version \in Nat
  BY DEF SessionInv, StoreTypeOK, Row
<1>2. ASSUME NEW u \in Thread \ {t} PROVE Bounded(ses'[u], blind'[u], row'.version)
  <2>1. ses[u] \in Session /\ blind[u] \in Nat /\ Bounded(ses[u], blind[u], row.version)
    BY DEF SessionInv, SessionTypeOK, BlindInv
  <2>. QED  BY <1>1, <2>1, BoundedStays DEF Stepped
<1>. QED  BY <1>2 DEF BlindInv, Stepped

\* So does a step that moves the row on, and at most flags a session.
LEMMA ElsewhereIsBounded ==
  ASSUME SessionInv, BlindInv, row'.version \in Nat, row.version <= row'.version, blind' = blind,
         \A u \in Thread : /\ ses'[u].pc = ses[u].pc /\ ses'[u].next = ses[u].next
                           /\ ses'[u].run = ses[u].run /\ ses'[u].tries = ses[u].tries
  PROVE  BlindInv'
<1>1. ASSUME NEW u \in Thread PROVE Bounded(ses'[u], blind[u], row'.version)
  <2>1. ses[u] \in Session /\ blind[u] \in Nat /\ Bounded(ses[u], blind[u], row.version)
    BY DEF SessionInv, SessionTypeOK, BlindInv
  <2>2. row.version \in Nat
    BY HeldSession
  <2>3. Bounded(ses[u], blind[u], row'.version)
    BY <2>1, <2>2, BoundedStays
  <2>. QED  BY <2>3 DEF Bounded, Sighted, Blind, Ending
<1>. QED  BY <1>1 DEF BlindInv

-----------------------------------------------------------------------------
(* A session writes the claim it read: no step of a session changes the      *)
(* claim in the row, as long as nobody else does while it holds its copy.    *)

\* From the moment it copies the row until it leaves, a session may write it.
Holds(s) == s.pc \notin {"idle", "resume", "retry", "acquire", "load", "leave", "left"}

Claimed(s, claim) == Holds(s) => s.run.claim = claim

\* What a step of thread t does to the claim.
Carried(t) ==
  /\ ses[t].pc # "idle"
  /\ row'.claim = row.claim
  /\ Claimed(ses'[t], row.claim)

\* Every continuation of a session has the session's copy of the row.
LEMMA ContinuationsKeepRun ==
  ASSUME NEW s \in Session
  PROVE  /\ \A pc : /\ Goto(s, pc).run = s.run /\ Persisting(s, pc).run = s.run
                    /\ Rejecting(s, pc).run = s.run
         /\ \A status : Settling(s, status).run = s.run
         /\ Unwound(s).run = s.run
         /\ Raised(s).run = s.run /\ DecisionRaised(s).run = s.run
<1>1. \A pc : /\ Goto(s, pc).run = s.run /\ Persisting(s, pc).run = s.run
              /\ Rejecting(s, pc).run = s.run
  BY DEF Goto, Persisting, Rejecting, Session
<1>2. Unwound(s).run = s.run
  BY DEF Unwound, Session
<1>3. ASSUME NEW status PROVE Settling(s, status).run = s.run
  BY DEF Settling, Unwound, Session
<1>4. Goto(Unwound(s), "contain").run = s.run
  BY DEF Goto, Unwound, Session
<1>. QED  BY <1>1, <1>2, <1>3, <1>4 DEF Raised, DecisionRaised

\* advanceTo, persist and the counts change the status and the version of it.
LEMMA ChangesKeepClaim ==
  ASSUME NEW t \in Thread, ses[t] \in Session, NEW target \in RunState
  PROVE  /\ Moved(t, target).run.claim = ses[t].run.claim
         /\ [Moved(t, target) EXCEPT !.tries = @ + 1].run.claim = ses[t].run.claim
         /\ Bumped(ses[t]).run.claim = ses[t].run.claim
<1>1. ses[t].run \in Row
  BY DEF Session
<1>2. Moved(t, target).run.claim = ses[t].run.claim
  BY <1>1 DEF Moved, Session, Row
<1>3. [Moved(t, target) EXCEPT !.tries = @ + 1].run.claim = ses[t].run.claim
  BY <1>1 DEF Moved, Session, Row
<1>4. Bumped(ses[t]).run.claim = ses[t].run.claim
  BY <1>1 DEF Bumped, Session, Row
<1>. QED  BY <1>2, <1>3, <1>4

\* The thread becomes a session with the same claim; the row stays, or becomes
\* a row with the same claim.
LEMMA BecomingCarries ==
  ASSUME SessionInv, NEW t \in Thread, Holds(ses[t]), Claimed(ses[t], row.claim),
         NEW s, Become(t, s), s.run.claim = ses[t].run.claim,
         row' = row \/ row'.claim = ses[t].run.claim
  PROVE  Carried(t)
<1>1. ses'[t] = s
  BY DEF SessionInv, SessionTypeOK, Become
<1>. QED  BY <1>1 DEF Carried, Claimed, Holds

LEMMA AdvanceCarries ==
  ASSUME SessionInv, NEW t \in Thread, Holds(ses[t]), Claimed(ses[t], row.claim),
         NEW target \in RunState, NEW after, NEW raised,
         AdvanceTo(t, target, after, raised),
         \A s \in after \cup {raised} : s.run.claim = ses[t].run.claim
  PROVE  Carried(t)
<1>1. PICK s \in after \cup {raised} : Become(t, s)
  BY DEF AdvanceTo, BecomeOneOf
<1>2. Moved(t, target).run.claim = ses[t].run.claim
  BY HeldSession, ChangesKeepClaim
<1>3. row' = row \/ row' = Moved(t, target).run
  BY DEF AdvanceTo, WriteRow
<1>. QED  BY <1>1, <1>2, <1>3, BecomingCarries

LEMMA DecisionsCarry ==
  ASSUME SessionInv, NEW t \in Thread, Claimed(ses[t], row.claim),
         \/ Top(t) \/ Look(t) \/ Think(t) \/ DecisionRecovery(t) \/ Act(t) \/ Recorded(t)
         \/ Repair(t) \/ RetryAction(t) \/ StepDone(t) \/ Complete(t) \/ Judge(t) \/ Contain(t)
  PROVE  Carried(t)
<1>. DEFINE s == ses[t]
            counted == [s EXCEPT !.steps = @ + 1]
            handling == [s EXCEPT !.contained = TRUE]
<1>1. s \in Session
  BY HeldSession
<1>2. /\ counted \in Session /\ handling \in Session
      /\ counted.run = s.run /\ handling.run = s.run
  BY <1>1, CountedKeepsRun DEF Session
<1>3. /\ \A pc : /\ Goto(s, pc).run = s.run /\ Persisting(s, pc).run = s.run
                 /\ Goto(counted, pc).run = s.run
      /\ \A status : /\ Settling(s, status).run = s.run /\ Settling(counted, status).run = s.run
                     /\ Settling(handling, status).run = s.run
      /\ Raised(s).run = s.run /\ DecisionRaised(s).run = s.run
  BY <1>1, <1>2, ContinuationsKeepRun
<1>4. Holds(s)
  BY DEF Holds, At, Top, Look, Think, DecisionRecovery, Act, Recorded, Repair, RetryAction,
         StepDone, Complete, Judge, Contain
<1>5. row' = row
  BY DEF LocalStep, Top, Look, Think, DecisionRecovery, Act, Recorded, Repair, RetryAction,
         StepDone, Complete, Judge, Contain
<1>. HIDE DEF counted, handling
<1>6. \E r : Become(t, r) /\ r.run = s.run
  <2>1. CASE Top(t)
    BY <1>3, <2>1 DEF Top, BecomeOneOf, counted
  <2>2. CASE Look(t)
    BY <1>3, <2>2 DEF Look
  <2>3. CASE Think(t) \/ DecisionRecovery(t)
    BY <1>3, <2>3 DEF Think, DecisionRecovery, BecomeOneOf
  <2>4. CASE Act(t) \/ Recorded(t)
    BY <1>3, <2>4 DEF Act, Recorded, BecomeOneOf
  <2>5. CASE Repair(t) \/ RetryAction(t)
    BY <1>3, <2>5 DEF Repair, RetryAction, BecomeOneOf
  <2>6. CASE StepDone(t) \/ Complete(t) \/ Judge(t)
    BY <1>3, <2>6 DEF StepDone, Complete, Judge, BecomeOneOf
  <2>7. CASE Contain(t)
    BY <1>3, <2>7 DEF Contain, handling
  <2>. QED  BY <2>1, <2>2, <2>3, <2>4, <2>5, <2>6, <2>7
<1>. QED  BY <1>4, <1>5, <1>6, BecomingCarries

LEMMA AdvancesCarry ==
  ASSUME SessionInv, NEW t \in Thread, Claimed(ses[t], row.claim),
         \/ Observe(t) \/ Plan(t) \/ Decide(t) \/ DecisionFailed(t)
         \/ Recover(t) \/ Verify(t) \/ Rework(t) \/ Settle(t)
  PROVE  Carried(t)
<1>. DEFINE s == ses[t]
            c == s.run.claim
            m(target) == Moved(t, target)
            tried(target) == [m(target) EXCEPT !.tries = @ + 1]
<1>1. s \in Session /\ s.goal \in RunState
  BY HeldSession
<1>2. ASSUME NEW target \in RunState
      PROVE  /\ m(target) \in Session /\ tried(target) \in Session
             /\ m(target).run.claim = c /\ tried(target).run.claim = c
  BY <1>1, MovedKeepsVersion, ChangesKeepClaim
<1>. HIDE DEF m, tried
<1>3. ASSUME NEW target \in RunState
      PROVE  /\ \A pc : /\ Goto(m(target), pc).run.claim = c
                        /\ Persisting(m(target), pc).run.claim = c
                        /\ Goto(tried(target), pc).run.claim = c
                        /\ Persisting(tried(target), pc).run.claim = c
             /\ \A status : Settling(tried(target), status).run.claim = c
             /\ Raised(m(target)).run.claim = c /\ DecisionRaised(m(target)).run.claim = c
  BY <1>2, ContinuationsKeepRun
<1>4. {"OBSERVING", "PLANNING", "EXECUTING", "RECOVERING", "VERIFYING", "FAILED", "WAITING"}
        \subseteq RunState
  BY StatusesAreStates
<1>5. Holds(s)
  BY DEF Holds, At, Observe, Plan, Decide, DecisionFailed, Recover, Verify, Rework, Settle
<1>6. ASSUME NEW target \in RunState, NEW after, \A r \in after : r.run.claim = c,
             AdvanceTo(t, target, after, Raised(m(target)))
      PROVE  Carried(t)
  BY <1>3, <1>5, <1>6, AdvanceCarries
<1>7. CASE Observe(t)
  <2>. DEFINE after == {Goto(m("OBSERVING"), "decide")} \cup
                       IF m("OBSERVING").steps = 1 THEN {Goto(m("OBSERVING"), "plan")} ELSE {}
  <2>1. AdvanceTo(t, "OBSERVING", after, Raised(m("OBSERVING")))
    BY <1>7 DEF Observe, Advance, m
  <2>2. \A r \in after : r.run.claim = c
    BY <1>3, <1>4
  <2>. QED  BY <1>4, <1>6, <2>1, <2>2
<1>8. CASE Plan(t)
  <2>. DEFINE after == {Persisting(m("PLANNING"), "decide"), Raised(m("PLANNING"))}
  <2>1. AdvanceTo(t, "PLANNING", after, Raised(m("PLANNING")))
    BY <1>8 DEF Plan, Advance, m
  <2>2. \A r \in after : r.run.claim = c
    BY <1>3, <1>4
  <2>. QED  BY <1>4, <1>6, <2>1, <2>2
<1>9. CASE Decide(t)
  <2>1. AdvanceTo(t, "EXECUTING", {Goto(m("EXECUTING"), "think")}, DecisionRaised(m("EXECUTING")))
    BY <1>9 DEF Decide, m
  <2>. QED  BY <1>3, <1>4, <1>5, <2>1, AdvanceCarries
<1>10. CASE DecisionFailed(t)
  <2>1. AdvanceTo(t, "RECOVERING", {Persisting(tried("RECOVERING"), "decisionRecovery")},
                  Raised(m("RECOVERING")))
    BY <1>10 DEF DecisionFailed, Advance, m, tried
  <2>. QED  BY <1>3, <1>4, <1>6, <2>1
<1>11. CASE Recover(t)
  <2>1. AdvanceTo(t, "RECOVERING", {Goto(tried("RECOVERING"), "repair")}, Raised(m("RECOVERING")))
    BY <1>11 DEF Recover, Advance, m, tried
  <2>. QED  BY <1>3, <1>4, <1>6, <2>1
<1>12. CASE Verify(t)
  <2>. DEFINE after == {Persisting(m("VERIFYING"), "judge"), Raised(m("VERIFYING"))}
  <2>1. AdvanceTo(t, "VERIFYING", after, Raised(m("VERIFYING")))
    BY <1>12 DEF Verify, Advance, m
  <2>2. \A r \in after : r.run.claim = c
    BY <1>3, <1>4
  <2>. QED  BY <1>4, <1>6, <2>1, <2>2
<1>13. CASE Rework(t)
  <2>. DEFINE after == {Settling(tried("RECOVERING"), "FAILED")} \cup
                       IF tried("RECOVERING").tries > MaxRecovery THEN {}
                       ELSE {Settling(tried("RECOVERING"), "WAITING"),
                             Persisting(tried("RECOVERING"), "top")}
  <2>1. AdvanceTo(t, "RECOVERING", after, Raised(m("RECOVERING")))
    BY <1>13 DEF Rework, Advance, m, tried
  <2>2. \A r \in after : r.run.claim = c
    BY <1>3, <1>4
  <2>. QED  BY <1>4, <1>6, <2>1, <2>2
<1>14. CASE Settle(t)
  <2>. DEFINE u == Unwound(m(s.goal))
  <2>1. AdvanceTo(t, s.goal, {Persisting(u, "leave")}, Raised(m(s.goal)))
    BY <1>14 DEF Settle, Advance, m
  <2>2. u \in Session /\ u.run.claim = c
    BY <1>1, <1>2, UnwoundIsReturning, ContinuationsKeepRun DEF Returning
  <2>. HIDE DEF u
  <2>3. Persisting(u, "leave").run.claim = c
    BY <2>2, ContinuationsKeepRun
  <2>. QED  BY <1>1, <1>6, <2>1, <2>3
<1>. QED  BY <1>7, <1>8, <1>9, <1>10, <1>11, <1>12, <1>13, <1>14

LEMMA PersistsCarry ==
  ASSUME SessionInv, NEW t \in Thread, Claimed(ses[t], row.claim),
         PersistRow(t) \/ PersistState(t)
  PROVE  Carried(t)
<1>. DEFINE s == ses[t]
            r == Bumped(s)
<1>1. s \in Session /\ s \in Returning /\ "FAILED" \in RunState
  BY HeldSession, StatusesAreStates
<1>2. Holds(s)
  BY DEF Holds, At, PersistRow, PersistState
<1>3. CASE PersistRow(t)
  <2>1. r \in Session /\ r.run.claim = s.run.claim
    BY <1>1, BumpedIsReturning, ChangesKeepClaim DEF Returning
  <2>2. \/ row' = r.run /\ Become(t, Goto(r, "persistState"))
        \/ row' = row /\ Become(t, Raised(r))
    BY <1>3 DEF PersistRow, WriteRow
  <2>. HIDE DEF r
  <2>3. Goto(r, "persistState").run = r.run /\ Raised(r).run = r.run
    BY <2>1, ContinuationsKeepRun
  <2>. QED  BY <1>2, <2>1, <2>2, <2>3, BecomingCarries
<1>4. CASE PersistState(t)
  <2>. DEFINE back == [s EXCEPT !.pc = s.next, !.next = "idle", !.expected = 0]
  <2>1. row' = row /\ (Become(t, back) \/ Become(t, Raised(s)))
    BY <1>4 DEF PersistState
  <2>2. back.run = s.run
    BY <1>1 DEF Session
  <2>. HIDE DEF back
  <2>3. Raised(s).run = s.run
    BY <1>1, ContinuationsKeepRun
  <2>. QED  BY <1>2, <2>1, <2>2, <2>3, BecomingCarries
<1>. QED  BY <1>3, <1>4

LEMMA StartsCarry ==
  ASSUME SessionInv, NEW t \in Thread, Claimed(ses[t], row.claim), StartStep(t)
  PROVE  Carried(t)
<1>. DEFINE s == ses[t]
            begun(pc, status) == [Goto(s, pc) EXCEPT
                                    !.run = [row EXCEPT !.status = status, !.version = @ + 1]]
<1>1. s \in Session /\ row \in Row /\ ses \in [Thread -> Session]
  BY HeldSession DEF SessionInv, SessionTypeOK
<1>2. \A pc : /\ Goto(s, pc).run = s.run /\ Rejecting(s, pc).run = s.run
              /\ Goto(s, pc).pc = pc /\ Rejecting(s, pc).pc = pc
  BY <1>1, ContinuationsKeepRun DEF Goto, Rejecting, Session
<1>3. \A pc, status : begun(pc, status).run.claim = row.claim
  BY <1>1 DEF Goto, Session, Row
<1>4. ASSUME NEW r, Become(t, r), row' = row, s.pc # "idle", Claimed(r, row.claim)
      PROVE  Carried(t)
  BY <1>1, <1>4 DEF Carried, Become
<1>5. CASE Resume(t) \/ Retry(t)
  <2>1. \/ Become(t, Rejecting(s, "left")) \/ Become(t, Goto(s, "acquire"))
        \/ Become(t, begun("requeue", "QUEUED"))
    <3>1. CASE Resume(t)
      BY <3>1, Zenon DEF Resume
    <3>2. CASE Retry(t)
      BY <3>2, Zenon DEF Retry
    <3>. QED  BY <1>5, <3>1, <3>2
  <2>2. row' = row /\ s.pc # "idle"
    BY <1>5 DEF Resume, Retry, At, LocalStep
  <2>. HIDE DEF begun
  <2>. QED  BY <1>2, <1>3, <1>4, <2>1, <2>2 DEF Claimed, Holds
<1>6. CASE Requeue(t) \/ WriteInitializing(t)
  <2>1. Holds(s)
    BY <1>6 DEF Holds, At, Requeue, WriteInitializing
  <2>2. \E r : Become(t, r) /\ r.run = s.run
    BY <1>2, <1>6 DEF Requeue, WriteInitializing
  <2>3. row' = row \/ row' = s.run
    BY <1>6 DEF Requeue, WriteInitializing, WriteRow
  <2>. QED  BY <2>1, <2>2, <2>3, BecomingCarries
<1>7. CASE Acquire(t)
  <2>1. Become(t, Goto(s, "load")) \/ Become(t, Rejecting(s, "left"))
    BY <1>7 DEF Acquire
  <2>2. row' = row /\ s.pc # "idle"
    BY <1>7 DEF Acquire, At
  <2>. QED  BY <1>2, <1>4, <2>1, <2>2 DEF Claimed, Holds
<1>8. CASE Load(t)
  <2>1. \/ Become(t, Goto(s, "leave")) \/ Become(t, Rejecting(s, "leave"))
        \/ Become(t, begun("init", "INITIALIZING"))
    BY <1>8, Zenon DEF Load
  <2>2. row' = row /\ s.pc # "idle"
    BY <1>8 DEF Load, At
  <2>. HIDE DEF begun
  <2>. QED  BY <1>2, <1>3, <1>4, <2>1, <2>2 DEF Claimed, Holds
<1>9. CASE Setup(t)
  <2>1. Holds(s) /\ row' = row
    BY <1>9 DEF Setup, Holds, At, LocalStep
  <2>2. [Goto(s, "top") EXCEPT !.state = saved].run = s.run
    BY <1>1 DEF Goto, Session
  <2>3. \E r : Become(t, r) /\ r.run = s.run
    BY <1>2, <1>9, <2>2 DEF Setup
  <2>. QED  BY <2>1, <2>3, BecomingCarries
<1>10. CASE Leave(t)
  <2>. DEFINE gone == [IdleSession EXCEPT !.pc = "left", !.rejected = s.rejected]
  <2>1. gone.pc = "left" /\ row' = row /\ Become(t, gone) /\ s.pc # "idle"
    BY <1>10 DEF Leave, IdleSession, At
  <2>. QED  BY <1>4, <2>1 DEF Claimed, Holds
<1>. QED  BY <1>5, <1>6, <1>7, <1>8, <1>9, <1>10 DEF StartStep

\* A step of a session, whichever it is, leaves the claim in the row as it is.
LEMMA SessionStepCarries ==
  ASSUME SessionInv, NEW t \in Thread, Claimed(ses[t], row.claim), SessionStep(t)
  PROVE  Carried(t)
BY DecisionsCarry, AdvancesCarry, PersistsCarry, StartsCarry DEF SessionStep, LoopStep

-----------------------------------------------------------------------------
(* How far a session can still write: the version in its copy, or one more  *)
(* when persist may still raise it; a session that handles an exception     *)
(* leaves when it is refused again.                                         *)

Readying == {"resume", "retry", "requeue", "acquire", "load", "init"}

Within == Phase \ (Readying \cup {"idle", "left"})

Late(s) == s.contained \/ s.pc = "contain"

Reach(s) == IF Late(s) THEN s.run.version ELSE s.run.version + 1

\* A thread whose copy may still be, or become, the version in the row, and one
\* that holds the row's version and no exception.
Near(t) == Iterating(t) /\ row.version <= Reach(ses[t])

Current(t) == Iterating(t) /\ row.version < Reach(ses[t])

\* The next phase is one of the loop's, or the way out of it.
Inside(s) ==
  /\ s.pc \in Within
  /\ s.pc \in {"persistRow", "persistState"} => s.next \in Within \ {"persistRow", "persistState"}

\* Session s goes on as r with the copy it has.
GoesOn(s, r) ==
  /\ r.run.claim = s.run.claim /\ r.run.version = s.run.version
  /\ Late(s) => Late(r)
  /\ Inside(r)

LEMMA ContinuationsGoOn ==
  ASSUME NEW s \in Session, s.pc # "contain"
  PROVE  /\ \A pc \in Within \ {"persistRow", "persistState"} : GoesOn(s, Goto(s, pc))
         /\ \A pc \in Within \ {"persistRow", "persistState"} : GoesOn(s, Persisting(s, pc))
         /\ \A status : GoesOn(s, Settling(s, status))
         /\ GoesOn(s, Rejecting(s, "leave"))
         /\ GoesOn(s, Raised(s)) /\ GoesOn(s, DecisionRaised(s))
<1>1. {"persistRow", "settle", "leave", "contain", "decisionFailed"} \subseteq Within
  BY DEF Within, Phase, Readying
<1>2. ASSUME NEW pc \in Within \ {"persistRow", "persistState"} PROVE GoesOn(s, Goto(s, pc))
  BY <1>2 DEF GoesOn, Late, Inside, Goto, Session
<1>3. ASSUME NEW pc \in Within \ {"persistRow", "persistState"} PROVE GoesOn(s, Persisting(s, pc))
  BY <1>1, <1>3 DEF GoesOn, Late, Inside, Persisting, Session
<1>4. ASSUME NEW status PROVE GoesOn(s, Settling(s, status))
  BY <1>1, <1>4 DEF GoesOn, Late, Inside, Settling, Unwound, Session
<1>5. GoesOn(s, Rejecting(s, "leave"))
  BY <1>1 DEF GoesOn, Late, Inside, Rejecting, Session
<1>6. GoesOn(s, Goto(Unwound(s), "contain"))
  BY <1>1 DEF GoesOn, Late, Inside, Goto, Unwound, Session
<1>7. GoesOn(s, Raised(s))
  BY <1>5, <1>6 DEF Raised
<1>8. GoesOn(s, DecisionRaised(s))
  BY <1>1, <1>2, <1>4 DEF DecisionRaised
<1>. QED  BY <1>2, <1>3, <1>4, <1>5, <1>7, <1>8

\* The session after a change of its status or its counts, and before it.
LEMMA ChangedGoesOn ==
  ASSUME NEW s, NEW m, NEW r, m.run.claim = s.run.claim, m.run.version = s.run.version,
         m.contained = s.contained, m.pc = s.pc, GoesOn(m, r)
  PROVE  GoesOn(s, r)
BY DEF GoesOn, Late

\* The decisions of the loop write nothing and go on with the copy they have.
LEMMA DecisionsGoOn ==
  ASSUME SessionInv, NEW t \in Thread,
         \/ Top(t) \/ Look(t) \/ Think(t) \/ DecisionRecovery(t) \/ Act(t) \/ Recorded(t)
         \/ Repair(t) \/ RetryAction(t) \/ StepDone(t) \/ Complete(t) \/ Judge(t) \/ Contain(t)
  PROVE  /\ row' = row
         /\ \E r : Become(t, r) /\ GoesOn(ses[t], r)
<1>. DEFINE s == ses[t]
            counted == [s EXCEPT !.steps = @ + 1]
            handling == [s EXCEPT !.contained = TRUE]
<1>1. s \in Session
  BY HeldSession
<1>2. /\ counted \in Session /\ counted.run = s.run
      /\ counted.contained = s.contained /\ counted.pc = s.pc
  BY <1>1, CountedKeepsRun DEF Session
<1>3. row' = row
  BY DEF LocalStep, Top, Look, Think, DecisionRecovery, Act, Recorded, Repair, RetryAction,
         StepDone, Complete, Judge, Contain
<1>4. {"look", "observe", "act", "finish", "top", "stepDone", "recover", "rework", "done",
       "waiting", "failed"} \subseteq Within \ {"persistRow", "persistState"}
  BY DEF Within, Phase, Readying
<1>5. CASE Contain(t)
  <2>1. \A status : GoesOn(s, Settling(handling, status))
    BY <1>1 DEF GoesOn, Late, Inside, Within, Phase, Readying, Settling, Unwound, Session
  <2>. QED  BY <1>3, <1>5, <2>1 DEF Contain
<1>6. CASE s.pc # "contain"
  <2>1. /\ \A pc \in Within \ {"persistRow", "persistState"} : GoesOn(s, Goto(s, pc))
        /\ \A pc \in Within \ {"persistRow", "persistState"} : GoesOn(s, Persisting(s, pc))
        /\ \A status : GoesOn(s, Settling(s, status))
        /\ GoesOn(s, Raised(s)) /\ GoesOn(s, DecisionRaised(s))
    BY <1>1, <1>6, ContinuationsGoOn
  <2>2. /\ \A pc \in Within \ {"persistRow", "persistState"} : GoesOn(counted, Goto(counted, pc))
        /\ \A status : GoesOn(counted, Settling(counted, status))
    BY <1>2, <1>6, ContinuationsGoOn
  <2>3. /\ GoesOn(s, Goto(counted, "look"))
        /\ \A status : GoesOn(s, Settling(counted, status))
    BY <1>2, <1>4, <2>2, ChangedGoesOn
  <2>. HIDE DEF counted
  <2>4. CASE Top(t)
    BY <1>3, <2>3, <2>4 DEF Top, BecomeOneOf, counted
  <2>5. CASE Look(t)
    BY <1>3, <1>4, <2>1, <2>5 DEF Look
  <2>6. CASE Think(t)
    BY <1>3, <1>4, <2>1, <2>6 DEF Think, BecomeOneOf
  <2>7. CASE DecisionRecovery(t)
    BY <1>3, <1>4, <2>1, <2>7 DEF DecisionRecovery, BecomeOneOf
  <2>8. CASE Act(t)
    BY <1>3, <1>4, <2>1, <2>8 DEF Act, BecomeOneOf
  <2>9. CASE Recorded(t)
    BY <1>3, <1>4, <2>1, <2>9 DEF Recorded, BecomeOneOf
  <2>10. CASE Repair(t)
    BY <1>3, <1>4, <2>1, <2>10 DEF Repair, BecomeOneOf
  <2>11. CASE RetryAction(t)
    BY <1>3, <1>4, <2>1, <2>11 DEF RetryAction, BecomeOneOf
  <2>12. CASE StepDone(t) \/ Complete(t) \/ Judge(t)
    BY <1>3, <1>4, <2>1, <2>12 DEF StepDone, Complete, Judge, BecomeOneOf
  <2>13. ~Contain(t)
    BY <1>6 DEF Contain, At
  <2>. QED  BY <2>4, <2>5, <2>6, <2>7, <2>8, <2>9, <2>10, <2>11, <2>12, <2>13
<1>7. s.pc = "contain" => Contain(t)
  BY DEF At, Top, Look, Think, DecisionRecovery, Act, Recorded, Repair, RetryAction,
         StepDone, Complete, Judge
<1>. QED  BY <1>5, <1>6, <1>7

\* advanceTo goes on with the copy the thread has, and writes the row at the
\* version of that copy.
LEMMA AdvanceGoesOn ==
  ASSUME SessionInv, NEW t \in Thread, NEW target \in RunState, NEW after, NEW raised,
         AdvanceTo(t, target, after, raised),
         \A r \in after \cup {raised} : GoesOn(ses[t], r)
  PROVE  /\ \/ row' = row
            \/ /\ Accepts(ses[t].run.version)
               /\ row'.version = row.version /\ row'.claim = ses[t].run.claim
         /\ \E r : Become(t, r) /\ GoesOn(ses[t], r)
<1>1. \E r \in after \cup {raised} : Become(t, r)
  BY DEF AdvanceTo, BecomeOneOf
<1>2. /\ Moved(t, target).run.claim = ses[t].run.claim
      /\ Moved(t, target).run.version = ses[t].run.version
  BY HeldSession, ChangesKeepClaim, MovedIsReturning
<1>3. row' = row \/ (Accepts(ses[t].run.version) /\ row' = Moved(t, target).run)
  BY DEF AdvanceTo, WriteRow
<1>4. row.version = ses[t].run.version => row'.version = row.version \/ row' = row
  BY <1>2, <1>3
<1>. QED  BY <1>1, <1>2, <1>3 DEF Accepts

LEMMA AdvancesGoOn ==
  ASSUME SessionInv, NEW t \in Thread,
         \/ Observe(t) \/ Plan(t) \/ Decide(t) \/ DecisionFailed(t)
         \/ Recover(t) \/ Verify(t) \/ Rework(t) \/ Settle(t)
  PROVE  /\ \/ row' = row
            \/ /\ Accepts(ses[t].run.version)
               /\ row'.version = row.version /\ row'.claim = ses[t].run.claim
         /\ \E r : Become(t, r) /\ GoesOn(ses[t], r)
<1>. DEFINE s == ses[t]
            m(target) == Moved(t, target)
            tried(target) == [m(target) EXCEPT !.tries = @ + 1]
            goal ==
              /\ \/ row' = row
                 \/ /\ Accepts(ses[t].run.version)
                    /\ row'.version = row.version /\ row'.claim = ses[t].run.claim
              /\ \E r : Become(t, r) /\ GoesOn(ses[t], r)
<1>1. s \in Session /\ s.goal \in RunState /\ s.pc # "contain"
  BY HeldSession DEF At, Observe, Plan, Decide, DecisionFailed, Recover, Verify, Rework, Settle
<1>2. ASSUME NEW target \in RunState
      PROVE  /\ m(target) \in Session /\ tried(target) \in Session
             /\ m(target).run.claim = s.run.claim /\ tried(target).run.claim = s.run.claim
             /\ m(target).run.version = s.run.version
             /\ tried(target).run.version = s.run.version
             /\ m(target).contained = s.contained /\ tried(target).contained = s.contained
             /\ m(target).pc = s.pc /\ tried(target).pc = s.pc
  <2>1. /\ m(target) \in Session /\ tried(target) \in Session
        /\ m(target).run.claim = s.run.claim /\ tried(target).run.claim = s.run.claim
        /\ m(target).run.version = s.run.version /\ tried(target).run.version = s.run.version
    BY <1>1, MovedKeepsVersion, ChangesKeepClaim
  <2>2. m(target).contained = s.contained /\ m(target).pc = s.pc
    BY <1>1 DEF Moved, Session
  <2>3. tried(target).contained = m(target).contained /\ tried(target).pc = m(target).pc
    BY <2>1 DEF Session
  <2>. QED  BY <2>1, <2>2, <2>3
<1>. HIDE DEF m, tried
<1>3. ASSUME NEW target \in RunState, NEW x \in {m(target), tried(target)}
      PROVE  /\ \A pc \in Within \ {"persistRow", "persistState"} : GoesOn(s, Goto(x, pc))
             /\ \A pc \in Within \ {"persistRow", "persistState"} : GoesOn(s, Persisting(x, pc))
             /\ \A status : GoesOn(s, Settling(x, status))
             /\ GoesOn(s, Raised(x)) /\ GoesOn(s, DecisionRaised(x))
  <2>1. /\ x \in Session /\ x.run.claim = s.run.claim /\ x.run.version = s.run.version
        /\ x.contained = s.contained /\ x.pc = s.pc
    BY <1>2, <1>3
  <2>2. /\ \A pc \in Within \ {"persistRow", "persistState"} : GoesOn(x, Goto(x, pc))
        /\ \A pc \in Within \ {"persistRow", "persistState"} : GoesOn(x, Persisting(x, pc))
        /\ \A status : GoesOn(x, Settling(x, status))
        /\ GoesOn(x, Raised(x)) /\ GoesOn(x, DecisionRaised(x))
    BY <1>1, <2>1, ContinuationsGoOn
  <2>. QED  BY <2>1, <2>2, ChangedGoesOn
<1>4. /\ {"OBSERVING", "PLANNING", "EXECUTING", "RECOVERING", "VERIFYING", "FAILED", "WAITING"}
           \subseteq RunState
      /\ {"decide", "plan", "think", "repair", "judge", "top", "decisionRecovery", "leave"}
           \subseteq Within \ {"persistRow", "persistState"}
  BY StatusesAreStates DEF Within, Phase, Readying
<1>5. ASSUME NEW target \in RunState, NEW after, \A r \in after : GoesOn(s, r),
             AdvanceTo(t, target, after, Raised(m(target)))
      PROVE  goal
  BY <1>3, <1>5, AdvanceGoesOn
<1>6. CASE Observe(t)
  <2>. DEFINE after == {Goto(m("OBSERVING"), "decide")} \cup
                       IF m("OBSERVING").steps = 1 THEN {Goto(m("OBSERVING"), "plan")} ELSE {}
  <2>1. AdvanceTo(t, "OBSERVING", after, Raised(m("OBSERVING")))
    BY <1>6 DEF Observe, Advance, m
  <2>2. \A r \in after : GoesOn(s, r)
    BY <1>3, <1>4
  <2>. QED  BY <1>4, <1>5, <2>1, <2>2
<1>7. CASE Plan(t)
  <2>. DEFINE after == {Persisting(m("PLANNING"), "decide"), Raised(m("PLANNING"))}
  <2>1. AdvanceTo(t, "PLANNING", after, Raised(m("PLANNING")))
    BY <1>7 DEF Plan, Advance, m
  <2>2. \A r \in after : GoesOn(s, r)
    BY <1>3, <1>4
  <2>. QED  BY <1>4, <1>5, <2>1, <2>2
<1>8. CASE Decide(t)
  <2>1. AdvanceTo(t, "EXECUTING", {Goto(m("EXECUTING"), "think")}, DecisionRaised(m("EXECUTING")))
    BY <1>8 DEF Decide, m
  <2>2. /\ GoesOn(s, Goto(m("EXECUTING"), "think"))
        /\ GoesOn(s, DecisionRaised(m("EXECUTING")))
    BY <1>3, <1>4
  <2>. QED  BY <1>4, <2>1, <2>2, AdvanceGoesOn
<1>9. CASE DecisionFailed(t)
  <2>1. AdvanceTo(t, "RECOVERING", {Persisting(tried("RECOVERING"), "decisionRecovery")},
                  Raised(m("RECOVERING")))
    BY <1>9 DEF DecisionFailed, Advance, m, tried
  <2>. QED  BY <1>3, <1>4, <1>5, <2>1
<1>10. CASE Recover(t)
  <2>1. AdvanceTo(t, "RECOVERING", {Goto(tried("RECOVERING"), "repair")}, Raised(m("RECOVERING")))
    BY <1>10 DEF Recover, Advance, m, tried
  <2>. QED  BY <1>3, <1>4, <1>5, <2>1
<1>11. CASE Verify(t)
  <2>. DEFINE after == {Persisting(m("VERIFYING"), "judge"), Raised(m("VERIFYING"))}
  <2>1. AdvanceTo(t, "VERIFYING", after, Raised(m("VERIFYING")))
    BY <1>11 DEF Verify, Advance, m
  <2>2. \A r \in after : GoesOn(s, r)
    BY <1>3, <1>4
  <2>. QED  BY <1>4, <1>5, <2>1, <2>2
<1>12. CASE Rework(t)
  <2>. DEFINE after == {Settling(tried("RECOVERING"), "FAILED")} \cup
                       IF tried("RECOVERING").tries > MaxRecovery THEN {}
                       ELSE {Settling(tried("RECOVERING"), "WAITING"),
                             Persisting(tried("RECOVERING"), "top")}
  <2>1. AdvanceTo(t, "RECOVERING", after, Raised(m("RECOVERING")))
    BY <1>12 DEF Rework, Advance, m, tried
  <2>2. \A r \in after : GoesOn(s, r)
    BY <1>3, <1>4
  <2>. QED  BY <1>4, <1>5, <2>1, <2>2
<1>13. CASE Settle(t)
  <2>. DEFINE x == m(s.goal)
              u == Unwound(x)
  <2>1. AdvanceTo(t, s.goal, {Persisting(u, "leave")}, Raised(x))
    BY <1>13 DEF Settle, Advance, m
  <2>2. /\ x \in Session /\ x.run.claim = s.run.claim /\ x.run.version = s.run.version
        /\ x.contained = s.contained /\ x.pc = s.pc
    BY <1>1, <1>2
  <2>. HIDE DEF x
  <2>3. u \in Session /\ u.run = x.run /\ u.contained = x.contained /\ u.pc = x.pc
    BY <2>2, UnwoundIsReturning, ContinuationsKeepRun DEF Returning, Unwound, Session
  <2>. HIDE DEF u
  <2>4. GoesOn(u, Persisting(u, "leave"))
    BY <1>1, <1>4, <2>2, <2>3, ContinuationsGoOn
  <2>5. GoesOn(s, Persisting(u, "leave"))
    BY <2>2, <2>3, <2>4, ChangedGoesOn
  <2>. QED  BY <1>1, <1>5, <2>1, <2>5 DEF x
<1>. QED  BY <1>6, <1>7, <1>8, <1>9, <1>10, <1>11, <1>12, <1>13

-----------------------------------------------------------------------------

\* What a step of thread t inside start does to the row and to its own reach.
Fenced(t) ==
  /\ \A u \in Thread \ {t} : ses'[u] = ses[u]
  /\ \/ row' = row
     \/ /\ Accepts(ses[t].run.version)
        /\ row'.version \in {row.version, row.version + 1} /\ row'.claim = ses[t].run.claim
  /\ Inside(ses'[t]) \/ ses'[t].pc = "left"
  /\ Iterating(t)' => /\ ses'[t].run.version <= row'.version
                      /\ ses'[t].run.claim = ses[t].run.claim
  /\ Near(t)' => Near(t)
  /\ Current(t)' => Current(t)

\* A step that goes on with the copy at hand.
LEMMA GoingOnIsFenced ==
  ASSUME SessionInv, NEW t \in Thread, Iterating(t), ses[t].run.version <= row.version,
         NEW r, Become(t, r), GoesOn(ses[t], r),
         \/ row' = row
         \/ /\ Accepts(ses[t].run.version)
            /\ row'.version = row.version /\ row'.claim = ses[t].run.claim
  PROVE  Fenced(t)
<1>1. ses'[t] = r /\ \A u \in Thread \ {t} : ses'[u] = ses[u]
  BY DEF SessionInv, SessionTypeOK, Become
<1>2. row.version \in Nat /\ ses[t].run.version \in Nat /\ row'.version = row.version
  BY HeldSession DEF Row
<1>3. r.run.version = ses[t].run.version /\ (Late(ses[t]) => Late(r))
  BY DEF GoesOn
<1>4. Reach(r) <= Reach(ses[t]) /\ Reach(r) \in Nat /\ Reach(ses[t]) \in Nat
  BY <1>2, <1>3 DEF Reach
<1>5. Near(t)' => Near(t)
  BY <1>1, <1>2, <1>4 DEF Near, Reach, Late
<1>6. Current(t)' => Current(t)
  BY <1>1, <1>2, <1>4 DEF Current, Reach, Late
<1>. QED  BY <1>1, <1>2, <1>3, <1>5, <1>6 DEF Fenced, GoesOn

LEMMA PersistsAreFenced ==
  ASSUME SessionInv, NEW t \in Thread, Iterating(t), ses[t].run.version <= row.version,
         Inside(ses[t]), PersistRow(t) \/ PersistState(t)
  PROVE  Fenced(t)
<1>. DEFINE s == ses[t]
            b == Bumped(s)
<1>1. /\ s \in Session /\ s \in Returning /\ row.version \in Nat /\ s.run.version \in Nat
      /\ ses \in [Thread -> Session]
  BY HeldSession DEF Row, SessionInv, SessionTypeOK
<1>2. CASE PersistState(t)
  <2>. DEFINE back == [s EXCEPT !.pc = s.next, !.next = "idle", !.expected = 0]
  <2>1. row' = row /\ (Become(t, back) \/ Become(t, Raised(s)))
    BY <1>2 DEF PersistState
  <2>2. s.pc = "persistState"
    BY <1>2 DEF PersistState, At
  <2>3. GoesOn(s, back)
    BY <1>1, <2>2 DEF GoesOn, Late, Inside, Within, Session
  <2>4. GoesOn(s, Raised(s))
    BY <1>1, <2>2, ContinuationsGoOn
  <2>5. \E r : Become(t, r) /\ GoesOn(s, r)
    BY <2>1, <2>3, <2>4
  <2>. QED  BY <2>1, <2>5, GoingOnIsFenced
<1>3. CASE PersistRow(t)
  <2>0. s.pc = "persistRow"
    BY <1>3 DEF PersistRow, At
  <2>1. /\ b \in Session /\ b.run.version = s.run.version + 1 /\ b.run.claim = s.run.claim
        /\ b.pc = "persistRow"
    <3>1. b \in Returning /\ b.pc = s.pc /\ b.run.version = s.run.version + 1
      BY <1>1, BumpedIsReturning
    <3>2. b.run.claim = s.run.claim
      BY <1>1, StatusesAreStates, ChangesKeepClaim
    <3>. QED  BY <2>0, <3>1, <3>2 DEF Returning
  <2>2. b.contained = s.contained /\ b.next = s.next
    BY <1>1 DEF Bumped, Session
  <2>3. Late(s) <=> s.contained
    BY <2>1, <1>3 DEF Late, PersistRow, At
  <2>4. \/ Accepts(s.run.version) /\ row' = b.run /\ Become(t, Goto(b, "persistState"))
        \/ ~Accepts(s.run.version) /\ row' = row /\ Become(t, Raised(b))
    BY <1>3 DEF PersistRow, WriteRow
  <2>. HIDE DEF b
  <2>5. ASSUME Accepts(s.run.version), row' = b.run, NEW r, r = Goto(b, "persistState"), Become(t, r)
        PROVE  Fenced(t)
    <3>1. ses'[t] = r /\ \A u \in Thread \ {t} : ses'[u] = ses[u]
      BY <1>1, <2>5 DEF Become
    <3>2. /\ r.run = b.run /\ r.contained = s.contained /\ r.pc = "persistState" /\ r.next = s.next
      BY <2>1, <2>2, <2>5 DEF Goto, Session
    <3>3. Inside(r)
      BY <1>3, <3>2 DEF Inside, Within, Phase, Readying, PersistRow, At
    <3>4. row.version = s.run.version /\ row'.version = row.version + 1
      BY <2>1, <2>5 DEF Accepts
    <3>5. Late(r) <=> Late(s)
      BY <2>3, <3>2 DEF Late
    <3>6. Reach(r) = Reach(s) + 1 /\ Reach(s) \in Nat
      BY <1>1, <2>1, <3>2, <3>5 DEF Reach
    <3>7. (Near(t)' => Near(t)) /\ (Current(t)' => Current(t))
      BY <1>1, <3>1, <3>4, <3>6 DEF Near, Current, Reach, Late
    <3>. QED  BY <1>1, <2>1, <2>5, <3>1, <3>2, <3>3, <3>4, <3>7 DEF Fenced
  <2>6. ASSUME ~Accepts(s.run.version), row' = row, NEW r, r = Raised(b), Become(t, r)
        PROVE  Fenced(t)
    <3>1. ses'[t] = r /\ \A u \in Thread \ {t} : ses'[u] = ses[u]
      BY <1>1, <2>6 DEF Become
    <3>2. GoesOn(b, r)
      BY <2>1, <2>6, ContinuationsGoOn
    <3>3. s.run.version < row.version
      BY <1>1, <2>6 DEF Accepts
    <3>4. CASE s.contained
      <4>1. r.pc = "leave"
        BY <2>1, <2>2, <2>6, <3>4 DEF Raised, Rejecting, Session
      <4>2. ~Iterating(t)'
        BY <3>1, <4>1 DEF Iterating
      <4>. QED  BY <2>6, <3>1, <3>2, <4>2 DEF Fenced, GoesOn, Near, Current
    <3>5. CASE ~s.contained
      <4>1. r.pc = "contain"
        BY <2>1, <2>2, <2>6, <3>5 DEF Raised, Goto, Unwound, Session
      <4>2. r.run.version = s.run.version + 1 /\ r.run.claim = s.run.claim
        BY <2>1, <3>2 DEF GoesOn
      <4>3. Reach(r) = s.run.version + 1 /\ Reach(s) = s.run.version + 1
        BY <2>3, <3>5, <4>1, <4>2 DEF Reach, Late
      <4>4. Near(t)' => Near(t)
        BY <2>6, <3>1, <4>3 DEF Near, Reach, Late
      <4>5. ~(row.version < Reach(r)) /\ r.run.version <= row.version
        BY <1>1, <3>3, <4>2, <4>3
      <4>6. ~Current(t)'
        BY <2>6, <3>1, <4>5 DEF Current, Reach, Late
      <4>. QED  BY <2>6, <3>1, <3>2, <4>2, <4>4, <4>5, <4>6 DEF Fenced, GoesOn
    <3>. QED  BY <3>4, <3>5
  <2>. QED  BY <2>4, <2>5, <2>6
<1>. QED  BY <1>2, <1>3

\* A step of a session inside start, whichever it is.
LEMMA IteratingIsFenced ==
  ASSUME SessionInv, NEW t \in Thread, Iterating(t), ses[t].run.version <= row.version,
         Inside(ses[t]), SessionStep(t)
  PROVE  Fenced(t)
<1>1. ses[t] \in Session
  BY HeldSession
<1>2. CASE Top(t) \/ Look(t) \/ Think(t) \/ DecisionRecovery(t) \/ Act(t) \/ Recorded(t)
           \/ Repair(t) \/ RetryAction(t) \/ StepDone(t) \/ Complete(t) \/ Judge(t) \/ Contain(t)
  BY <1>2, DecisionsGoOn, GoingOnIsFenced
<1>3. CASE Observe(t) \/ Plan(t) \/ Decide(t) \/ DecisionFailed(t)
           \/ Recover(t) \/ Verify(t) \/ Rework(t) \/ Settle(t)
  BY <1>3, AdvancesGoOn, GoingOnIsFenced
<1>4. CASE Setup(t)
  <2>1. ses[t].pc = "setup" /\ row' = row
    BY <1>4 DEF Setup, At, LocalStep
  <2>2. GoesOn(ses[t], [Goto(ses[t], "top") EXCEPT !.state = saved])
    BY <1>1, <2>1 DEF GoesOn, Late, Inside, Within, Phase, Readying, Goto, Session
  <2>3. GoesOn(ses[t], Rejecting(ses[t], "leave"))
    BY <1>1, <2>1, ContinuationsGoOn
  <2>. QED  BY <1>4, <2>1, <2>2, <2>3, GoingOnIsFenced DEF Setup
<1>5. StartStep(t) => Setup(t)
  BY DEF StartStep, Resume, Retry, Requeue, Acquire, Load, WriteInitializing, Leave, At, Iterating
<1>. QED  BY <1>2, <1>3, <1>4, <1>5, PersistsAreFenced DEF SessionStep, LoopStep

\* What a step of thread t before the loop or after it does: the row is read, or
\* written as it was read but for status and version.
Readied(t) ==
  /\ ses[t].pc # "idle"
  /\ \A u \in Thread \ {t} : ses'[u] = ses[u]
  /\ \/ row' = row /\ ses'[t].pc \in {"leave", "left"}
     \/ row' = row /\ ses[t].pc \in Readying /\ ses'[t].pc \in {"acquire", "load"}
     \/ /\ row' = row /\ ses[t].pc \in Readying /\ ses'[t].pc \in {"requeue", "init"}
        /\ ses'[t].run.version = row.version + 1 /\ ses'[t].run.claim = row.claim
     \/ /\ ses[t].pc \in {"requeue", "init"} /\ ses'[t].pc \in {"acquire", "setup"}
        /\ ses[t].run.version = row.version + 1
        /\ row' = ses[t].run /\ ses'[t].run = ses[t].run

LEMMA OthersAreReadied ==
  ASSUME SessionInv, NEW t \in Thread, ~Iterating(t), SessionStep(t)
  PROVE  Readied(t)
<1>. DEFINE s == ses[t]
            begun(pc, status) == [Goto(s, pc) EXCEPT
                                    !.run = [row EXCEPT !.status = status, !.version = @ + 1]]
<1>1. /\ s \in Session /\ row \in Row /\ row.version \in Nat /\ ses \in [Thread -> Session]
      /\ s.run.version \in Nat
  BY HeldSession DEF SessionInv, SessionTypeOK, Row
<1>2. \A pc : /\ Goto(s, pc).run = s.run
              /\ Goto(s, pc).pc = pc /\ Rejecting(s, pc).pc = pc
  BY <1>1, ContinuationsKeepRun DEF Goto, Rejecting, Session
<1>3. \A pc, status : /\ begun(pc, status).run.claim = row.claim
                      /\ begun(pc, status).run.version = row.version + 1
                      /\ begun(pc, status).pc = pc
  BY <1>1 DEF Goto, Session, Row
<1>4. ASSUME NEW r, Become(t, r) PROVE ses'[t] = r /\ \A u \in Thread \ {t} : ses'[u] = ses[u]
  BY <1>1, <1>4 DEF Become
<1>5. CASE Resume(t) \/ Retry(t)
  <2>1. \/ Become(t, Rejecting(s, "left")) \/ Become(t, Goto(s, "acquire"))
        \/ Become(t, begun("requeue", "QUEUED"))
    <3>1. CASE Resume(t)
      BY <3>1, Zenon DEF Resume
    <3>2. CASE Retry(t)
      BY <3>2, Zenon DEF Retry
    <3>. QED  BY <1>5, <3>1, <3>2
  <2>2. row' = row /\ s.pc \in Readying /\ s.pc # "idle"
    BY <1>5 DEF Resume, Retry, At, LocalStep, Readying
  <2>. HIDE DEF begun
  <2>. QED  BY <1>2, <1>3, <1>4, <2>1, <2>2 DEF Readied
<1>6. CASE Requeue(t) \/ WriteInitializing(t)
  <2>1. s.pc \in {"requeue", "init"}
    BY <1>6 DEF At, Requeue, WriteInitializing
  <2>2. \/ /\ Accepts(s.run.version - 1) /\ row' = s.run
           /\ Become(t, Goto(s, "acquire")) \/ Become(t, Goto(s, "setup"))
        \/ row' = row /\ (Become(t, Rejecting(s, "left")) \/ Become(t, Rejecting(s, "leave")))
    BY <1>6 DEF Requeue, WriteInitializing, WriteRow
  <2>3. Accepts(s.run.version - 1) => s.run.version = row.version + 1
    BY <1>1 DEF Accepts
  <2>. QED  BY <1>2, <1>4, <2>1, <2>2, <2>3 DEF Readied
<1>7. CASE Acquire(t)
  <2>1. Become(t, Goto(s, "load")) \/ Become(t, Rejecting(s, "left"))
    BY <1>7 DEF Acquire
  <2>2. row' = row /\ s.pc \in Readying /\ s.pc # "idle"
    BY <1>7 DEF Acquire, At, Readying
  <2>. QED  BY <1>2, <1>4, <2>1, <2>2 DEF Readied
<1>8. CASE Load(t)
  <2>1. \/ Become(t, Goto(s, "leave")) \/ Become(t, Rejecting(s, "leave"))
        \/ Become(t, begun("init", "INITIALIZING"))
    BY <1>8, Zenon DEF Load
  <2>2. row' = row /\ s.pc \in Readying /\ s.pc # "idle"
    BY <1>8 DEF Load, At, Readying
  <2>. HIDE DEF begun
  <2>. QED  BY <1>2, <1>3, <1>4, <2>1, <2>2 DEF Readied
<1>9. CASE Leave(t)
  <2>. DEFINE gone == [IdleSession EXCEPT !.pc = "left", !.rejected = s.rejected]
  <2>1. gone.pc = "left" /\ row' = row /\ Become(t, gone) /\ s.pc # "idle"
    BY <1>9 DEF Leave, IdleSession, At
  <2>. QED  BY <1>4, <2>1 DEF Readied
<1>10. ~LoopStep(t)
  BY DEF LoopStep, Top, Look, Observe, Plan, Decide, Think, DecisionFailed, DecisionRecovery, Act,
         Recorded, Recover, Repair, RetryAction, StepDone, Complete, Verify, Judge, Rework,
         At, Iterating
<1>11. ~(PersistRow(t) \/ PersistState(t) \/ Settle(t) \/ Contain(t) \/ Setup(t))
  BY DEF PersistRow, PersistState, Settle, Contain, Setup, At, Iterating
<1>. QED  BY <1>5, <1>6, <1>7, <1>8, <1>9, <1>10, <1>11 DEF SessionStep, StartStep
=============================================================================
