---------------------------- MODULE ActionProofs ----------------------------
(***************************************************************************)
(* What holds of any number of sessions, actions, operators and starts:    *)
(* the types; the unique index that lets a key take effect once; the       *)
(* approval without which a gated action takes no effect; that what the    *)
(* journal has as settled is not done again; and that a decision is asked  *)
(* for once.                                                               *)
(***************************************************************************)
EXTENDS ActionExecution, SequenceTheorems, FiniteSetTheorems, TLAPS

\* A batch is made for a position that exists, its items included when it has
\* been abandoned; a session has not retried more often than it has recovered.
Fits(x, row) ==
  /\ x.pc \in {"act", "mend", "retry"} => x.at < MaxCalls
  /\ \A a \in Action : row[a].pc # "none" => x.at < MaxCalls
  /\ x.attempts <= x.tries

\* The run's row.
RowOK ==
  /\ status \in {"active", "waiting", "failed", "over"}
  /\ position \in 0..MaxCalls
  /\ owner \in Session \cup {None}
  /\ starts \in Nat

\* What is remembered beside it.
MemoryOK ==
  /\ log \in [Key -> Seq(JournalStatus)]
  /\ approvals \in [Action -> Seq(ApprovalStatus)]
  /\ effects \in [Key -> Nat]
  /\ granted \subseteq Action

PlacesOK ==
  /\ ses \in [Session -> SessionState]
  /\ work \in [Session -> [Action -> Item]]
  /\ \A s \in Session : Fits(ses[s], work[s])

TypeInv ==
  setup \in Setups /\ RowOK /\ MemoryOK /\ PlacesOK /\ desk \in [Operator -> Desk]

-----------------------------------------------------------------------------
(* Values                                                                   *)

LEMMA Bounds == MaxCalls \in Nat /\ MaxCalls >= 1 /\ MaxAttempts \in Nat /\ MaxAttempts >= 1
BY ActionAssumption

LEMMA RestingValues ==
  /\ Off \in SessionState /\ Off.pc = "off" /\ Off.attempts = 0 /\ Off.tries = 0
  /\ NoItem \in Item /\ NoItem.pc = "none"
  /\ NoWork \in [Action -> Item] /\ \A a \in Action : NoWork[a].pc = "none"
  /\ FreeDesk \in Desk
BY Bounds DEF Off, SessionState, NoItem, Item, NoWork, FreeDesk, Desk

LEMMA SessionFields ==
  ASSUME NEW x \in SessionState
  PROVE  /\ x.pc \in {"off", "ask", "act", "mend", "retry"}
         /\ x.at \in Nat /\ x.at <= MaxCalls
         /\ x.attempts \in 0..(MaxAttempts - 1) /\ x.made \in 0..(MaxAttempts - 1)
         /\ x.tries \in Nat /\ x.pending \subseteq Key
BY Bounds DEF SessionState

\* What changing one field of a session changes.
LEMMA WithPc ==
  ASSUME NEW x \in SessionState, NEW v \in {"off", "ask", "act", "mend", "retry"}, NEW y, y = [x EXCEPT !.pc = v]
  PROVE  /\ y \in SessionState /\ y.pc = v
         /\ y.at = x.at /\ y.attempts = x.attempts /\ y.made = x.made /\ y.tries = x.tries /\ y.pending = x.pending
BY DEF SessionState

LEMMA WithAt ==
  ASSUME NEW x \in SessionState, NEW v \in 0..MaxCalls, NEW y, y = [x EXCEPT !.at = v]
  PROVE  /\ y \in SessionState /\ y.at = v
         /\ y.pc = x.pc /\ y.attempts = x.attempts /\ y.made = x.made /\ y.tries = x.tries /\ y.pending = x.pending
BY DEF SessionState

LEMMA WithAttempts ==
  ASSUME NEW x \in SessionState, NEW v \in 0..(MaxAttempts - 1), NEW y, y = [x EXCEPT !.attempts = v]
  PROVE  /\ y \in SessionState /\ y.attempts = v
         /\ y.pc = x.pc /\ y.at = x.at /\ y.made = x.made /\ y.tries = x.tries /\ y.pending = x.pending
BY DEF SessionState

LEMMA WithMade ==
  ASSUME NEW x \in SessionState, NEW v \in 0..(MaxAttempts - 1), NEW y, y = [x EXCEPT !.made = v]
  PROVE  /\ y \in SessionState /\ y.made = v
         /\ y.pc = x.pc /\ y.at = x.at /\ y.attempts = x.attempts /\ y.tries = x.tries /\ y.pending = x.pending
BY DEF SessionState

LEMMA WithTries ==
  ASSUME NEW x \in SessionState, NEW v \in Nat, NEW y, y = [x EXCEPT !.tries = v]
  PROVE  /\ y \in SessionState /\ y.tries = v
         /\ y.pc = x.pc /\ y.at = x.at /\ y.attempts = x.attempts /\ y.made = x.made /\ y.pending = x.pending
BY DEF SessionState

LEMMA WithPending ==
  ASSUME NEW x \in SessionState, NEW v \in SUBSET Key, NEW y, y = [x EXCEPT !.pending = v]
  PROVE  /\ y \in SessionState /\ y.pending = v
         /\ y.pc = x.pc /\ y.at = x.at /\ y.attempts = x.attempts /\ y.made = x.made /\ y.tries = x.tries
BY DEF SessionState

LEMMA ItemUpdates ==
  ASSUME NEW x \in Item, NEW pc \in {"none"} \cup Working \cup Outcome
  PROVE  [x EXCEPT !.pc = pc] \in Item /\ [x EXCEPT !.pc = pc].pc = pc
         /\ [x EXCEPT !.pc = pc].approval = x.approval
BY DEF Item

LEMMA KeyIsKey ==
  ASSUME TypeInv, NEW s \in Session, NEW a \in Action, work[s][a].pc # "none"
  PROVE  KeyOf(s, a) \in Key
<1>1. ses[s] \in SessionState /\ ses[s].at < MaxCalls
  BY DEF TypeInv, RowOK, MemoryOK, PlacesOK, Fits
<1>. QED  BY <1>1, SessionFields, Bounds DEF KeyOf, Key

-----------------------------------------------------------------------------
(* The types are kept                                                       *)

\* One item moves on, and its session stays where it is.
LEMMA ItemKeepsPlaces ==
  ASSUME TypeInv, NEW s \in Session, NEW a \in Action, NEW item \in Item,
         work[s][a].pc # "none", SetItem(s, a, item), UNCHANGED ses
  PROVE  /\ ses' \in [Session -> SessionState] /\ work' \in [Session -> [Action -> Item]]
         /\ \A u \in Session : Fits(ses[u], work[u])'
<1>1. /\ ses \in [Session -> SessionState] /\ work \in [Session -> [Action -> Item]]
      /\ \A u \in Session : Fits(ses[u], work[u])
  BY DEF TypeInv, RowOK, MemoryOK, PlacesOK
<1>2. work' = [work EXCEPT ![s] = [work[s] EXCEPT ![a] = item]]
  BY <1>1 DEF SetItem
<1>3. [work[s] EXCEPT ![a] = item] \in [Action -> Item]
  BY <1>1
<1>4. work' \in [Session -> [Action -> Item]]
  BY <1>1, <1>2, <1>3
<1>5. ASSUME NEW u \in Session PROVE Fits(ses'[u], work'[u])
  <2>1. CASE u = s
    BY <1>1, <1>2, <2>1 DEF Fits
  <2>2. CASE u # s
    BY <1>1, <1>2, <2>2
  <2>. QED  BY <2>1, <2>2
<1>. QED  BY <1>1, <1>4, <1>5

\* A session moves on, and its items with it.
LEMMA SessionKeepsPlaces ==
  ASSUME TypeInv, NEW s \in Session, NEW x \in SessionState, NEW items \in [Action -> Item],
         Fits(x, items), ses' = [ses EXCEPT ![s] = x], work' = [work EXCEPT ![s] = items]
  PROVE  /\ ses' \in [Session -> SessionState] /\ work' \in [Session -> [Action -> Item]]
         /\ \A u \in Session : Fits(ses[u], work[u])'
<1>1. /\ ses \in [Session -> SessionState] /\ work \in [Session -> [Action -> Item]]
      /\ \A u \in Session : Fits(ses[u], work[u])
  BY DEF TypeInv, RowOK, MemoryOK, PlacesOK
<1>2. ASSUME NEW u \in Session PROVE Fits(ses'[u], work'[u])
  <2>1. CASE u = s
    BY <1>1, <2>1
  <2>2. CASE u # s
    BY <1>1, <2>2
  <2>. QED  BY <2>1, <2>2
<1>. QED  BY <1>1, <1>2

LEMMA StandingPlaces ==
  ASSUME TypeInv, UNCHANGED <<ses, work>>
  PROVE  /\ ses' \in [Session -> SessionState] /\ work' \in [Session -> [Action -> Item]]
         /\ \A u \in Session : Fits(ses[u], work[u])'
BY DEF TypeInv, RowOK, MemoryOK, PlacesOK

LEMMA WriteTyped ==
  ASSUME TypeInv, NEW k \in Key, NEW entry \in JournalStatus, Write(k, entry)
  PROVE  log' \in [Key -> Seq(JournalStatus)]
<1>1. log \in [Key -> Seq(JournalStatus)] /\ log[k] \in Seq(JournalStatus)
  BY DEF TypeInv, RowOK, MemoryOK, PlacesOK
<1>2. Append(log[k], entry) \in Seq(JournalStatus) /\ <<entry>> \in Seq(JournalStatus)
  BY <1>1
<1>. QED  BY <1>1, <1>2 DEF Write

\* Reporting an outcome.
LEMMA ReportTyped ==
  ASSUME TypeInv, NEW s \in Session, NEW a \in Action, NEW outcome \in Outcome,
         work[s][a].pc # "none", Report(s, a, outcome), UNCHANGED ses
  PROVE  PlacesOK'
<1>1. work[s][a] \in Item
  BY DEF TypeInv, RowOK, MemoryOK, PlacesOK
<1>2. (IF At(s, "off") THEN NoItem ELSE [work[s][a] EXCEPT !.pc = outcome]) \in Item
  BY <1>1, ItemUpdates, RestingValues
<1>. QED  BY <1>2, ItemKeepsPlaces DEF Report, PlacesOK

LEMMA ContinueTyped ==
  ASSUME TypeInv, NEW s \in Session, NEW a \in Action, NEW pc \in Working,
         work[s][a].pc # "none", Continue(s, a, pc), UNCHANGED ses
  PROVE  PlacesOK'
<1>1. [work[s][a] EXCEPT !.pc = pc] \in Item
  BY ItemUpdates DEF TypeInv, RowOK, MemoryOK, PlacesOK
<1>. QED  BY <1>1, ItemKeepsPlaces DEF Continue, PlacesOK

LEMMA EscapeTyped ==
  ASSUME TypeInv, NEW s \in Session, NEW a \in Action, Doing(s, a, "ready"), Escape(s, a)
  PROVE  RowOK' /\ PlacesOK'
<1>1. /\ ses[s] \in SessionState /\ work[s] \in [Action -> Item] /\ work[s][a].pc = "ready"
      /\ ses[s].at < MaxCalls /\ RowOK
  BY DEF TypeInv, RowOK, MemoryOK, PlacesOK, Fits, Doing
<1>2. CASE Report(s, a, "denied") /\ UNCHANGED <<runVars, ses>>
  <2>1. PlacesOK'
    BY <1>1, <1>2, ReportTyped DEF Outcome
  <2>. QED  BY <1>1, <1>2, <2>1 DEF RowOK, runVars
<1>3. CASE work[s][a].approval = 0
  <2>. DEFINE rest == [b \in Action |-> IF b # a /\ work[s][b].pc \in Working THEN work[s][b] ELSE NoItem]
              y == [Off EXCEPT !.at = ses[s].at]
              x == [y EXCEPT !.made = ses[s].made]
  <2>1. rest \in [Action -> Item]
    BY <1>1, RestingValues
  <2>2. x \in SessionState /\ x.pc = "off" /\ x.at = ses[s].at /\ x.attempts = 0 /\ x.tries = 0
    <3>1. /\ ses[s].at \in 0..MaxCalls /\ ses[s].made \in 0..(MaxAttempts - 1)
      BY <1>1, SessionFields
    <3>2. y \in SessionState /\ y.pc = "off" /\ y.at = ses[s].at /\ y.attempts = 0 /\ y.tries = 0
      BY <3>1, RestingValues, WithAt
    <3>. HIDE DEF y
    <3>. QED  BY <3>1, <3>2, WithMade
  <2>3. ses' = [ses EXCEPT ![s] = x]
    BY <1>1, <1>3 DEF Escape, Report, Off
  <2>4. work' = [work EXCEPT ![s] = rest]
    BY <1>1, <1>3 DEF Escape, TypeInv, RowOK, MemoryOK, PlacesOK
  <2>5. Fits(x, rest)
    BY <1>1, <2>1, <2>2 DEF Fits
  <2>. HIDE DEF x, rest
  <2>6. PlacesOK'
    BY <2>1, <2>2, <2>3, <2>4, <2>5, SessionKeepsPlaces DEF PlacesOK
  <2>7. RowOK'
    BY <1>1, <1>3, SessionFields, Bounds DEF Escape, RowOK, runVars
  <2>. QED  BY <2>6, <2>7
<1>. QED  BY <1>2, <1>3 DEF Escape

LEMMA ExecutorTyped ==
  ASSUME TypeInv, NEW s \in Session, NEW a \in Action, ExecutorStep(s, a)
  PROVE  TypeInv'
<1>1. /\ setup \in Setups /\ RowOK /\ MemoryOK /\ PlacesOK /\ desk \in [Operator -> Desk]
      /\ work[s][a] \in Item
  BY DEF TypeInv, RowOK, MemoryOK, PlacesOK
<1>2. ASSUME ExecutorOnly PROVE setup' \in Setups /\ RowOK' /\ desk' \in [Operator -> Desk] /\ UNCHANGED ses
  BY <1>1, <1>2 DEF ExecutorOnly, RowOK, runVars
<1>3. CASE Lookup(s, a)
  <2>1. MemoryOK' /\ ExecutorOnly
    BY <1>1, <1>3 DEF Lookup, MemoryOK
  <2>2. work[s][a].pc # "none"
    BY <1>3 DEF Lookup, Doing
  <2>3. CASE Report(s, a, "denied") \/ Report(s, a, "succeeded") \/ Report(s, a, "failed")
    BY <1>2, <2>1, <2>2, <2>3, ReportTyped DEF TypeInv, Outcome
  <2>4. CASE Continue(s, a, "ready") \/ Continue(s, a, "gate")
    BY <1>2, <2>1, <2>2, <2>4, ContinueTyped DEF TypeInv, Working
  <2>. QED  BY <1>3, <2>3, <2>4 DEF Lookup, Settled
<1>4. CASE Gate(s, a)
  <2>1. MemoryOK' /\ ExecutorOnly
    BY <1>1, <1>4 DEF Gate, MemoryOK
  <2>2. work[s][a].pc # "none"
    BY <1>4 DEF Gate, Doing
  <2>3. CASE Continue(s, a, "request")
    BY <1>2, <2>1, <2>2, <2>3, ContinueTyped DEF TypeInv, Working
  <2>4. CASE Report(s, a, "awaiting_approval")
    BY <1>2, <2>1, <2>2, <2>4, ReportTyped DEF TypeInv, Outcome
  <2>5. ASSUME NEW i \in Standing(a), SetItem(s, a, [pc |-> "resolve", approval |-> i])
        PROVE  TypeInv'
    <3>1. i \in Nat
      BY <1>1 DEF Standing, MemoryOK
    <3>2. [pc |-> "resolve", approval |-> i] \in Item
      BY <3>1 DEF Item, Working
    <3>3. PlacesOK'
      BY <1>2, <2>1, <2>2, <2>5, <3>2, ItemKeepsPlaces DEF PlacesOK
    <3>. QED  BY <1>2, <2>1, <3>3 DEF TypeInv
  <2>. QED  BY <1>4, <2>3, <2>4, <2>5 DEF Gate, IsLatest
<1>5. CASE Request(s, a)
  <2>1. approvals' \in [Action -> Seq(ApprovalStatus)]
    <3>1. approvals[a] \in Seq(ApprovalStatus) /\ "pending" \in ApprovalStatus
      BY <1>1 DEF MemoryOK, ApprovalStatus
    <3>2. Append(approvals[a], "pending") \in Seq(ApprovalStatus)
      BY <3>1
    <3>. QED  BY <1>1, <1>5, <3>2 DEF Request, MemoryOK
  <2>2. MemoryOK' /\ ExecutorOnly
    BY <1>1, <1>5, <2>1 DEF Request, MemoryOK
  <2>. QED  BY <1>2, <1>5, <2>2, ReportTyped DEF TypeInv, Request, Doing, Outcome
<1>6. CASE Resolve(s, a)
  <2>1. MemoryOK' /\ ExecutorOnly
    BY <1>1, <1>6 DEF Resolve, MemoryOK
  <2>. QED  BY <1>2, <1>6, <2>1, ReportTyped, ContinueTyped DEF TypeInv, Resolve, Doing, Outcome, Working
<1>7. CASE RefuseInput(s, a)
  <2>1. work[s][a].pc = "ready" /\ KeyOf(s, a) \in Key
    BY <1>7, KeyIsKey DEF RefuseInput, Doing
  <2>2. setup' \in Setups /\ desk' \in [Operator -> Desk] /\ UNCHANGED <<approvals, effects, granted>>
    BY <1>1, <1>7 DEF RefuseInput
  <2>3. CASE Write(KeyOf(s, a), "failed") /\ Report(s, a, "failed") /\ UNCHANGED <<runVars, ses>>
    <3>1. MemoryOK'
      BY <1>1, <2>1, <2>2, <2>3, WriteTyped DEF MemoryOK, JournalStatus
    <3>2. PlacesOK' /\ RowOK'
      BY <1>1, <2>1, <2>3, ReportTyped DEF Outcome, RowOK, runVars
    <3>. QED  BY <2>2, <3>1, <3>2 DEF TypeInv
  <2>4. CASE Escape(s, a) /\ UNCHANGED log
    <3>1. MemoryOK'
      BY <1>1, <2>2, <2>4 DEF MemoryOK
    <3>. QED  BY <2>1, <2>2, <2>4, <3>1, EscapeTyped DEF TypeInv, Doing
  <2>. QED  BY <1>7, <2>3, <2>4 DEF RefuseInput
<1>8. CASE Intend(s, a)
  <2>1. work[s][a].pc = "ready" /\ KeyOf(s, a) \in Key
    BY <1>8, KeyIsKey DEF Intend, Doing
  <2>2. setup' \in Setups /\ desk' \in [Operator -> Desk] /\ UNCHANGED <<approvals, effects, granted>>
    BY <1>1, <1>8 DEF Intend
  <2>3. CASE Write(KeyOf(s, a), "executing") /\ Continue(s, a, "run") /\ UNCHANGED <<runVars, ses>>
    <3>1. MemoryOK'
      BY <1>1, <2>1, <2>2, <2>3, WriteTyped DEF MemoryOK, JournalStatus
    <3>2. PlacesOK' /\ RowOK'
      BY <1>1, <2>1, <2>3, ContinueTyped DEF Working, RowOK, runVars
    <3>. QED  BY <2>2, <3>1, <3>2 DEF TypeInv
  <2>4. CASE Escape(s, a) /\ UNCHANGED log
    <3>1. MemoryOK'
      BY <1>1, <2>2, <2>4 DEF MemoryOK
    <3>. QED  BY <2>1, <2>2, <2>4, <3>1, EscapeTyped DEF TypeInv, Doing
  <2>. QED  BY <1>8, <2>3, <2>4 DEF Intend
<1>9. CASE Run(s, a)
  <2>1. work[s][a].pc = "run" /\ KeyOf(s, a) \in Key
    BY <1>9, KeyIsKey DEF Run, Doing
  <2>2. MemoryOK' /\ ExecutorOnly
    <3>1. ExecutorOnly /\ UNCHANGED <<log, approvals, granted>>
      BY <1>9 DEF Run
    <3>2. effects' = [effects EXCEPT ![KeyOf(s, a)] = @ + 1] \/ UNCHANGED effects
      BY <1>9 DEF Run
    <3>3. effects[KeyOf(s, a)] + 1 \in Nat
      BY <1>1, <2>1 DEF MemoryOK
    <3>4. effects' \in [Key -> Nat]
      BY <1>1, <3>2, <3>3 DEF MemoryOK
    <3>. QED  BY <1>1, <3>1, <3>4 DEF MemoryOK
  <2>3. \E end \in {"landed", "broke"} : Continue(s, a, end)
    BY <1>9 DEF Run
  <2>. QED  BY <1>2, <2>1, <2>2, <2>3, ContinueTyped DEF TypeInv, Working
<1>10. CASE Commit(s, a)
  <2>1. work[s][a].pc # "none" /\ KeyOf(s, a) \in Key
    BY <1>10, KeyIsKey DEF Commit
  <2>2. \E end \in {"succeeded", "failed"} : Write(KeyOf(s, a), end) /\ Report(s, a, end)
    BY <1>10 DEF Commit
  <2>3. MemoryOK' /\ ExecutorOnly
    BY <1>1, <1>10, <2>1, <2>2, WriteTyped DEF Commit, MemoryOK, JournalStatus
  <2>. QED  BY <1>2, <2>1, <2>2, <2>3, ReportTyped DEF TypeInv, Outcome
<1>. QED  BY <1>3, <1>4, <1>5, <1>6, <1>7, <1>8, <1>9, <1>10 DEF ExecutorStep

\* Leaving the run.
LEMMA LeaveTyped ==
  ASSUME TypeInv, NEW s \in Session, NEW end \in {"active", "waiting", "failed", "over"},
         ses[s].pc \in {"ask", "act", "mend", "retry"}, Leave(s, end)
  PROVE  RowOK' /\ PlacesOK'
<1>1. ses[s] \in SessionState /\ Fits(ses[s], work[s]) /\ RowOK
  BY DEF TypeInv, PlacesOK
<1>2. Off \in SessionState /\ NoWork \in [Action -> Item] /\ Fits(Off, NoWork)
  BY RestingValues DEF Fits
<1>3. PlacesOK'
  BY <1>2, SessionKeepsPlaces DEF Leave, SetSession, DropWork, PlacesOK
<1>4. ses[s].at \in 0..MaxCalls /\ (ses[s].pc # "ask" => ses[s].at + 1 \in 0..MaxCalls)
  BY <1>1, SessionFields, Bounds DEF Fits
<1>5. RowOK'
  BY <1>1, <1>4 DEF Leave, RowOK, runVars, At
<1>. QED  BY <1>3, <1>5

LEMMA SessionTyped ==
  ASSUME TypeInv, NEW s \in Session, SessionStep(s)
  PROVE  TypeInv'
<1>1. /\ setup \in Setups /\ RowOK /\ MemoryOK /\ PlacesOK /\ desk \in [Operator -> Desk]
      /\ ses[s] \in SessionState /\ work[s] \in [Action -> Item] /\ Fits(ses[s], work[s])
  BY DEF TypeInv, PlacesOK
<1>2. SessionOnly
  BY DEF SessionStep, Begin, Ask, Finish, Record, Abandon, GoOn, GiveUp, Retried, Retry
<1>3. setup' \in Setups /\ MemoryOK' /\ desk' \in [Operator -> Desk]
  BY <1>1, <1>2 DEF SessionOnly, MemoryOK
<1>4. ASSUME RowOK', PlacesOK' PROVE TypeInv'
  BY <1>3, <1>4 DEF TypeInv
<1>5. NoWork \in [Action -> Item] /\ \A a \in Action : NoWork[a].pc = "none"
  BY RestingValues
<1>6. ASSUME NEW x \in SessionState, NEW items \in [Action -> Item], Fits(x, items), SetSession(s, x),
             work' = [work EXCEPT ![s] = items] \/ (UNCHANGED work /\ items = work[s])
      PROVE  PlacesOK'
  <2>1. work' = [work EXCEPT ![s] = items]
    BY <1>1, <1>6 DEF PlacesOK
  <2>. QED  BY <1>6, <2>1, SessionKeepsPlaces DEF SetSession, PlacesOK
<1>7. CASE Begin(s)
  <2>. DEFINE y == [Off EXCEPT !.pc = "ask"]
              x == [y EXCEPT !.at = position]
  <2>1. position \in 0..MaxCalls
    BY <1>1 DEF RowOK
  <2>2. y \in SessionState /\ y.pc = "ask" /\ y.attempts = 0 /\ y.tries = 0
    BY RestingValues, WithPc
  <2>. HIDE DEF y
  <2>3. x \in SessionState /\ x.pc = "ask" /\ x.attempts = 0 /\ x.tries = 0
    BY <2>1, <2>2, WithAt
  <2>4. SetSession(s, x)
    BY <1>7 DEF Begin, SetSession, Off, y
  <2>5. work[s] = NoWork /\ UNCHANGED work
    BY <1>7 DEF Begin
  <2>6. Fits(x, NoWork)
    BY <1>5, <2>3 DEF Fits
  <2>. HIDE DEF x
  <2>7. PlacesOK'
    BY <1>5, <1>6, <2>3, <2>4, <2>5, <2>6
  <2>8. RowOK'
    BY <1>1, <1>7 DEF Begin, RowOK
  <2>. QED  BY <1>4, <2>7, <2>8
<1>8. CASE Ask(s)
  <2>1. PICK batch \in SUBSET Action :
          work' = [work EXCEPT ![s] =
                    [a \in Action |-> IF a \in batch THEN [NoItem EXCEPT !.pc = "lookup"] ELSE NoItem]]
    BY <1>8 DEF Ask
  <2>. DEFINE items == [a \in Action |-> IF a \in batch THEN [NoItem EXCEPT !.pc = "lookup"] ELSE NoItem]
              y == [ses[s] EXCEPT !.pc = "act"]
              z == [y EXCEPT !.made = ses[s].attempts]
              x == [z EXCEPT !.pending = Uncommitted]
  <2>2. items \in [Action -> Item]
    BY RestingValues, ItemUpdates DEF Working
  <2>3. y \in SessionState /\ y.at = ses[s].at /\ y.attempts = ses[s].attempts /\ y.tries = ses[s].tries
    BY <1>1, WithPc
  <2>4. ses[s].attempts \in 0..(MaxAttempts - 1) /\ Uncommitted \in SUBSET Key
    BY <1>1, SessionFields DEF Uncommitted
  <2>. HIDE DEF y
  <2>5. z \in SessionState /\ z.at = ses[s].at /\ z.attempts = ses[s].attempts /\ z.tries = ses[s].tries
    BY <2>3, <2>4, WithMade
  <2>. HIDE DEF z
  <2>6. x \in SessionState /\ x.at = ses[s].at /\ x.attempts = ses[s].attempts /\ x.tries = ses[s].tries
    BY <2>4, <2>5, WithPending
  <2>7. SetSession(s, x)
    BY <1>1, <1>8 DEF Ask, SetSession, SessionState, y, z
  <2>8. ses[s].at < MaxCalls
    BY <1>8 DEF Ask
  <2>. HIDE DEF x, items
  <2>9. Fits(x, items)
    BY <1>1, <2>6, <2>8 DEF Fits
  <2>10. PlacesOK'
    BY <1>6, <2>1, <2>2, <2>6, <2>7, <2>9 DEF items
  <2>11. RowOK'
    BY <1>1, <1>8 DEF Ask, RowOK, runVars
  <2>. QED  BY <1>4, <2>10, <2>11
<1>9. CASE Finish(s)
  BY <1>4, <1>9, LeaveTyped DEF Finish, At
<1>10. ASSUME ses[s].pc \in {"act", "mend", "retry"},
              SetSession(s, [ses[s] EXCEPT !.pc = "ask", !.at = @ + 1]), DropWork(s)
       PROVE  PlacesOK' /\ ses[s].at + 1 \in 0..MaxCalls
  <2>. DEFINE y == [ses[s] EXCEPT !.pc = "ask"]
              x == [y EXCEPT !.at = ses[s].at + 1]
  <2>1. ses[s].at + 1 \in 0..MaxCalls
    BY <1>1, <1>10, SessionFields, Bounds DEF Fits
  <2>2. y \in SessionState /\ y.pc = "ask" /\ y.attempts = ses[s].attempts /\ y.tries = ses[s].tries
    BY <1>1, WithPc
  <2>. HIDE DEF y
  <2>3. x \in SessionState /\ x.pc = "ask" /\ x.attempts = ses[s].attempts /\ x.tries = ses[s].tries
    BY <2>1, <2>2, WithAt
  <2>4. SetSession(s, x)
    BY <1>1, <1>10 DEF SetSession, SessionState, y
  <2>. HIDE DEF x
  <2>5. Fits(x, NoWork)
    BY <1>1, <1>5, <2>3 DEF Fits
  <2>. QED  BY <1>5, <1>6, <1>10, <2>1, <2>3, <2>4, <2>5 DEF DropWork
<1>11. ASSUME ses[s].pc \in {"act", "mend", "retry"},
              SetSession(s, [ses[s] EXCEPT !.pc = "mend"]), UNCHANGED work
       PROVE  PlacesOK'
  <2>. DEFINE x == [ses[s] EXCEPT !.pc = "mend"]
  <2>1. /\ x \in SessionState /\ x.pc = "mend" /\ x.at = ses[s].at
        /\ x.attempts = ses[s].attempts /\ x.tries = ses[s].tries
    BY <1>1, WithPc
  <2>2. SetSession(s, x)
    BY <1>11
  <2>. HIDE DEF x
  <2>3. Fits(x, work[s])
    BY <1>1, <1>11, <2>1 DEF Fits
  <2>. QED  BY <1>1, <1>6, <1>11, <2>1, <2>2, <2>3
<1>12. CASE Record(s)
  <2>1. ses[s].pc = "act" /\ ses[s].at + 1 \in 0..MaxCalls
    BY <1>1, <1>12, SessionFields, Bounds DEF Record, At, Fits
  <2>2. RowOK'
    BY <1>1, <1>12, <2>1 DEF Record, RowOK
  <2>3. PlacesOK'
    BY <1>10, <1>11, <1>12, <2>1 DEF Record
  <2>. QED  BY <1>4, <2>2, <2>3
<1>13. CASE Abandon(s)
  BY <1>4, <1>13, LeaveTyped DEF Abandon, At
<1>14. CASE GoOn(s)
  <2>. DEFINE y == [ses[s] EXCEPT !.pc = "ask"]
              z == [y EXCEPT !.at = ses[s].at + 1]
              x == [z EXCEPT !.tries = ses[s].tries + 1]
  <2>1. ses[s].at + 1 \in 0..MaxCalls /\ ses[s].tries \in Nat /\ ses[s].attempts \in Nat
    BY <1>1, <1>14, SessionFields, Bounds DEF GoOn, At, Fits
  <2>2. y \in SessionState /\ y.pc = "ask" /\ y.attempts = ses[s].attempts /\ y.tries = ses[s].tries
    BY <1>1, WithPc
  <2>. HIDE DEF y
  <2>3. z \in SessionState /\ z.pc = "ask" /\ z.attempts = ses[s].attempts /\ z.tries = ses[s].tries
    BY <2>1, <2>2, WithAt
  <2>. HIDE DEF z
  <2>4. x \in SessionState /\ x.pc = "ask" /\ x.attempts = ses[s].attempts /\ x.tries = ses[s].tries + 1
    BY <2>1, <2>3, WithTries
  <2>5. SetSession(s, x)
    BY <1>1, <1>14 DEF GoOn, SetSession, SessionState, y, z
  <2>. HIDE DEF x
  <2>6. Fits(x, NoWork)
    BY <1>1, <1>5, <2>1, <2>4 DEF Fits
  <2>7. PlacesOK'
    BY <1>5, <1>6, <1>14, <2>4, <2>5, <2>6 DEF GoOn, DropWork
  <2>8. RowOK'
    BY <1>1, <1>14 DEF GoOn, RowOK, runVars
  <2>. QED  BY <1>4, <2>7, <2>8
<1>15. CASE GiveUp(s)
  BY <1>4, <1>15, LeaveTyped DEF GiveUp, At
<1>16. CASE Retried(s)
  <2>1. ses[s].pc = "retry"
    BY <1>16 DEF Retried, At
  <2>2. UNCHANGED runVars => RowOK'
    BY <1>1 DEF RowOK, runVars
  <2>. QED  BY <1>4, <1>10, <1>11, <1>16, <2>1, <2>2, LeaveTyped DEF Retried
<1>17. ASSUME NEW a \in Action, Retry(s, a) PROVE TypeInv'
  <2>. DEFINE y == [ses[s] EXCEPT !.pc = "retry"]
              z == [y EXCEPT !.tries = ses[s].tries + 1]
              x == [z EXCEPT !.attempts = ses[s].attempts + 1]
              items == [NoWork EXCEPT ![a].pc = "lookup"]
  <2>1. /\ ses[s].attempts + 1 \in 0..(MaxAttempts - 1) /\ ses[s].attempts + 1 <= ses[s].tries + 1
        /\ ses[s].tries + 1 \in Nat
    BY <1>1, <1>17, SessionFields, Bounds DEF Retry, Fits
  <2>2. y \in SessionState /\ y.at = ses[s].at /\ y.attempts = ses[s].attempts /\ y.tries = ses[s].tries
    BY <1>1, WithPc
  <2>. HIDE DEF y
  <2>3. z \in SessionState /\ z.at = ses[s].at /\ z.attempts = ses[s].attempts /\ z.tries = ses[s].tries + 1
    BY <2>1, <2>2, WithTries
  <2>. HIDE DEF z
  <2>4. x \in SessionState /\ x.at = ses[s].at /\ x.attempts = ses[s].attempts + 1 /\ x.tries = ses[s].tries + 1
    BY <2>1, <2>3, WithAttempts
  <2>5. SetSession(s, x)
    BY <1>1, <1>17 DEF Retry, SetSession, SessionState, y, z
  <2>6. items \in [Action -> Item]
    BY <1>5, ItemUpdates DEF Working
  <2>7. ses[s].at < MaxCalls
    BY <1>1, <1>17 DEF Retry, At, Fits
  <2>. HIDE DEF x, items
  <2>8. Fits(x, items)
    BY <2>1, <2>4, <2>7 DEF Fits
  <2>9. PlacesOK'
    BY <1>6, <1>17, <2>4, <2>5, <2>6, <2>8 DEF Retry, items
  <2>10. RowOK'
    BY <1>1, <1>17 DEF Retry, RowOK, runVars
  <2>. QED  BY <1>4, <2>9, <2>10
<1>. QED  BY <1>7, <1>8, <1>9, <1>12, <1>13, <1>14, <1>15, <1>16, <1>17 DEF SessionStep

LEMMA CrashTyped ==
  ASSUME TypeInv, NEW s \in Session, Crash(s)
  PROVE  TypeInv'
<1>1. /\ setup \in Setups /\ RowOK /\ MemoryOK /\ PlacesOK /\ desk \in [Operator -> Desk]
  BY DEF TypeInv
<1>2. setup' \in Setups /\ RowOK' /\ MemoryOK'
  BY <1>1 DEF Crash, RowOK, MemoryOK
<1>3. PICK gone \in SUBSET Session :
        /\ ses' = [u \in Session |-> IF u \in gone THEN Off ELSE ses[u]]
        /\ work' = [u \in Session |-> IF u \in gone THEN NoWork ELSE work[u]]
  BY DEF Crash
<1>4. Fits(Off, NoWork)
  BY RestingValues DEF Fits
<1>5. PlacesOK'
  <2>1. ses' \in [Session -> SessionState] /\ work' \in [Session -> [Action -> Item]]
    BY <1>1, <1>3, RestingValues DEF PlacesOK
  <2>2. ASSUME NEW u \in Session PROVE Fits(ses'[u], work'[u])
    <3>1. CASE u \in gone
      BY <1>3, <1>4, <3>1
    <3>2. CASE u \notin gone
      BY <1>1, <1>3, <3>2 DEF PlacesOK
    <3>. QED  BY <3>1, <3>2
  <2>. QED  BY <2>1, <2>2 DEF PlacesOK
<1>6. desk' \in [Operator -> Desk]
  <2>1. \A o \in Operator : Dropped(desk[o]) \in Desk
    BY <1>1 DEF Dropped, FreeDesk, Desk
  <2>. QED  BY <1>1, <2>1 DEF Crash
<1>. QED  BY <1>2, <1>5, <1>6 DEF TypeInv

LEMMA OperatorTyped ==
  ASSUME TypeInv, NEW o \in Operator, OperatorStep(o)
  PROVE  TypeInv'
<1>1. /\ setup \in Setups /\ RowOK /\ MemoryOK /\ PlacesOK /\ desk \in [Operator -> Desk]
      /\ desk[o] \in Desk
  BY DEF TypeInv
<1>2. DeskOnly
  BY DEF OperatorStep, DecideRead, DecideWrite, CancelRead, CancelApproval, CancelRow
<1>3. setup' \in Setups /\ PlacesOK' /\ UNCHANGED <<position, starts, log, effects>>
  BY <1>1, <1>2 DEF DeskOnly, PlacesOK
<1>4. RowOK'
  BY <1>1, <1>3 DEF OperatorStep, DecideRead, DecideWrite, CancelRead, CancelApproval, CancelRow, RowOK
<1>5. Pending \subseteq Action \X Nat
  BY DEF Pending
<1>6. ASSUME NEW d \in Desk, SetDesk(o, d) PROVE desk' \in [Operator -> Desk]
  BY <1>1, <1>6 DEF SetDesk
<1>7. Dropped(desk[o]) \in Desk
  BY <1>1 DEF Dropped, FreeDesk, Desk
<1>8. desk' \in [Operator -> Desk]
  <2>1. CASE DecideRead(o)
    <3>1. ASSUME NEW r \in Pending PROVE [FreeDesk EXCEPT !.pc = "decide", !.left = {r}] \in Desk
      BY <1>5 DEF FreeDesk, Desk
    <3>. QED  BY <1>6, <2>1, <3>1 DEF DecideRead
  <2>2. CASE DecideWrite(o) \/ CancelRow(o)
    BY <1>6, <1>7, <2>2 DEF DecideWrite, CancelRow
  <2>3. CASE CancelRead(o)
    <3>1. [pc |-> "cancel", left |-> Pending, seen |-> <<starts, owner>>] \in Desk
      BY <1>1, <1>5 DEF Desk, RowOK
    <3>. QED  BY <1>6, <2>3, <3>1 DEF CancelRead
  <2>4. CASE CancelApproval(o)
    <3>1. \A r : [desk[o] EXCEPT !.left = @ \ {r}] \in Desk
      BY <1>1 DEF Desk
    <3>. QED  BY <1>6, <2>4, <3>1 DEF CancelApproval
  <2>. QED  BY <2>1, <2>2, <2>3, <2>4 DEF OperatorStep
<1>9. ASSUME NEW r \in Action \X Nat, NEW decision \in ApprovalStatus, Stamp(r, decision)
      PROVE  approvals' \in [Action -> Seq(ApprovalStatus)]
  <2>1. r[1] \in Action /\ approvals[r[1]] \in Seq(ApprovalStatus)
    BY <1>1 DEF MemoryOK
  <2>2. [approvals[r[1]] EXCEPT ![r[2]] = decision] \in Seq(ApprovalStatus)
    <3>1. approvals[r[1]] \in [1..Len(approvals[r[1]]) -> ApprovalStatus] /\ Len(approvals[r[1]]) \in Nat
      BY <2>1
    <3>2. [approvals[r[1]] EXCEPT ![r[2]] = decision] \in [1..Len(approvals[r[1]]) -> ApprovalStatus]
      BY <3>1
    <3>. QED  BY <3>1, <3>2, SeqDef
  <2>. QED  BY <1>1, <1>9, <2>1, <2>2 DEF Stamp, MemoryOK
<1>10. MemoryOK'
  <2>1. CASE DecideRead(o) \/ CancelRead(o) \/ CancelRow(o)
    BY <1>1, <1>3, <2>1 DEF DecideRead, CancelRead, CancelRow, MemoryOK
  <2>2. \A r \in desk[o].left : r \in Action \X Nat
    BY <1>1 DEF Desk
  <2>3. CASE DecideWrite(o)
    <3>1. PICK r \in desk[o].left :
            \/ Stamp(r, "granted") /\ granted' = granted \cup {r[1]}
            \/ Stamp(r, "denied") /\ UNCHANGED granted
      BY <2>3 DEF DecideWrite
    <3>2. approvals' \in [Action -> Seq(ApprovalStatus)]
      BY <1>9, <2>2, <3>1 DEF ApprovalStatus
    <3>3. r[1] \in Action
      BY <2>2
    <3>. QED  BY <1>1, <1>3, <3>1, <3>2, <3>3 DEF MemoryOK
  <2>4. CASE CancelApproval(o)
    <3>1. PICK r \in desk[o].left : Stamp(r, "cancelled")
      BY <2>4 DEF CancelApproval
    <3>2. approvals' \in [Action -> Seq(ApprovalStatus)] /\ UNCHANGED granted
      BY <1>9, <2>2, <2>4, <3>1 DEF ApprovalStatus, CancelApproval
    <3>. QED  BY <1>1, <1>3, <3>2 DEF MemoryOK
  <2>. QED  BY <2>1, <2>3, <2>4 DEF OperatorStep
<1>. QED  BY <1>3, <1>4, <1>8, <1>10 DEF TypeInv

LEMMA InitTyped == Init => TypeInv
<1>. SUFFICES ASSUME Init PROVE TypeInv
  OBVIOUS
<1>1. MemoryOK
  BY DEF Init, MemoryOK
<1>2. PlacesOK
  BY RestingValues DEF Init, PlacesOK, Fits
<1>. QED  BY <1>1, <1>2, RestingValues, Bounds DEF Init, TypeInv, RowOK

LEMMA StepTyped == TypeInv /\ [Next]_vars => TypeInv'
<1>1. ASSUME TypeInv, UNCHANGED vars PROVE TypeInv'
  BY <1>1 DEF vars, runVars, TypeInv, RowOK, MemoryOK, PlacesOK
<1>. QED  BY <1>1, ExecutorTyped, SessionTyped, CrashTyped, OperatorTyped DEF Next

LEMMA SetupStays == [Next]_vars => UNCHANGED setup
<1>1. ASSUME NEW s \in Session, NEW a \in Action, ExecutorStep(s, a) PROVE UNCHANGED setup
  BY <1>1 DEF ExecutorStep, Lookup, Gate, Request, Resolve, RefuseInput, Intend, Run, Commit, ExecutorOnly
<1>2. ASSUME NEW s \in Session, SessionStep(s) PROVE UNCHANGED setup
  BY <1>2 DEF SessionStep, Begin, Ask, Finish, Record, Abandon, GoOn, GiveUp, Retried, Retry, SessionOnly
<1>3. ASSUME NEW s \in Session, Crash(s) PROVE UNCHANGED setup
  BY <1>3 DEF Crash
<1>4. ASSUME NEW o \in Operator, OperatorStep(o) PROVE UNCHANGED setup
  BY <1>4 DEF OperatorStep, DecideRead, DecideWrite, CancelRead, CancelApproval, CancelRow, DeskOnly
<1>. QED  BY <1>1, <1>2, <1>3, <1>4 DEF Next, vars

\* Every variable has its type, for any number of sessions, actions, operators
\* and starts; the session's counters of retries among them, which only the
\* recovery policy's maxAttempts bounds.
THEOREM TypesHold == Spec => []TypeOK
<1>1. TypeInv => TypeOK
  BY DEF TypeInv, TypeOK, RowOK, MemoryOK, PlacesOK
<1>. QED  BY <1>1, InitTyped, StepTyped, PTL DEF Spec

-----------------------------------------------------------------------------
(* The unique index                                                         *)

\* In a database: an effect follows an accepted intent, one intent is accepted
\* per key, and whoever has it accepted is the only one about to act on it.
Fence ==
  /\ \A k \in Key : effects[k] <= 1 /\ (log[k] = <<>> => effects[k] = 0)
  /\ \A s \in Session, a \in Action :
       Doing(s, a, "run") => log[KeyOf(s, a)] # <<>> /\ effects[KeyOf(s, a)] = 0
  /\ \A s, t \in Session, a \in Action :
       Doing(s, a, "run") /\ Doing(t, a, "run") /\ KeyOf(s, a) = KeyOf(t, a) => s = t

FenceInv == TypeInv /\ (~Embedded => Fence)

\* No item is about to act that was not, or that acts under another key.
NobodyNewRuns ==
  \A s \in Session, a \in Action :
    Doing(s, a, "run")' => Doing(s, a, "run") /\ KeyOf(s, a)' = KeyOf(s, a)

\* Every item is new, gone or where it was.
NoProgress ==
  \A s \in Session, a \in Action :
    \/ work'[s][a].pc \in {"none", "lookup"}
    \/ work'[s][a] = work[s][a] /\ KeyOf(s, a)' = KeyOf(s, a)

LEMMA NoProgressNoRun == NoProgress => NobodyNewRuns
BY DEF NoProgress, NobodyNewRuns, Doing

LEMMA FenceStands ==
  ASSUME TypeInv, Fence, NobodyNewRuns, UNCHANGED effects,
         \A k \in Key : log[k] # <<>> => log'[k] # <<>>
  PROVE  Fence'
<1>1. \A s \in Session, a \in Action : Doing(s, a, "run") => KeyOf(s, a) \in Key
  BY KeyIsKey DEF Doing
<1>2. \A k \in Key : effects'[k] <= 1 /\ (log'[k] = <<>> => effects'[k] = 0)
  BY DEF Fence
<1>3. ASSUME NEW s \in Session, NEW a \in Action, Doing(s, a, "run")'
      PROVE  log'[KeyOf(s, a)'] # <<>> /\ effects'[KeyOf(s, a)'] = 0
  BY <1>1, <1>3 DEF Fence, NobodyNewRuns
<1>4. ASSUME NEW s \in Session, NEW t \in Session, NEW a \in Action,
             Doing(s, a, "run")', Doing(t, a, "run")', KeyOf(s, a)' = KeyOf(t, a)'
      PROVE  s = t
  BY <1>4 DEF Fence, NobodyNewRuns
<1>. QED  BY <1>2, <1>3, <1>4 DEF Fence

LEMMA ItemDoesNotRun ==
  ASSUME TypeInv, NEW s \in Session, NEW a \in Action, NEW item \in Item,
         item.pc # "run", SetItem(s, a, item), UNCHANGED ses
  PROVE  NobodyNewRuns
<1>1. work \in [Session -> [Action -> Item]]
  BY DEF TypeInv, PlacesOK
<1>2. ASSUME NEW t \in Session, NEW b \in Action, work'[t][b].pc = "run"
      PROVE  work[t][b].pc = "run"
  <2>1. CASE t = s /\ b = a
    BY <1>1, <1>2, <2>1 DEF SetItem
  <2>2. CASE t # s \/ b # a
    BY <1>1, <1>2, <2>2 DEF SetItem
  <2>. QED  BY <2>1, <2>2
<1>. QED  BY <1>2 DEF NobodyNewRuns, Doing, KeyOf

LEMMA ReportDoesNotRun ==
  ASSUME TypeInv, NEW s \in Session, NEW a \in Action, NEW outcome \in Outcome,
         Report(s, a, outcome), UNCHANGED ses
  PROVE  NobodyNewRuns
<1>. DEFINE item == IF At(s, "off") THEN NoItem ELSE [work[s][a] EXCEPT !.pc = outcome]
<1>1. item \in Item /\ item.pc # "run"
  <2>1. work[s][a] \in Item
    BY DEF TypeInv, PlacesOK
  <2>2. [work[s][a] EXCEPT !.pc = outcome] \in Item /\ [work[s][a] EXCEPT !.pc = outcome].pc = outcome
    BY <2>1, ItemUpdates
  <2>. QED  BY <2>2, RestingValues DEF Outcome
<1>2. SetItem(s, a, item)
  BY DEF Report
<1>. HIDE DEF item
<1>. QED  BY <1>1, <1>2, ItemDoesNotRun

LEMMA ContinueDoesNotRun ==
  ASSUME TypeInv, NEW s \in Session, NEW a \in Action, NEW pc \in Working, pc # "run",
         Continue(s, a, pc), UNCHANGED ses
  PROVE  NobodyNewRuns
<1>. DEFINE item == [work[s][a] EXCEPT !.pc = pc]
<1>1. item \in Item /\ item.pc # "run"
  BY ItemUpdates DEF TypeInv, PlacesOK
<1>2. SetItem(s, a, item)
  BY DEF Continue
<1>. HIDE DEF item
<1>. QED  BY <1>1, <1>2, ItemDoesNotRun

LEMMA EscapeRests ==
  ASSUME TypeInv, NEW s \in Session, NEW a \in Action, Escape(s, a)
  PROVE  NoProgress \/ (Report(s, a, "denied") /\ UNCHANGED ses)
<1>1. ses \in [Session -> SessionState] /\ work \in [Session -> [Action -> Item]]
  BY DEF TypeInv, PlacesOK
<1>2. CASE work[s][a].approval = 0
  <2>. DEFINE y == [Off EXCEPT !.at = ses[s].at]
              x == [y EXCEPT !.made = ses[s].made]
  <2>1. x.at = ses[s].at /\ x.made = ses[s].made
    BY DEF Off
  <2>2. ses' = [ses EXCEPT ![s] = x]
    BY <1>2 DEF Escape, Off
  <2>3. work' = [work EXCEPT ![s] =
                   [b \in Action |-> IF b # a /\ work[s][b].pc \in Working THEN work[s][b] ELSE NoItem]]
    BY <1>1, <1>2 DEF Escape
  <2>. HIDE DEF x
  <2>4. ASSUME NEW t \in Session, NEW b \in Action
        PROVE  /\ work'[t][b].pc = "none" \/ work'[t][b] = work[t][b]
               /\ ses'[t].at = ses[t].at /\ ses'[t].made = ses[t].made
    BY <1>1, <2>1, <2>2, <2>3, RestingValues
  <2>. QED  BY <2>4 DEF NoProgress, KeyOf
<1>. QED  BY <1>2 DEF Escape

LEMMA EscapeDoesNotRun ==
  ASSUME TypeInv, NEW s \in Session, NEW a \in Action, Escape(s, a)
  PROVE  NobodyNewRuns
BY EscapeRests, NoProgressNoRun, ReportDoesNotRun DEF Outcome

LEMMA WriteKeepsEntries ==
  ASSUME TypeInv, NEW k \in Key, NEW entry \in JournalStatus, Write(k, entry)
  PROVE  log'[k] # <<>> /\ \A j \in Key : log[j] # <<>> => log'[j] # <<>>
<1>1. log \in [Key -> Seq(JournalStatus)] /\ log[k] \in Seq(JournalStatus)
  BY DEF TypeInv, MemoryOK
<1>2. Append(log[k], entry) # <<>> /\ <<entry>> # <<>>
  BY <1>1
<1>. QED  BY <1>1, <1>2 DEF Write

LEMMA ExecutorKeepsFence ==
  ASSUME TypeInv, Fence, ~Embedded, NEW s \in Session, NEW a \in Action, ExecutorStep(s, a)
  PROVE  Fence'
<1>1. CASE Lookup(s, a)
  <2>1. NobodyNewRuns
    BY <1>1, ReportDoesNotRun, ContinueDoesNotRun DEF Lookup, ExecutorOnly, Settled, Outcome, Working
  <2>. QED  BY <1>1, <2>1, FenceStands DEF Lookup
<1>2. CASE Gate(s, a)
  <2>1. UNCHANGED <<ses, log, effects>>
    BY <1>2 DEF Gate, ExecutorOnly
  <2>2. ASSUME NEW i \in Standing(a), SetItem(s, a, [pc |-> "resolve", approval |-> i])
        PROVE  NobodyNewRuns
    <3>1. i \in Nat
      BY DEF Standing, TypeInv, MemoryOK
    <3>2. [pc |-> "resolve", approval |-> i] \in Item
      BY <3>1 DEF Item, Working
    <3>. QED  BY <2>1, <2>2, <3>2, ItemDoesNotRun
  <2>3. NobodyNewRuns
    BY <1>2, <2>1, <2>2, ReportDoesNotRun, ContinueDoesNotRun DEF Gate, IsLatest, Outcome, Working
  <2>. QED  BY <2>1, <2>3, FenceStands
<1>3. CASE Request(s, a)
  <2>1. NobodyNewRuns
    BY <1>3, ReportDoesNotRun DEF Request, ExecutorOnly, Outcome
  <2>. QED  BY <1>3, <2>1, FenceStands DEF Request
<1>4. CASE Resolve(s, a)
  <2>1. NobodyNewRuns
    BY <1>4, ReportDoesNotRun, ContinueDoesNotRun DEF Resolve, ExecutorOnly, Outcome, Working
  <2>. QED  BY <1>4, <2>1, FenceStands DEF Resolve
<1>5. CASE RefuseInput(s, a)
  <2>1. KeyOf(s, a) \in Key
    BY <1>5, KeyIsKey DEF RefuseInput, Doing
  <2>2. NobodyNewRuns
    BY <1>5, ReportDoesNotRun, EscapeDoesNotRun DEF RefuseInput, Outcome
  <2>3. \A k \in Key : log[k] # <<>> => log'[k] # <<>>
    BY <1>5, <2>1, WriteKeepsEntries DEF RefuseInput, JournalStatus
  <2>. QED  BY <1>5, <2>2, <2>3, FenceStands DEF RefuseInput
<1>6. CASE Intend(s, a)
  <2>1. KeyOf(s, a) \in Key /\ UNCHANGED effects
    BY <1>6, KeyIsKey DEF Intend, Doing
  <2>2. CASE Escape(s, a) /\ UNCHANGED log
    BY <2>1, <2>2, EscapeDoesNotRun, FenceStands
  <2>3. CASE IntentAccepted(KeyOf(s, a)) /\ Write(KeyOf(s, a), "executing")
             /\ Continue(s, a, "run") /\ UNCHANGED ses
    <3>1. log[KeyOf(s, a)] = <<>> /\ effects[KeyOf(s, a)] = 0
      BY <2>1, <2>3 DEF IntentAccepted, Fence
    <3>2. log'[KeyOf(s, a)] # <<>> /\ \A j \in Key : log[j] # <<>> => log'[j] # <<>>
      BY <2>1, <2>3, WriteKeepsEntries DEF JournalStatus
    <3>3. ASSUME NEW t \in Session, NEW b \in Action PROVE KeyOf(t, b)' = KeyOf(t, b)
      BY <2>3 DEF KeyOf
    <3>4. ASSUME NEW t \in Session, NEW b \in Action, Doing(t, b, "run")', t # s \/ b # a
          PROVE  Doing(t, b, "run")
      BY <2>3, <3>4 DEF Continue, SetItem, Doing, TypeInv, PlacesOK
    <3>5. \A t \in Session, b \in Action : Doing(t, b, "run") => KeyOf(t, b) # KeyOf(s, a)
      BY <3>1 DEF Fence
    <3>6. \A k \in Key : effects'[k] <= 1 /\ (log'[k] = <<>> => effects'[k] = 0)
      BY <2>1, <3>2 DEF Fence
    <3>7. ASSUME NEW t \in Session, NEW b \in Action, Doing(t, b, "run")'
          PROVE  log'[KeyOf(t, b)'] # <<>> /\ effects'[KeyOf(t, b)'] = 0
      <4>1. CASE t = s /\ b = a
        BY <2>1, <3>1, <3>2, <3>3, <4>1
      <4>2. CASE t # s \/ b # a
        <5>1. Doing(t, b, "run") /\ KeyOf(t, b) \in Key
          BY <3>4, <3>7, <4>2, KeyIsKey DEF Doing
        <5>. QED  BY <2>1, <3>2, <3>3, <5>1 DEF Fence
      <4>. QED  BY <4>1, <4>2
    <3>8. ASSUME NEW t \in Session, NEW u \in Session, NEW b \in Action,
                 Doing(t, b, "run")', Doing(u, b, "run")', KeyOf(t, b)' = KeyOf(u, b)'
          PROVE  t = u
      <4>1. KeyOf(t, b) = KeyOf(u, b)
        BY <3>3, <3>8
      <4>2. CASE b = a /\ (t = s \/ u = s)
        BY <3>4, <3>5, <3>8, <4>1, <4>2
      <4>3. CASE b # a \/ (t # s /\ u # s)
        BY <3>4, <3>8, <4>1, <4>3 DEF Fence
      <4>. QED  BY <4>2, <4>3
    <3>. QED  BY <3>6, <3>7, <3>8 DEF Fence
  <2>. QED  BY <1>6, <2>2, <2>3 DEF Intend
<1>7. CASE Run(s, a)
  <2>1. KeyOf(s, a) \in Key /\ Doing(s, a, "run") /\ UNCHANGED <<ses, log>>
    BY <1>7, KeyIsKey DEF Run, Doing, ExecutorOnly
  <2>2. \E end \in {"landed", "broke"} : Continue(s, a, end)
    BY <1>7 DEF Run
  <2>3. NobodyNewRuns
    BY <2>1, <2>2, ContinueDoesNotRun DEF Working
  <2>4. CASE UNCHANGED effects
    BY <2>1, <2>3, <2>4, FenceStands
  <2>5. CASE effects' = [effects EXCEPT ![KeyOf(s, a)] = @ + 1]
    <3>1. /\ effects \in [Key -> Nat] /\ effects[KeyOf(s, a)] = 0 /\ log[KeyOf(s, a)] # <<>>
      BY <2>1 DEF TypeInv, MemoryOK, Fence
    <3>2. \A k \in Key : k # KeyOf(s, a) => effects'[k] = effects[k]
      BY <2>5, <3>1
    <3>3. effects'[KeyOf(s, a)] = 1
      BY <2>1, <2>5, <3>1
    <3>4. ~Doing(s, a, "run")'
      BY <2>2 DEF Continue, SetItem, Doing, TypeInv, PlacesOK, Item
    <3>5. ASSUME NEW t \in Session, NEW b \in Action, Doing(t, b, "run")'
          PROVE  /\ Doing(t, b, "run") /\ KeyOf(t, b)' = KeyOf(t, b) /\ KeyOf(t, b) \in Key
                 /\ KeyOf(t, b) # KeyOf(s, a)
      <4>1. Doing(t, b, "run") /\ KeyOf(t, b)' = KeyOf(t, b) /\ KeyOf(t, b) \in Key
        BY <2>3, <3>5, KeyIsKey DEF NobodyNewRuns, Doing
      <4>2. ASSUME KeyOf(t, b) = KeyOf(s, a) PROVE FALSE
        <5>1. b = a
          BY <4>2 DEF KeyOf
        <5>2. t = s
          BY <2>1, <4>1, <4>2, <5>1 DEF Fence
        <5>. QED  BY <3>4, <3>5, <5>1, <5>2
      <4>. QED  BY <4>1, <4>2
    <3>6. \A k \in Key : effects'[k] <= 1 /\ (log'[k] = <<>> => effects'[k] = 0)
      BY <2>1, <3>1, <3>2, <3>3 DEF Fence
    <3>7. ASSUME NEW t \in Session, NEW b \in Action, Doing(t, b, "run")'
          PROVE  log'[KeyOf(t, b)'] # <<>> /\ effects'[KeyOf(t, b)'] = 0
      BY <2>1, <3>2, <3>5, <3>7 DEF Fence
    <3>8. ASSUME NEW t \in Session, NEW u \in Session, NEW b \in Action,
                 Doing(t, b, "run")', Doing(u, b, "run")', KeyOf(t, b)' = KeyOf(u, b)'
          PROVE  t = u
      BY <3>5, <3>8 DEF Fence
    <3>. QED  BY <3>6, <3>7, <3>8 DEF Fence
  <2>. QED  BY <1>7, <2>4, <2>5 DEF Run
<1>8. CASE Commit(s, a)
  <2>1. KeyOf(s, a) \in Key /\ UNCHANGED <<ses, effects>>
    BY <1>8, KeyIsKey DEF Commit, ExecutorOnly
  <2>2. \E end \in {"succeeded", "failed"} : Write(KeyOf(s, a), end) /\ Report(s, a, end)
    BY <1>8 DEF Commit
  <2>. QED  BY <2>1, <2>2, WriteKeepsEntries, ReportDoesNotRun, FenceStands DEF Outcome, JournalStatus
<1>. QED  BY <1>1, <1>2, <1>3, <1>4, <1>5, <1>6, <1>7, <1>8 DEF ExecutorStep

\* What a session does to its own items starts none: they are new, gone, or
\* where they were.
LEMMA SessionRests ==
  ASSUME TypeInv, NEW s \in Session, SessionStep(s)
  PROVE  NoProgress
<1>1. ses \in [Session -> SessionState] /\ work \in [Session -> [Action -> Item]]
  BY DEF TypeInv, PlacesOK
<1>2. ASSUME NEW x, NEW items \in [Action -> Item],
             ses' = [ses EXCEPT ![s] = x], work' = [work EXCEPT ![s] = items],
             \A a \in Action : items[a].pc \in {"none", "lookup"}
      PROVE  NoProgress
  <2>1. ASSUME NEW t \in Session, NEW b \in Action
        PROVE  \/ work'[t][b].pc \in {"none", "lookup"}
               \/ work'[t][b] = work[t][b] /\ ses'[t] = ses[t]
    BY <1>1, <1>2
  <2>. QED  BY <2>1 DEF NoProgress, KeyOf
<1>3. ASSUME NEW x, ses' = [ses EXCEPT ![s] = x], UNCHANGED work,
             x.at = ses[s].at /\ x.made = ses[s].made
      PROVE  NoProgress
  <2>1. \A t \in Session : ses'[t].at = ses[t].at /\ ses'[t].made = ses[t].made
    BY <1>1, <1>3
  <2>. QED  BY <1>3, <2>1 DEF NoProgress, KeyOf
<1>4. NoWork \in [Action -> Item] /\ \A a \in Action : NoWork[a].pc = "none"
  BY RestingValues
<1>5. ASSUME NEW x, SetSession(s, x), DropWork(s) PROVE NoProgress
  BY <1>2, <1>4, <1>5 DEF SetSession, DropWork
<1>6. ASSUME NEW end, Leave(s, end) PROVE NoProgress
  BY <1>5, <1>6 DEF Leave
<1>7. ASSUME SetSession(s, [ses[s] EXCEPT !.pc = "mend"]), UNCHANGED work PROVE NoProgress
  <2>. DEFINE x == [ses[s] EXCEPT !.pc = "mend"]
  <2>1. x.at = ses[s].at /\ x.made = ses[s].made
    BY <1>1 DEF SessionState
  <2>2. ses' = [ses EXCEPT ![s] = x]
    BY <1>7 DEF SetSession
  <2>. HIDE DEF x
  <2>. QED  BY <1>3, <1>7, <2>1, <2>2
<1>8. CASE Begin(s)
  <2>1. PICK x : ses' = [ses EXCEPT ![s] = x]
    BY <1>8 DEF Begin, SetSession
  <2>2. work' = [work EXCEPT ![s] = NoWork]
    BY <1>1, <1>8 DEF Begin
  <2>. QED  BY <1>2, <1>4, <2>1, <2>2
<1>9. CASE Ask(s)
  <2>1. PICK batch \in SUBSET Action :
          work' = [work EXCEPT ![s] =
                    [a \in Action |-> IF a \in batch THEN [NoItem EXCEPT !.pc = "lookup"] ELSE NoItem]]
    BY <1>9 DEF Ask
  <2>. DEFINE items == [a \in Action |-> IF a \in batch THEN [NoItem EXCEPT !.pc = "lookup"] ELSE NoItem]
  <2>2. items \in [Action -> Item] /\ \A a \in Action : items[a].pc \in {"none", "lookup"}
    BY RestingValues, ItemUpdates DEF Working
  <2>3. PICK x : ses' = [ses EXCEPT ![s] = x]
    BY <1>9 DEF Ask, SetSession
  <2>. HIDE DEF items
  <2>. QED  BY <1>2, <2>1, <2>2, <2>3 DEF items
<1>10. CASE Finish(s) \/ Abandon(s) \/ GiveUp(s)
  BY <1>6, <1>10 DEF Finish, Abandon, GiveUp
<1>11. CASE Record(s) \/ GoOn(s) \/ Retried(s)
  BY <1>5, <1>6, <1>7, <1>11 DEF Record, GoOn, Retried
<1>12. ASSUME NEW a \in Action, Retry(s, a) PROVE NoProgress
  <2>. DEFINE items == [NoWork EXCEPT ![a].pc = "lookup"]
  <2>1. items \in [Action -> Item] /\ \A b \in Action : items[b].pc \in {"none", "lookup"}
    BY <1>4, ItemUpdates DEF Working
  <2>2. PICK x : ses' = [ses EXCEPT ![s] = x]
    BY <1>12 DEF Retry, SetSession
  <2>. HIDE DEF items
  <2>. QED  BY <1>2, <1>12, <2>1, <2>2 DEF Retry, items
<1>. QED  BY <1>8, <1>9, <1>10, <1>11, <1>12 DEF SessionStep

LEMMA CrashRests ==
  ASSUME TypeInv, NEW s \in Session, Crash(s)
  PROVE  NoProgress
<1>1. PICK gone \in SUBSET Session :
        /\ ses' = [u \in Session |-> IF u \in gone THEN Off ELSE ses[u]]
        /\ work' = [u \in Session |-> IF u \in gone THEN NoWork ELSE work[u]]
  BY DEF Crash
<1>2. ASSUME NEW t \in Session, NEW b \in Action
      PROVE  \/ work'[t][b].pc \in {"none", "lookup"}
             \/ work'[t][b] = work[t][b] /\ ses'[t] = ses[t]
  BY <1>1, RestingValues
<1>. QED  BY <1>2 DEF NoProgress, KeyOf

LEMMA OperatorRests ==
  ASSUME NEW o \in Operator, OperatorStep(o)
  PROVE  NoProgress /\ UNCHANGED <<setup, log, ses, work, effects>>
<1>1. UNCHANGED <<setup, log, ses, work, effects>>
  BY DEF OperatorStep, DecideRead, DecideWrite, CancelRead, CancelApproval, CancelRow, DeskOnly
<1>. QED  BY <1>1 DEF NoProgress, KeyOf

\* With the journal in a database, no crash, retry, overlap of workers or batch
\* abandoned by a failure makes a key take effect twice, however many there are.
THEOREM KeysTakeEffectOnce == Spec => []UniqueKeyFences
<1>1. Init => FenceInv
  <2>. SUFFICES ASSUME Init PROVE Fence
    BY InitTyped DEF FenceInv
  <2>. QED  BY RestingValues DEF Init, Fence, Doing
<1>2. FenceInv /\ [Next]_vars => FenceInv'
  <2>. SUFFICES ASSUME FenceInv, [Next]_vars PROVE FenceInv'
    OBVIOUS
  <2>1. TypeInv /\ TypeInv'
    BY StepTyped DEF FenceInv
  <2>2. UNCHANGED setup
    BY SetupStays
  <2>3. ASSUME Fence, ~Embedded PROVE Fence'
    <3>1. ASSUME NobodyNewRuns, UNCHANGED <<log, effects>> PROVE Fence'
      BY <2>1, <2>3, <3>1, FenceStands
    <3>2. ASSUME NEW s \in Session, NEW a \in Action, ExecutorStep(s, a) PROVE Fence'
      BY <2>1, <2>3, <3>2, ExecutorKeepsFence
    <3>3. ASSUME NEW s \in Session, SessionStep(s) PROVE Fence'
      <4>1. UNCHANGED <<log, effects>>
        BY <3>3 DEF SessionStep, Begin, Ask, Finish, Record, Abandon, GoOn, GiveUp, Retried,
           Retry, SessionOnly
      <4>. QED  BY <2>1, <3>1, <3>3, <4>1, SessionRests, NoProgressNoRun
    <3>4. ASSUME NEW s \in Session, Crash(s) PROVE Fence'
      BY <2>1, <3>1, <3>4, CrashRests, NoProgressNoRun DEF Crash
    <3>5. ASSUME NEW o \in Operator, OperatorStep(o) PROVE Fence'
      BY <3>1, <3>5, OperatorRests, NoProgressNoRun
    <3>6. CASE UNCHANGED vars
      BY <3>1, <3>6 DEF vars, NobodyNewRuns, Doing, KeyOf
    <3>. QED  BY <3>2, <3>3, <3>4, <3>5, <3>6 DEF Next
  <2>. QED  BY <2>1, <2>2, <2>3 DEF FenceInv, Embedded
<1>3. FenceInv => UniqueKeyFences
  BY DEF FenceInv, Fence, UniqueKeyFences
<1>. QED  BY <1>1, <1>2, <1>3, PTL DEF Spec

-----------------------------------------------------------------------------
(* The approval                                                             *)

Authorized == {"ready", "run", "landed", "broke"}

Gated(a) == setup.verdicts[a] = {"REQUIRE_APPROVAL"}

\* What an approval says was granted was; a decision that is about to be read
\* exists; and past the gate there is a grant.
Granted ==
  /\ \A a \in Action : \A i \in DOMAIN approvals[a] : approvals[a][i] = "granted" => a \in granted
  /\ \A s \in Session, a \in Action :
       /\ Doing(s, a, "resolve") => work[s][a].approval \in DOMAIN approvals[a]
       /\ Gated(a) /\ work[s][a].pc \in Authorized => a \in granted
  /\ GatedNeedsGrant

\* No item gets past the gate, or to a decision, that was not there.
NobodyNewPasses ==
  \A s \in Session, a \in Action :
    /\ work'[s][a].pc \in Authorized => work[s][a].pc \in Authorized
    /\ work'[s][a].pc = "resolve" => work'[s][a] = work[s][a]

LEMMA GrantStands ==
  ASSUME Granted, NobodyNewPasses, UNCHANGED <<setup, approvals, granted, effects>>
  PROVE  Granted'
<1>1. ASSUME NEW s \in Session, NEW a \in Action
      PROVE  /\ work'[s][a].pc = "resolve" => work'[s][a].approval \in DOMAIN approvals[a]
             /\ Gated(a) /\ work'[s][a].pc \in Authorized => a \in granted
  BY DEF Granted, NobodyNewPasses, Doing
<1>2. GatedNeedsGrant'
  BY DEF Granted, GatedNeedsGrant
<1>. QED  BY <1>1, <1>2 DEF Granted, Doing, Gated

LEMMA ItemDoesNotPass ==
  ASSUME TypeInv, NEW s \in Session, NEW a \in Action, NEW item \in Item, SetItem(s, a, item),
         item.pc \in Authorized => work[s][a].pc \in Authorized, item.pc # "resolve"
  PROVE  NobodyNewPasses
<1>1. work \in [Session -> [Action -> Item]]
  BY DEF TypeInv, PlacesOK
<1>2. ASSUME NEW t \in Session, NEW b \in Action
      PROVE  /\ work'[t][b].pc \in Authorized => work[t][b].pc \in Authorized
             /\ work'[t][b].pc = "resolve" => work'[t][b] = work[t][b]
  <2>1. CASE t = s /\ b = a
    BY <1>1, <2>1 DEF SetItem
  <2>2. CASE t # s \/ b # a
    BY <1>1, <2>2 DEF SetItem
  <2>. QED  BY <2>1, <2>2
<1>. QED  BY <1>2 DEF NobodyNewPasses

LEMMA ReportDoesNotPass ==
  ASSUME TypeInv, NEW s \in Session, NEW a \in Action, NEW outcome \in Outcome,
         Report(s, a, outcome)
  PROVE  NobodyNewPasses
<1>. DEFINE item == IF At(s, "off") THEN NoItem ELSE [work[s][a] EXCEPT !.pc = outcome]
<1>1. item \in Item /\ item.pc \in {"none"} \cup Outcome
  <2>1. work[s][a] \in Item
    BY DEF TypeInv, PlacesOK
  <2>2. [work[s][a] EXCEPT !.pc = outcome] \in Item /\ [work[s][a] EXCEPT !.pc = outcome].pc = outcome
    BY <2>1, ItemUpdates
  <2>. QED  BY <2>2, RestingValues
<1>2. SetItem(s, a, item)
  BY DEF Report
<1>. HIDE DEF item
<1>. QED  BY <1>1, <1>2, ItemDoesNotPass DEF Outcome, Authorized

LEMMA ContinueDoesNotPass ==
  ASSUME TypeInv, NEW s \in Session, NEW a \in Action, NEW pc \in Working, Continue(s, a, pc),
         pc \in Authorized => work[s][a].pc \in Authorized, pc # "resolve"
  PROVE  NobodyNewPasses
<1>. DEFINE item == [work[s][a] EXCEPT !.pc = pc]
<1>1. item \in Item /\ item.pc = pc
  BY ItemUpdates DEF TypeInv, PlacesOK
<1>2. SetItem(s, a, item)
  BY DEF Continue
<1>. HIDE DEF item
<1>. QED  BY <1>1, <1>2, ItemDoesNotPass

LEMMA NoProgressNoPass == NoProgress => NobodyNewPasses
BY DEF NoProgress, NobodyNewPasses, Authorized

\* One item gets past the gate: it has its grant, or the policy let it through.
LEMMA PassStands ==
  ASSUME TypeInv, Granted, NEW s \in Session, NEW a \in Action, Continue(s, a, "ready"),
         Gated(a) => a \in granted, UNCHANGED <<setup, approvals, granted, effects>>
  PROVE  Granted'
<1>1. work \in [Session -> [Action -> Item]]
  BY DEF TypeInv, PlacesOK
<1>2. ASSUME NEW t \in Session, NEW b \in Action
      PROVE  /\ work'[t][b].pc = "resolve" => work'[t][b].approval \in DOMAIN approvals[b]
             /\ Gated(b) /\ work'[t][b].pc \in Authorized => b \in granted
  <2>1. CASE t = s /\ b = a
    <3>1. work'[t][b].pc = "ready"
      BY <1>1, <2>1, ItemUpdates DEF Continue, SetItem, Item
    <3>. QED  BY <2>1, <3>1
  <2>2. CASE t # s \/ b # a
    <3>1. work'[t][b] = work[t][b]
      BY <1>1, <2>2 DEF Continue, SetItem
    <3>. QED  BY <3>1 DEF Granted, Doing
  <2>. QED  BY <2>1, <2>2
<1>3. GatedNeedsGrant'
  BY DEF Granted, GatedNeedsGrant
<1>. QED  BY <1>2, <1>3 DEF Granted, Doing, Gated

LEMMA ExecutorKeepsGranted ==
  ASSUME TypeInv, Granted, NEW s \in Session, NEW a \in Action, ExecutorStep(s, a)
  PROVE  Granted'
<1>1. CASE Lookup(s, a)
  <2>1. UNCHANGED <<setup, approvals, granted, effects>>
    BY <1>1 DEF Lookup, ExecutorOnly
  <2>2. CASE \E outcome \in Outcome : Report(s, a, outcome)
    BY <2>1, <2>2, ReportDoesNotPass, GrantStands
  <2>3. CASE Continue(s, a, "gate")
    BY <2>1, <2>3, ContinueDoesNotPass, GrantStands DEF Working, Authorized
  <2>4. CASE Continue(s, a, "ready") /\ "ALLOW" \in setup.verdicts[a]
    <3>1. ~Gated(a)
      BY <2>4 DEF Gated
    <3>. QED  BY <2>1, <2>4, <3>1, PassStands
  <2>. QED  BY <1>1, <2>2, <2>3, <2>4 DEF Lookup, Settled, Outcome
<1>2. CASE Gate(s, a)
  <2>1. UNCHANGED <<setup, approvals, granted, effects>>
    BY <1>2 DEF Gate, ExecutorOnly
  <2>2. CASE Report(s, a, "awaiting_approval")
    BY <2>1, <2>2, ReportDoesNotPass, GrantStands DEF Outcome
  <2>3. CASE Continue(s, a, "request")
    BY <2>1, <2>3, ContinueDoesNotPass, GrantStands DEF Working, Authorized
  <2>4. ASSUME NEW i \in Standing(a), SetItem(s, a, [pc |-> "resolve", approval |-> i])
        PROVE  Granted'
    <3>1. i \in DOMAIN approvals[a] /\ work \in [Session -> [Action -> Item]]
      BY DEF Standing, TypeInv, PlacesOK
    <3>2. ASSUME NEW t \in Session, NEW b \in Action
          PROVE  /\ work'[t][b].pc = "resolve" => work'[t][b].approval \in DOMAIN approvals[b]
                 /\ Gated(b) /\ work'[t][b].pc \in Authorized => b \in granted
      <4>1. CASE t = s /\ b = a
        BY <2>4, <3>1, <4>1 DEF SetItem, Authorized
      <4>2. CASE t # s \/ b # a
        <5>1. work'[t][b] = work[t][b]
          BY <2>4, <3>1, <4>2 DEF SetItem
        <5>. QED  BY <5>1 DEF Granted, Doing
      <4>. QED  BY <4>1, <4>2
    <3>3. GatedNeedsGrant'
      BY <2>1 DEF Granted, GatedNeedsGrant
    <3>. QED  BY <2>1, <3>2, <3>3 DEF Granted, Doing, Gated
  <2>. QED  BY <1>2, <2>2, <2>3, <2>4 DEF Gate, IsLatest
<1>3. CASE Request(s, a)
  <2>1. approvals \in [Action -> Seq(ApprovalStatus)] /\ UNCHANGED <<setup, granted, effects>>
    BY <1>3 DEF Request, ExecutorOnly, TypeInv, MemoryOK
  <2>2. /\ \A b \in Action : DOMAIN approvals[b] \subseteq DOMAIN approvals'[b]
        /\ \A b \in Action : \A i \in DOMAIN approvals'[b] :
             approvals'[b][i] = "granted" => i \in DOMAIN approvals[b] /\ approvals[b][i] = "granted"
    BY <1>3, <2>1 DEF Request
  <2>3. NobodyNewPasses
    BY <1>3, ReportDoesNotPass DEF Request, Outcome
  <2>4. ASSUME NEW t \in Session, NEW b \in Action
        PROVE  /\ work'[t][b].pc = "resolve" => work'[t][b].approval \in DOMAIN approvals'[b]
               /\ Gated(b) /\ work'[t][b].pc \in Authorized => b \in granted
    BY <2>2, <2>3 DEF Granted, NobodyNewPasses, Doing
  <2>5. GatedNeedsGrant'
    BY <2>1 DEF Granted, GatedNeedsGrant
  <2>. QED  BY <2>1, <2>2, <2>4, <2>5 DEF Granted, Doing, Gated
<1>4. CASE Resolve(s, a)
  <2>1. UNCHANGED <<setup, approvals, granted, effects>>
    BY <1>4 DEF Resolve, ExecutorOnly
  <2>2. CASE Report(s, a, "denied")
    BY <2>1, <2>2, ReportDoesNotPass, GrantStands DEF Outcome
  <2>3. CASE approvals[a][work[s][a].approval] = "granted" /\ Continue(s, a, "ready")
    <3>1. a \in granted
      BY <1>4, <2>3 DEF Resolve, Granted
    <3>. QED  BY <2>1, <2>3, <3>1, PassStands
  <2>. QED  BY <1>4, <2>2, <2>3 DEF Resolve
<1>5. CASE RefuseInput(s, a)
  <2>1. NobodyNewPasses
    BY <1>5, ReportDoesNotPass, EscapeRests, NoProgressNoPass DEF RefuseInput, Outcome
  <2>. QED  BY <1>5, <2>1, GrantStands DEF RefuseInput
<1>6. CASE Intend(s, a)
  <2>1. NobodyNewPasses
    BY <1>6, ContinueDoesNotPass, ReportDoesNotPass, EscapeRests, NoProgressNoPass
       DEF Intend, Outcome, Doing, Working, Authorized
  <2>. QED  BY <1>6, <2>1, GrantStands DEF Intend
<1>7. CASE Run(s, a)
  <2>1. /\ Doing(s, a, "run") /\ UNCHANGED <<setup, approvals, granted>>
        /\ KeyOf(s, a) \in Key /\ KeyOf(s, a).what = a /\ effects \in [Key -> Nat]
    BY <1>7, KeyIsKey DEF Run, Doing, ExecutorOnly, KeyOf, TypeInv, MemoryOK
  <2>2. \E end \in {"landed", "broke"} : Continue(s, a, end)
    BY <1>7 DEF Run
  <2>3. NobodyNewPasses
    BY <2>1, <2>2, ContinueDoesNotPass DEF Doing, Working, Authorized
  <2>4. Gated(a) => a \in granted
    BY <2>1 DEF Granted, Doing, Authorized
  <2>5. \A k \in Key : k # KeyOf(s, a) => effects'[k] = effects[k]
    BY <1>7, <2>1 DEF Run
  <2>6. ASSUME NEW k \in Key, setup.verdicts[k.what] = {"REQUIRE_APPROVAL"}, effects'[k] > 0
        PROVE  k.what \in granted
    <3>1. CASE k = KeyOf(s, a)
      BY <2>1, <2>4, <2>6, <3>1 DEF Gated
    <3>2. CASE k # KeyOf(s, a)
      BY <2>5, <2>6, <3>2 DEF Granted, GatedNeedsGrant
    <3>. QED  BY <3>1, <3>2
  <2>7. GatedNeedsGrant'
    BY <2>1, <2>6 DEF GatedNeedsGrant
  <2>8. ASSUME NEW t \in Session, NEW b \in Action
        PROVE  /\ work'[t][b].pc = "resolve" => work'[t][b].approval \in DOMAIN approvals[b]
               /\ Gated(b) /\ work'[t][b].pc \in Authorized => b \in granted
    BY <2>3 DEF Granted, NobodyNewPasses, Doing
  <2>. QED  BY <2>1, <2>7, <2>8 DEF Granted, Doing, Gated
<1>8. CASE Commit(s, a)
  <2>1. \E end \in {"succeeded", "failed"} : Report(s, a, end)
    BY <1>8 DEF Commit
  <2>2. NobodyNewPasses
    BY <2>1, ReportDoesNotPass DEF Outcome
  <2>. QED  BY <1>8, <2>2, GrantStands DEF Commit, ExecutorOnly
<1>. QED  BY <1>1, <1>2, <1>3, <1>4, <1>5, <1>6, <1>7, <1>8 DEF ExecutorStep

LEMMA OperatorKeepsGranted ==
  ASSUME TypeInv, Granted, NEW o \in Operator, OperatorStep(o)
  PROVE  Granted'
<1>1. /\ approvals \in [Action -> Seq(ApprovalStatus)] /\ UNCHANGED <<setup, effects, work>>
      /\ \A r \in desk[o].left : r \in Action \X Nat
  BY OperatorRests DEF TypeInv, MemoryOK, Desk
<1>2. CASE DecideRead(o) \/ CancelRead(o) \/ CancelRow(o)
  <2>1. UNCHANGED <<approvals, granted>>
    BY <1>2 DEF DecideRead, CancelRead, CancelRow
  <2>2. NobodyNewPasses
    BY <1>1 DEF NobodyNewPasses
  <2>. QED  BY <1>1, <2>1, <2>2, GrantStands
<1>3. ASSUME NEW r \in Action \X Nat, NEW decision \in ApprovalStatus, Stamp(r, decision),
             decision = "granted" => r[1] \in granted', granted \subseteq granted'
      PROVE  Granted'
  <2>1. \A b \in Action : DOMAIN approvals'[b] = DOMAIN approvals[b]
    BY <1>1, <1>3 DEF Stamp
  <2>2. ASSUME NEW b \in Action, NEW i \in DOMAIN approvals'[b], approvals'[b][i] = "granted"
        PROVE  b \in granted'
    <3>1. CASE b = r[1] /\ i = r[2] /\ decision = "granted"
      BY <1>3, <3>1
    <3>2. CASE ~(b = r[1] /\ i = r[2] /\ decision = "granted")
      <4>1. approvals[b][i] = "granted"
        BY <1>1, <1>3, <2>1, <2>2, <3>2 DEF Stamp
      <4>. QED  BY <1>3, <2>1, <2>2, <4>1 DEF Granted
    <3>. QED  BY <3>1, <3>2
  <2>3. ASSUME NEW s \in Session, NEW a \in Action
        PROVE  /\ work'[s][a].pc = "resolve" => work'[s][a].approval \in DOMAIN approvals'[a]
               /\ Gated(a) /\ work'[s][a].pc \in Authorized => a \in granted'
    BY <1>1, <1>3, <2>1 DEF Granted, Doing
  <2>4. GatedNeedsGrant'
    BY <1>1, <1>3 DEF Granted, GatedNeedsGrant
  <2>. QED  BY <1>1, <2>2, <2>3, <2>4 DEF Granted, Doing, Gated
<1>4. CASE DecideWrite(o)
  <2>1. PICK r \in desk[o].left :
          \/ Stamp(r, "granted") /\ granted' = granted \cup {r[1]}
          \/ Stamp(r, "denied") /\ UNCHANGED granted
    BY <1>4 DEF DecideWrite
  <2>. QED  BY <1>1, <1>3, <2>1 DEF ApprovalStatus
<1>5. CASE CancelApproval(o)
  <2>1. PICK r \in desk[o].left : Stamp(r, "cancelled") /\ UNCHANGED granted
    BY <1>5 DEF CancelApproval
  <2>. QED  BY <1>1, <1>3, <2>1 DEF ApprovalStatus
<1>. QED  BY <1>2, <1>4, <1>5 DEF OperatorStep

\* An action the policy always sends to a human takes effect only after an
\* operator granted a request for it, however sessions, decisions, cancellations
\* and crashes interleave.
THEOREM GatedActionsNeedAGrant == Spec => []GatedNeedsGrant
<1>1. Init => TypeInv /\ Granted
  <2>. SUFFICES ASSUME Init PROVE Granted
    BY InitTyped
  <2>. QED  BY RestingValues DEF Init, Granted, GatedNeedsGrant, Doing, Authorized
<1>2. TypeInv /\ Granted /\ [Next]_vars => TypeInv' /\ Granted'
  <2>. SUFFICES ASSUME TypeInv, Granted, [Next]_vars PROVE Granted'
    BY StepTyped
  <2>2. ASSUME NoProgress, UNCHANGED <<approvals, granted, effects>> PROVE Granted'
    BY <2>2, SetupStays, NoProgressNoPass, GrantStands
  <2>3. ASSUME NEW s \in Session, NEW a \in Action, ExecutorStep(s, a) PROVE Granted'
    BY <2>3, ExecutorKeepsGranted
  <2>4. ASSUME NEW s \in Session, SessionStep(s) PROVE Granted'
    <3>1. UNCHANGED <<approvals, granted, effects>>
      BY <2>4 DEF SessionStep, Begin, Ask, Finish, Record, Abandon, GoOn, GiveUp, Retried,
         Retry, SessionOnly
    <3>. QED  BY <2>2, <2>4, <3>1, SessionRests
  <2>5. ASSUME NEW s \in Session, Crash(s) PROVE Granted'
    BY <2>2, <2>5, CrashRests DEF Crash
  <2>6. ASSUME NEW o \in Operator, OperatorStep(o) PROVE Granted'
    BY <2>6, OperatorKeepsGranted
  <2>7. CASE UNCHANGED vars
    BY <2>2, <2>7 DEF vars, NoProgress, KeyOf
  <2>. QED  BY <2>3, <2>4, <2>5, <2>6, <2>7 DEF Next
<1>3. Granted => GatedNeedsGrant
  BY DEF Granted
<1>. QED  BY <1>1, <1>2, <1>3, PTL DEF Spec
-----------------------------------------------------------------------------
(* What is settled                                                          *)

\* Where an item is that an executor has found due, and that has its intent.
Due == {"gate", "request", "resolve", "ready"}
Intended == {"run", "landed", "broke"}

Resting == {"none", "lookup"} \cup Outcome

\* With the embedded store one session is at it, and a session that has ended
\* left nothing behind: no write of the journal is ever refused there.
Alone ==
  /\ \A s \in Session : At(s, "off") => \A a \in Action : work[s][a].pc = "none"
  /\ \A s, t \in Session : ~At(s, "off") /\ ~At(t, "off") => s = t

\* An intent stands until its holder commits, and there is one holder of a key.
\* Before the intent, the embedded journal still has the key as it was looked up;
\* the unique index looks again, except for arguments a schema refuses, whose keys
\* never get an entry in a database.
Unsettled ==
  /\ \A s \in Session, a \in Action :
       work[s][a].pc \in Intended => Latest(KeyOf(s, a)) = "executing"
  /\ \A s, t \in Session, a \in Action :
       work[s][a].pc \in Intended /\ work[t][a].pc \in Intended /\ KeyOf(s, a) = KeyOf(t, a) => s = t
  /\ Embedded => Alone
  /\ Embedded => \A s \in Session, a \in Action :
                   work[s][a].pc \in Due => ~Settled(KeyOf(s, a))
  /\ ~Embedded => \A k \in Key : k.what \in setup.malformed => log[k] = <<>>

\* A step of an executor concerns its own item: of the others, those of an
\* abandoned batch may be gone, and every key is what it was.
OwnItemOnly(s, a) ==
  \A t \in Session, b \in Action :
    /\ KeyOf(t, b)' = KeyOf(t, b)
    /\ t # s \/ b # a => work'[t][b].pc = "none" \/ work'[t][b] = work[t][b]

LEMMA ItemIsOwn ==
  ASSUME TypeInv, NEW s \in Session, NEW a \in Action, NEW item, SetItem(s, a, item), UNCHANGED ses
  PROVE  OwnItemOnly(s, a) /\ work'[s][a] = item
<1>1. work \in [Session -> [Action -> Item]]
  BY DEF TypeInv, PlacesOK
<1>2. \A t \in Session, b \in Action : t # s \/ b # a => work'[t][b] = work[t][b]
  BY <1>1 DEF SetItem
<1>3. work'[s][a] = item
  BY <1>1 DEF SetItem
<1>. QED  BY <1>2, <1>3 DEF OwnItemOnly, KeyOf

LEMMA ContinueIsOwn ==
  ASSUME TypeInv, NEW s \in Session, NEW a \in Action, NEW pc \in Working,
         Continue(s, a, pc), UNCHANGED ses
  PROVE  OwnItemOnly(s, a) /\ work'[s][a].pc = pc
<1>1. [work[s][a] EXCEPT !.pc = pc].pc = pc
  BY ItemUpdates DEF TypeInv, PlacesOK
<1>. QED  BY <1>1, ItemIsOwn DEF Continue

LEMMA ReportIsOwn ==
  ASSUME TypeInv, NEW s \in Session, NEW a \in Action, NEW outcome \in Outcome,
         Report(s, a, outcome), UNCHANGED ses
  PROVE  OwnItemOnly(s, a) /\ work'[s][a].pc \in Resting
<1>1. work[s][a] \in Item
  BY DEF TypeInv, PlacesOK
<1>2. [work[s][a] EXCEPT !.pc = outcome].pc = outcome
  BY <1>1, ItemUpdates
<1>3. NoItem.pc = "none"
  BY RestingValues
<1>. QED  BY <1>2, <1>3, ItemIsOwn DEF Report, Resting

LEMMA EscapeIsOwn ==
  ASSUME TypeInv, NEW s \in Session, NEW a \in Action, Escape(s, a)
  PROVE  OwnItemOnly(s, a) /\ work'[s][a].pc \in Resting
<1>1. ses \in [Session -> SessionState] /\ work \in [Session -> [Action -> Item]]
  BY DEF TypeInv, PlacesOK
<1>2. CASE work[s][a].approval = 0
  <2>. DEFINE y == [Off EXCEPT !.at = ses[s].at]
              x == [y EXCEPT !.made = ses[s].made]
  <2>1. x.at = ses[s].at /\ x.made = ses[s].made
    BY DEF Off
  <2>2. ses' = [ses EXCEPT ![s] = x]
    BY <1>2 DEF Escape, Off
  <2>3. work' = [work EXCEPT ![s] =
                   [b \in Action |-> IF b # a /\ work[s][b].pc \in Working THEN work[s][b] ELSE NoItem]]
    BY <1>1, <1>2 DEF Escape
  <2>. HIDE DEF x
  <2>4. ASSUME NEW t \in Session, NEW b \in Action
        PROVE  /\ work'[t][b].pc = "none" \/ work'[t][b] = work[t][b]
               /\ ses'[t].at = ses[t].at /\ ses'[t].made = ses[t].made
    BY <1>1, <2>1, <2>2, <2>3, RestingValues
  <2>5. work'[s][a].pc = "none"
    BY <1>1, <2>3, RestingValues
  <2>. QED  BY <2>4, <2>5 DEF OwnItemOnly, KeyOf, Resting
<1>. QED  BY <1>2, ReportIsOwn DEF Escape, Outcome

\* What was written last is what is found.
LEMMA WriteIsLatest ==
  ASSUME TypeInv, NEW k \in Key, NEW entry \in JournalStatus, Write(k, entry)
  PROVE  /\ log'[k] # <<>> /\ Latest(k)' = entry
         /\ \A j \in Key \ {k} : log'[j] = log[j]
<1>1. log \in [Key -> Seq(JournalStatus)] /\ log[k] \in Seq(JournalStatus)
  BY DEF TypeInv, MemoryOK
<1>2. CASE Embedded
  <2>1. log'[k] = Append(log[k], entry)
    BY <1>1, <1>2 DEF Write
  <2>2. Len(log'[k]) = Len(log[k]) + 1 /\ log'[k][Len(log[k]) + 1] = entry /\ log'[k] # <<>>
    BY <1>1, <2>1
  <2>. QED  BY <1>1, <2>2 DEF Latest, Write
<1>3. CASE ~Embedded
  <2>1. log'[k] = <<entry>>
    BY <1>1, <1>3 DEF Write
  <2>2. Len(log'[k]) = 1 /\ log'[k][1] = entry /\ log'[k] # <<>>
    BY <2>1
  <2>. QED  BY <1>1, <2>2 DEF Latest, Write
<1>. QED  BY <1>2, <1>3

\* Nothing is written, and who is due or has an intent was so before: an item that
\* has just been looked up excepted.
LEMMA UnsettledStands ==
  ASSUME TypeInv, Unsettled, UNCHANGED <<setup, log>>, Embedded => Alone',
         \A s \in Session, a \in Action :
           /\ work'[s][a].pc \in Intended => work[s][a].pc \in Intended /\ KeyOf(s, a)' = KeyOf(s, a)
           /\ work'[s][a].pc \in Due =>
                KeyOf(s, a)' = KeyOf(s, a) /\ (work[s][a].pc \in Due \/ ~Settled(KeyOf(s, a)))
  PROVE  Unsettled'
<1>1. \A k \in Key : Latest(k)' = Latest(k) /\ (Settled(k)' <=> Settled(k))
  BY DEF Latest, Settled
<1>2. \A s \in Session, a \in Action :
        work[s][a].pc # "none" => KeyOf(s, a) \in Key
  BY KeyIsKey
<1>3. ASSUME NEW s \in Session, NEW a \in Action, work'[s][a].pc \in Intended
      PROVE  Latest(KeyOf(s, a))' = "executing"
  <2>1. KeyOf(s, a) \in Key /\ KeyOf(s, a)' = KeyOf(s, a) /\ work[s][a].pc \in Intended
    BY <1>2, <1>3 DEF Intended
  <2>. QED  BY <2>1 DEF Unsettled, Latest
<1>4. ASSUME NEW s \in Session, NEW t \in Session, NEW a \in Action,
             work'[s][a].pc \in Intended, work'[t][a].pc \in Intended, KeyOf(s, a)' = KeyOf(t, a)'
      PROVE  s = t
  BY <1>4 DEF Unsettled
<1>5. ASSUME Embedded, NEW s \in Session, NEW a \in Action, work'[s][a].pc \in Due
      PROVE  ~Settled(KeyOf(s, a))'
  <2>1. KeyOf(s, a)' = KeyOf(s, a) /\ ~Settled(KeyOf(s, a))
    BY <1>5 DEF Unsettled
  <2>. QED  BY <2>1 DEF Settled, Latest
<1>. QED  BY <1>3, <1>4, <1>5 DEF Unsettled, Embedded

LEMMA AloneStands ==
  ASSUME Alone, NEW s \in Session, NEW a \in Action, work[s][a].pc # "none",
         OwnItemOnly(s, a), UNCHANGED ses
  PROVE  Alone'
BY DEF Alone, OwnItemOnly, At

\* An item moves on without a write of the journal.
LEMMA ItemKeepsUnsettled ==
  ASSUME TypeInv, Unsettled, NEW s \in Session, NEW a \in Action, work[s][a].pc # "none",
         OwnItemOnly(s, a), UNCHANGED <<setup, log, ses>>,
         work'[s][a].pc \in Intended => work[s][a].pc \in Intended,
         work'[s][a].pc \in Due => work[s][a].pc \in Due \/ ~Settled(KeyOf(s, a))
  PROVE  Unsettled'
<1>1. Embedded => Alone'
  BY AloneStands DEF Unsettled
<1>2. ASSUME NEW t \in Session, NEW b \in Action
      PROVE  /\ work'[t][b].pc \in Intended => work[t][b].pc \in Intended /\ KeyOf(t, b)' = KeyOf(t, b)
             /\ work'[t][b].pc \in Due =>
                  KeyOf(t, b)' = KeyOf(t, b) /\ (work[t][b].pc \in Due \/ ~Settled(KeyOf(t, b)))
  <2>1. CASE t = s /\ b = a
    BY <2>1 DEF OwnItemOnly
  <2>2. CASE t # s \/ b # a
    BY <2>2 DEF OwnItemOnly, Intended, Due
  <2>. QED  BY <2>1, <2>2
<1>3. UNCHANGED <<setup, log>>
  OBVIOUS
<1>. QED  BY <1>1, <1>2, <1>3, UnsettledStands

\* An item's write concerns the one who may write: nobody else has an intent
\* under its key, and what the item does next needs no entry that is not there.
LEMMA WriteKeepsUnsettled ==
  ASSUME TypeInv, Unsettled, NEW s \in Session, NEW a \in Action, work[s][a].pc # "none",
         OwnItemOnly(s, a), UNCHANGED <<setup, ses>>,
         NEW entry \in JournalStatus, Write(KeyOf(s, a), entry),
         \A t \in Session : work[t][a].pc \in Intended /\ KeyOf(t, a) = KeyOf(s, a) => t = s,
         work'[s][a].pc \in Intended => entry = "executing",
         work'[s][a].pc \notin Due,
         ~Embedded => a \notin setup.malformed
  PROVE  Unsettled'
<1>k. PICK k \in Key : k = KeyOf(s, a)
  BY KeyIsKey
<1>1. /\ Write(k, entry) /\ k.what = a
      /\ \A t \in Session, b \in Action : KeyOf(t, b).what = b
  BY <1>k DEF KeyOf
<1>2. /\ Latest(k)' = entry
      /\ \A j \in Key \ {k} : log'[j] = log[j] /\ Latest(j)' = Latest(j) /\ (Settled(j)' <=> Settled(j))
  <2>1. Latest(k)' = entry /\ \A j \in Key \ {k} : log'[j] = log[j]
    BY <1>1, WriteIsLatest
  <2>2. ASSUME NEW j, log'[j] = log[j]
        PROVE  Latest(j)' = Latest(j) /\ (Settled(j)' <=> Settled(j))
    BY <2>2 DEF Latest, Settled
  <2>. QED  BY <2>1, <2>2
<1>3. \A t \in Session, b \in Action : KeyOf(t, b)' = KeyOf(t, b)
  BY DEF OwnItemOnly
<1>4. ASSUME NEW t \in Session, NEW b \in Action, t # s \/ b # a, work'[t][b].pc # "none"
      PROVE  work'[t][b] = work[t][b] /\ work[t][b].pc # "none" /\ KeyOf(t, b) \in Key
  BY <1>4, KeyIsKey DEF OwnItemOnly
<1>5. ASSUME NEW t \in Session, NEW b \in Action, t # s \/ b # a, work'[t][b].pc \in Intended
      PROVE  work[t][b].pc \in Intended /\ KeyOf(t, b) \in Key \ {k}
  <2>1. work[t][b].pc \in Intended /\ KeyOf(t, b) \in Key
    BY <1>4, <1>5 DEF Intended
  <2>2. KeyOf(t, b) # k
    BY <1>1, <1>5, <1>k, <2>1
  <2>. QED  BY <2>1, <2>2
<1>6. ASSUME NEW t \in Session, NEW b \in Action, work'[t][b].pc \in Intended
      PROVE  Latest(KeyOf(t, b))' = "executing"
  <2>1. CASE t = s /\ b = a
    BY <1>2, <1>3, <1>6, <1>k, <2>1 DEF Latest
  <2>2. CASE t # s \/ b # a
    <3>1. work[t][b].pc \in Intended /\ KeyOf(t, b) \in Key \ {k}
      BY <1>5, <1>6, <2>2
    <3>2. Latest(KeyOf(t, b)) = "executing" /\ log'[KeyOf(t, b)] = log[KeyOf(t, b)]
      BY <1>2, <3>1 DEF Unsettled
    <3>. QED  BY <1>3, <3>2 DEF Latest
  <2>. QED  BY <2>1, <2>2
<1>7. ASSUME NEW t \in Session, NEW u \in Session, NEW b \in Action,
             work'[t][b].pc \in Intended, work'[u][b].pc \in Intended, KeyOf(t, b)' = KeyOf(u, b)'
      PROVE  t = u
  <2>1. KeyOf(t, b) = KeyOf(u, b)
    BY <1>3, <1>7
  <2>2. CASE b = a /\ (t = s \/ u = s)
    BY <1>5, <1>7, <1>k, <2>1, <2>2
  <2>3. CASE ~(b = a /\ (t = s \/ u = s))
    <3>1. work[t][b].pc \in Intended /\ work[u][b].pc \in Intended
      BY <1>5, <1>7, <2>3
    <3>. QED  BY <2>1, <3>1 DEF Unsettled
  <2>. QED  BY <2>2, <2>3
<1>8. Embedded => Alone'
  BY AloneStands DEF Unsettled
<1>9. ASSUME Embedded, NEW t \in Session, NEW b \in Action, work'[t][b].pc \in Due
      PROVE  ~Settled(KeyOf(t, b))'
  <2>1. t # s \/ b # a
    BY <1>9
  <2>2. work[t][b].pc \in Due /\ KeyOf(t, b) \in Key
    BY <1>4, <1>9, <2>1 DEF Due
  <2>3. t = s
    BY <1>9, <2>2 DEF Unsettled, Alone, Due
  <2>4. KeyOf(t, b) \in Key \ {k}
    BY <1>1, <2>1, <2>2, <2>3
  <2>5. log'[KeyOf(t, b)] = log[KeyOf(t, b)] /\ ~Settled(KeyOf(t, b))
    BY <1>2, <1>9, <2>2, <2>4 DEF Unsettled
  <2>. QED  BY <1>3, <2>5 DEF Settled, Latest
<1>10. ASSUME ~Embedded, NEW j \in Key, j.what \in setup.malformed
       PROVE  log'[j] = <<>>
  <2>1. j # k
    BY <1>1, <1>10
  <2>. QED  BY <1>2, <1>10, <2>1 DEF Unsettled
<1>. QED  BY <1>6, <1>7, <1>8, <1>9, <1>10 DEF Unsettled, Embedded

LEMMA ExecutorKeepsUnsettled ==
  ASSUME TypeInv, Unsettled, NEW s \in Session, NEW a \in Action, ExecutorStep(s, a)
  PROVE  Unsettled'
<1>1. ASSUME NEW outcome \in Outcome, Report(s, a, outcome), work[s][a].pc # "none",
             UNCHANGED <<setup, log, ses>>
      PROVE  Unsettled'
  <2>1. OwnItemOnly(s, a) /\ work'[s][a].pc \in Resting
    BY <1>1, ReportIsOwn
  <2>. QED  BY <1>1, <2>1, ItemKeepsUnsettled DEF Resting, Outcome, Intended, Due
<1>2. ASSUME NEW pc \in Working, Continue(s, a, pc), work[s][a].pc # "none",
             UNCHANGED <<setup, log, ses>>,
             pc \in Intended => work[s][a].pc \in Intended,
             pc \in Due => work[s][a].pc \in Due \/ ~Settled(KeyOf(s, a))
      PROVE  Unsettled'
  <2>1. OwnItemOnly(s, a) /\ work'[s][a].pc = pc
    BY <1>2, ContinueIsOwn
  <2>. QED  BY <1>2, <2>1, ItemKeepsUnsettled
<1>3. ASSUME ~Embedded, Escape(s, a), UNCHANGED <<setup, log>> PROVE Unsettled'
  <2>1. OwnItemOnly(s, a) /\ work'[s][a].pc \in Resting
    BY <1>3, EscapeIsOwn
  <2>2. ASSUME NEW t \in Session, NEW b \in Action, work'[t][b].pc \in Intended \cup Due
        PROVE  work'[t][b] = work[t][b] /\ KeyOf(t, b)' = KeyOf(t, b)
    BY <2>1, <2>2 DEF OwnItemOnly, Resting, Outcome, Intended, Due
  <2>. QED  BY <1>3, <2>2, UnsettledStands
<1>4. ASSUME work[s][a].pc # "none", Embedded, NEW t \in Session, work[t][a].pc # "none"
      PROVE  t = s
  BY <1>4 DEF Unsettled, Alone
<1>5. ASSUME ExecutorOnly PROVE UNCHANGED <<setup, ses>>
  BY <1>5 DEF ExecutorOnly
<1>6. CASE Lookup(s, a)
  <2>1. work[s][a].pc # "none" /\ UNCHANGED <<setup, log, ses>>
    BY <1>5, <1>6 DEF Lookup, Doing
  <2>2. CASE Settled(KeyOf(s, a)) /\ Report(s, a, Latest(KeyOf(s, a)))
    <3>1. Latest(KeyOf(s, a)) \in Outcome
      BY <2>2 DEF Settled, Outcome
    <3>. QED  BY <1>1, <2>1, <2>2, <3>1
  <2>3. CASE ~Settled(KeyOf(s, a)) /\ (Report(s, a, "denied") \/ Continue(s, a, "ready") \/ Continue(s, a, "gate"))
    BY <1>1, <1>2, <2>1, <2>3 DEF Outcome, Working, Intended
  <2>. QED  BY <1>6, <2>2, <2>3 DEF Lookup
<1>7. CASE Gate(s, a)
  <2>1. work[s][a].pc = "gate" /\ UNCHANGED <<setup, log, ses>>
    BY <1>5, <1>7 DEF Gate, Doing
  <2>2. CASE Continue(s, a, "request") \/ Report(s, a, "awaiting_approval")
    BY <1>1, <1>2, <2>1, <2>2 DEF Outcome, Working, Intended, Due
  <2>3. ASSUME NEW i, SetItem(s, a, [pc |-> "resolve", approval |-> i]) PROVE Unsettled'
    <3>1. OwnItemOnly(s, a) /\ work'[s][a].pc = "resolve"
      BY <2>1, <2>3, ItemIsOwn
    <3>. QED  BY <2>1, <3>1, ItemKeepsUnsettled DEF Intended, Due
  <2>. QED  BY <1>7, <2>2, <2>3 DEF Gate
<1>8. CASE Request(s, a)
  BY <1>1, <1>5, <1>8 DEF Request, Doing, Outcome
<1>9. CASE Resolve(s, a)
  BY <1>1, <1>2, <1>5, <1>9 DEF Resolve, Doing, Outcome, Working, Intended, Due
<1>10. CASE RefuseInput(s, a)
  <2>1. /\ work[s][a].pc = "ready" /\ a \in setup.malformed /\ UNCHANGED setup
        /\ KeyOf(s, a) \in Key /\ KeyOf(s, a).what = a
    BY <1>10, KeyIsKey DEF RefuseInput, Doing, KeyOf
  <2>2. ~Embedded => ~CommitAccepted(KeyOf(s, a))
    BY <2>1 DEF Unsettled, CommitAccepted
  <2>3. CASE Write(KeyOf(s, a), "failed") /\ Report(s, a, "failed") /\ UNCHANGED ses /\ Embedded
    <3>1. OwnItemOnly(s, a) /\ work'[s][a].pc \in Resting
      BY <2>3, ReportIsOwn DEF Outcome
    <3>2. \A t \in Session : work[t][a].pc \in Intended => t = s
      BY <1>4, <2>1, <2>3 DEF Intended
    <3>. QED  BY <2>1, <2>3, <3>1, <3>2, WriteKeepsUnsettled
              DEF JournalStatus, Resting, Outcome, Intended, Due
  <2>4. CASE ~CommitAccepted(KeyOf(s, a)) /\ Escape(s, a) /\ UNCHANGED log
    BY <1>3, <2>1, <2>4 DEF CommitAccepted
  <2>. QED  BY <1>10, <2>2, <2>3, <2>4 DEF RefuseInput
<1>11. CASE Intend(s, a)
  <2>1. /\ work[s][a].pc = "ready" /\ a \notin setup.malformed /\ UNCHANGED setup
        /\ KeyOf(s, a) \in Key
    BY <1>11, KeyIsKey DEF Intend, Doing
  <2>2. CASE /\ IntentAccepted(KeyOf(s, a)) /\ Write(KeyOf(s, a), "executing")
             /\ Continue(s, a, "run") /\ UNCHANGED ses
    <3>1. OwnItemOnly(s, a) /\ work'[s][a].pc = "run"
      BY <2>2, ContinueIsOwn DEF Working
    <3>2. ASSUME NEW t \in Session, work[t][a].pc \in Intended, KeyOf(t, a) = KeyOf(s, a)
          PROVE  t = s
      <4>1. CASE Embedded
        BY <1>4, <2>1, <3>2, <4>1 DEF Intended
      <4>2. CASE log[KeyOf(s, a)] = <<>>
        BY <3>2, <4>2 DEF Unsettled, Latest
      <4>. QED  BY <2>2, <4>1, <4>2 DEF IntentAccepted
    <3>. QED  BY <2>1, <2>2, <3>1, <3>2, WriteKeepsUnsettled DEF JournalStatus, Due
  <2>3. CASE ~IntentAccepted(KeyOf(s, a)) /\ Escape(s, a) /\ UNCHANGED log
    BY <1>3, <2>1, <2>3 DEF IntentAccepted
  <2>. QED  BY <1>11, <2>2, <2>3 DEF Intend
<1>12. CASE Run(s, a)
  <2>1. work[s][a].pc = "run" /\ UNCHANGED <<setup, log, ses>>
    BY <1>5, <1>12 DEF Run, Doing
  <2>2. \E end \in {"landed", "broke"} : Continue(s, a, end)
    BY <1>12 DEF Run
  <2>. QED  BY <1>2, <2>1, <2>2 DEF Working, Intended, Due
<1>13. CASE Commit(s, a)
  <2>1. /\ work[s][a].pc \in Intended /\ UNCHANGED <<setup, ses>>
        /\ KeyOf(s, a) \in Key /\ KeyOf(s, a).what = a
    BY <1>5, <1>13, KeyIsKey DEF Commit, Intended, KeyOf
  <2>2. PICK end \in {"succeeded", "failed"} : Write(KeyOf(s, a), end) /\ Report(s, a, end)
    BY <1>13 DEF Commit
  <2>3. OwnItemOnly(s, a) /\ work'[s][a].pc \in Resting
    BY <2>1, <2>2, ReportIsOwn DEF Outcome
  <2>4. \A t \in Session : work[t][a].pc \in Intended /\ KeyOf(t, a) = KeyOf(s, a) => t = s
    BY <2>1 DEF Unsettled
  <2>5. ~Embedded => a \notin setup.malformed
    BY <2>1 DEF Unsettled, Latest
  <2>. QED  BY <2>1, <2>2, <2>3, <2>4, <2>5, WriteKeepsUnsettled
            DEF JournalStatus, Resting, Outcome, Intended, Due
<1>. QED  BY <1>6, <1>7, <1>8, <1>9, <1>10, <1>11, <1>12, <1>13 DEF ExecutorStep

\* One session begins when all are off, and it alone moves on.
LEMMA SessionKeepsAlone ==
  ASSUME TypeInv, Embedded, Alone, NEW s \in Session, SessionStep(s)
  PROVE  Alone'
<1>1. ses \in [Session -> SessionState] /\ work \in [Session -> [Action -> Item]]
  BY DEF TypeInv, PlacesOK
<1>2. NoWork \in [Action -> Item] /\ \A a \in Action : NoWork[a].pc = "none"
  BY RestingValues
<1>3. ASSUME NEW x, NEW items \in [Action -> Item],
             ses' = [ses EXCEPT ![s] = x], work' = [work EXCEPT ![s] = items],
             x.pc = "off" => \A a \in Action : items[a].pc = "none",
             \A t \in Session \ {s} : At(t, "off")
      PROVE  Alone'
  <2>1. ASSUME NEW t \in Session \ {s} PROVE At(t, "off")' /\ work'[t] = work[t]
    BY <1>1, <1>3 DEF At
  <2>2. ses'[s] = x /\ work'[s] = items
    BY <1>1, <1>3
  <2>. QED  BY <1>3, <2>1, <2>2 DEF Alone, At
<1>4. CASE Begin(s)
  <2>1. PICK x : ses' = [ses EXCEPT ![s] = x]
    BY <1>4 DEF Begin, SetSession
  <2>2. work' = [work EXCEPT ![s] = NoWork]
    BY <1>1, <1>4 DEF Begin
  <2>. QED  BY <1>2, <1>3, <1>4, <2>1, <2>2 DEF Begin
<1>5. ASSUME ~Begin(s) PROVE \A t \in Session \ {s} : At(t, "off")
  BY <1>5 DEF SessionStep, Ask, Finish, Record, Abandon, GoOn, GiveUp, Retried, Retry, Alone, At
<1>6. ASSUME NEW x, SetSession(s, x), DropWork(s), ~Begin(s) PROVE Alone'
  BY <1>2, <1>3, <1>5, <1>6 DEF SetSession, DropWork
<1>7. ASSUME NEW end, Leave(s, end), ~Begin(s) PROVE Alone'
  BY <1>6, <1>7 DEF Leave
<1>8. ASSUME SetSession(s, [ses[s] EXCEPT !.pc = "mend"]), UNCHANGED work, ~Begin(s) PROVE Alone'
  <2>1. [ses[s] EXCEPT !.pc = "mend"].pc = "mend"
    BY <1>1 DEF SessionState
  <2>2. work' = [work EXCEPT ![s] = work[s]] /\ work[s] \in [Action -> Item]
    BY <1>1, <1>8
  <2>. QED  BY <1>3, <1>5, <1>8, <2>1, <2>2 DEF SetSession
<1>9. CASE Ask(s) /\ ~Begin(s)
  <2>1. PICK batch \in SUBSET Action :
          work' = [work EXCEPT ![s] =
                    [a \in Action |-> IF a \in batch THEN [NoItem EXCEPT !.pc = "lookup"] ELSE NoItem]]
    BY <1>9 DEF Ask
  <2>. DEFINE items == [a \in Action |-> IF a \in batch THEN [NoItem EXCEPT !.pc = "lookup"] ELSE NoItem]
              x == [ses[s] EXCEPT !.pc = "act", !.made = ses[s].attempts, !.pending = Uncommitted]
  <2>2. items \in [Action -> Item]
    BY RestingValues, ItemUpdates DEF Working
  <2>3. x.pc = "act" /\ ses' = [ses EXCEPT ![s] = x]
    BY <1>1, <1>9 DEF Ask, SetSession, SessionState
  <2>. HIDE DEF items, x
  <2>. QED  BY <1>3, <1>5, <1>9, <2>1, <2>2, <2>3 DEF items
<1>10. CASE (Finish(s) \/ Abandon(s) \/ GiveUp(s)) /\ ~Begin(s)
  BY <1>7, <1>10 DEF Finish, Abandon, GiveUp
<1>11. CASE (Record(s) \/ GoOn(s) \/ Retried(s)) /\ ~Begin(s)
  BY <1>6, <1>7, <1>8, <1>11 DEF Record, GoOn, Retried
<1>12. ASSUME NEW a \in Action, Retry(s, a), ~Begin(s) PROVE Alone'
  <2>. DEFINE items == [NoWork EXCEPT ![a].pc = "lookup"]
              x == [ses[s] EXCEPT !.pc = "retry", !.tries = ses[s].tries + 1, !.attempts = ses[s].attempts + 1]
  <2>1. items \in [Action -> Item]
    BY <1>2, ItemUpdates DEF Working
  <2>2. x.pc = "retry" /\ ses' = [ses EXCEPT ![s] = x] /\ work' = [work EXCEPT ![s] = items]
    BY <1>1, <1>12 DEF Retry, SetSession, SessionState
  <2>. HIDE DEF items, x
  <2>. QED  BY <1>3, <1>5, <1>12, <2>1, <2>2
<1>. QED  BY <1>4, <1>9, <1>10, <1>11, <1>12 DEF SessionStep

LEMMA CrashKeepsAlone ==
  ASSUME TypeInv, Embedded, NEW s \in Session, Crash(s)
  PROVE  Alone'
<1>1. ses' = [u \in Session |-> Off] /\ work' = [u \in Session |-> NoWork]
  BY DEF Crash
<1>. QED  BY <1>1, RestingValues DEF Alone, At

\* Sessions, crashes and operators write nothing in the journal.
LEMMA OthersWriteNothing ==
  ASSUME NEW s \in Session, SessionStep(s) \/ Crash(s)
  PROVE  UNCHANGED <<setup, log, effects, approvals, granted>>
BY DEF SessionStep, Begin, Ask, Finish, Record, Abandon, GoOn, GiveUp, Retried, Retry, SessionOnly, Crash

LEMMA StepKeepsUnsettled ==
  ASSUME TypeInv, Unsettled, [Next]_vars
  PROVE  Unsettled'
<1>1. ASSUME NoProgress, UNCHANGED <<setup, log>>, Embedded => Alone' PROVE Unsettled'
  BY <1>1, UnsettledStands DEF NoProgress, Intended, Due
<1>2. ASSUME NEW s \in Session, NEW a \in Action, ExecutorStep(s, a) PROVE Unsettled'
  BY <1>2, ExecutorKeepsUnsettled
<1>3. ASSUME NEW s \in Session, SessionStep(s) PROVE Unsettled'
  BY <1>1, <1>3, OthersWriteNothing, SessionRests, SessionKeepsAlone DEF Unsettled
<1>4. ASSUME NEW s \in Session, Crash(s) PROVE Unsettled'
  BY <1>1, <1>4, OthersWriteNothing, CrashRests, CrashKeepsAlone
<1>5. ASSUME UNCHANGED <<setup, log, ses, work>> PROVE Unsettled'
  <2>1. NoProgress /\ (Alone => Alone')
    BY <1>5 DEF NoProgress, KeyOf, Alone, At
  <2>. QED  BY <1>1, <1>5, <2>1 DEF Unsettled
<1>. QED  BY <1>2, <1>3, <1>4, <1>5, OperatorRests DEF Next, vars

LEMMA InitUnsettled == Init => Unsettled
<1>. SUFFICES ASSUME Init PROVE Unsettled
  OBVIOUS
<1>1. \A s \in Session : At(s, "off") /\ \A a \in Action : work[s][a].pc = "none"
  BY RestingValues DEF Init, At
<1>. QED  BY <1>1 DEF Init, Unsettled, Alone, Intended, Due

\* Whoever writes an entry or causes an effect finds its key unsettled.
LEMMA SettledStays ==
  ASSUME TypeInv, Unsettled, [Next]_vars, NEW k \in Key, Settled(k)
  PROVE  log'[k] = log[k] /\ effects'[k] = effects[k]
<1>1. CASE UNCHANGED <<log, effects>>
  BY <1>1
<1>2. ASSUME NEW s \in Session, NEW a \in Action, ExecutorStep(s, a)
      PROVE  log'[k] = log[k] /\ effects'[k] = effects[k]
  <2>1. CASE Lookup(s, a) \/ Gate(s, a) \/ Request(s, a) \/ Resolve(s, a)
    BY <2>1 DEF Lookup, Gate, Request, Resolve
  <2>2. CASE RefuseInput(s, a)
    <3>1. /\ work[s][a].pc = "ready" /\ a \in setup.malformed /\ UNCHANGED effects
          /\ KeyOf(s, a) \in Key /\ KeyOf(s, a).what = a
      BY <2>2, KeyIsKey DEF RefuseInput, Doing, KeyOf
    <3>2. CASE CommitAccepted(KeyOf(s, a)) /\ Write(KeyOf(s, a), "failed")
      <4>1. Embedded /\ KeyOf(s, a) # k
        BY <3>1, <3>2 DEF Unsettled, CommitAccepted, Due
      <4>. QED  BY <3>1, <3>2, <4>1, WriteIsLatest DEF JournalStatus
    <3>. QED  BY <2>2, <3>1, <3>2 DEF RefuseInput
  <2>3. CASE Intend(s, a)
    <3>1. work[s][a].pc = "ready" /\ UNCHANGED effects /\ KeyOf(s, a) \in Key
      BY <2>3, KeyIsKey DEF Intend, Doing
    <3>2. CASE IntentAccepted(KeyOf(s, a)) /\ Write(KeyOf(s, a), "executing")
      <4>1. CASE Embedded
        BY <3>1, <4>1, <3>2, WriteIsLatest DEF Unsettled, Due, JournalStatus
      <4>2. CASE log[KeyOf(s, a)] = <<>>
        BY <3>1, <4>2, <3>2, WriteIsLatest DEF Settled, Latest, JournalStatus
      <4>. QED  BY <3>2, <4>1, <4>2 DEF IntentAccepted
    <3>. QED  BY <2>3, <3>1, <3>2 DEF Intend
  <2>4. CASE Run(s, a)
    <3>1. KeyOf(s, a) \in Key /\ ~Settled(KeyOf(s, a)) /\ effects \in [Key -> Nat] /\ UNCHANGED log
      BY <2>4, KeyIsKey DEF Run, Doing, Unsettled, Intended, Settled, TypeInv, MemoryOK
    <3>. QED  BY <2>4, <3>1 DEF Run
  <2>5. CASE Commit(s, a)
    <3>1. /\ KeyOf(s, a) \in Key /\ ~Settled(KeyOf(s, a)) /\ UNCHANGED effects
          /\ \E end \in {"succeeded", "failed"} : Write(KeyOf(s, a), end)
      BY <2>5, KeyIsKey DEF Commit, Unsettled, Intended, Settled
    <3>. QED  BY <3>1, WriteIsLatest DEF JournalStatus
  <2>. QED  BY <1>2, <2>1, <2>2, <2>3, <2>4, <2>5 DEF ExecutorStep
<1>. QED  BY <1>1, <1>2, OthersWriteNothing, OperatorRests DEF Next, vars

\* What the journal has as done, or as failed when it must not be repeated, is
\* neither intended nor done again under its key, whatever sessions retry, crash,
\* resume and overlap: with the embedded store because one session at a time
\* looks it up and acts, with a database because of the unique index.
THEOREM SettledKeysAreLeftAlone == Spec => SettledIsNotRedone
<1>1. Init => TypeInv /\ Unsettled
  BY InitTyped, InitUnsettled
<1>2. TypeInv /\ Unsettled /\ [Next]_vars => TypeInv' /\ Unsettled'
  BY StepTyped, StepKeepsUnsettled
<1>3. TypeInv /\ Unsettled /\ [Next]_vars =>
        [\A k \in Key :
           Latest(k) = "succeeded" \/ (Latest(k) = "failed" /\ k.what \notin Repeatable)
             => log'[k] = log[k] /\ effects'[k] = effects[k]]_vars
  BY SettledStays DEF Settled
<1>. QED  BY <1>1, <1>2, <1>3, PTL DEF Spec, SettledIsNotRedone

-----------------------------------------------------------------------------
(* What is asked                                                            *)

\* No operator has read the run to cancel it.
Uncancelled == \A o \in Operator : desk[o].pc \notin {"cancel", "cancelled"}

\* A request is made by the one session there is, for a fingerprint that has none.
Asked ==
  Embedded /\ Uncancelled =>
    \A a \in Action :
      /\ Len(approvals[a]) <= 1
      /\ \A i \in DOMAIN approvals[a] : approvals[a][i] # "cancelled"
      /\ \A s \in Session : work[s][a].pc = "request" => approvals[a] = <<>>

\* Whoever cancels is known from then on to have cancelled.
LEMMA CancellationsAreRemembered ==
  ASSUME TypeInv, [Next]_vars, Uncancelled'
  PROVE  Uncancelled /\ \A o \in Operator : ~CancelRead(o) /\ ~CancelApproval(o) /\ ~CancelRow(o)
<1>1. desk \in [Operator -> Desk]
  BY DEF TypeInv
<1>2. ASSUME NEW o \in Operator
      PROVE  /\ Dropped(desk[o]).pc = "cancel" => desk[o].pc = "cancel"
             /\ desk[o].pc \in {"cancel", "cancelled"} => Dropped(desk[o]).pc = "cancelled"
  <2>. DEFINE pc == CASE desk[o].pc = "decide" -> "decided"
                      [] desk[o].pc = "cancel" -> "cancelled"
                      [] OTHER -> desk[o].pc
  <2>1. pc = IF desk[o].pc = "decide" THEN "decided"
             ELSE IF desk[o].pc = "cancel" THEN "cancelled" ELSE desk[o].pc
    OBVIOUS
  <2>2. Dropped(desk[o]) = [FreeDesk EXCEPT !.pc = pc]
    BY DEF Dropped
  <2>. HIDE DEF pc
  <2>3. Dropped(desk[o]).pc = pc
    BY <2>2 DEF FreeDesk
  <2>. QED  BY <2>1, <2>3
<1>3. ASSUME NEW o \in Operator
      PROVE  ~CancelRead(o) /\ ~CancelApproval(o) /\ ~CancelRow(o)
  <2>1. ASSUME CancelRead(o) PROVE FALSE
    <3>1. desk' = [desk EXCEPT ![o] = [pc |-> "cancel", left |-> Pending, seen |-> <<starts, owner>>]]
      BY <2>1 DEF CancelRead, SetDesk
    <3>2. desk'[o].pc = "cancel"
      BY <1>1, <3>1
    <3>. QED  BY <3>2 DEF Uncancelled
  <2>2. ASSUME CancelApproval(o) PROVE FALSE
    <3>1. PICK left : desk[o].pc = "cancel" /\ desk' = [desk EXCEPT ![o] = [desk[o] EXCEPT !.left = left]]
      BY <2>2 DEF CancelApproval, SetDesk
    <3>2. [desk[o] EXCEPT !.left = left].pc = "cancel"
      BY <1>1, <3>1 DEF Desk
    <3>. QED  BY <1>1, <3>1, <3>2 DEF Uncancelled
  <2>3. ASSUME CancelRow(o) PROVE FALSE
    <3>1. desk[o].pc = "cancel" /\ desk' = [desk EXCEPT ![o] = Dropped(desk[o])]
      BY <2>3 DEF CancelRow, SetDesk
    <3>. QED  BY <1>1, <1>2, <3>1 DEF Uncancelled
  <2>. QED  BY <2>1, <2>2, <2>3
<1>4. ASSUME UNCHANGED desk PROVE Uncancelled
  BY <1>4 DEF Uncancelled
<1>5. ASSUME NEW o \in Operator, DecideRead(o) \/ DecideWrite(o) PROVE Uncancelled
  <2>1. desk[o].pc \notin {"cancel", "cancelled"}
    <3>1. CASE DecideRead(o)
      BY <3>1 DEF DecideRead, MayCall
    <3>2. CASE DecideWrite(o)
      BY <3>2 DEF DecideWrite
    <3>. QED  BY <1>5, <3>1, <3>2
  <2>2. \E next : desk' = [desk EXCEPT ![o] = next]
    <3>1. CASE DecideRead(o)
      BY <3>1 DEF DecideRead, SetDesk
    <3>2. CASE DecideWrite(o)
      BY <3>2 DEF DecideWrite, SetDesk
    <3>. QED  BY <1>5, <3>1, <3>2
  <2>3. \A p \in Operator \ {o} : desk'[p] = desk[p]
    BY <1>1, <2>2
  <2>. QED  BY <2>1, <2>3 DEF Uncancelled
<1>6. ASSUME NEW s \in Session, Crash(s) PROVE Uncancelled
  BY <1>2, <1>4, <1>6 DEF Crash, Uncancelled
<1>7. ASSUME NEW s \in Session, SessionStep(s) PROVE UNCHANGED desk
  BY <1>7 DEF SessionStep, Begin, Ask, Finish, Record, Abandon, GoOn, GiveUp, Retried, Retry, SessionOnly
<1>8. ASSUME NEW s \in Session, NEW a \in Action, ExecutorStep(s, a) PROVE UNCHANGED desk
  BY <1>8 DEF ExecutorStep, Lookup, Gate, Request, Resolve, RefuseInput, Intend, Run, Commit, ExecutorOnly
<1>. QED  BY <1>3, <1>4, <1>5, <1>6, <1>7, <1>8 DEF Next, vars, OperatorStep

\* An executor moves its own item, which gets to ask only through the gate.
Moves(s, a) ==
  /\ work[s][a].pc # "none" /\ OwnItemOnly(s, a)
  /\ work'[s][a].pc = "request" => Gate(s, a) /\ Standing(a) = {}

LEMMA ExecutorMoves ==
  ASSUME TypeInv, NEW s \in Session, NEW a \in Action, ExecutorStep(s, a)
  PROVE  Moves(s, a)
<1>1. ASSUME NEW outcome \in Outcome, Report(s, a, outcome), work[s][a].pc # "none", UNCHANGED ses
      PROVE  Moves(s, a)
  <2>1. OwnItemOnly(s, a) /\ work'[s][a].pc \in Resting
    BY <1>1, ReportIsOwn
  <2>. QED  BY <1>1, <2>1 DEF Resting, Outcome, Moves
<1>2. ASSUME NEW pc \in Working, Continue(s, a, pc), work[s][a].pc # "none", UNCHANGED ses, pc # "request"
      PROVE  Moves(s, a)
  <2>1. OwnItemOnly(s, a) /\ work'[s][a].pc = pc
    BY <1>2, ContinueIsOwn
  <2>. QED  BY <1>2, <2>1 DEF Moves
<1>3. ASSUME Escape(s, a), work[s][a].pc # "none" PROVE Moves(s, a)
  <2>1. OwnItemOnly(s, a) /\ work'[s][a].pc \in Resting
    BY <1>3, EscapeIsOwn
  <2>. QED  BY <1>3, <2>1 DEF Resting, Outcome, Moves
<1>4. ASSUME ExecutorOnly PROVE UNCHANGED ses
  BY <1>4 DEF ExecutorOnly
<1>5. CASE Gate(s, a)
  <2>1. work[s][a].pc = "gate" /\ UNCHANGED ses
    BY <1>4, <1>5 DEF Gate, Doing
  <2>2. CASE Report(s, a, "awaiting_approval")
    BY <1>1, <2>1, <2>2 DEF Outcome
  <2>3. CASE Standing(a) = {} /\ Continue(s, a, "request")
    BY <1>5, <2>1, <2>3, ContinueIsOwn DEF Working, Moves
  <2>4. ASSUME NEW i, SetItem(s, a, [pc |-> "resolve", approval |-> i]) PROVE Moves(s, a)
    BY <2>1, <2>4, ItemIsOwn DEF Moves
  <2>. QED  BY <1>5, <2>2, <2>3, <2>4 DEF Gate
<1>6. CASE Lookup(s, a)
  <2>1. work[s][a].pc # "none" /\ UNCHANGED ses
    BY <1>4, <1>6 DEF Lookup, Doing
  <2>2. CASE Settled(KeyOf(s, a)) /\ Report(s, a, Latest(KeyOf(s, a)))
    <3>1. Latest(KeyOf(s, a)) \in Outcome
      BY <2>2 DEF Settled, Outcome
    <3>. QED  BY <1>1, <2>1, <2>2, <3>1
  <2>3. CASE Report(s, a, "denied") \/ Continue(s, a, "ready") \/ Continue(s, a, "gate")
    BY <1>1, <1>2, <2>1, <2>3 DEF Outcome, Working
  <2>. QED  BY <1>6, <2>2, <2>3 DEF Lookup
<1>7. CASE Request(s, a)
  BY <1>1, <1>4, <1>7 DEF Request, Doing, Outcome
<1>8. CASE Resolve(s, a)
  BY <1>1, <1>2, <1>4, <1>8 DEF Resolve, Doing, Outcome, Working
<1>9. CASE RefuseInput(s, a)
  <2>1. work[s][a].pc # "none"
    BY <1>9 DEF RefuseInput, Doing
  <2>2. CASE Report(s, a, "failed") /\ UNCHANGED ses
    BY <1>1, <2>1, <2>2 DEF Outcome
  <2>. QED  BY <1>3, <1>9, <2>1, <2>2 DEF RefuseInput
<1>10. CASE Intend(s, a)
  <2>1. work[s][a].pc # "none"
    BY <1>10 DEF Intend, Doing
  <2>2. CASE Continue(s, a, "run") /\ UNCHANGED ses
    BY <1>2, <2>1, <2>2 DEF Working
  <2>. QED  BY <1>3, <1>10, <2>1, <2>2 DEF Intend
<1>11. CASE Run(s, a)
  <2>1. work[s][a].pc # "none" /\ UNCHANGED ses /\ \E end \in {"landed", "broke"} : Continue(s, a, end)
    BY <1>4, <1>11 DEF Run, Doing
  <2>. QED  BY <1>2, <2>1 DEF Working
<1>12. CASE Commit(s, a)
  <2>1. work[s][a].pc # "none" /\ UNCHANGED ses /\ \E end \in {"succeeded", "failed"} : Report(s, a, end)
    BY <1>4, <1>12 DEF Commit
  <2>. QED  BY <1>1, <2>1 DEF Outcome
<1>. QED  BY <1>5, <1>6, <1>7, <1>8, <1>9, <1>10, <1>11, <1>12 DEF ExecutorStep

LEMMA ExecutorKeepsAsked ==
  ASSUME TypeInv, Unsettled, Asked, Embedded, Uncancelled, NEW s \in Session, NEW a \in Action, ExecutorStep(s, a)
  PROVE  \A b \in Action :
           /\ Len(approvals'[b]) <= 1
           /\ \A i \in DOMAIN approvals'[b] : approvals'[b][i] # "cancelled"
           /\ \A t \in Session : work'[t][b].pc = "request" => approvals'[b] = <<>>
<1>1. /\ approvals \in [Action -> Seq(ApprovalStatus)]
      /\ \A b \in Action :
           /\ Len(approvals[b]) <= 1
           /\ \A i \in DOMAIN approvals[b] : approvals[b][i] # "cancelled"
           /\ \A t \in Session : work[t][b].pc = "request" => approvals[b] = <<>>
  BY DEF TypeInv, MemoryOK, Asked
<1>2. \A b \in Action, t \in Session :
        t # s \/ b # a => (work'[t][b].pc = "request" => work[t][b].pc = "request")
  BY ExecutorMoves DEF Moves, OwnItemOnly
<1>3. CASE Request(s, a)
  <2>1. work[s][a].pc = "request" /\ approvals[a] = <<>>
    BY <1>1, <1>3 DEF Request, Doing
  <2>2. approvals' = [approvals EXCEPT ![a] = Append(<<>>, "pending")]
    BY <1>3, <2>1 DEF Request
  <2>3. approvals'[a] = <<"pending">> /\ \A b \in Action \ {a} : approvals'[b] = approvals[b]
    BY <1>1, <2>2
  <2>4. work'[s][a].pc # "request"
    BY <2>1, ExecutorMoves DEF Moves, Gate, Doing
  <2>5. \A t \in Session : work'[t][a].pc # "request"
    BY <1>2, <2>1, <2>4 DEF Unsettled, Alone
  <2>6. Len(approvals'[a]) <= 1 /\ DOMAIN approvals'[a] = {1} /\ approvals'[a][1] = "pending"
    BY <2>3
  <2>7. ASSUME NEW b \in Action
        PROVE  /\ Len(approvals'[b]) <= 1
               /\ \A i \in DOMAIN approvals'[b] : approvals'[b][i] # "cancelled"
               /\ \A t \in Session : work'[t][b].pc = "request" => approvals'[b] = <<>>
    <3>1. CASE b = a
      <4>1. Len(approvals'[b]) <= 1
        BY <2>6, <3>1
      <4>2. \A i \in DOMAIN approvals'[b] : approvals'[b][i] # "cancelled"
        BY <2>6, <3>1
      <4>3. \A t \in Session : work'[t][b].pc # "request"
        BY <2>5, <3>1
      <4>. QED  BY <4>1, <4>2, <4>3
    <3>2. CASE b # a
      BY <1>1, <1>2, <2>3, <3>2
    <3>. QED  BY <3>1, <3>2
  <2>. QED  BY <2>7
<1>4. CASE ~Request(s, a)
  <2>1. UNCHANGED approvals
    BY <1>4 DEF ExecutorStep, Lookup, Gate, Resolve, RefuseInput, Intend, Run, Commit
  <2>2. ASSUME work'[s][a].pc = "request" PROVE approvals[a] = <<>>
    <3>1. DOMAIN approvals[a] = {}
      BY <1>1, <2>2, ExecutorMoves DEF Moves, Standing
    <3>. QED  BY <1>1, <3>1
  <2>. QED  BY <1>1, <1>2, <2>1, <2>2
<1>. QED  BY <1>3, <1>4

LEMMA OperatorKeepsAsked ==
  ASSUME TypeInv, Asked, Embedded, Uncancelled, NEW o \in Operator, DecideRead(o) \/ DecideWrite(o)
  PROVE  \A b \in Action :
           /\ Len(approvals'[b]) <= 1
           /\ \A i \in DOMAIN approvals'[b] : approvals'[b][i] # "cancelled"
           /\ \A t \in Session : work'[t][b].pc = "request" => approvals'[b] = <<>>
<1>1. /\ approvals \in [Action -> Seq(ApprovalStatus)]
      /\ \A b \in Action :
           /\ Len(approvals[b]) <= 1
           /\ \A i \in DOMAIN approvals[b] : approvals[b][i] # "cancelled"
           /\ \A t \in Session : work[t][b].pc = "request" => approvals[b] = <<>>
  BY DEF TypeInv, MemoryOK, Asked
<1>2. UNCHANGED work
  BY OperatorRests DEF OperatorStep
<1>3. CASE DecideRead(o)
  <2>1. UNCHANGED approvals
    BY <1>3, Zenon DEF DecideRead
  <2>. QED  BY <1>1, <1>2, <2>1
<1>4. CASE DecideWrite(o)
  <2>1. PICK r \in desk[o].left : Stamp(r, "granted") \/ Stamp(r, "denied")
    BY <1>4 DEF DecideWrite
  <2>2. PICK decision \in {"granted", "denied"} :
          approvals' = [approvals EXCEPT ![r[1]] = [approvals[r[1]] EXCEPT ![r[2]] = decision]]
    BY <2>1 DEF Stamp
  <2>3. ASSUME NEW b \in Action
        PROVE  /\ Len(approvals'[b]) = Len(approvals[b]) /\ DOMAIN approvals'[b] = DOMAIN approvals[b]
               /\ \A i \in DOMAIN approvals[b] : approvals'[b][i] \in {approvals[b][i], decision}
               /\ approvals[b] = <<>> => approvals'[b] = <<>>
    BY <1>1, <2>2
  <2>. QED  BY <1>1, <1>2, <2>3
<1>. QED  BY <1>3, <1>4

LEMMA StepKeepsAsked ==
  ASSUME TypeInv, Unsettled, Asked, [Next]_vars
  PROVE  Asked'
<1>. SUFFICES ASSUME Embedded, Uncancelled'
              PROVE  \A a \in Action :
                       /\ Len(approvals'[a]) <= 1
                       /\ \A i \in DOMAIN approvals'[a] : approvals'[a][i] # "cancelled"
                       /\ \A s \in Session : work'[s][a].pc = "request" => approvals'[a] = <<>>
  BY SetupStays DEF Asked, Embedded
<1>1. Uncancelled /\ \A o \in Operator : ~CancelRead(o) /\ ~CancelApproval(o) /\ ~CancelRow(o)
  BY CancellationsAreRemembered
<1>2. ASSUME NoProgress, UNCHANGED approvals
      PROVE  \A a \in Action :
               /\ Len(approvals'[a]) <= 1
               /\ \A i \in DOMAIN approvals'[a] : approvals'[a][i] # "cancelled"
               /\ \A s \in Session : work'[s][a].pc = "request" => approvals'[a] = <<>>
  BY <1>1, <1>2 DEF Asked, NoProgress
<1>3. CASE \E s \in Session, a \in Action : ExecutorStep(s, a)
  BY <1>1, <1>3, ExecutorKeepsAsked
<1>4. CASE \E s \in Session : SessionStep(s) \/ Crash(s)
  BY <1>2, <1>4, OthersWriteNothing, SessionRests, CrashRests
<1>5. CASE \E o \in Operator : OperatorStep(o)
  BY <1>1, <1>5, OperatorKeepsAsked DEF OperatorStep
<1>6. CASE UNCHANGED vars
  BY <1>2, <1>6 DEF vars, NoProgress, KeyOf
<1>. QED  BY <1>3, <1>4, <1>5, <1>6 DEF Next

\* One standing request for a fingerprint, however often the run parks, crashes
\* and resumes, as long as nobody has set out to cancel it.
THEOREM OneRequestStands == Spec => []AskedOnce
<1>1. Init => TypeInv /\ Unsettled /\ Asked
  <2>. SUFFICES ASSUME Init PROVE Asked
    BY InitTyped, InitUnsettled
  <2>. QED  BY RestingValues DEF Init, Asked
<1>2. TypeInv /\ Unsettled /\ Asked /\ [Next]_vars => TypeInv' /\ Unsettled' /\ Asked'
  BY StepTyped, StepKeepsUnsettled, StepKeepsAsked
<1>3. TypeInv /\ Asked => AskedOnce
  <2>. SUFFICES ASSUME TypeInv, Asked, Embedded, Uncancelled, NEW a \in Action
                PROVE  Cardinality({i \in DOMAIN approvals[a] : approvals[a][i] # "cancelled"}) <= 1
    BY DEF AskedOnce, Uncancelled
  <2>. DEFINE standing == {i \in DOMAIN approvals[a] : approvals[a][i] # "cancelled"}
  <2>1. approvals[a] \in Seq(ApprovalStatus) /\ Len(approvals[a]) <= 1
    BY DEF TypeInv, MemoryOK, Asked
  <2>2. standing \subseteq {1}
    BY <2>1
  <2>3. IsFiniteSet({1}) /\ Cardinality({1}) = 1
    BY FS_Singleton
  <2>4. Cardinality(standing) \in Nat /\ Cardinality(standing) <= 1
    BY <2>2, <2>3, FS_Subset, FS_CardinalityType
  <2>. QED  BY <2>4
<1>. QED  BY <1>1, <1>2, <1>3, PTL DEF Spec
=============================================================================
