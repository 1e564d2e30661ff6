-------------------------- MODULE ActionExecution --------------------------
(***************************************************************************)
(* How the actions a model asks for take effect (executor.ts), what the    *)
(* journal and the approvals remember of them (embedded-store.ts,          *)
(* prisma-store.ts, approvals.ts), and how the loop that executes a batch  *)
(* repeats one of them, parks the run or is cut off (loop.ts).             *)
(*                                                                         *)
(* One run.  The row is kept as far as the executor depends on it: how     *)
(* many model calls are durable, whether the run goes on, and which        *)
(* session the store still lets write (RunSession and WorkerFleet have the *)
(* versions behind that).                                                  *)
(***************************************************************************)
EXTENDS Naturals, Sequences, FiniteSets

CONSTANTS Session,       \* executions of the run, one after the other or overlapping
          None,
          Action,        \* what can be asked for: a tool with its arguments
          Repeatable,    \* those declared idempotent or retry-safe
          Setups,        \* deployments: a journal, a policy, the tools' schemas
          Operator,      \* calls that decide an approval or cancel the run
          MaxCalls,      \* bound: model calls that ask for actions
          MaxAttempts,   \* recovery policy's maxAttempts
          MaxStarts      \* bound: starts of the run

ASSUME ActionAssumption ==
  /\ None \notin Session
  /\ Repeatable \subseteq Action
  /\ Setups \subseteq [journal : {"embedded", "prisma"},
                        verdicts : [Action -> SUBSET {"ALLOW", "DENY", "REQUIRE_APPROVAL"}],
                        malformed : SUBSET Action,   \* arguments a schema refuses
                        batch : Nat,                 \* maxToolCallsPerStep
                        operators : Nat]             \* bound: operators' calls
  /\ MaxStarts \in Nat
  /\ MaxCalls \in Nat \ {0} /\ MaxAttempts \in Nat \ {0}

VARIABLES setup,      \* this deployment
          status,     \* the run: "active", "waiting", "failed" or "over"
          position,   \* usage.modelCalls in the row
          owner,      \* the session whose writes of the row are accepted, or None
          log,        \* per idempotency key: the journal's entries
          approvals,  \* per fingerprint: the requests, in order
          ses,        \* per session
          work,       \* per session and action: how far the executor has come
          desk,       \* per operator
          starts,     \* bounded: starts so far
          effects,    \* history: times a key's side effect happened
          granted     \* history: fingerprints some operator has approved

runVars == <<status, position, owner, starts>>
vars == <<setup, runVars, log, approvals, ses, work, desk, effects, granted>>

\* idempotencyKeyFor: the position in the run, the tool with its arguments, and
\* the session's count of retries when the action was made.
Key == [at : 0..(MaxCalls - 1), what : Action, attempt : 0..(MaxAttempts - 1)]

JournalStatus == {"executing", "succeeded", "failed"}
ApprovalStatus == {"pending", "granted", "denied", "cancelled"}

Working == {"lookup", "gate", "request", "resolve", "ready", "run", "landed", "broke"}
Outcome == {"succeeded", "failed", "denied", "awaiting_approval"}

SessionState ==
  [pc : {"off", "ask", "act", "mend", "retry"},
   at : 0..MaxCalls,                  \* the position the batch's keys are made for
   attempts : 0..(MaxAttempts - 1),   \* session.attempts
   made : 0..(MaxAttempts - 1),       \* and what it was when the batch was made
   tries : Nat,                       \* session.recoveryAttempts
   pending : SUBSET Key]              \* session.pendingJournal

Off == [pc |-> "off", at |-> 0, attempts |-> 0, made |-> 0, tries |-> 0, pending |-> {}]

Item == [pc : {"none"} \cup Working \cup Outcome, approval : Nat]
NoItem == [pc |-> "none", approval |-> 0]
NoWork == [a \in Action |-> NoItem]

Desk ==
  [pc : {"none", "decide", "cancel", "decided", "cancelled"},
   left : SUBSET (Action \X Nat),           \* approvals still to be written
   seen : Nat \X (Session \cup {None})]     \* cancel: the row as it was read

FreeDesk == [pc |-> "none", left |-> {}, seen |-> <<0, None>>]

TypeOK ==
  /\ setup \in Setups
  /\ status \in {"active", "waiting", "failed", "over"}
  /\ position \in 0..MaxCalls
  /\ owner \in Session \cup {None}
  /\ log \in [Key -> Seq(JournalStatus)]
  /\ approvals \in [Action -> Seq(ApprovalStatus)]
  /\ ses \in [Session -> SessionState]
  /\ work \in [Session -> [Action -> Item]]
  /\ desk \in [Operator -> Desk]
  /\ starts \in Nat
  /\ effects \in [Key -> Nat]
  /\ granted \subseteq Action

Init ==
  /\ setup \in Setups
  /\ status = "active" /\ position = 0 /\ owner = None /\ starts = 0
  /\ log = [k \in Key |-> <<>>]
  /\ approvals = [a \in Action |-> <<>>]
  /\ ses = [s \in Session |-> Off]
  /\ work = [s \in Session |-> NoWork]
  /\ desk = [o \in Operator |-> FreeDesk]
  /\ effects = [k \in Key |-> 0]
  /\ granted = {}

At(s, pc) == ses[s].pc = pc

Doing(s, a, pc) == work[s][a].pc = pc

Busy(s) == \E a \in Action : work[s][a].pc \in Working

KeyOf(s, a) == [at |-> ses[s].at, what |-> a, attempt |-> ses[s].made]

-----------------------------------------------------------------------------
(* The journal                                                              *)

Embedded == setup.journal = "embedded"

Entries(k) == {log[k][i] : i \in DOMAIN log[k]}

\* findByKey: the entry written last.
Latest(k) == IF log[k] = <<>> THEN "none" ELSE log[k][Len(log[k])]

\* The embedded journal is appended to; a row of the Prisma journal is updated.
Write(k, entry) ==
  log' = [log EXCEPT ![k] = IF Embedded THEN Append(@, entry) ELSE <<entry>>]

\* Defect: the intent replaces whatever was there.
IntentAnyway(k) == TRUE

\* The unique index on run and key refuses a second intent.
IntentAccepted(k) == Embedded \/ log[k] = <<>>

\* Committed only to what has an entry, unless the journal is appended to.
CommitAccepted(k) == Embedded \/ log[k] # <<>>

\* What observe takes for uncommitted.
Uncommitted == {k \in Key : "executing" \in Entries(k)}

-----------------------------------------------------------------------------
(* The executor: executeOne and runAuthorized                               *)

SetItem(s, a, item) == work' = [work EXCEPT ![s][a] = item]

Continue(s, a, pc) == SetItem(s, a, [work[s][a] EXCEPT !.pc = pc])

\* An outcome is reported to the batch; after the batch has been abandoned
\* nobody takes it.
Report(s, a, outcome) ==
  SetItem(s, a, IF At(s, "off") THEN NoItem ELSE [work[s][a] EXCEPT !.pc = outcome])

\* Defect: every failure may be repeated.
SettledBySuccess(k) == Latest(k) = "succeeded"

\* The replay guard: what is settled is not done again.
Settled(k) ==
  \/ Latest(k) = "succeeded"
  \/ Latest(k) = "failed" /\ k.what \notin Repeatable

ExecutorOnly == UNCHANGED <<setup, runVars, ses, desk>>

Lookup(s, a) ==
  LET k == KeyOf(s, a)
  IN  /\ Doing(s, a, "lookup")
      /\ \/ Settled(k) /\ Report(s, a, Latest(k))
         \/ /\ ~Settled(k)
            /\ \E verdict \in setup.verdicts[a] :
                 \/ verdict = "DENY" /\ Report(s, a, "denied")
                 \/ verdict = "ALLOW" /\ Continue(s, a, "ready")
                 \/ verdict = "REQUIRE_APPROVAL" /\ Continue(s, a, "gate")
      /\ ExecutorOnly /\ UNCHANGED <<log, approvals, effects, granted>>

\* Defect: a request that was decided is not found again.
StandingPending(a) == {i \in DOMAIN approvals[a] : approvals[a][i] = "pending"}

\* findForAction: the latest request for the fingerprint that was not cancelled.
Standing(a) == {i \in DOMAIN approvals[a] : approvals[a][i] # "cancelled"}

IsLatest(i, a) == i \in Standing(a) /\ \A j \in Standing(a) : j <= i

\* Defect: a request that is still pending is as good as a decided one.
GateAnyway(s, a) ==
  /\ Doing(s, a, "gate")
  /\ \/ Standing(a) = {} /\ Continue(s, a, "request")
     \/ \E i \in Standing(a) :
          IsLatest(i, a) /\ SetItem(s, a, [pc |-> "ready", approval |-> i])
  /\ ExecutorOnly /\ UNCHANGED <<log, approvals, effects, granted>>

Gate(s, a) ==
  /\ Doing(s, a, "gate")
  /\ \/ Standing(a) = {} /\ Continue(s, a, "request")
     \/ \E i \in Standing(a) :
          /\ IsLatest(i, a)
          /\ \/ approvals[a][i] = "pending" /\ Report(s, a, "awaiting_approval")
             \/ /\ approvals[a][i] # "pending"
                /\ SetItem(s, a, [pc |-> "resolve", approval |-> i])
  /\ ExecutorOnly /\ UNCHANGED <<log, approvals, effects, granted>>

Request(s, a) ==
  /\ Doing(s, a, "request")
  /\ approvals' = [approvals EXCEPT ![a] = Append(@, "pending")]
  /\ Report(s, a, "awaiting_approval")
  /\ ExecutorOnly /\ UNCHANGED <<log, effects, granted>>

\* resolve reads the record again.
Resolve(s, a) ==
  /\ Doing(s, a, "resolve")
  /\ IF approvals[a][work[s][a].approval] = "granted" THEN Continue(s, a, "ready")
     ELSE Report(s, a, "denied")
  /\ ExecutorOnly /\ UNCHANGED <<log, approvals, effects, granted>>

\* What the executor does not catch ends the session: the loop marks the run
\* failed, with the model call it has accounted for, and the rest of the batch
\* runs on unwatched.  On behalf of an approval it is caught, as a denial.
Escape(s, a) ==
  \/ /\ work[s][a].approval # 0
     /\ Report(s, a, "denied")
     /\ UNCHANGED <<runVars, ses>>
  \/ /\ work[s][a].approval = 0
     /\ work' = [work EXCEPT ![s] =
                   [b \in Action |-> IF b # a /\ @[b].pc \in Working THEN @[b] ELSE NoItem]]
     /\ ses' = [ses EXCEPT ![s] = [Off EXCEPT !.at = ses[s].at, !.made = ses[s].made]]
     /\ IF owner = s /\ ~At(s, "off")
        THEN /\ status' = "failed" /\ position' = ses[s].at + 1 /\ owner' = None
             /\ UNCHANGED starts
        ELSE UNCHANGED runVars

\* Arguments the tool's schema refuses: a failure, committed without an intent.
RefuseInput(s, a) ==
  LET k == KeyOf(s, a)
  IN  /\ Doing(s, a, "ready") /\ a \in setup.malformed
      /\ \/ /\ CommitAccepted(k)
            /\ Write(k, "failed")
            /\ Report(s, a, "failed")
            /\ UNCHANGED <<runVars, ses>>
         \/ ~CommitAccepted(k) /\ Escape(s, a) /\ UNCHANGED log
      /\ UNCHANGED <<setup, approvals, desk, effects, granted>>

Intend(s, a) ==
  LET k == KeyOf(s, a)
  IN  /\ Doing(s, a, "ready") /\ a \notin setup.malformed
      /\ \/ /\ IntentAccepted(k)
            /\ Write(k, "executing")
            /\ Continue(s, a, "run")
            /\ UNCHANGED <<runVars, ses>>
         \/ ~IntentAccepted(k) /\ Escape(s, a) /\ UNCHANGED log
      /\ UNCHANGED <<setup, approvals, desk, effects, granted>>

\* The tool: its effect may happen and be reported as a failure all the same
\* (a timeout); aborted before it runs, it has none.
Run(s, a) ==
  LET k == KeyOf(s, a)
  IN  /\ Doing(s, a, "run")
      /\ \/ /\ effects' = [effects EXCEPT ![k] = @ + 1]
            /\ \E end \in {"landed", "broke"} : Continue(s, a, end)
         \/ Continue(s, a, "broke") /\ UNCHANGED effects
      /\ ExecutorOnly /\ UNCHANGED <<log, approvals, granted>>

Commit(s, a) ==
  LET end == IF Doing(s, a, "landed") THEN "succeeded" ELSE "failed"
  IN  /\ work[s][a].pc \in {"landed", "broke"}
      /\ Write(KeyOf(s, a), end)
      /\ Report(s, a, end)
      /\ ExecutorOnly /\ UNCHANGED <<approvals, effects, granted>>

ExecutorStep(s, a) ==
  \/ Lookup(s, a) \/ Gate(s, a) \/ Request(s, a) \/ Resolve(s, a)
  \/ RefuseInput(s, a) \/ Intend(s, a) \/ Run(s, a) \/ Commit(s, a)
-----------------------------------------------------------------------------
(* The loop around it                                                       *)

SessionOnly == UNCHANGED <<setup, log, approvals, desk, effects, granted>>

SetSession(s, next) == ses' = [ses EXCEPT ![s] = next]

DropWork(s) == work' = [work EXCEPT ![s] = NoWork]

\* A start, a resume, the retry of a failed run, or a worker that takes the run
\* over.  With the embedded store it is the run lock that allows one at a time;
\* with workers a second session may begin while the first is still at it.
Begin(s) ==
  /\ starts < MaxStarts
  /\ status # "over"
  /\ At(s, "off") /\ work[s] = NoWork
  /\ Embedded => \A u \in Session : At(u, "off")
  /\ SetSession(s, [Off EXCEPT !.pc = "ask", !.at = position])
  /\ status' = "active" /\ owner' = s /\ starts' = starts + 1
  /\ UNCHANGED <<position, work>> /\ SessionOnly

\* The session ends and leaves the run as it is, or cannot write it any more.
Leave(s, end) ==
  /\ SetSession(s, Off)
  /\ DropWork(s)
  /\ \/ /\ owner = s
        /\ status' = end /\ owner' = None
        /\ position' = IF At(s, "ask") THEN ses[s].at ELSE ses[s].at + 1
        /\ UNCHANGED starts
     \/ owner # s /\ UNCHANGED runVars

\* observe and decide: the journal's uncommitted entries, then a batch of
\* actions that the model asks for.  None: it asked for one action twice, which
\* planWaves refuses, or its claim to be finished was not verified.
Ask(s) ==
  /\ At(s, "ask") /\ owner = s
  /\ ses[s].at < MaxCalls
  /\ \E batch \in SUBSET Action :
       /\ Cardinality(batch) <= setup.batch
       /\ work' = [work EXCEPT ![s] =
                     [a \in Action |-> IF a \in batch THEN [NoItem EXCEPT !.pc = "lookup"]
                                       ELSE NoItem]]
  /\ SetSession(s, [ses[s] EXCEPT !.pc = "act", !.made = ses[s].attempts, !.pending = Uncommitted])
  /\ UNCHANGED runVars /\ SessionOnly

\* The model has nothing more to ask for, a limit is reached, or its failure is
\* left to a human; and whoever finds the row written by others stops as well.
Finish(s) ==
  /\ At(s, "ask")
  /\ \E end \in {"over", "failed", "waiting"} : Leave(s, end)
  /\ SessionOnly

Outcomes(s) == {work[s][a].pc : a \in Action}

\* record makes the model call durable; what follows depends on the outcomes.
Record(s) ==
  /\ At(s, "act") /\ ~Busy(s) /\ owner = s
  /\ "awaiting_approval" \notin Outcomes(s)
  /\ position' = ses[s].at + 1
  /\ \/ "failed" \in Outcomes(s)
        /\ SetSession(s, [ses[s] EXCEPT !.pc = "mend"])
        /\ UNCHANGED work
     \/ /\ SetSession(s, [ses[s] EXCEPT !.pc = "ask", !.at = @ + 1])
        /\ DropWork(s)
  /\ UNCHANGED <<status, owner, starts>> /\ SessionOnly

\* The batch parks or ends the run, or its record is refused.
Abandon(s) ==
  /\ At(s, "act") /\ ~Busy(s)
  /\ \/ Leave(s, "failed")
     \/ "awaiting_approval" \in Outcomes(s) /\ Leave(s, "waiting")
  /\ SessionOnly

\* Defect: attempts do not run out.
RetryUnlimited(s, a) ==
  /\ At(s, "mend") /\ owner = s
  /\ Doing(s, a, "failed")
  /\ SetSession(s, [ses[s] EXCEPT !.pc = "retry", !.tries = @ + 1, !.attempts = @ + 1])
  /\ work' = [work EXCEPT ![s] = [NoWork EXCEPT ![a].pc = "lookup"]]
  /\ UNCHANGED runVars /\ SessionOnly

\* recover with a retry: the same action under the same key, unless the journal
\* had it uncommitted before this batch, or attempts are exhausted.
Retry(s, a) ==
  LET tries == ses[s].tries + 1
  IN  /\ At(s, "mend") /\ owner = s
      /\ Doing(s, a, "failed")
      /\ KeyOf(s, a) \notin ses[s].pending
      /\ tries < MaxAttempts
      /\ SetSession(s, [ses[s] EXCEPT !.pc = "retry", !.tries = tries, !.attempts = @ + 1])
      /\ work' = [work EXCEPT ![s] = [NoWork EXCEPT ![a].pc = "lookup"]]
      /\ UNCHANGED runVars /\ SessionOnly

\* recover with any other strategy: go on at the next position, ...
GoOn(s) ==
  /\ At(s, "mend") /\ owner = s
  /\ SetSession(s, [ses[s] EXCEPT !.pc = "ask", !.at = @ + 1, !.tries = @ + 1])
  /\ DropWork(s)
  /\ UNCHANGED runVars /\ SessionOnly

\* ... ask a human, or give up.
GiveUp(s) ==
  /\ At(s, "mend")
  /\ \E end \in {"failed", "waiting"} : Leave(s, end)
  /\ SessionOnly

Retried(s) ==
  /\ At(s, "retry") /\ ~Busy(s)
  /\ \/ /\ owner = s
        /\ "failed" \notin Outcomes(s)
        /\ SetSession(s, [ses[s] EXCEPT !.pc = "ask", !.at = @ + 1])
        /\ DropWork(s)
        /\ UNCHANGED runVars
     \/ /\ "failed" \in Outcomes(s)
        /\ SetSession(s, [ses[s] EXCEPT !.pc = "mend"])
        /\ UNCHANGED <<runVars, work>>
     \/ Leave(s, "failed")
  /\ SessionOnly

\* A call that is over, its answer sent or its process gone.
Dropped(call) ==
  [FreeDesk EXCEPT !.pc = CASE call.pc = "decide" -> "decided"
                            [] call.pc = "cancel" -> "cancelled"
                            [] OTHER -> call.pc]

\* A process dies: with the embedded store everything that runs, otherwise one
\* session.
Crash(s) ==
  LET gone == IF Embedded THEN Session ELSE {s}
  IN  /\ \E u \in gone : ~At(u, "off") \/ Busy(u)
      /\ ses' = [u \in Session |-> IF u \in gone THEN Off ELSE ses[u]]
      /\ work' = [u \in Session |-> IF u \in gone THEN NoWork ELSE work[u]]
      /\ owner' = IF owner \in gone THEN None ELSE owner
      /\ desk' = IF Embedded THEN [o \in Operator |-> Dropped(desk[o])] ELSE desk
      /\ UNCHANGED <<setup, status, position, starts, log, approvals, effects, granted>>

SessionStep(s) ==
  \/ Begin(s) \/ Ask(s) \/ Finish(s) \/ Record(s) \/ Abandon(s)
  \/ GoOn(s) \/ GiveUp(s) \/ Retried(s)
  \/ \E a \in Action : Retry(s, a)

-----------------------------------------------------------------------------
(* Operators                                                                *)

Pending == {r \in Action \X (1..MaxStarts) :
              r[2] \in DOMAIN approvals[r[1]] /\ approvals[r[1]][r[2]] = "pending"}

DeskOnly == UNCHANGED <<setup, position, starts, log, ses, work, effects>>

SetDesk(o, next) == desk' = [desk EXCEPT ![o] = next]

Stamp(r, decision) == approvals' = [approvals EXCEPT ![r[1]][r[2]] = decision]

MayCall(o) ==
  /\ desk[o].pc = "none"
  /\ Cardinality({p \in Operator : desk[p].pc # "none"}) < setup.operators

DecideRead(o) ==
  /\ MayCall(o)
  /\ \E r \in Pending : SetDesk(o, [FreeDesk EXCEPT !.pc = "decide", !.left = {r}])
  /\ DeskOnly /\ UNCHANGED <<status, owner, approvals, granted>>

\* decide writes the record it read; a modification is a grant.
DecideWrite(o) ==
  /\ desk[o].pc = "decide"
  /\ \E r \in desk[o].left :
       \/ Stamp(r, "granted") /\ granted' = granted \cup {r[1]}
       \/ Stamp(r, "denied") /\ UNCHANGED granted
  /\ SetDesk(o, Dropped(desk[o]))
  /\ DeskOnly /\ UNCHANGED <<status, owner>>

\* cancel of a run that another process executes, or nobody: its pending
\* approvals one by one, then the row.
CancelRead(o) ==
  /\ MayCall(o)
  /\ status \in {"active", "waiting"}
  /\ Embedded => \A s \in Session : At(s, "off")
  /\ SetDesk(o, [pc |-> "cancel", left |-> Pending, seen |-> <<starts, owner>>])
  /\ DeskOnly /\ UNCHANGED <<status, owner, approvals, granted>>

CancelApproval(o) ==
  /\ desk[o].pc = "cancel"
  /\ \E r \in desk[o].left :
       /\ Stamp(r, "cancelled")
       /\ SetDesk(o, [desk[o] EXCEPT !.left = @ \ {r}])
  /\ DeskOnly /\ UNCHANGED <<status, owner, granted>>

CancelRow(o) ==
  LET unchanged == desk[o].seen = <<starts, owner>>
  IN  /\ desk[o].pc = "cancel" /\ desk[o].left = {}
      /\ \/ unchanged /\ status' = "over" /\ owner' = None
         \/ (owner # None \/ ~unchanged) /\ UNCHANGED <<status, owner>>
      /\ SetDesk(o, Dropped(desk[o]))
      /\ DeskOnly /\ UNCHANGED <<approvals, granted>>

OperatorStep(o) ==
  \/ DecideRead(o) \/ DecideWrite(o)
  \/ CancelRead(o) \/ CancelApproval(o) \/ CancelRow(o)

-----------------------------------------------------------------------------

Next ==
  \/ \E s \in Session, a \in Action : ExecutorStep(s, a)
  \/ \E s \in Session : SessionStep(s) \/ Crash(s)
  \/ \E o \in Operator : OperatorStep(o)

Spec == Init /\ [][Next]_vars

-----------------------------------------------------------------------------

\* What the journal has as done, or as failed when it must not be repeated, is
\* not intended or done again under its key: by a recovery retry, by the run
\* resumed after a crash, or by a second worker.
SettledIsNotRedone ==
  [][\A k \in Key :
       Latest(k) = "succeeded" \/ (Latest(k) = "failed" /\ k.what \notin Repeatable)
         => log'[k] = log[k] /\ effects'[k] = effects[k]]_vars

\* With the journal in a database no crash, retry or overlap of workers makes a
\* key take effect twice: the unique index lets one intent through.
UniqueKeyFences == ~Embedded => \A k \in Key : effects[k] <= 1

\* An action the policy never lets through unapproved takes effect only after
\* an operator granted a request for that very fingerprint.
GatedNeedsGrant ==
  \A k \in Key :
    setup.verdicts[k.what] = {"REQUIRE_APPROVAL"} /\ effects[k] > 0 => k.what \in granted

\* A decision is found again instead of being asked for again: one standing
\* request for a fingerprint, however often the run parks, crashes and resumes,
\* while nobody cancels the run (decide writes over a cancellation).
AskedOnce ==
  Embedded /\ (\A o \in Operator : desk[o].pc \notin {"cancel", "cancelled"}) =>
    \A a \in Action :
      Cardinality({i \in DOMAIN approvals[a] : approvals[a][i] # "cancelled"}) <= 1

\* An action that may not be repeated takes effect once, its outcome known or
\* not: docs/durable-execution.md leaves an uncommitted one to a human.
UnsafeTakesEffectOnce ==
  \A k \in Key : k.what \notin Repeatable => effects[k] <= 1
=============================================================================
