---------------------------- MODULE TraceTimeline ----------------------------
(****************************************************************************)
(* What an operator is shown of a run: the loop's events and records, each  *)
(* a write of its own with a crash possible in between, the trace that      *)
(* packages/tracing folds out of them (GET /trace), and the timeline and    *)
(* statistics that the dashboard derives from the events alone.             *)
(****************************************************************************)
EXTENDS Integers, FiniteSets, Sequences, SequencesExt

CONSTANTS MaxEvents, MaxTraceDeaths

ASSUME TraceAssumption == {MaxEvents, MaxTraceDeaths} \subseteq Nat

VARIABLES traceLog,      \* the run's events, in the order of their sequence
          traceRecords,  \* steps, invocations, checkpoints, recoveries and approvals saved
          at,            \* where the loop is, and with which action
          counted,       \* actions, checkpoints and approvals so far
          attempts,      \* recoveryAttempts of the session
          traceDeaths

TraceVars == <<traceLog, traceRecords, at, counted, attempts, traceDeaths>>

\* What an event is about: a kind and a key, 0 where the event names none. Its
\* status is the one in its data, or else the one its type ends in.
ThingKind == {"step", "tool", "recovery", "checkpoint", "approval"}
Status == {"running", "succeeded", "failed", "denied", "created", "pending", "granted"}
TraceEvent == [kind : ThingKind, key : 0..MaxEvents, status : Status]
About(kind, key, status) == [kind |-> kind, key |-> key, status |-> status]

Idle == [pc |-> "idle", action |-> 0, outcome |-> "none", again |-> FALSE]

TraceInit ==
  /\ traceLog = <<>> /\ traceRecords = {} /\ at = Idle
  /\ counted = 0 /\ attempts = 0 /\ traceDeaths = 0

Emit(kind, key, status) ==
  /\ Len(traceLog) < MaxEvents /\ traceLog' = Append(traceLog, About(kind, key, status))

\* Records are upserted by their id.
SaveRecord(kind, key, status) ==
  traceRecords' = {r \in traceRecords : <<r.kind, r.key>> # <<kind, key>>} \union {About(kind, key, status)}

GoTo(pc, outcome) == at' = [at EXCEPT !.pc = pc, !.outcome = outcome]

\* act: the plan's step (there is one, and it comes again until it is completed),
\* then an action of it, or the event that says there was none.
BeginStep ==
  /\ at.pc = "idle" /\ Emit("step", 1, "running") /\ at' = [Idle EXCEPT !.pc = "step"]
  /\ UNCHANGED <<traceRecords, counted, attempts, traceDeaths>>

SaveStep ==
  /\ at.pc = "step" /\ SaveRecord("step", 1, "running") /\ GoTo("request", "none")
  /\ UNCHANGED <<traceLog, counted, attempts, traceDeaths>>

RequestAction ==
  /\ at.pc = "request"
  /\ \/ /\ counted < MaxEvents /\ Emit("tool", counted + 1, "running") /\ counted' = counted + 1
        /\ at' = [Idle EXCEPT !.pc = "execute", !.action = counted + 1]
     \/ /\ Emit("tool", 0, "running") /\ GoTo("step end", "none") /\ UNCHANGED counted
  /\ UNCHANGED <<traceRecords, attempts, traceDeaths>>

\* The executor's outcome, and the invocation or the approval that is saved for it.
EndAction ==
  /\ at.pc = "execute"
  /\ \/ \E outcome \in {"succeeded", "failed"} :
          SaveRecord("tool", at.action, outcome) /\ GoTo("outcome", outcome) /\ UNCHANGED counted
     \/ GoTo("outcome", "denied") /\ UNCHANGED <<traceRecords, counted>>
     \/ /\ counted < MaxEvents /\ counted' = counted + 1
        /\ SaveRecord("approval", counted + 1, "pending") /\ GoTo("outcome", "awaiting")
  /\ UNCHANGED <<traceLog, attempts, traceDeaths>>

\* recordOutcome: an approval is asked for without its id. After a retry the
\* recovery goes on where there still is a failure.
EmitOutcome ==
  /\ at.pc = "outcome"
  /\ IF at.outcome = "awaiting" THEN Emit("approval", 0, "running") ELSE Emit("tool", at.action, at.outcome)
  /\ GoTo(IF ~at.again THEN "step end" ELSE IF at.outcome = "failed" THEN "recovery" ELSE "idle", at.outcome)
  /\ UNCHANGED <<traceRecords, counted, attempts, traceDeaths>>

EndStep ==
  /\ at.pc = "step end"
  /\ SaveRecord("step", 1, CASE at.outcome \in {"none", "succeeded"} -> "succeeded"
                             [] at.outcome = "awaiting" -> "running" [] OTHER -> "failed")
  /\ GoTo(CASE at.outcome \in {"none", "succeeded"} -> "step done" [] at.outcome = "failed" -> "recovery"
            [] OTHER -> "idle", at.outcome)
  /\ UNCHANGED <<traceLog, counted, attempts, traceDeaths>>

CompleteStep ==
  /\ at.pc = "step done" /\ Emit("step", 1, "succeeded") /\ GoTo("idle", "none")
  /\ UNCHANGED <<traceRecords, counted, attempts, traceDeaths>>

\* recover: the attempt is the session's, and completed says succeeded whether or
\* not the recovery was applied.
BeginRecovery ==
  /\ at.pc = "recovery" /\ Emit("recovery", attempts + 1, "running") /\ GoTo("recovering", "none")
  /\ UNCHANGED <<traceRecords, counted, attempts, traceDeaths>>

SaveRecovery ==
  /\ at.pc = "recovering" /\ attempts' = attempts + 1
  /\ \E outcome \in {"succeeded", "failed"} : SaveRecord("recovery", attempts + 1, outcome)
  /\ GoTo("recovered", "none") /\ UNCHANGED <<traceLog, counted, traceDeaths>>

\* … and the failed action may be executed once more.
EndRecovery ==
  /\ at.pc = "recovered" /\ Emit("recovery", attempts, "succeeded")
  /\ at' \in {[at EXCEPT !.pc = "idle"], [at EXCEPT !.pc = "execute", !.again = TRUE]}
  /\ UNCHANGED <<traceRecords, counted, attempts, traceDeaths>>

SaveCheckpoint ==
  /\ at.pc = "idle" /\ counted < MaxEvents /\ counted' = counted + 1
  /\ SaveRecord("checkpoint", counted + 1, "created")
  /\ at' = [Idle EXCEPT !.pc = "checkpoint", !.action = counted + 1]
  /\ UNCHANGED <<traceLog, attempts, traceDeaths>>

\* … and the event of a checkpoint, which a restore of it emits again.
EmitCheckpoint ==
  /\ \/ at.pc = "checkpoint" /\ Emit("checkpoint", at.action, "created") /\ GoTo("idle", "none")
     \/ /\ at.pc = "idle" /\ UNCHANGED at
        /\ \E r \in traceRecords : r.kind = "checkpoint" /\ Emit("checkpoint", r.key, "created")
  /\ UNCHANGED <<traceRecords, counted, attempts, traceDeaths>>

\* decideApproval: the record, then the event, of which the model keeps the order
\* and not the gap.
GrantApproval ==
  /\ \E r \in traceRecords : /\ r.kind = "approval" /\ r.status = "pending"
                             /\ SaveRecord("approval", r.key, "granted") /\ Emit("approval", r.key, "granted")
  /\ UNCHANGED <<at, counted, attempts, traceDeaths>>

\* The process dies, and a session starts over from what is saved.
DieTraced ==
  /\ traceDeaths < MaxTraceDeaths /\ traceDeaths' = traceDeaths + 1
  /\ at' = Idle /\ attempts' = 0 /\ UNCHANGED <<traceLog, traceRecords, counted>>

TraceNext ==
  \/ BeginStep \/ SaveStep \/ RequestAction \/ EndAction \/ EmitOutcome \/ EndStep \/ CompleteStep
  \/ BeginRecovery \/ SaveRecovery \/ EndRecovery \/ SaveCheckpoint \/ EmitCheckpoint \/ GrantApproval
  \/ DieTraced

------------------------------------------------------------------------------
(* buildTrace *)

\* Defect: a call is known by its tool.
KeyForEventByTool(e) == IF e.kind = "tool" THEN <<"tool">> ELSE <<e.kind, e.key>>

\* keyForEvent: <<>> for an event that is a node of its own.
KeyForEvent(e) == IF e.key = 0 THEN <<>> ELSE <<e.kind, e.key>>

NodeOf(e) == [kind |-> e.kind, key |-> KeyForEvent(e), status |-> e.status]

FoldEvent(nodes, e) ==
  LET same == {i \in DOMAIN nodes : KeyForEvent(e) # <<>> /\ nodes[i].key = KeyForEvent(e)}
  IN IF same = {} THEN Append(nodes, NodeOf(e)) ELSE [i \in DOMAIN nodes |-> IF i \in same THEN NodeOf(e) ELSE nodes[i]]

\* Defect: a record is missing when its own id is not a node's.
AppendMissingById(nodes, records) ==
  nodes \o SetToSeq({[kind |-> r.kind, key |-> <<r.kind, r.key>>, status |-> r.status] : r \in records})

\* appendMissing: the records whose key no event has claimed.
AppendMissing(nodes, records) ==
  nodes \o SetToSeq({n \in {[kind |-> r.kind, key |-> <<r.kind, r.key>>, status |-> r.status] : r \in records} :
                       \A i \in DOMAIN nodes : nodes[i].key # n.key})

\* The trace out of the first n events and every record: they are listed side by
\* side, while the run goes on.
Trace(n) == AppendMissing(FoldLeft(FoldEvent, <<>>, SubSeq(traceLog, 1, n)), traceRecords)

NodesOf(nodes, kind) == {i \in DOMAIN nodes : nodes[i].kind = kind}

\* toTimelineEntry's tone, and what summarizeEvents counts.
Tone(e) == CASE e.status \in {"failed", "denied"} -> "danger" [] e.status \in {"succeeded", "granted"} -> "success"
             [] OTHER -> "neutral"

Events(n, kind, statuses) == {i \in 1..n : traceLog[i].kind = kind /\ traceLog[i].status \in statuses}

EventStats(n) ==
  [toolCalls |-> Cardinality(Events(n, "tool", {"succeeded"})),
   toolFailures |-> Cardinality(Events(n, "tool", {"failed"})),
   denials |-> Cardinality(Events(n, "tool", {"denied"})),
   recoveries |-> Cardinality(Events(n, "recovery", {"succeeded"})),
   checkpoints |-> Cardinality(Events(n, "checkpoint", {"created"}))]

TraceTypeOK ==
  /\ traceLog \in Seq(TraceEvent) /\ traceRecords \subseteq TraceEvent
  /\ at.pc \in {"idle", "step", "request", "execute", "outcome", "step end", "step done",
                "recovery", "recovering", "recovered", "checkpoint"}
  /\ {at.action, counted, attempts} \subseteq Nat /\ traceDeaths \in 0..MaxTraceDeaths

\* Whatever prefix of the events a trace was built from, and wherever the process
\* died between a record and its event: each step, call, checkpoint and approval
\* that an event names or a record keeps is one node, and the dashboard's statistics
\* count every call that the trace shows ended (trace-builder.ts:73-110,
\* appendMissing; timeline.ts summarizeEvents).
OneNodePerThing ==
  \A n \in 0..Len(traceLog) :
    LET nodes == Trace(n)
        things == {<<e.kind, e.key>> : e \in {traceLog[i] : i \in 1..n} \union traceRecords}
        stats == EventStats(n)
    IN /\ \A thing \in {t \in things : t[2] # 0} : Cardinality({i \in DOMAIN nodes : nodes[i].key = thing}) = 1
       /\ n = Len(traceLog) =>
            stats.toolCalls + stats.toolFailures + stats.denials >=
              Cardinality({i \in NodesOf(nodes, "tool") : Tone(nodes[i]) # "neutral"})

\* Violated. trace-builder.ts:80, "One node per real thing that happened": an approval
\* is requested by an event that does not name it and is shown once more for its
\* record; a step without actions counts as a call, as a retried call does again;
\* and the recoveries of two sessions share their attempts.
NothingElseIsShown ==
  LET nodes == Trace(Len(traceLog)) IN \A i \in DOMAIN nodes : nodes[i].key # <<>>

\* Violated. A recovery that was not applied is shown as succeeded, its event says no
\* status; a step that failed, and a call whose process died before the event, run on.
ShownAsRecorded ==
  \A r \in traceRecords : LET nodes == Trace(Len(traceLog))
    IN \E i \in DOMAIN nodes : nodes[i].key = <<r.kind, r.key>> /\ nodes[i].status = r.status
=============================================================================
