----------------------------- MODULE RunStates -----------------------------
(***************************************************************************)
(* The run-state table of packages/core/src/state-machine.ts and the       *)
(* breadth-first search that the runtime walks it with: findPath of        *)
(* session.ts and the search inside advanceRunTo of transition.ts are the  *)
(* same algorithm.  This module has no variables; every lifecycle module   *)
(* extends it.                                                             *)
(***************************************************************************)
EXTENDS Naturals, Sequences, SequencesExt

RUN_STATES ==
  {"CREATED", "QUEUED", "INITIALIZING", "PLANNING", "EXECUTING", "OBSERVING",
   "VERIFYING", "RECOVERING", "WAITING", "PAUSED", "COMPLETED", "FAILED",
   "CANCELLED", "TIMED_OUT"}

TERMINAL_STATES == {"COMPLETED", "FAILED", "CANCELLED", "TIMED_OUT"}

\* The table.  The order inside a row is part of it: the search below visits
\* targets in that order, so it decides between paths of the same length.
Transitions ==
  [s \in RUN_STATES |->
    CASE s = "CREATED"      -> <<"QUEUED", "INITIALIZING", "CANCELLED", "FAILED">>
      [] s = "QUEUED"       -> <<"INITIALIZING", "EXECUTING", "PLANNING", "PAUSED",
                                 "CANCELLED", "FAILED", "TIMED_OUT">>
      [] s = "INITIALIZING" -> <<"PLANNING", "EXECUTING", "WAITING", "FAILED",
                                 "CANCELLED", "TIMED_OUT">>
      [] s = "PLANNING"     -> <<"EXECUTING", "OBSERVING", "WAITING", "RECOVERING",
                                 "COMPLETED", "FAILED", "CANCELLED", "TIMED_OUT">>
      [] s = "EXECUTING"    -> <<"OBSERVING", "PLANNING", "VERIFYING", "RECOVERING",
                                 "WAITING", "PAUSED", "COMPLETED", "FAILED",
                                 "CANCELLED", "TIMED_OUT">>
      [] s = "OBSERVING"    -> <<"EXECUTING", "PLANNING", "VERIFYING", "RECOVERING",
                                 "WAITING", "PAUSED", "FAILED", "CANCELLED",
                                 "TIMED_OUT", "COMPLETED">>
      [] s = "VERIFYING"    -> <<"EXECUTING", "PLANNING", "RECOVERING", "WAITING",
                                 "COMPLETED", "FAILED", "CANCELLED", "TIMED_OUT">>
      [] s = "RECOVERING"   -> <<"EXECUTING", "PLANNING", "WAITING", "PAUSED",
                                 "FAILED", "CANCELLED", "TIMED_OUT">>
      [] s = "WAITING"      -> <<"EXECUTING", "PLANNING", "RECOVERING", "PAUSED",
                                 "FAILED", "CANCELLED", "TIMED_OUT">>
      [] s = "PAUSED"       -> <<"QUEUED", "CANCELLED", "FAILED", "TIMED_OUT">>
      [] s = "COMPLETED"    -> <<>>
      [] s = "FAILED"       -> <<"QUEUED">>
      [] s = "CANCELLED"    -> <<>>
      [] s = "TIMED_OUT"    -> <<"QUEUED">>]

CanTransition(from, to) == to \in ToSet(Transitions[from])

\* Every trigger and the targets it may be used for, in order of preference.
TriggerTargets ==
  [queue |-> <<"QUEUED">>, initialize |-> <<"INITIALIZING">>, plan |-> <<"PLANNING">>,
   act |-> <<"EXECUTING">>, observe |-> <<"OBSERVING">>, verify |-> <<"VERIFYING">>,
   recover |-> <<"RECOVERING">>, await_approval |-> <<"WAITING">>,
   pause |-> <<"PAUSED">>, resume |-> <<"EXECUTING", "PLANNING", "QUEUED">>,
   complete |-> <<"COMPLETED">>, fail |-> <<"FAILED">>, cancel |-> <<"CANCELLED">>,
   timeout |-> <<"TIMED_OUT">>, retry |-> <<"QUEUED">>]

Trigger == DOMAIN TriggerTargets

NoState == "none"

\* The first of the trigger's targets that the table allows from a state.
NextStateFor(from, trigger) ==
  LET allowed == SelectSeq(TriggerTargets[trigger], LAMBDA to : CanTransition(from, to))
  IN  IF allowed = <<>> THEN NoState ELSE Head(allowed)

\* triggerFor: the search only follows hops that some trigger names.
HasTrigger(from, to) == \E trigger \in Trigger : NextStateFor(from, trigger) = to

-----------------------------------------------------------------------------
(* A path is the sequence of states entered, without the one it starts in.  *)

\* Defect: a run can only be paused while it is queued.
DiscoveredPauseQueued(from, seen) ==
  SelectSeq(Transitions[from],
            LAMBDA to : to \notin seen /\ (to = "PAUSED" => from = "QUEUED"))

\* Defect: every finished run can be retried.
DiscoveredRetryAny(from, seen) ==
  SelectSeq(IF Transitions[from] = <<>> THEN <<"QUEUED">> ELSE Transitions[from],
            LAMBDA to : to \notin seen)

\* The hops that expanding one queue entry discovers.
Discovered(from, seen) ==
  SelectSeq(Transitions[from], LAMBDA to : to \notin seen /\ HasTrigger(from, to))

\* Defect: the newest path is expanded first.
SearchLifo(start, goal) ==
  LET dfs[stack \in Seq(Seq(RUN_STATES)), seen \in SUBSET RUN_STATES] ==
        IF stack = <<>> THEN <<>>
        ELSE LET path == Head(stack)
                 here == IF path = <<>> THEN start ELSE Last(path)
                 next == Discovered(here, seen)
             IN  IF goal \in ToSet(next) THEN Append(path, goal)
                 ELSE dfs[[i \in DOMAIN next |-> Append(path, next[i])] \o Tail(stack),
                          seen \cup ToSet(next)]
  IN  dfs[<< <<>> >>, {start}]

\* One iteration of the search: take the oldest path, return the goal if it is
\* a neighbour, otherwise queue the path extended by every unseen neighbour.
Search(start, goal) ==
  LET bfs[queue \in Seq(Seq(RUN_STATES)), seen \in SUBSET RUN_STATES] ==
        IF queue = <<>> THEN <<>>
        ELSE LET path == Head(queue)
                 here == IF path = <<>> THEN start ELSE Last(path)
                 next == Discovered(here, seen)
             IN  IF goal \in ToSet(next) THEN Append(path, goal)
                 ELSE bfs[Tail(queue) \o [i \in DOMAIN next |-> Append(path, next[i])],
                          seen \cup ToSet(next)]
  IN  bfs[<< <<>> >>, {start}]

\* Defect: a target that cannot be reached gives a path to nowhere.
FindPathOrNone(from, to) ==
  IF from = to THEN <<>>
  ELSE IF Search(from, to) = <<>> THEN <<NoState>> ELSE Search(from, to)

FindPath(from, to) == IF from = to THEN <<>> ELSE Search(from, to)

\* The search as a table, which is how the lifecycle modules use it.
PathTable == [from \in RUN_STATES |-> [to \in RUN_STATES |-> FindPath(from, to)]]
=============================================================================
