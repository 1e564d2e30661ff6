-------------------------------- MODULE Replay --------------------------------
(***************************************************************************)
(* replayRun of packages/runtime/src/replay.ts: the journal of a run is    *)
(* joined (an intent carries the arguments, an outcome the result) and its *)
(* recorded actions are run again, one by one, with the tools as they are  *)
(* registered now, in an environment that replay() of runtime.ts makes.    *)
(* The run itself may still be executing.                                  *)
(***************************************************************************)
EXTENDS Naturals, Sequences, FiniteSets, SequencesExt

CONSTANTS ReplayKey,     \* idempotency keys of the run's actions
          MaxJournal     \* bound: entries of the journal

READ_ONLY_TOOLS == {"filesystem.read", "filesystem.list", "filesystem.search", "database.query"}

\* What a recorded call does besides answering.  A tool is read-only by its id,
\* and a query may have been recorded with readonly = false; the listed tools
\* that change nothing are one case, and "gone" is no longer registered.
RecordedCalls == {[tool |-> "filesystem.read", changes |-> {}],
                  [tool |-> "filesystem.write", changes |-> {"workspace"}],
                  [tool |-> "database.query", changes |-> {"database"}],
                  [tool |-> "gone", changes |-> {}]}

VARIABLES journal,      \* the action journal, in order of sequence
          callOf,       \* the call each key's action makes, its arguments included
          replay,       \* [at, mode, left, report]: the replay in progress
          changed,      \* history: what the calls that were executed again may have changed
          executed      \* history: keys executed again

ReplayVars == <<journal, callOf, replay, changed, executed>>

JournalEntry == [key : ReplayKey, status : {"executing", "succeeded", "failed"}]
Reported == {"matched", "diverged", "failed", "skipped"}

ReplayInit ==
  /\ journal = <<>>
  /\ callOf \in [ReplayKey -> RecordedCalls]
  /\ replay = [at |-> "none", mode |-> "deterministic", limit |-> 0, left |-> <<>>, report |-> <<>>]
  /\ changed = {} /\ executed = <<>>

StatusesOf(key) == {journal[i].status : i \in {j \in DOMAIN journal : journal[j].key = key}}

\* The run goes on: an intent, then its outcome; a failed action is tried again.
RecordIntent(key) ==
  /\ Len(journal) < MaxJournal /\ "succeeded" \notin StatusesOf(key)
  /\ journal # <<>> => Last(journal).status # "executing"
  /\ journal' = Append(journal, [key |-> key, status |-> "executing"])
  /\ UNCHANGED <<callOf, replay, changed, executed>>

RecordOutcome ==
  /\ Len(journal) < MaxJournal /\ journal # <<>> /\ Last(journal).status = "executing"
  /\ \E status \in {"succeeded", "failed"} :
       journal' = Append(journal, [key |-> Last(journal).key, status |-> status])
  /\ UNCHANGED <<callOf, replay, changed, executed>>

\* Defect: what was only intended is replayed too.
RecordedWithIntents(entries) == entries

\* The outcomes, in the order of the journal.
RecordedOutcomes(entries) ==
  LET ended == {i \in DOMAIN entries : entries[i].status \in {"succeeded", "failed"}}
      nth(k) == CHOOSE i \in ended : Cardinality({j \in ended : j <= i}) = k
  IN  [k \in 1..Cardinality(ended) |-> entries[nth(k)]]

Limited(entries, limit) == IF limit = 0 THEN entries ELSE SubSeq(entries, 1, limit)

\* replayRun reads the journal once; a trace replay executes nothing.
BeginReplay ==
  /\ replay.at = "none"
  /\ \E mode \in {"trace", "deterministic", "simulate"}, limit \in 0..1 :
       LET recorded == RecordedOutcomes(journal)
       IN  replay' = [at |-> IF mode = "trace" THEN "done" ELSE "running", mode |-> mode,
                      limit |-> limit, report |-> <<>>,
                      left |-> IF mode = "trace" THEN <<>>
                               ELSE Limited(recorded, IF Len(recorded) = 0 THEN 0 ELSE limit)]
  /\ UNCHANGED <<journal, callOf, changed, executed>>

\* Not on the list or no longer registered; a context can always be made, since
\* no run's row is deleted.
Skips(entry) ==
  \/ replay.mode = "simulate" /\ callOf[entry.key].tool \notin READ_ONLY_TOOLS
  \/ callOf[entry.key].tool = "gone"

Report(entry, outcome) ==
  [replay EXCEPT !.left = Tail(@), !.report = Append(@, [key |-> entry.key, status |-> outcome])]

\* Defect: a skipped action is left out of the report.
SkipSilently ==
  /\ replay.at = "running" /\ replay.left # <<>> /\ Skips(Head(replay.left))
  /\ replay' = [replay EXCEPT !.left = Tail(@)]
  /\ UNCHANGED <<journal, callOf, changed, executed>>

SkipEntry ==
  /\ replay.at = "running" /\ replay.left # <<>> /\ Skips(Head(replay.left))
  /\ replay' = Report(Head(replay.left), "skipped")
  /\ UNCHANGED <<journal, callOf, changed, executed>>

\* Defect: simulate forgets to look at the tool's id.
ExecuteAnyEntry ==
  /\ replay.at = "running" /\ replay.left # <<>> /\ callOf[Head(replay.left).key].tool # "gone"
  /\ \E outcome \in {"matched", "diverged", "failed"} : replay' = Report(Head(replay.left), outcome)
  /\ executed' = Append(executed, Head(replay.left).key)
  /\ changed' = changed \cup callOf[Head(replay.left).key].changes
  /\ UNCHANGED <<journal, callOf>>

\* The tool runs again, on the workspace and the connections of the run that is
\* replayed.  It matches if its result is the recorded one, whatever the recorded
\* status; arguments that no longer parse diverge without a call.
ExecuteEntry ==
  /\ replay.at = "running" /\ replay.left # <<>> /\ ~Skips(Head(replay.left))
  /\ LET entry == Head(replay.left)
     IN  \/ /\ \E outcome \in {"matched", "diverged", "failed"} : replay' = Report(entry, outcome)
            /\ executed' = Append(executed, entry.key)
            /\ changed' = changed \cup callOf[entry.key].changes
         \/ /\ replay' = Report(entry, "diverged")
            /\ UNCHANGED <<changed, executed>>
  /\ UNCHANGED <<journal, callOf>>

FinishReplay ==
  /\ replay.at = "running" /\ replay.left = <<>>
  /\ replay' = [replay EXCEPT !.at = "done"]
  /\ UNCHANGED <<journal, callOf, changed, executed>>

ReplayNext ==
  \/ \E key \in ReplayKey : RecordIntent(key)
  \/ RecordOutcome \/ BeginReplay \/ SkipEntry \/ ExecuteEntry \/ FinishReplay

-----------------------------------------------------------------------------
ReplayTypeOK ==
  /\ journal \in Seq(JournalEntry) /\ callOf \in [ReplayKey -> RecordedCalls]
  /\ replay.at \in {"none", "running", "done"} /\ replay.left \in Seq(JournalEntry)
  /\ replay.report \in Seq([key : ReplayKey, status : Reported])
  /\ changed \subseteq {"workspace", "database"} /\ executed \in Seq(ReplayKey)

\* A simulation leaves the run's workspace alone: it executes nothing but what is
\* listed as read-only by its id (replay.ts:103).  And in any mode an action whose
\* outcome was never recorded is not executed again: the run that is still
\* executing it, or died over it, owns it.
ReplayOnlyWhatIsKnown ==
  /\ replay.mode = "simulate" =>
       /\ "workspace" \notin changed
       /\ \A i \in DOMAIN executed : callOf[executed[i]].tool \in READ_ONLY_TOOLS
  /\ \A i \in DOMAIN executed : StatusesOf(executed[i]) \cap {"succeeded", "failed"} # {}

\* However the journal grew meanwhile, the report accounts for the outcomes it
\* read, each once and in their order.
ReplayAccountsForAll ==
  (replay.at = "done" /\ replay.mode # "trace" /\ replay.limit = 0) =>
    IsPrefix([i \in DOMAIN replay.report |-> replay.report[i].key],
             [i \in DOMAIN RecordedOutcomes(journal) |-> RecordedOutcomes(journal)[i].key])

\* replay.ts:55, of simulate: "like deterministic but only for idempotent reads, so
\* nothing destructive can happen during an experiment".  Violated: database.query
\* is on the list, and one recorded with readonly = false writes again.
SimulationChangesNothing == replay.mode = "simulate" => changed = {}

\* docs/checkpointing.md, of replay: "nothing - the recorded actions are
\* re-executed in a new run".  Violated: they are executed in the run's own workspace.
ReplayLeavesTheRunAlone == "workspace" \notin changed
=============================================================================
