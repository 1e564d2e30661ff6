------------------------------ MODULE MCRecords ------------------------------
(***************************************************************************)
(* What is kept of a run and shown of it, each part in its own behaviours: *)
(* `part` names the one that moves, the others rest where they started.    *)
(* They share no variable, so what holds here of a part holds of it alone, *)
(* and one run answers one question for all the parts it concerns.         *)
(***************************************************************************)
EXTENDS RunPaths, DurableLog, EventHistory, StoreDrivers, Checkpoints, Replay,
        WorkspaceFiles, TraceTimeline, PromptContext, AgentRegistry, ApiAccess,
        Grading

VARIABLE part

recordsVars ==
  <<part, vars, DurableLogVars, EventHistoryVars, StoreDriversVars, CheckpointsVars, SnapshotVars,
    ReplayVars, WorkspaceFilesVars, TraceVars, ContextVars, MemoryVars, AgentRegistryVars,
    ApiAccessVars, SseVars, GradingVars>>

Parts == {"paths", "log", "events", "drivers", "checkpoints", "snapshot", "replay", "files",
          "trace", "context", "memory", "registry", "access", "frames", "grading"}

-----------------------------------------------------------------------------
(* The cases each part starts from.                                          *)

\* Documents that leave a section to its default, write it short or in full,
\* and that state the values which are kept or lost.
MCDocuments ==
  {PlainDocument, [PlainDocument EXCEPT !.tools = {"filesystem"}, !.fallback = "one"],
   [PlainDocument EXCEPT !.memory = [form |-> "mapping", enabled |-> "unsaid", setting |-> TRUE]],
   [PlainDocument EXCEPT !.memory = [form |-> "mapping", enabled |-> "no", setting |-> TRUE]],
   [PlainDocument EXCEPT !.memory = [form |-> "boolean", enabled |-> "unsaid", setting |-> FALSE],
                         !.tools = ToolId, !.fallback = "list"],
   OptionsToRaw(TRUE, Stated)}

\* Every collection of the two drivers.
MCCollections == DOMAIN Embedded

\* Embedded with a generated key, Postgres with a configured one.
MCDeployments == {[driver |-> "embedded", fixed |-> FALSE], [driver |-> "postgres", fixed |-> TRUE]}

-----------------------------------------------------------------------------
RecordsInit ==
  /\ part \in Parts
  /\ Init /\ (part = "paths" \/ (source = "CREATED" /\ target = "CREATED"))
  /\ \E kind \in BOOLEAN : DurableLogInit(kind) /\ (part = "log" \/ kind)
  /\ \E kind \in {"follower", "dashboard"} :
       EventHistoryInit(kind) /\ (part = "events" \/ kind = "follower")
  /\ \E name \in Collections : StoreDriversInit(name) /\ (part = "drivers" \/ name = "runs")
  /\ \E second \in {"maker", "operator"} :
       CheckpointsInit(second) /\ (part = "checkpoints" \/ second = "maker")
  /\ SnapshotInit /\ (part = "snapshot" \/ tree = [f \in File |-> ABSENT])
  /\ ReplayInit /\ (part = "replay" \/ callOf = [k \in ReplayKey |-> CHOOSE call \in RecordedCalls : TRUE])
  /\ WorkspaceFilesInit /\ TraceInit /\ SseInit
  /\ GradingInit /\ (part = "grading" \/ graded = [permitted |-> TRUE, enabled |-> TRUE])
  /\ ContextInit /\ (part = "context" \/ base = CHOOSE cost \in BaseTokens : TRUE)
  /\ MemoryInit /\ (part = "memory" \/ memoryDriver = "embedded")
  /\ \E raw \in MCDocuments : AgentRegistryInit(raw) /\ (part = "registry" \/ raw = PlainDocument)
  /\ ApiAccessInit
  /\ IF part = "access" THEN deployment \in MCDeployments
                        ELSE deployment = [driver |-> "postgres", fixed |-> TRUE]

Rests(name, own) == IF part = name THEN TRUE ELSE UNCHANGED own

OthersRest ==
  /\ UNCHANGED part
  /\ Rests("paths", vars) /\ Rests("log", DurableLogVars) /\ Rests("events", EventHistoryVars)
  /\ Rests("drivers", StoreDriversVars) /\ Rests("checkpoints", CheckpointsVars)
  /\ Rests("snapshot", SnapshotVars) /\ Rests("replay", ReplayVars)
  /\ Rests("files", WorkspaceFilesVars) /\ Rests("trace", TraceVars)
  /\ Rests("context", ContextVars) /\ Rests("memory", MemoryVars)
  /\ Rests("registry", AgentRegistryVars) /\ Rests("access", ApiAccessVars)
  /\ Rests("frames", SseVars) /\ Rests("grading", GradingVars)

PathsMove == part = "paths" /\ Next /\ OthersRest
LogMoves == part = "log" /\ DurableLogNext /\ OthersRest
EventsMove == part = "events" /\ EventHistoryNext /\ OthersRest
DriversMove == part = "drivers" /\ StoreDriversNext /\ OthersRest
CheckpointsMove == part = "checkpoints" /\ CheckpointsNext /\ OthersRest
SnapshotMoves == part = "snapshot" /\ SnapshotNext /\ OthersRest
ReplayMoves == part = "replay" /\ ReplayNext /\ OthersRest
FilesMove == part = "files" /\ WorkspaceFilesNext /\ OthersRest
TraceMoves == part = "trace" /\ TraceNext /\ OthersRest
ContextMoves == part = "context" /\ ContextNext /\ OthersRest
MemoryMoves == part = "memory" /\ MemoryNext /\ OthersRest
RegistryMoves == part = "registry" /\ AgentRegistryNext /\ OthersRest
AccessMoves == part = "access" /\ ApiAccessNext /\ OthersRest
FramesMove == part = "frames" /\ SseNext /\ OthersRest
GradingMoves == part = "grading" /\ GradingNext /\ OthersRest

RecordsNext ==
  \/ PathsMove \/ LogMoves \/ EventsMove \/ DriversMove \/ CheckpointsMove \/ SnapshotMoves
  \/ ReplayMoves \/ FilesMove \/ TraceMoves \/ ContextMoves \/ MemoryMoves \/ RegistryMoves
  \/ AccessMoves \/ FramesMove \/ GradingMoves

\* The fairness of RunPaths and of EventHistory, for the part that moves.
RecordsFairness ==
  /\ WF_vars(part = "paths" /\ Hop)
  /\ WF_EventHistoryVars(part = "events" /\ EmitStep)
  /\ WF_EventHistoryVars(part = "events" /\ StreamStep)

RecordsSpec == RecordsInit /\ [][RecordsNext]_recordsVars /\ RecordsFairness

-----------------------------------------------------------------------------
(* What the modules' own properties say together, one question at a time.    *)

\* A property is looked at where its part moves: a part at rest is as it started.
Of(name, property) == part = name => property

\* Every part's variables have their types.
RecordsTypeOK ==
  /\ part \in Parts
  /\ Of("paths", TypeOK) /\ Of("log", DurableLogTypeOK) /\ Of("events", EventHistoryTypeOK)
  /\ Of("drivers", StoreDriversTypeOK) /\ Of("checkpoints", CheckpointsTypeOK)
  /\ Of("snapshot", SnapshotTypeOK) /\ Of("replay", ReplayTypeOK) /\ Of("files", WorkspaceFilesTypeOK)
  /\ Of("trace", TraceTypeOK) /\ Of("context", ContextTypeOK) /\ Of("memory", MemoryTypeOK)
  /\ Of("registry", AgentRegistryTypeOK) /\ Of("access", ApiAccessTypeOK)
  /\ Of("frames", SseTypeOK) /\ Of("grading", GradingTypeOK)

\* The walk that transition.ts writes into a run's row is as short as any, does
\* not pass a finished status on an operator's call, and moves no finished row.
PathsAreSound == Of("paths", WalkIsShortest /\ OperatorPathsStayLive /\ FinishedRowsDoNotMove)

\* What was acknowledged is there after a death: a write cut short costs one
\* record, a reader sees at least what the file gave it, and a restore from any
\* snapshot that was saved is exact where no death tore a blob.
FilesSurviveDeaths ==
  Of("log", ATearCostsOneRecord /\ ReadersSeeTheFile) /\ Of("snapshot", RestoreIsExact /\ SnapshotIsComplete)

\* Two makers of checkpoints and their pruning lose none that the policy keeps:
\* neither the newest, which recovery would name, nor the last labelled one.
CheckpointsAreKept == []RetentionHolds /\ NewestIsNeverPruned /\ MilestoneOutlivesWindow

\* A replay of a journal that still grows executes only what has an outcome, in a
\* simulation only what is listed as read-only, and reports every outcome it read.
ReplayTellsAll == Of("replay", ReplayOnlyWhatIsKnown /\ ReplayAccountsForAll)

\* The embedded and the Postgres driver give the same answers until one refuses
\* what the other took, and under either a run's events keep their numbers.
DriversAgree == Of("drivers", NothingElseSetsApart /\ EventsAreNumbered)

\* What a model is shown is the run's own: every observation once, shown or told
\* of, and memories of this tenant only, broader ones after the run's.
PromptIsTheRunsOwn == Of("context", ContextLosesNothing) /\ Of("memory", RecallIsSound)

\* A definition is the author's, before and after the store: a process remembers
\* what it would read back, and what runs were executed with is what was written.
DefinitionsAreKept == Of("registry", RememberedIsReloadable /\ RegisteredIsAsWritten)

\* Who may call: a revocation that was answered holds under Postgres whatever
\* an overlapping request writes back (auth.ts touch), and a server that serves
\* has a key in its store, wherever an earlier one died in its start.
AccessHolds == Of("access", RevocationStays /\ ServingHasAKey)

\* The run's storage is charged for what its files take (WorkspaceFiles).
StorageHolds == Of("files", StorageIsCharged)

\* What is shown of a run is what there was: a trace has one node for each thing
\* that happened (an approval aside, which may be shown twice), the dashboard is handed the events that were sent, whole and in
\* order, wherever the stream's text was cut, and what is said to be done was
\* verified, or graded, as it is.
TraceHolds ==
  /\ Of("trace", OneNodePerThing) /\ Of("frames", ChunksDoNotMatter /\ HandedIsWhatCame)
  /\ Of("grading", CompletedIsProven /\ SuccessIsEarned)

\* A walk that can reach its target does, and a reader whose connection stays up
\* catches up with the events (WalkArrives and FollowersCatchUp in one: there are
\* finitely many events, so to catch up is to see every one that was stored).
ReadersArrive ==
  (\/ part = "paths" /\ Reachable(source, target)
   \/ part = "events" /\ reader.at = "following" /\ Len(reader.seen) < Len(events))
    ~> (\/ part = "paths" /\ status = target
        \/ part = "events" /\ (Len(reader.seen) = Len(events) \/ reader.at # "following"))
=============================================================================
