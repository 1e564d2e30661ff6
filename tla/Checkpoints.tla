----------------------------- MODULE Checkpoints -----------------------------
(***************************************************************************)
(* CheckpointManager (packages/checkpoints/src/manager.ts, policy.ts) and  *)
(* the runtime calls that use it: the session's own checkpoints, a manual  *)
(* one from another process, restore and fork (runtime.ts).  Creating one  *)
(* is read, capture, save and prune, with another caller's steps between.  *)
(* A run is reduced to how far its state and its workspace have come.      *)
(***************************************************************************)
EXTENDS Naturals, FiniteSets, FiniteSetsExt

CONSTANTS Retain,          \* policy.retain
          MaxCheckpoints,  \* bound: checkpoints saved
          MaxProgress      \* bound: steps of the run

ASSUME CheckpointsAssumption == Retain \in Nat \ {0}

Maker == {"session", "manual"}

VARIABLES progress,     \* the run's durable state
          workspace,    \* the run's workspace: the step that wrote it last
          checkpoints,  \* the checkpoint table, of this run and of another one
          madeTotal,    \* checkpoints of this run ever saved (ids are never reused)
          making,       \* per maker: where it is in create() and what it has read
          forkCall,     \* the fork call: where it is, its checkpoint, the child's files
          restoreCall   \* the restore call: where it is, its checkpoint

CheckpointsVars == <<progress, workspace, checkpoints, madeTotal, making, forkCall, restoreCall>>

Own == {c \in checkpoints : c.run = "run"}
Newest(set) == CHOOSE c \in set : \A d \in set : d.sequence < c.sequence
                                     \/ (d.sequence = c.sequence /\ d.id <= c.id)
NoCheckpoint == [id |-> 0, run |-> "other", sequence |-> 0, progress |-> 0, files |-> 0,
                 labelled |-> FALSE]
LatestSequence == IF Own = {} THEN 0 ELSE Newest(Own).sequence

IdleMaker == [at |-> "idle", sequence |-> 0, progress |-> 0, files |-> 0, labelled |-> FALSE,
              doomed |-> {}]

\* A foreign run's checkpoint is in the table from the start.  Either a second
\* maker or an operator's fork and restore run beside the session.
CheckpointsInit(second) ==
  /\ progress = 0 /\ workspace = 0 /\ madeTotal = 0
  /\ checkpoints = {NoCheckpoint}
  /\ second \in {"maker", "operator"}
  /\ making = [m \in Maker |-> [IdleMaker EXCEPT !.at = IF m = "manual" /\ second # "maker"
                                                       THEN "unused" ELSE "idle"]]
  /\ forkCall = [at |-> IF second = "maker" THEN "unused" ELSE "none", from |-> NoCheckpoint, files |-> 0]
  /\ restoreCall = [at |-> IF second = "maker" THEN "unused" ELSE "none", from |-> NoCheckpoint]

-----------------------------------------------------------------------------
(* The policy: which of the loop's triggers create one.                      *)

ShouldCheckpoint(trigger, risk, due) ==
  \/ trigger \in {"manual", "run_created", "after_plan", "after_tool_call",
                  "before_recovery", "before_pause"}
  \/ trigger = "before_risky_action" /\ risk \in {"HIGH", "CRITICAL"}
  \/ trigger = "periodic" /\ due      \* the interval or the step count is over

SessionTriggers == {"after_plan", "after_tool_call", "before_risky_action", "before_recovery"}

\* A step of the session: it writes the workspace and its state.
WorkOn ==
  /\ progress < MaxProgress /\ making["session"].at = "idle"
  /\ progress' = progress + 1 /\ workspace' = progress + 1
  /\ UNCHANGED <<checkpoints, madeTotal, making, forkCall, restoreCall>>

\* checkpointIfRequired and checkpoint(): the state is read and the next
\* sequence number is taken from the latest row.
BeginCheckpoint(m) ==
  /\ making[m].at = "idle" /\ madeTotal < MaxCheckpoints
  /\ \E labelled \in BOOLEAN, trigger \in SessionTriggers, risk \in {"LOW", "HIGH"} :
       /\ m = "manual" => ~labelled
       /\ m = "manual" \/ labelled \/ ShouldCheckpoint(trigger, risk, FALSE)
       /\ making' = [making EXCEPT ![m] = [@ EXCEPT !.at = "capturing", !.labelled = labelled,
                                           !.sequence = LatestSequence + 1, !.progress = progress]]
  /\ UNCHANGED <<progress, workspace, checkpoints, madeTotal, forkCall, restoreCall>>

\* captureEnvironment: a failed capture leaves a checkpoint without files.
Capture(m) ==
  /\ making[m].at = "capturing"
  /\ \E files \in {workspace, 0} :
       making' = [making EXCEPT ![m].at = "saving", ![m].files = files]
  /\ UNCHANGED <<progress, workspace, checkpoints, madeTotal, forkCall, restoreCall>>

\* store.save: the embedded store puts by id, the relational one refuses a
\* sequence that is taken; then create() throws.
Save(m) ==
  /\ making[m].at = "saving" /\ madeTotal < MaxCheckpoints
  /\ \/ /\ madeTotal' = madeTotal + 1
        /\ checkpoints' = checkpoints \cup
             {[id |-> madeTotal + 1, run |-> "run", sequence |-> making[m].sequence,
               progress |-> making[m].progress, files |-> making[m].files,
               labelled |-> making[m].labelled]}
        /\ making' = [making EXCEPT ![m].at = "pruning"]
     \/ /\ \E c \in Own : c.sequence = making[m].sequence
        /\ making' = [making EXCEPT ![m] = [IdleMaker EXCEPT !.doomed = making[m].doomed]]
        /\ UNCHANGED <<madeTotal, checkpoints>>
  /\ UNCHANGED <<progress, workspace, forkCall, restoreCall>>

\* The newest n of a set, as prune() takes them from the reversed list.
NewestOf(set, n) == {c \in set : Cardinality({d \in set : d.sequence > c.sequence
                                    \/ (d.sequence = c.sequence /\ d.id > c.id)}) < n}

\* Defect: the list is not reversed.
KeepOldest(all) == {c \in all : Cardinality({d \in all : d.id < c.id}) < Retain}

\* Defect: labelled ones are kept within the window only.
KeepWindow(all) == NewestOf(all, Retain)

\* prune: the rolling window, and as many labelled ones again beyond it.
Keep(all) ==
  LET window == NewestOf(all, Retain)
  IN  window \cup NewestOf({c \in all \ window : c.labelled}, Retain)

PruneRead(m) ==
  /\ making[m].at = "pruning"
  /\ making' = [making EXCEPT ![m].at = "deleting", ![m].doomed = Own \ Keep(Own)]
  /\ UNCHANGED <<progress, workspace, checkpoints, madeTotal, forkCall, restoreCall>>

\* One delete after the other.  What another pruner has deleted meanwhile is
\* not there: the embedded store does not mind, the relational one throws, and
\* create() throws with its checkpoint saved and the rest of the list undeleted
\* (which stays in doomed until this maker prunes again).
PruneDelete(m) ==
  LET doomed == making[m].doomed
      next   == CHOOSE c \in doomed : \A d \in doomed : c.id <= d.id
  IN  /\ making[m].at = "deleting"
      /\ \/ /\ doomed = {}
            /\ making' = [making EXCEPT ![m] = IdleMaker]
            /\ UNCHANGED checkpoints
         \/ /\ doomed # {}
            /\ checkpoints' = checkpoints \ {next}
            /\ making' = [making EXCEPT ![m].doomed = @ \ {next}]
         \/ /\ doomed # {} /\ next \notin checkpoints
            /\ making' = [making EXCEPT ![m] = [IdleMaker EXCEPT !.doomed = doomed]]
            /\ UNCHANGED checkpoints
      /\ UNCHANGED <<progress, workspace, madeTotal, forkCall, restoreCall>>

-----------------------------------------------------------------------------
(* fork and restore.                                                         *)

\* fork: the named checkpoint, or the latest; the child takes its input.
BeginFork ==
  /\ forkCall.at = "none" /\ Own # {}
  /\ \E c \in Own : forkCall' = [at |-> "created", from |-> c, files |-> 0]
  /\ UNCHANGED <<progress, workspace, checkpoints, madeTotal, making, restoreCall>>

\* copyWorkspace reads the latest checkpoint of the parent.
CopyWorkspace ==
  /\ forkCall.at = "created"
  /\ forkCall' = [forkCall EXCEPT !.at = "forked",
                                  !.files = IF Own = {} THEN 0 ELSE Newest(Own).files]
  /\ UNCHANGED <<progress, workspace, checkpoints, madeTotal, making, restoreCall>>

\* restore: the manager puts the files back before the runtime looks whose they
\* are; files that are not in the snapshot stay.
RestoreFiles ==
  /\ restoreCall.at = "none"
  /\ \E c \in checkpoints :
       /\ restoreCall' = [at |-> IF c.run = "run" THEN "restored" ELSE "refused", from |-> c]
       /\ workspace' = IF c.run = "run" /\ c.files # 0 THEN c.files ELSE workspace
  /\ UNCHANGED <<progress, checkpoints, madeTotal, making, forkCall>>

RestoreState ==
  /\ restoreCall.at = "restored"
  /\ progress' = restoreCall.from.progress
  /\ restoreCall' = [restoreCall EXCEPT !.at = "done"]
  /\ UNCHANGED <<workspace, checkpoints, madeTotal, making, forkCall>>

CheckpointsNext ==
  \/ WorkOn \/ BeginFork \/ CopyWorkspace \/ RestoreFiles \/ RestoreState
  \/ \E m \in Maker : BeginCheckpoint(m) \/ Capture(m) \/ Save(m) \/ PruneRead(m) \/ PruneDelete(m)

-----------------------------------------------------------------------------
CheckpointRow == [id : 0..MaxCheckpoints, run : {"run", "other"}, sequence : 0..MaxCheckpoints,
                  progress : 0..MaxProgress, files : 0..MaxProgress, labelled : BOOLEAN]

CheckpointsTypeOK ==
  /\ progress \in 0..MaxProgress /\ workspace \in 0..MaxProgress /\ madeTotal \in 0..MaxCheckpoints
  /\ checkpoints \subseteq CheckpointRow
  /\ making \in [Maker -> [at : {"unused", "idle", "capturing", "saving", "pruning", "deleting"},
                           sequence : 0..MaxCheckpoints, progress : 0..MaxProgress,
                           files : 0..MaxProgress, labelled : BOOLEAN, doomed : SUBSET CheckpointRow]]
  /\ forkCall \in [at : {"unused", "none", "created", "forked"}, from : CheckpointRow, files : 0..MaxProgress]
  /\ restoreCall \in [at : {"unused", "none", "restored", "refused", "done"}, from : CheckpointRow]

\* However two makers and their pruning interleave, as many checkpoints as the
\* policy retains are there (all of them, while there were fewer), and once every
\* maker is done, and none of them was thrown out of its prune, no more than the
\* window and the labelled ones beside it.
RetentionHolds ==
  /\ Cardinality(Own) >= Min({Retain, madeTotal})
  /\ (\A m \in Maker : making[m].at \in {"idle", "unused"} /\ making[m].doomed = {})
       => Cardinality(Own) <= 2 * Retain

\* A checkpoint that a restore or the recovery engine could name last, the
\* newest of the table, is never deleted: no delete leaves only older ones.
NewestIsNeverPruned ==
  [][\A c \in Own \ Own' : \E d \in Own' : d.sequence >= c.sequence]_CheckpointsVars

\* The newest labelled checkpoint outlives the window, however many follow it.
MilestoneOutlivesWindow ==
  [][\A c \in Own \ Own' : c.labelled => \E d \in Own' : d.labelled]_CheckpointsVars

\* docs/checkpointing.md: "The fork gets its own workspace seeded from the
\* checkpoint's snapshot".  Violated: it gets the parent's latest.
ForkSeededFromItsCheckpoint ==
  forkCall.at = "forked" => forkCall.files = forkCall.from.files
=============================================================================
