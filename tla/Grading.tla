------------------------------- MODULE Grading -------------------------------
(***************************************************************************)
(* What a run is said to have achieved: the verifiers that look at the     *)
(* workspace when the agent says it is done (packages/runtime/src          *)
(* /verification.ts, loop.ts finish), the evidence that the store keeps of *)
(* it (runtime.ts result), and a bench case that seeds a workspace, waits  *)
(* for the run and grades what it finds (packages/bench/src/runner.ts).    *)
(* The workspace is what the commands of the verification say of it.       *)
(***************************************************************************)
EXTENDS Integers, Sequences, FiniteSets, SequencesExt

CONSTANTS
  Commands,           \* how many commands the definition verifies with
  MaxEdits,           \* bound: changes of the agent to the workspace
  MaxReworks,         \* recovery attempts that a failed verification may use
  MaxSessions         \* bound: sessions that execute the run, one after the other

ASSUME GradingAssumption == {Commands, MaxEdits, MaxReworks, MaxSessions} \subseteq Nat

VARIABLES
  graded,             \* the run's definition: whether it verifies, and may run commands
  files,              \* which commands it passes, and what the case expects of its files
  work,               \* the run: its row, where its session is, the checks so far
  evidence,           \* the verification.completed events, in order
  bench               \* how far runCase is; what it has read: was the row COMPLETED, and the proof

GradingVars == <<graded, files, work, evidence, bench>>

TerminalRows == {"COMPLETED", "FAILED"}

GradingInit ==
  /\ graded \in [permitted : BOOLEAN, enabled : BOOLEAN]
  /\ files = [passes |-> {}, asExpected |-> FALSE, edits |-> 0]
  /\ work = [row |-> "CREATED", at |-> "none", checks |-> << >>, edited |-> FALSE, reworks |-> 0, sessions |-> 0]
  /\ evidence = << >>
  /\ bench = [at |-> "created", finished |-> FALSE, result |-> FALSE, proof |-> "none",
              expects |-> "optional", success |-> FALSE]

-----------------------------------------------------------------------------
(* The verifier: CompositeVerifier over the commands of the definition.      *)

\* Verification is skipped when it is switched off or there is nothing to check.
Verifies == graded.enabled /\ Commands > 0

\* CommandVerifier: without the permission it fails without running anything, and
\* the first command that fails is the last one run.
Unpermitted == ~graded.permitted
Checked(checks) == Unpermitted \/ Len(checks) = Commands \/ FALSE \in ToSet(checks)
Passed(checks) == ~Unpermitted /\ FALSE \notin ToSet(checks)

-----------------------------------------------------------------------------
(* The session: work, the verification, its record, its event, the end.      *)

\* start(), or the resume of a run that waits or that a process left behind; what
\* its session knew of a verification, and of its recoveries, is gone with it.
StartSession ==
  /\ work.at = "none" /\ work.row \notin TerminalRows /\ work.sessions < MaxSessions
  /\ bench.at = "started" \/ work.row # "CREATED"
  /\ work' = [work EXCEPT !.row = "EXECUTING", !.at = "working", !.checks = << >>,
                           !.reworks = 0, !.sessions = @ + 1]
  /\ UNCHANGED <<graded, files, evidence, bench>>

EditWorkspace ==
  /\ work.at = "working" /\ files.edits < MaxEdits
  /\ \E passes \in SUBSET (1..Commands), asExpected \in BOOLEAN :
       files' = [passes |-> passes, asExpected |-> asExpected, edits |-> files.edits + 1]
  /\ work' = [work EXCEPT !.edited = TRUE]
  /\ UNCHANGED <<graded, evidence, bench>>

\* finish(): without a verifier the model's word is enough.
AgentFinishes ==
  /\ work.at = "working"
  /\ work' = IF Verifies THEN [work EXCEPT !.row = "VERIFYING", !.at = "checking", !.checks = << >>]
                         ELSE [work EXCEPT !.at = "completing"]
  /\ UNCHANGED <<graded, files, evidence, bench>>

\* One command; it says what it finds, or runs out of its time.
RunCommand ==
  /\ work.at = "checking" /\ ~Checked(work.checks)
  /\ \E timedOut \in BOOLEAN :
       work' = [work EXCEPT !.checks = Append(@, ~timedOut /\ Len(@) + 1 \in files.passes)]
  /\ UNCHANGED <<graded, files, evidence, bench>>

\* The row is saved with the verdict before the event that keeps it is emitted.
RecordVerdict ==
  /\ work.at = "checking" /\ Checked(work.checks)
  /\ work' = [work EXCEPT !.at = "recorded"]
  /\ UNCHANGED <<graded, files, evidence, bench>>

\* The event, and then the end, or a recovery: the agent works on while attempts
\* last, a human is asked, or the run fails.
EmitVerdict ==
  /\ work.at = "recorded"
  /\ evidence' = Append(evidence, Passed(work.checks))
  /\ LET verified == [work EXCEPT !.edited = FALSE]
         recovering == [verified EXCEPT !.row = "RECOVERING", !.reworks = @ + 1]
     IN IF Passed(work.checks) THEN work' = [verified EXCEPT !.at = "completing"]
        ELSE \/ work.reworks < MaxReworks /\ work' = [recovering EXCEPT !.at = "working"]
             \/ work.reworks < MaxReworks /\ work' = [recovering EXCEPT !.at = "none", !.row = "WAITING"]
             \/ work' = [recovering EXCEPT !.at = "failing"]
  /\ UNCHANGED <<graded, files, bench>>

\* The last write of the session: the end that it reached, or a failure of
\* another kind in the middle of its work or of a verification.
EndSession ==
  /\ \/ work.at = "completing" /\ work' = [work EXCEPT !.row = "COMPLETED", !.at = "none"]
     \/ work.at \in {"failing", "working", "checking"} /\ work' = [work EXCEPT !.row = "FAILED", !.at = "none"]
  /\ UNCHANGED <<graded, files, evidence, bench>>

\* A process dies and leaves the row where it was; the run is resumed from it.
SessionDies ==
  /\ work.at # "none"
  /\ work' = [work EXCEPT !.at = "none"]
  /\ UNCHANGED <<graded, files, evidence, bench>>

-----------------------------------------------------------------------------
(* BenchRunner.runCase: every await is a step of its own.                    *)

\* The files of the case are written into the workspace of a row that exists; they
\* pass every command or none.
SetupWorkspace ==
  /\ bench.at = "created"
  /\ \E passes \in {{}, 1..Commands} : files' = [files EXCEPT !.passes = passes]
  /\ bench' = [bench EXCEPT !.at = "started"]
  /\ UNCHANGED <<graded, work, evidence>>

\* waitForRun returns a terminal row, or whatever it finds after its deadline:
\* start() may have returned before the run rests, and others may resume it.
WaitForRun ==
  /\ bench.at = "started"
  /\ bench' = [bench EXCEPT !.at = "finished", !.finished = work.row = "COMPLETED"]
  /\ UNCHANGED <<graded, files, work, evidence>>

\* result(): the row, and then the last verification.completed of the events.
\* No checkpoint carries a verification, the loop hands it none.
ReadResult ==
  /\ bench.at = "finished"
  /\ bench' = [bench EXCEPT !.at = "resulted", !.result = work.row = "COMPLETED"]
  /\ UNCHANGED <<graded, files, work, evidence>>

ReadEvidence ==
  /\ bench.at = "resulted"
  /\ bench' = [bench EXCEPT !.at = "exported",
                            !.proof = IF evidence = << >> THEN "none"
                                      ELSE IF Last(evidence) THEN "passed" ELSE "failed"]
  /\ UNCHANGED <<graded, files, work, evidence>>

\* grade() looks at the files now, and at the row and the proof it was given.
\* What the case expects of the verification is read here for the first time.
Expectations(expects) ==
  {files.asExpected, bench.finished} \cup
    CASE expects = "required" -> {bench.proof = "passed"}
      [] expects = "forbidden" -> {bench.proof # "passed"}
      [] expects = "optional" -> {}

Grade ==
  /\ bench.at = "exported"
  /\ \E expects \in {"required", "optional", "forbidden"} :
       bench' = [bench EXCEPT !.at = "graded", !.expects = expects,
                              !.success = bench.result /\ FALSE \notin Expectations(expects)]
  /\ UNCHANGED <<graded, files, work, evidence>>

GradingNext ==
  \/ StartSession \/ EditWorkspace \/ AgentFinishes \/ RunCommand \/ RecordVerdict \/ EmitVerdict
  \/ EndSession \/ SessionDies
  \/ SetupWorkspace \/ WaitForRun \/ ReadResult \/ ReadEvidence \/ Grade

-----------------------------------------------------------------------------
GradingTypeOK ==
  /\ bench.expects \in {"required", "optional", "forbidden"}
  /\ files.passes \subseteq 1..Commands /\ files.asExpected \in BOOLEAN
  /\ files.edits \in 0..MaxEdits
  /\ work.row \in {"CREATED", "EXECUTING", "VERIFYING", "RECOVERING", "WAITING"} \cup TerminalRows
  /\ work.at \in {"none", "working", "checking", "recorded", "completing", "failing"}
  /\ Len(work.checks) <= Commands /\ work.edited \in BOOLEAN
  /\ work.reworks \in 0..MaxReworks + 1 /\ work.sessions \in 0..MaxSessions
  /\ evidence \in Seq(BOOLEAN)
  /\ bench.at \in {"created", "started", "finished", "resulted", "exported", "graded"}
  /\ bench.proof \in {"none", "passed", "failed"} /\ {bench.finished, bench.result, bench.success} \subseteq BOOLEAN

\* A run that is COMPLETED and verified was verified after the agent's last
\* change, and the last word of its events is that every command passed, also
\* when processes died between the verdict, its event and the row's end
\* (loop.ts:790-905): what the files are says what the evidence says.
CompletedIsProven ==
  work.row = "COMPLETED" /\ Verifies =>
    /\ evidence # << >> /\ Last(evidence) /\ ~work.edited
    /\ files.passes = 1..Commands

\* A case is a success only for a workspace that is as the case expects and no
\* longer changes: the row was read twice and the events once while the run may
\* still have moved, and a case that waited too long grades a run in the middle
\* of its work (runner.ts:89, the deadline of waitForRun).
SuccessIsEarned ==
  bench.success =>
    /\ work.row = "COMPLETED" /\ work.at = "none" /\ files.asExpected
    /\ bench.expects = "required" => files.passes = 1..Commands
    /\ bench.expects = "forbidden" => ~Verifies

\* "Verification evidence outlives the worker that produced it" (runtime.ts:698).
\* Violated: it outlives the work too.  A verdict that passed is still the last
\* one when its process died before the run ended and the next one edited on.
EvidenceIsCurrent == bench.proof = "passed" => ~work.edited \/ work.row \notin TerminalRows
=============================================================================
