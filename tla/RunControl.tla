----------------------------- MODULE RunControl -----------------------------
(***************************************************************************)
(* What an operator asks of a run from outside it: pause, cancel and       *)
(* restore of runtime.ts, and the route that accepts start, resume and     *)
(* retry before it hands the run to an executor (http.ts).  A call runs in *)
(* a process; when that process is executing the run, pause and cancel     *)
(* only raise a flag in its RunControl, otherwise they walk the row        *)
(* through the table with advanceRunTo, one compare-and-set per hop.       *)
(***************************************************************************)
EXTENDS RunSession

CONSTANTS Caller,     \* operator calls that may be made; each is made once
          SiteOf,     \* the process that serves a call
          CallKinds,  \* the calls this deployment is asked to serve
          Embedded    \* the store is in the process: a read takes no time

ASSUME ControlAssumption ==
  /\ SiteOf \in [Caller -> Process]
  /\ CallKinds \subseteq {"pause", "cancel", "restore", "start", "resume", "retry"}
  /\ Embedded \in BOOLEAN

VARIABLE call   \* per caller: how far its call has come

CallPhase == {"none", "read", "load", "save", "hop", "dispatch", "enqueue", "over"}

Call ==
  [pc : CallPhase,
   kind : CallKinds \cup {"none"},
   copy : Row,               \* the row as the call read it, and then as it writes it
   path : Seq(RunState),     \* hops still to be written
   expected : Nat,           \* restore: the state version it read
   flagged : BOOLEAN,        \* the call raised a flag instead of writing the row
   refused : BOOLEAN]        \* the call ended with an error

NoCall ==
  [pc |-> "none", kind |-> "none",
   copy |-> [status |-> "CREATED", version |-> 0, claim |-> FreeClaim(0)],
   path |-> <<>>, expected |-> 0, flagged |-> FALSE, refused |-> FALSE]

ControlTypeOK == call \in [Caller -> Call]

ControlInit == call = [c \in Caller |-> NoCall]

CallAt(c, pc) == call[c].pc = pc

Answer(c, answer) == call' = [call EXCEPT ![c] = answer]

Over(k) == [k EXCEPT !.pc = "over"]

Refused(k) == [k EXCEPT !.pc = "over", !.refused = TRUE]

RunIsElsewhere == UNCHANGED <<row, saved, ses, lock, control, blind>>

\* Defect: the name of the call is taken for the name of the phase.
CalledPhase(kind) == kind

\* The runtime function that serves a call, as the phase its thread begins in.
FirstPhase(kind) == IF kind = "start" THEN "acquire" ELSE kind

-----------------------------------------------------------------------------

\* pause and cancel, when this process has a RunControl for the run.
Signal(c, kind) ==
  LET t == control[SiteOf[c]]
  IN  /\ CallAt(c, "none")
      /\ t # None
      /\ \/ kind = "pause" /\ ses' = [ses EXCEPT ![t].paused = TRUE]
         \/ kind = "cancel" /\ ses' = [ses EXCEPT ![t].cancelled = TRUE]
      /\ Answer(c, [NoCall EXCEPT !.pc = "over", !.kind = kind, !.flagged = TRUE])
      /\ UNCHANGED <<row, saved, lock, control, blind>>

\* The read of pause and cancel, with their early returns.
ReadToMove(c, read, target) ==
  LET k == [read EXCEPT !.copy = row, !.path = Path[row.status][target]]
  IN  \/ row.status \in Terminal
         /\ Answer(c, IF target = "PAUSED" THEN Refused(k) ELSE Over(k))
      \/ row.status = target /\ row.status \notin Terminal /\ Answer(c, Over(k))
      \/ row.status \notin Terminal \cup {target} /\ Answer(c, [k EXCEPT !.pc = "hop"])

ReadToRestore(c, read) ==
  LET k == [read EXCEPT !.copy = row, !.path = Path[row.status]["QUEUED"]]
  IN  \/ row.status \in Terminal /\ Answer(c, Refused(k))
      \/ row.status \notin Terminal /\ Answer(c, [k EXCEPT !.pc = "load"])

\* assertActionable.
Actionable(kind) ==
  IF kind = "retry" THEN row.status \in {"FAILED", "TIMED_OUT", "PAUSED"}
  ELSE /\ row.status \notin Terminal
       /\ kind = "start" => row.status # "PAUSED"

ReadToDispatch(c, read) ==
  \/ Actionable(read.kind) /\ Answer(c, [read EXCEPT !.pc = "dispatch"])
  \/ ~Actionable(read.kind) /\ Answer(c, Refused(read))

Read(c, read) ==
  \/ read.kind = "pause" /\ ReadToMove(c, read, "PAUSED")
  \/ read.kind = "cancel" /\ ReadToMove(c, read, "CANCELLED")
  \/ read.kind = "restore" /\ ReadToRestore(c, read)
  \/ read.kind \in {"start", "resume", "retry"} /\ ReadToDispatch(c, read)

\* Any other call starts by reading the row; in a deployment with a database
\* the answer comes later, when this process may have begun to execute the run.
MakeCall(c, kind) ==
  LET k == [NoCall EXCEPT !.pc = "read", !.kind = kind]
  IN  /\ CallAt(c, "none")
      /\ kind \in {"pause", "cancel"} => control[SiteOf[c]] = None
      /\ \/ Embedded /\ Read(c, k)
         \/ ~Embedded /\ Answer(c, k)
      /\ RunIsElsewhere

ReadRow(c) ==
  /\ CallAt(c, "read")
  /\ Read(c, call[c])
  /\ RunIsElsewhere

\* advanceRunTo: one hop, one version, one compare-and-set.
WriteHop(c) ==
  LET k == call[c]
      hopped == [k.copy EXCEPT !.status = Head(k.path), !.version = @ + 1]
  IN  /\ CallAt(c, "hop")
      /\ \/ k.path = <<>> /\ Answer(c, Over(k)) /\ UNCHANGED row
         \/ /\ k.path # <<>>
            /\ Accepts(k.copy.version)
            /\ WriteRow(hopped)
            /\ Answer(c, [k EXCEPT !.copy = hopped, !.path = Tail(k.path)])
         \/ /\ k.path # <<>>
            /\ ~Accepts(k.copy.version)
            /\ Answer(c, Refused(k))
            /\ UNCHANGED row
      /\ UNCHANGED <<saved, ses, lock, control, blind>>

\* restore replaces the saved state before it moves the row: it reads the
\* version to replace, and writes the checkpoint's older state over it.
LoadVersion(c) ==
  /\ CallAt(c, "load")
  /\ Answer(c, [call[c] EXCEPT !.pc = "save", !.expected = saved])
  /\ RunIsElsewhere

SaveCheckpoint(c) ==
  /\ CallAt(c, "save")
  /\ \/ /\ saved = call[c].expected
        /\ saved' \in 1..saved
        /\ Answer(c, [call[c] EXCEPT !.pc = "hop"])
     \/ /\ saved # call[c].expected
        /\ Answer(c, Refused(call[c]))
        /\ UNCHANGED saved
  /\ UNCHANGED <<row, ses, lock, control, blind>>

CallStep(c) ==
  \/ \E kind \in CallKinds \cap {"pause", "cancel"} : Signal(c, kind)
  \/ \E kind \in CallKinds : MakeCall(c, kind)
  \/ ReadRow(c) \/ WriteHop(c) \/ LoadVersion(c) \/ SaveCheckpoint(c)
=============================================================================
