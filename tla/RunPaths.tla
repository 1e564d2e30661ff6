------------------------------ MODULE RunPaths ------------------------------
(***************************************************************************)
(* advanceRunTo of packages/runtime/src/transition.ts, one hop at a time:  *)
(* a run somewhere in the table is asked to reach a target and walks the   *)
(* path the search found, writing the row after every hop.  The properties *)
(* compare the search with what a path through the table should be.        *)
(***************************************************************************)
EXTENDS RunStates, FiniteSets

VARIABLES source,   \* the status the row had when the call was made
          target,   \* the status the caller asked for
          status,   \* the row's status now
          path      \* the hops still to be written

vars == <<source, target, status, path>>

Init ==
  /\ source \in RUN_STATES
  /\ target \in RUN_STATES
  /\ status = source
  /\ path = FindPath(source, target)

\* Defect: only the first hop is written.
HopOnce ==
  /\ path # <<>>
  /\ status' = Head(path)
  /\ path' = <<>>
  /\ UNCHANGED <<source, target>>

Hop ==
  /\ path # <<>>
  /\ status' = Head(path)
  /\ path' = Tail(path)
  /\ UNCHANGED <<source, target>>

Next == Hop

Spec == Init /\ [][Next]_vars /\ WF_vars(Hop)

-----------------------------------------------------------------------------
(* A reference definition of distance, by layers of the reachable states.    *)

Layer[from \in RUN_STATES, n \in Nat] ==
  IF n = 0 THEN {from}
  ELSE LET inner == Layer[from, n - 1]
       IN  inner \cup UNION {ToSet(Transitions[via]) : via \in inner}

Reachable(from, to) == to \in Layer[from, Cardinality(RUN_STATES)]

TypeOK ==
  /\ source \in RUN_STATES /\ target \in RUN_STATES /\ status \in RUN_STATES
  /\ path \in Seq(RUN_STATES)

\* The walk that starts at `source` is as short as any: the target lies in the
\* layer numbered by what is left of the path and in no earlier one.  This is
\* what breadth-first order buys session.ts and transition.ts.
WalkIsShortest ==
  Reachable(source, target) =>
    /\ target \in Layer[status, Len(path)]
    /\ Len(path) > 0 => target \notin Layer[status, Len(path) - 1]

\* pause and cancel are the calls an operator makes on a live run.  Neither may
\* write a finished status into the row on its way: a crash between two hops
\* would leave the run finished although it was only to be parked.
OperatorPathsStayLive ==
  (source \notin TERMINAL_STATES /\ target \in {"PAUSED", "CANCELLED"} /\ status # target)
    => status \notin TERMINAL_STATES

\* A finished run that was not asked to be retried stays where it is: from
\* COMPLETED and CANCELLED no call moves the row at all.
FinishedRowsDoNotMove ==
  source \in {"COMPLETED", "CANCELLED"} => status = source

\* Whatever is asked of a run that can get there, the walk ends there.
WalkArrives == (Reachable(source, target)) ~> (status = target)

=============================================================================
