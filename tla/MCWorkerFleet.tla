--------------------------- MODULE MCWorkerFleet ---------------------------
(* WorkerFleet with the state table of RunStates and small sets. *)
EXTENDS WorkerFleet, TLC

Table == INSTANCE RunStates

MCRunState == Table!RUN_STATES
MCTerminal == Table!TERMINAL_STATES
MCPath == Table!PathTable

CONSTANTS t1, t2, t3, w1, w2, api, c1, c2, id1, id2

\* One thread per worker, and a second one where a run can be claimed again.
MCHostOf == [t \in Thread |-> IF t = t2 THEN w2 ELSE w1]
MCSiteOf == [c \in Caller |-> api]

\* A worker id is drawn when the process starts, unless it is configured: then
\* a process and the one that replaces it have the same.
FreshIds == [w \in Worker |-> IF w = w1 THEN id1 ELSE id2]
SharedId == [w \in Worker |-> id1]

\* Two workers with a thread each are alike, with their ids.
Twins == {(t1 :> t2 @@ t2 :> t1 @@ w1 :> w2 @@ w2 :> w1 @@ id1 :> id2 @@ id2 :> id1)}

NoSuccessor == [p \in Process |-> {}]

NoCalls == {}
CancelOnly == {"cancel"}
StartOnly == {"start"}
AllCalls == {"pause", "cancel", "restore", "start", "resume", "retry"}
=============================================================================
