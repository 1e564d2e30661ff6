------------------------- MODULE MCInlineDeployment -------------------------
(* InlineDeployment with the state table of RunStates and small sets. *)
EXTENDS InlineDeployment, TLC

Table == INSTANCE RunStates

MCRunState == Table!RUN_STATES
MCTerminal == Table!TERMINAL_STATES
MCPath == Table!PathTable

CONSTANTS t1, t2, api, c1, c2, c3

MCHostOf == [t \in Thread |-> api]
MCSiteOf == [c \in Caller |-> api]

ControlCalls == {"pause", "cancel"}
AllButRestore == {"pause", "cancel", "start", "resume", "retry"}
AllCalls == AllButRestore \cup {"restore"}

Symmetry == Permutations(Thread) \cup Permutations(Caller)
=============================================================================
