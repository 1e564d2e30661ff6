------------------------- MODULE MCActionExecution -------------------------
(* ActionExecution with an action that may be repeated and one that may not. *)
EXTENDS ActionExecution, TLC

CONSTANTS s1, s2, read, push, o1, o2

\* push needs a human, or is let through or denied as budgets go.
Gated == [a \in Action |-> IF a = push THEN {"REQUIRE_APPROVAL"} ELSE {"ALLOW"}]
Open == [a \in Action |-> IF a = push THEN {"ALLOW", "DENY"} ELSE {"ALLOW"}]

Deployment(journal, verdicts, malformed, batch, operators) ==
  [journal |-> journal, verdicts |-> verdicts, malformed |-> malformed,
   batch |-> batch, operators |-> operators]

AllSetups ==
  {Deployment("embedded", Gated, {}, 1, 2), Deployment("prisma", Gated, {}, 1, 1),
   Deployment("embedded", Gated, {}, 2, 1), Deployment("prisma", Open, {}, 1, 0),
   Deployment("embedded", Open, {}, 1, 1), Deployment("prisma", Open, {read}, 2, 0),
   Deployment("embedded", Open, {read}, 2, 0)}

OpenEmbedded == {Deployment("embedded", Open, {}, 1, 0)}

Symmetry == Permutations(Session) \cup Permutations(Operator)
=============================================================================
