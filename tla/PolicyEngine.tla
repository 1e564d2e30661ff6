---------------------------- MODULE PolicyEngine ----------------------------
(***************************************************************************)
(* How an action is authorized.  First its permissions: what the agent's   *)
(* definition, the run's request and a tool's declaration leave of them    *)
(* (packages/core/src/permissions.ts, packages/tools/src/permissions.ts).  *)
(* Then the policy: RiskClassifier (packages/policies/src/risk.ts),        *)
(* DefaultPolicyEngine with DEFAULT_RULES (engine.ts), and the composition *)
(* with a remote provider (remote.ts).  Rules may be registered and        *)
(* removed while a run executes; an action is classified and judged in one *)
(* step, but a remote answer is awaited.                                   *)
(*                                                                         *)
(* An action is its tool and the traits the regular expressions look for.  *)
(* "prodlike" is a text in which prod or live occurs at all, "production"  *)
(* one where it occurs as a word: the two sources test different things.   *)
(***************************************************************************)
EXTENDS Naturals, Sequences, FiniteSets

CONSTANTS
  MaxOperatorRules,   \* bound: rules an operator registers
  Use,                \* what a permission may be asked for: commands, hosts, roots
  UNSET

-----------------------------------------------------------------------------
(* Permissions.  filesystem, terminal, network, git and database are groups  *)
(* of one shape: flags, allow-lists and a deny-list, any of them left unset. *)

\* A pattern is the set of uses it matches (matchesCommand: one, a prefix, all).
UsePattern == {{u} : u \in Use} \cup {Use}
PatternList == SUBSET UsePattern

\* What is left unset is neither a flag nor a list.
ASSUME PolicyAssumption ==
  MaxOperatorRules \in Nat /\ UNSET \notin BOOLEAN /\ \A list \in PatternList : list # UNSET

Flag == BOOLEAN \cup {UNSET}
Group == [flag : Flag, allow : PatternList \cup {UNSET}, deny : PatternList \cup {UNSET}]
NoGroup == [flag |-> UNSET, allow |-> UNSET, deny |-> UNSET]

Or(value, default) == IF value = UNSET THEN default ELSE value

\* canExecuteTerminal, canUseNetwork, canReadFilesystem...: an empty or absent
\* allow-list restricts nothing.
Permitted(group, use) ==
  /\ group.flag = TRUE
  /\ ~\E pattern \in Or(group.deny, {}) : use \in pattern
  /\ Or(group.allow, {}) # {} => \E pattern \in group.allow : use \in pattern

GrantBool(granted, required) ==
  IF granted = UNSET /\ required = UNSET THEN UNSET
  ELSE IF required = FALSE THEN FALSE ELSE granted = TRUE

\* Defect: an empty intersection is kept.
NarrowListToEmpty(granted, required) ==
  IF granted = UNSET THEN required
  ELSE IF required = UNSET THEN granted ELSE granted \cap required

NarrowList(granted, required) ==
  IF granted = UNSET THEN required
  ELSE IF required = UNSET \/ granted \cap required = {} THEN granted
  ELSE granted \cap required

UnionList(current, next) ==
  IF current = UNSET THEN next ELSE IF next = UNSET THEN current ELSE current \cup next

IntersectBool(current, next) ==
  IF FALSE \in {current, next} THEN FALSE ELSE IF current = UNSET THEN next ELSE current

IntersectList(current, next) ==
  IF current = UNSET THEN next ELSE IF next = UNSET THEN current ELSE current \cap next

\* restrictPermissions, for one group.
RestrictGroup(granted, required) ==
  [flag |-> GrantBool(granted.flag, required.flag),
   allow |-> NarrowList(granted.allow, required.allow),
   deny |-> UnionList(granted.deny, required.deny)]

\* mergePermissions, for one group of two layers.
MergeGroup(current, next) ==
  [flag |-> IntersectBool(current.flag, next.flag),
   allow |-> IntersectList(current.allow, next.allow),
   deny |-> UnionList(current.deny, next.deny)]

VARIABLES layers,      \* what the definition, the request and the tool state
          grant,       \* the run's permissions, once it is created
          effective    \* a call's permissions, once it is executed

PermissionsVars == <<layers, grant, effective>>

PermissionsInit(definition, asked, tool) ==
  /\ layers = [definition |-> definition, request |-> asked, tool |-> tool]
  /\ grant = NoGroup /\ effective = NoGroup

\* runInput of the SDK restricts the definition; effectiveConfig of the agent
\* package merges it with what it overrides, when there is an override.
CreateByRequest ==
  /\ grant = NoGroup
  /\ grant' = RestrictGroup(layers.definition, layers.request)
  /\ UNCHANGED <<layers, effective>>

CreateByOverride ==
  /\ grant = NoGroup
  /\ grant' = IF layers.request = NoGroup THEN layers.definition
              ELSE MergeGroup(layers.definition, layers.request)
  /\ UNCHANGED <<layers, effective>>

\* effectivePermissions of the executor.
UseTool ==
  /\ grant # NoGroup /\ effective = NoGroup
  /\ effective' = RestrictGroup(grant, layers.tool)
  /\ UNCHANGED <<layers, grant>>

PermissionsNext == CreateByRequest \/ CreateByOverride \/ UseTool

PermissionsTypeOK ==
  /\ \A name \in DOMAIN layers : layers[name] \in Group
  /\ {grant, effective} \subseteq Group

\* A tool never does what its run may not, and never what it has itself refused,
\* whichever lists are empty, disjoint or missing.
ToolsOnlyNarrow ==
  \A use \in Use :
    Permitted(effective, use) => Permitted(grant, use) /\ layers.tool.flag # FALSE

\* What one layer refuses by a flag or a deny-list no other layer brings back,
\* whichever of the two ways of combining layers made the grant.
RefusalIsFinal ==
  \A use \in Use : \A name \in DOMAIN layers :
    (\/ layers[name].flag = FALSE
     \/ \E pattern \in Or(layers[name].deny, {}) : use \in pattern)
      => ~Permitted(effective, use)

-----------------------------------------------------------------------------
(* Risk.                                                                     *)

LOW == 0
MEDIUM == 1
HIGH == 2
CRITICAL == 3
RISK_ORDER == LOW..CRITICAL
OUTCOME_ORDER == [ALLOW |-> 0, REQUIRE_APPROVAL |-> 1, DENY |-> 2]
RuleOutcome == DOMAIN OUTCOME_ORDER
UNDECLARED == 99            \* a tool with no risk of its own

-----------------------------------------------------------------------------
(* Actions, and what the rules ask about them.                               *)

FileTraits == {{}, {"prodlike"}, {"prodlike", "production"}}

AgentActions ==
  [toolId : {"filesystem.read", "filesystem.write"}, traits : {{}}]
    \cup [toolId : {"filesystem.delete", "http.request"}, traits : FileTraits]
    \cup [toolId : {"terminal.exec"}, traits : SUBSET {"destructive", "force-push"}]
    \cup [toolId : {"git"}, traits : {{"read"}, {"commit"}, {"push"}, {}}]
    \cup [toolId : {"database.query"}, traits : {{"read"}, {}, {"ddl"}, {"read", "ddl"}}]
    \cup [toolId : {"mcp.search", "custom"}, traits : {{}}]

Has(action, trait) == trait \in action.traits

\* toolMatches: a pattern is an id, a namespace or everything.
ToolMatches(pattern, toolId) ==
  \/ pattern \in {"*", toolId}
  \/ pattern = "mcp.*" /\ toolId = "mcp.search"

\* DEFAULT_RISK_RULES, in its order, with the predicate's verdict as `when`.
RiskRules(action) ==
  LET Rule(tool, risk, when) == [tool |-> tool, risk |-> risk, when |-> when]
  IN  << Rule("filesystem.read", LOW, TRUE),
         Rule("filesystem.write", MEDIUM, TRUE),
         Rule("filesystem.delete", HIGH, ~Has(action, "production")),
         Rule("filesystem.delete", CRITICAL, Has(action, "production")),
         Rule("terminal.exec", MEDIUM, ~Has(action, "destructive")),
         Rule("terminal.exec", CRITICAL, Has(action, "destructive")),
         Rule("http.request", MEDIUM, TRUE),
         Rule("http.request", HIGH, Has(action, "production")),
         Rule("git", LOW, Has(action, "read")),
         Rule("git", MEDIUM, Has(action, "commit")),
         Rule("git", CRITICAL, Has(action, "push")),
         Rule("database.query", MEDIUM, Has(action, "read")),
         Rule("database.query", HIGH, ~Has(action, "read") /\ ~Has(action, "ddl")),
         Rule("database.query", CRITICAL, Has(action, "ddl")),
         Rule("mcp.*", MEDIUM, TRUE) >>

MaxRisk(left, right) == IF left >= right THEN left ELSE right

\* Defect: the table's answer stands whatever the tool says of itself.
ClassifyByTable(action, declared) ==
  LET rules == RiskRules(action)
      hits  == {i \in DOMAIN rules : ToolMatches(rules[i].tool, action.toolId) /\ rules[i].when}
  IN  IF hits # {} THEN rules[CHOOSE i \in hits : \A j \in hits : i <= j].risk
      ELSE IF declared # UNDECLARED THEN declared ELSE HIGH

\* classify: the first matching rule, with the tool's own declaration as floor.
Classify(action, declared) ==
  LET rules == RiskRules(action)
      hits  == {i \in DOMAIN rules : ToolMatches(rules[i].tool, action.toolId) /\ rules[i].when}
      found == rules[CHOOSE i \in hits : \A j \in hits : i <= j].risk
  IN  IF hits # {} THEN IF declared = UNDECLARED THEN found ELSE MaxRisk(found, declared)
      ELSE IF declared # UNDECLARED THEN declared ELSE HIGH

-----------------------------------------------------------------------------
(* Policy rules.                                                             *)

PolicyRule == [id : {"unisolated", "delete-production", "push", "force-push", "operator"},
               priority : 0..1000, outcome : RuleOutcome, risk : RISK_ORDER, breaks : BOOLEAN]

DefaultRule(id, priority, outcome, risk) ==
  [id |-> id, priority |-> priority, outcome |-> outcome, risk |-> risk, breaks |-> FALSE]

DEFAULT_RULES ==
  << DefaultRule("unisolated", 1000, "DENY", HIGH),
     DefaultRule("delete-production", 100, "REQUIRE_APPROVAL", CRITICAL),
     DefaultRule("push", 90, "REQUIRE_APPROVAL", CRITICAL),
     DefaultRule("force-push", 95, "DENY", CRITICAL) >>

\* What an operator adds: a rule for every tool, before or after the defaults
\* (of the highest default's priority at most), or one whose predicate throws.
OperatorRule == [id : {"operator"}, priority : {0, 1000}, outcome : {"ALLOW", "DENY"},
                 risk : {LOW}, breaks : {FALSE}]
  \cup [id : {"operator"}, priority : {0}, outcome : {"ALLOW"}, risk : {LOW}, breaks : {TRUE}]

\* The predicate of a rule; `context` says whether the environment isolates and
\* whether the run accepts bare execution.
Applies(rule, action, context) ==
  CASE rule.id = "unisolated"        -> ~context.isolates /\ context.needsIsolation
                                          /\ ~context.allowUnisolated
    [] rule.id = "delete-production" -> action.toolId = "filesystem.delete" /\ Has(action, "prodlike")
    [] rule.id = "push"              -> action.toolId = "git" /\ Has(action, "push")
    [] rule.id = "force-push"        -> action.toolId = "terminal.exec" /\ Has(action, "force-push")
    [] OTHER                         -> TRUE

Decision(outcome, risk, ruleId) == [outcome |-> outcome, risk |-> risk, ruleId |-> ruleId]

\* fallback with the default options: approval from HIGH on, else ALLOW.
Fallback(risk) == Decision(IF risk >= HIGH THEN "REQUIRE_APPROVAL" ELSE "ALLOW", risk, "risk")

\* safeEvaluate: a rule that throws denies.
EvaluateRule(rule) ==
  IF rule.breaks THEN Decision("DENY", HIGH, "error")
                 ELSE Decision(rule.outcome, rule.risk, rule.id)

\* Defect: the last of several equal priorities is asked first.
DecisiveLast(rules, action, context) ==
  LET hits == {i \in DOMAIN rules : Applies(rules[i], action, context)}
  IN  {i \in hits : \A j \in hits : rules[j].priority < rules[i].priority
                                       \/ (rules[j].priority = rules[i].priority /\ j <= i)}

\* Of the rules with an opinion, the one of highest priority, registered first:
\* what the stable sort of list() puts before the others.
Decisive(rules, action, context) ==
  LET hits == {i \in DOMAIN rules : Applies(rules[i], action, context)}
  IN  {i \in hits : \A j \in hits : rules[j].priority < rules[i].priority
                                       \/ (rules[j].priority = rules[i].priority /\ i <= j)}

\* evaluate: a rule's decision never lowers the classified risk.
Evaluate(rules, action, context) ==
  LET risk  == Classify(action, context.declared)
      first == Decisive(rules, action, context)
  IN  IF first = {} THEN Fallback(risk)
      ELSE LET decision == EvaluateRule(rules[CHOOSE i \in first : TRUE])
           IN  [decision EXCEPT !.risk = MaxRisk(@, risk)]

\* Defect: the remote answer overrides.
MostRestrictiveRemote(left, right) == right

\* mostRestrictive
MostRestrictive(left, right) ==
  IF OUTCOME_ORDER[left.outcome] >= OUTCOME_ORDER[right.outcome] THEN left ELSE right

-----------------------------------------------------------------------------
VARIABLES policyRules,    \* the engine's rules, in registration order
          policyRequest,  \* the action to authorize and its context
          verdict,        \* [at, local, answer, final]: what came of it
          remoteAnswer    \* what the remote provider answered, if there is one

PolicyVars == <<policyRules, policyRequest, verdict, remoteAnswer>>

Contexts ==
  {c \in [isolates : BOOLEAN, needsIsolation : BOOLEAN, allowUnisolated : BOOLEAN,
          declared : {UNDECLARED, LOW, CRITICAL}, remote : BOOLEAN] :
     c.needsIsolation \/ (c.isolates /\ ~c.allowUnisolated)}
NotDecided == Decision("DENY", LOW, "none")

PolicyInit(action, context) ==
  /\ policyRules = DEFAULT_RULES
  /\ policyRequest = [action |-> action, context |-> context]
  /\ verdict = [at |-> "asked", local |-> NotDecided, final |-> NotDecided]
  /\ remoteAnswer = "none"

\* register and unregister of the operator's rules.
RegisterRule(rule) ==
  /\ verdict.at # "done"
  /\ Len(policyRules) < Len(DEFAULT_RULES) + MaxOperatorRules
  /\ policyRules' = Append(policyRules, rule)
  /\ UNCHANGED <<policyRequest, verdict, remoteAnswer>>

UnregisterRules ==
  /\ verdict.at = "local" /\ Len(policyRules) > Len(DEFAULT_RULES)
  /\ policyRules' = DEFAULT_RULES
  /\ UNCHANGED <<policyRequest, verdict, remoteAnswer>>

\* authorize of the local engine; without a remote provider it is the answer.
EvaluateLocally ==
  /\ verdict.at = "asked"
  /\ LET local == Evaluate(policyRules, policyRequest.action, policyRequest.context)
     IN  verdict' = [at |-> IF policyRequest.context.remote THEN "local" ELSE "done",
                     local |-> local, final |-> local]
  /\ UNCHANGED <<policyRules, policyRequest, remoteAnswer>>

\* RemotePolicyProvider.authorize: a valid outcome with the risk it states or
\* MEDIUM; an error status, a timeout or an invalid outcome is a denial.
RemoteDecision(answer) ==
  IF answer \in RuleOutcome THEN Decision(answer, MEDIUM, "remote")
                           ELSE Decision("DENY", HIGH, "unavailable")

AnswerRemotely(answer) ==
  /\ verdict.at = "local"
  /\ remoteAnswer' = answer
  /\ verdict' = [verdict EXCEPT !.at = "done",
                                !.final = MostRestrictive(verdict.local, RemoteDecision(answer))]
  /\ UNCHANGED <<policyRules, policyRequest>>

PolicyNext ==
  \/ \E rule \in OperatorRule : RegisterRule(rule)
  \/ UnregisterRules
  \/ EvaluateLocally
  \/ \E answer \in RuleOutcome \cup {"http_500", "unavailable", "invalid"} : AnswerRemotely(answer)

-----------------------------------------------------------------------------
PolicyTypeOK ==
  /\ \A i \in DOMAIN policyRules : policyRules[i] \in PolicyRule
  /\ policyRequest.action \in AgentActions /\ policyRequest.context \in Contexts
  /\ verdict.at \in {"asked", "local", "done"}
  /\ {verdict.local, verdict.final} \subseteq
       [outcome : RuleOutcome, risk : RISK_ORDER,
        ruleId : {"none", "risk", "remote", "unavailable", "error",
                  "unisolated", "delete-production", "push", "force-push", "operator"}]

\* A tool that needs isolation, in an environment without it and a run that does
\* not accept that, is denied whatever an operator registers (at no more than
\* the default's priority) and whatever the remote service answers.
IsolationIsKept ==
  (/\ verdict.at = "done" /\ policyRequest.context.needsIsolation
   /\ ~policyRequest.context.isolates /\ ~policyRequest.context.allowUnisolated)
    => verdict.final.outcome = "DENY"

\* What a tool declares about itself is a floor under every row of the risk
\* table: one that calls itself CRITICAL is never allowed by the engine unasked,
\* unless an operator's own rule says so.
DeclaredRiskIsAFloor ==
  (verdict.at # "asked" /\ policyRequest.context.declared # UNDECLARED) =>
    /\ verdict.local.risk >= policyRequest.context.declared
    /\ (policyRequest.context.declared >= HIGH /\ verdict.local.outcome = "ALLOW")
         => verdict.local.ruleId = "operator"

\* With a remote provider nothing is allowed that either side did not allow,
\* and silence, an error or nonsense from it allows nothing.
BothMustAllow ==
  (verdict.at = "done" /\ policyRequest.context.remote /\ verdict.final.outcome = "ALLOW")
    => verdict.local.outcome = "ALLOW" /\ remoteAnswer = "ALLOW"
=============================================================================
