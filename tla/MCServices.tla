----------------------------- MODULE MCServices -----------------------------
(***************************************************************************)
(* The services a run relies on, each in its own behaviours: `part` names  *)
(* the one that moves, the others rest where they started.  They share no  *)
(* variable, so what holds here of a part holds of it alone, and one run   *)
(* answers one question for all the parts it concerns.                     *)
(***************************************************************************)
EXTENDS Webhooks, Gateway, ProviderChain, McpClient, BullMqQueue, Sandbox,
        PolicyEngine, Recovery, ActionWaves, Admission

VARIABLE part

servicesVars ==
  <<part, WebhooksVars, GatewayVars, ProviderChainVars, McpCallsVars, McpServersVars, BullMqVars, SandboxVars, PolicyVars, PermissionsVars, RecoveryVars, ActionWavesVars, PlannerVars,
    LockManagerVars, AdmissionVars>>

Parts == {"webhooks", "gateway", "providers", "calls", "servers", "bullmq", "sandbox",
          "policy", "permissions", "recovery", "waves", "planner",
          "locks", "admission"}

-----------------------------------------------------------------------------
(* The cases each part starts from.                                          *)

\* One context for each thing the rules ask about it: bare execution, accepted
\* or not, what the tool declares, and whether a remote service is asked too.
MCContext == [isolates |-> TRUE, needsIsolation |-> TRUE, allowUnisolated |-> FALSE,
              declared |-> UNDECLARED, remote |-> TRUE]
MCContexts ==
  {MCContext, [MCContext EXCEPT !.isolates = FALSE],
   [MCContext EXCEPT !.isolates = FALSE, !.allowUnisolated = TRUE],
   [MCContext EXCEPT !.isolates = FALSE, !.remote = FALSE],
   [MCContext EXCEPT !.declared = LOW], [MCContext EXCEPT !.declared = CRITICAL],
   [MCContext EXCEPT !.declared = CRITICAL, !.remote = FALSE]}

\* Of every layer the values the combination tells apart, "a" and "b" being uses.
ASSUME MCUses == {"a", "b"} \subseteq Use

MCAllow == {UNSET, {}, {{"a"}}, {{"b"}}, {{"a"}, {"b"}}}
MCDefinitions == [flag : BOOLEAN, allow : MCAllow, deny : {UNSET, {{"a"}}}]
MCRequests == [flag : BOOLEAN \cup {UNSET}, allow : {UNSET, {{"a"}}, {{"b"}}}, deny : {UNSET}]
MCTools == [flag : BOOLEAN \cup {UNSET}, allow : {UNSET, {}, {{"b"}}}, deny : {UNSET}]

MCSetting == CHOOSE s \in RecoverySettings : s.class = "unknown"

-----------------------------------------------------------------------------
ServicesInit ==
  /\ part \in Parts
  /\ WebhooksInit /\ GatewayInit /\ ProviderChainInit /\ McpCallsInit /\ BullMqInit
  /\ SandboxInit /\ (part = "sandbox" \/ sandboxKind = "local")
  /\ \E strict \in BOOLEAN, enabled \in SUBSET McpServer :
       /\ McpServersInit(strict, enabled)
       /\ part = "servers" \/ (strict /\ enabled = {})
  /\ \E action \in AgentActions, context \in MCContexts :
       /\ part = "policy" \/ (action = [toolId |-> "custom", traits |-> {}] /\ context = MCContext)
       /\ PolicyInit(action, context)
  /\ IF part = "permissions"
     THEN \E definition \in MCDefinitions, asked \in MCRequests, tool \in MCTools :
            PermissionsInit(definition, asked, tool)
     ELSE PermissionsInit(NoGroup, NoGroup, NoGroup)
  /\ IF part = "recovery" THEN \E s \in RecoverySettings : RecoveryInit(s) ELSE RecoveryInit(MCSetting)
  /\ IF part = "waves" THEN \E d \in [BatchAction -> SUBSET BatchAction] : ActionWavesInit(d)
                       ELSE ActionWavesInit([a \in BatchAction |-> {}])
  /\ PlannerInit(2) \/ (part = "planner" /\ PlannerInit(3))
  /\ LockManagerInit
  /\ AdmissionInit /\ (part = "admission" \/ deployment = "worker")

Rests(name, own) == IF part = name THEN TRUE ELSE UNCHANGED own

OthersRest ==
  /\ UNCHANGED part
  /\ Rests("webhooks", WebhooksVars) /\ Rests("gateway", GatewayVars)
  /\ Rests("providers", ProviderChainVars) /\ Rests("calls", McpCallsVars)
  /\ Rests("servers", McpServersVars) /\ Rests("bullmq", BullMqVars)
  /\ Rests("sandbox", SandboxVars)
  /\ Rests("policy", PolicyVars) /\ Rests("permissions", PermissionsVars)
  /\ Rests("recovery", RecoveryVars) /\ Rests("waves", ActionWavesVars)
  /\ Rests("planner", PlannerVars)
  /\ Rests("locks", LockManagerVars) /\ Rests("admission", AdmissionVars)

WebhooksMove == part = "webhooks" /\ WebhooksNext /\ OthersRest
GatewayMoves == part = "gateway" /\ GatewayNext /\ OthersRest
ProvidersMove == part = "providers" /\ ProviderChainNext /\ OthersRest
CallsMove == part = "calls" /\ McpCallsNext /\ OthersRest
ServersMove == part = "servers" /\ McpServersNext /\ OthersRest
BullMqMoves == part = "bullmq" /\ BullMqNext /\ OthersRest
SandboxMoves == part = "sandbox" /\ SandboxNext /\ OthersRest
PolicyMoves == part = "policy" /\ PolicyNext /\ OthersRest
PermissionsMove == part = "permissions" /\ PermissionsNext /\ OthersRest
RecoveryMoves == part = "recovery" /\ RecoveryNext /\ OthersRest
WavesMove == part = "waves" /\ ActionWavesNext /\ OthersRest
PlannerMoves == part = "planner" /\ PlannerNext /\ OthersRest
LocksMove == part = "locks" /\ LockManagerNext /\ OthersRest
AdmissionMoves == part = "admission" /\ AdmissionNext /\ OthersRest

ServicesNext ==
  \/ WebhooksMove \/ GatewayMoves \/ ProvidersMove \/ CallsMove \/ ServersMove
  \/ BullMqMoves \/ SandboxMoves \/ PolicyMoves \/ PermissionsMove \/ RecoveryMoves \/ WavesMove
  \/ PlannerMoves \/ LocksMove \/ AdmissionMoves

\* The fairness of every part's own module, for the part that moves.
ServicesFairness ==
  /\ \A n \in 1..MaxPublished : WF_WebhooksVars(part = "webhooks" /\ DeliveryStep(n))
  /\ WF_WebhooksVars(part = "webhooks" /\ Drained)
  /\ \A c \in Client : WF_GatewayVars(part = "gateway" /\ TimeOut(c))
  /\ \A id \in 1..MaxCalls :
       /\ WF_McpCallsVars(part = "calls" /\ id \in CallIds /\ TimeOutCall(id))
       /\ WF_McpCallsVars(part = "calls" /\ id \in CallIds /\ TellCaller(id))
  /\ WF_McpCallsVars(part = "calls" /\ AnswerServerRequest)
  /\ WF_McpCallsVars(part = "calls" /\ HandlerEnds)
  /\ WF_McpServersVars(part = "servers" /\ StartServers)
  /\ WF_McpServersVars(part = "servers" /\ StartRejects)
  /\ WF_McpServersVars(part = "servers" /\ StartResolves)
  /\ \A s \in McpServer : WF_McpServersVars(part = "servers" /\ ConnectionStep(s))
  /\ \A w \in QueueWorker : WF_BullMqVars(part = "bullmq" /\ ConsumerStep(w))
  /\ \A u \in SandboxUser :
       /\ WF_SandboxVars(part = "sandbox" /\ TimeOutCommand(u))
       /\ WF_SandboxVars(part = "sandbox" /\ CloseCommand(u))
  /\ WF_RecoveryVars(part = "recovery" /\ RecoveryStep)
  /\ WF_ActionWavesVars(part = "waves" /\ ActionWavesNext)
  /\ \A c \in Contender : WF_LockManagerVars(part = "locks" /\ LockStep(c))
  /\ \A r \in Admitted : WF_AdmissionVars(part = "admission" /\ deployment = "worker" /\ AdmissionStep(r))
  /\ WF_AdmissionVars(part = "admission" /\ \E r \in Admitted : ClaimAdmitted(r))

ServicesSpec == ServicesInit /\ [][ServicesNext]_servicesVars /\ ServicesFairness

-----------------------------------------------------------------------------
(* What the modules' own properties say together, one question at a time.    *)

\* A property is looked at where its part moves: a part at rest is as it started.
Of(name, property) == part = name => property

\* Every part's variables have their types.
ServicesTypeOK ==
  /\ part \in Parts
  /\ Of("webhooks", WebhooksTypeOK) /\ Of("gateway", GatewayTypeOK)
  /\ Of("providers", ProviderChainTypeOK) /\ Of("calls", McpCallsTypeOK)
  /\ Of("servers", McpServersTypeOK) /\ Of("bullmq", BullMqTypeOK) /\ Of("sandbox", SandboxTypeOK)
  /\ Of("policy", PolicyTypeOK) /\ Of("permissions", PermissionsTypeOK)
  /\ Of("recovery", RecoveryTypeOK) /\ Of("waves", ActionWavesTypeOK) /\ Of("planner", PlannerTypeOK)
  /\ Of("locks", LockManagerTypeOK) /\ Of("admission", AdmissionTypeOK)

\* What an action may do only ever narrows: isolation is not traded away by a
\* rule or a remote answer, a tool's own risk is a floor under the tables, both
\* engines must allow, and no layer's refusal is brought back by another.
AuthorizationOnlyNarrows ==
  /\ Of("policy", IsolationIsKept /\ DeclaredRiskIsAFloor /\ BothMustAllow)
  /\ Of("permissions", ToolsOnlyNarrow /\ RefusalIsFinal)

\* A job that is asked for again is executed once more only where a worker died
\* or the queue forgot its record (bullmq.ts).
DispatchedOnce == Of("bullmq", AskedTwiceRunsOnce)

\* Load stays within its limit where several things end or begin at once: the
\* gateway's upstream requests and slots, a wave's actions in flight, the holders
\* of a lock, and the slots and the active runs that backpressure lets in.
LoadIsBounded ==
  /\ Of("gateway", UpstreamLoadIsBounded /\ SlotsAreOwned) /\ Of("waves", ConcurrencyIsKept)
  /\ Of("locks", LockIsExclusive /\ WaitersAreListed)
  /\ Of("admission", SlotsAreExecutions /\ OvershootIsBounded)

\* A failure stays where it happened: a breaker that is closed has not seen
\* failures enough to open, a fatal error is not carried to the next provider,
\* a server that failed offers no tools, and a killed command leaves no child.
FailuresAreContained ==
  /\ Of("providers", ClosedMeansHealthy /\ FailoverIsDeliberate)
  /\ Of("servers", OffersAreCurrent) /\ Of("sandbox", KilledMeansDead)

\* An answer finds the call it belongs to: over MCP, however late, repeated or
\* reordered, and in the delivery log, which says of a webhook what became of
\* it and has said so of every one when close() returned.
AnswersFindTheirCall == Of("calls", AnswerIsItsOwn) /\ Of("webhooks", LogTellsTheTruth /\ ClosedIsSettled)

\* Recovery is earned and bounded: a retry only for an error that says so, no
\* session beyond the limit, and an unsafe action once a session.
RecoveryIsBounded == Of("recovery", RetriesAreEarned /\ SessionStaysInBudget /\ UnsafeRunsOncePerSession)

\* Order is kept: a plan that is kept can be put in an order, one that could be
\* is not refused, and no action of a batch runs before what it depends on.
OrderIsKept ==
  Of("planner", KeptPlanCanBeOrdered /\ RefusalIsACycle) /\ Of("waves", DependenciesSettleFirst)

\* What the part that moves owes to its n-th client, call, command or batch, and
\* what pays it: the leads-to properties of the modules, folded into one.
Owed(n) ==
  \/ part = "webhooks" /\ n = 1 /\ dispatcher = "closing"
  \/ part = "gateway" /\ n \in Client /\ exchange[n].at = "waiting"
  \/ part = "calls" /\ n \in CallIds
  \/ part = "calls" /\ n > MaxCalls /\ AskedOf(asks) >= n - MaxCalls
  \/ part = "servers" /\ n = 1 /\ ~manager.strict
  \/ part = "sandbox" /\ n \in SandboxUser /\ command[n].phase = "running"
  \/ part = "recovery" /\ n = 1 /\ recovery.at = "failed"
  \/ part = "waves" /\ n = 1 /\ batch.at = "planning"
  \/ part = "waves" /\ n = 2 /\ batch.at = "wave" /\ Queued # {}
  \/ part = "locks" /\ n \in Contender /\ contender[n].at = "waiting" /\ contender[n].aborted
  \/ part = "admission" /\ n = 1 /\ deployment = "worker" /\ slots = 0 /\ Waits # {}

Paid(n) ==
  \/ part = "webhooks" /\ dispatcher \in {"closed", "dead"}
  \/ part = "gateway" /\ n \in Client /\ exchange[n].at # "waiting"
  \/ part = "calls" /\ n \in CallIds /\ run.told[n] # "waiting"
  \/ part = "calls" /\ n > MaxCalls /\ asks.answered + asks.lost >= n - MaxCalls
  \/ part = "servers" /\ manager.start = "resolved"
  \/ part = "sandbox" /\ n \in SandboxUser
       /\ (command[n].phase # "running" \/ "left" \in command[n].alive)
  \/ part = "recovery" /\ recovery.at \in {"worked", "resumed", "parked", "ended"}
  \/ part = "waves" /\ n = 1 /\ batch.at \in {"refused", "done", "rejected"}
  \/ part = "waves" /\ n = 2 /\ (Queued = {} \/ batch.workers = 0)
  \/ part = "locks" /\ n \in Contender
       /\ (contender[n].at \notin {"trying", "waiting"} \/ lock.taken = MaxAcquires)
  \/ part = "admission" /\ (slots > 0 \/ Waits = {} \/ FullHouse)

\* What is begun ends: a webhook bus that is closed, a client waiting for its
\* first byte, an MCP call and a server's own request, a deployment with broken
\* servers, a command, a recovery and a batch; a lock's waiter whose signal fired
\* comes back, and an idle worker takes up a run unless the house is full. An MCP
\* server whose tools are listed names a last page.
EverythingSettles == ListingsEnd => \A n \in 1..4 : Owed(n) ~> Paid(n)
=============================================================================
