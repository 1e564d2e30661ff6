--------------------------- MODULE PromptContext ---------------------------
(***************************************************************************)
(* What a prompt is made of. What the model is shown of a run's            *)
(* observations: ContextManager.build with its compression and its hard    *)
(* trim, over the observations that the loop appends, a checkpoint keeps   *)
(* and a recovery puts back; text is its cost in tokens. And what a run    *)
(* remembers: packages/memory over either driver's memory store. The two   *)
(* share no variable.                                                      *)
(***************************************************************************)
EXTENDS Integers, FiniteSets, Sequences, SequencesExt

(* Observations.                                                             *)
CONSTANTS MaxObservations, KeepRecent,    \* keepRecentObservations
          MaxInputTokens, CompressAt,     \* … and the threshold of compressAtRatio
          BaseTokens,                     \* what prompt, goal, plan and memory may cost
          SummaryLines                    \* lines of a summary in the 8,000 characters hardTrim leaves

ASSUME ContextAssumption ==
  /\ {MaxObservations, KeepRecent, MaxInputTokens, CompressAt, SummaryLines} \subseteq Nat
  /\ BaseTokens \subseteq Nat /\ CompressAt <= MaxInputTokens

VARIABLES base,           \* what everything but the observations costs
          observations,   \* the state's observations, oldest first
          nextObservation,
          checkpointed    \* those of the latest checkpoint

ContextVars == <<base, observations, nextObservation, checkpointed>>

\* A detail costs a few tokens, and a trimmed one, like a summary's line, one.
ObservationSource == {"tool", "model", "verification", "recovery"}
Observation == [id : 1..MaxObservations, source : ObservationSource, tokens : {1, 3}]

ContextInit ==
  /\ base \in BaseTokens /\ observations = <<>> /\ nextObservation = 1 /\ checkpointed = <<>>

\* record, conclude and reflect append an observation.
Observe ==
  /\ nextObservation <= MaxObservations /\ nextObservation' = nextObservation + 1
  /\ \E o \in [id : {nextObservation}, source : ObservationSource, tokens : {1, 3}] :
       observations' = Append(observations, o)
  /\ UNCHANGED <<base, checkpointed>>

\* The checkpoint keeps them all; recovery puts the checkpoint's back.
KeepObservations ==
  /\ checkpointed' = observations /\ UNCHANGED <<base, observations, nextObservation>>
RestoreObservations ==
  /\ observations' = checkpointed /\ UNCHANGED <<base, nextObservation, checkpointed>>

ContextNext == Observe \/ KeepObservations \/ RestoreObservations

Tokens(list) == FoldLeft(LAMBDA sum, o : sum + o.tokens, 0, list)

\* Defect: a failed verification is compressed like everything else that is old.
MustKeepNone(o) == FALSE

MustKeep(o) == o.source \in {"verification", "recovery"}

\* Defect: the oldest are kept verbatim.
RecentFromTheStart(list) == SubSeq(list, 1, IF Len(list) < KeepRecent THEN Len(list) ELSE KeepRecent)

Recent(list) == SubSeq(list, IF Len(list) <= KeepRecent THEN 1 ELSE Len(list) - KeepRecent + 1, Len(list))
Older(list) == SubSeq(list, 1, Len(list) - Len(Recent(list)))

\* The elements of a list at some of its places, in their order.
ElementsAt(list, places) ==
  [n \in 1..Cardinality(places) |-> list[CHOOSE i \in places : Cardinality({j \in places : j <= i}) = n]]

\* splitObservations.
KeptOf(list) == ElementsAt(list, {i \in DOMAIN Older(list) : MustKeep(list[i])}) \o Recent(list)
DroppedOf(list) == ElementsAt(list, {i \in DOMAIN Older(list) : ~MustKeep(list[i])})

\* hardTrim cuts what a tool said, never whole messages; but the summary is one
\* message, and is cut after so many characters whatever lines it has left.
Trimmed(list) == [i \in DOMAIN list |-> [list[i] EXCEPT !.tokens = 1]]
Cut(list) == IF Len(list) <= SummaryLines THEN list ELSE SubSeq(list, 1, SummaryLines)

\* build: the messages for observations, those the summary stands for (all of them
\* in the compression record), those whose line the model is told, and the cost;
\* what hardTrim cuts of a goal, a plan or a memory is left in the cost.
Plain == [shown |-> observations, summary |-> <<>>, told |-> <<>>, tokens |-> base + Tokens(observations)]
Compressed ==
  [shown |-> KeptOf(observations), summary |-> DroppedOf(observations), told |-> DroppedOf(observations),
   tokens |-> base + Tokens(KeptOf(observations)) + Len(DroppedOf(observations))]
HardTrimmed ==
  [shown |-> Trimmed(KeptOf(observations)), summary |-> DroppedOf(observations),
   told |-> Cut(DroppedOf(observations)),
   tokens |-> base + Len(KeptOf(observations)) + Len(Cut(DroppedOf(observations)))]

Build ==
  IF Plain.tokens <= CompressAt \/ DroppedOf(observations) = <<>> THEN Plain
  ELSE IF Compressed.tokens <= MaxInputTokens THEN Compressed ELSE HardTrimmed

ContextTypeOK ==
  /\ base \in BaseTokens /\ observations \in Seq(Observation) /\ checkpointed \in Seq(Observation)
  /\ nextObservation \in 1..(MaxObservations + 1)

Ids(list) == {list[i].id : i \in DOMAIN list}

\* Every observation is shown or summarised, once and in order, the latest and every
\* verification and recovery shown in words of their own; only once a prompt costs
\* more than the threshold is anything summarised; and only when it is still too
\* much is the model not told of all of it, but of the first lines of a summary
\* that has more of them than a trimmed message holds (context/manager.ts build,
\* splitObservations, hardTrim).
ContextLosesNothing ==
  LET built == Build
  IN /\ Ids(built.shown) \union Ids(built.summary) = Ids(observations)
     /\ Len(built.shown) + Len(built.summary) = Len(observations)
     /\ \A i, j \in DOMAIN built.shown : i < j => built.shown[i].id < built.shown[j].id
     /\ \A i \in DOMAIN observations :
          observations[i].source \in {"verification", "recovery"} \/ i > Len(observations) - KeepRecent =>
            observations[i].id \in Ids(built.shown)
     /\ built.summary # <<>> => Plain.tokens > CompressAt
     /\ built.told # built.summary =>
          /\ Compressed.tokens > MaxInputTokens
          /\ Len(built.summary) > SummaryLines /\ Len(built.told) = SummaryLines
          /\ \A i \in DOMAIN built.told : built.told[i] = built.summary[i]

\* Violated. manager.ts:91-92, "anything dropped is replaced by a compression record
\* that is persisted with the run": the model is not told of the lines that are cut
\* off, and nobody reads the record that build answers with.
NothingIsDropped == Ids(Build.shown) \union Ids(Build.told) = Ids(observations)

\* Violated. manager.ts:90, "keeps it inside the token budget": a prompt whose
\* observations are all recent is neither compressed nor trimmed, and trimmed
\* messages may cost too much as well.
PromptIsInBudget == Build.tokens <= MaxInputTokens

-----------------------------------------------------------------------------
(***************************************************************************)
(* Memory: the scopes that a recall goes through, the look for             *)
(* duplicates before a write, expiry, and the memory routes of the API. An *)
(* entry's words stand for its content, and for how it meets the run's goal. *)
(***************************************************************************)
CONSTANTS Rememberer, MaxEntries, RecallLimit, RecentWindow,
          MemoryScopes, MemoryWords, MemoryLives  \* of those below, the ones remembered

\* Seen from one run, whose an entry is; how its words meet the run's goal
\* (Postgres finds those that hold the whole of it); and when it expires.
MemoryScope == {"run", "another run", "project", "organization", "another tenant"}
Words == {"unrelated", "some of the goal", "the whole goal"}

ASSUME MemoryAssumption ==
  /\ {MaxEntries, RecallLimit, RecentWindow} \subseteq Nat \ {0}
  /\ MemoryScopes \subseteq MemoryScope /\ MemoryWords \subseteq Words
  /\ MemoryLives \subseteq {"unlimited", "limited"}

VARIABLES memoryDriver,  \* "embedded" or "postgres"
          memory,        \* the entries, oldest first
          remembering    \* per caller of remember(): what it is about to write

MemoryVars == <<memoryDriver, memory, remembering>>

Entry == [scope : MemoryScope, words : Words, life : {"unlimited", "limited", "over"}]
NoEntry == [scope |-> "run", words |-> "unrelated", life |-> "over"]

MemoryInit ==
  /\ memoryDriver \in {"embedded", "postgres"} /\ memory = <<>>
  /\ remembering = [r \in Rememberer |-> NoEntry]

\* Defect: a query without a project is not held to its organization.
ScopeMatchesAny(scope, query) ==
  scope \in CASE query = "project" -> {"run", "another run", "project"}
              [] query \in {"organization", "another tenant"} -> MemoryScope
              [] OTHER -> {query}

\* scopeMatches: a query finds what is of its scope or of a narrower one.
ScopeMatches(scope, query) ==
  scope \in CASE query = "project" -> {"run", "another run", "project"}
              [] query = "organization" -> MemoryScope \ {"another tenant"}
              [] OTHER -> {query}

Live(i) == memory[i].life # "over"

\* The entries that answer a query; where.content wants the whole text inside.
Candidates(query, text) ==
  {i \in DOMAIN memory : /\ ScopeMatches(memory[i].scope, query) /\ Live(i)
                         /\ text /\ memoryDriver = "postgres" => memory[i].words = "the whole goal"}

WordRank(i) == CASE memory[i].words = "the whole goal" -> 2 [] memory[i].words = "some of the goal" -> 1 [] OTHER -> 0

\* Embedded search with a text is by relevance; every other one by age.
ComesFirst(i, j, text) ==
  IF text /\ memoryDriver = "embedded" /\ WordRank(i) # WordRank(j) THEN WordRank(i) > WordRank(j) ELSE i > j

SearchMemory(query, text, limit) ==
  LET found == Candidates(query, text)
  IN {i \in found : Cardinality({j \in found : ComesFirst(j, i, text)}) < limit}

\* Defect: broad scopes come first.
ScopeChainReversed == <<"organization", "project", "run">>

\* scopeChain: narrow scopes come first.
ScopeChain == <<"run", "project", "organization">>

\* recallScoped asks each scope for as many as are missing and skips those seen.
Recalled ==
  FoldLeft(LAMBDA out, scope : out \union SearchMemory(scope, TRUE, RecallLimit - Cardinality(out)), {}, ScopeChain)

\* remember: isDuplicate looks at the latest of the entry's scope.
BeginRemember(r) ==
  /\ remembering[r] = NoEntry
  /\ \E entry \in [scope : MemoryScopes, words : MemoryWords, life : MemoryLives] :
       remembering' = [remembering EXCEPT ![r] =
         IF \E i \in SearchMemory(entry.scope, FALSE, RecentWindow) : memory[i].words = entry.words
         THEN NoEntry ELSE entry]
  /\ UNCHANGED <<memoryDriver, memory>>

\* … and store.write, once that has answered.
WriteMemory(r) ==
  /\ remembering[r] # NoEntry /\ Len(memory) < MaxEntries
  /\ memory' = Append(memory, remembering[r]) /\ remembering' = [remembering EXCEPT ![r] = NoEntry]
  /\ UNCHANGED memoryDriver

\* Time passes: an entry with a ttl is over.
OutliveEntry(i) ==
  /\ memory[i].life = "limited"
  /\ memory' = [memory EXCEPT ![i].life = "over"] /\ UNCHANGED <<memoryDriver, remembering>>

Without(gone) == ElementsAt(memory, DOMAIN memory \ gone)

\* DELETE /api/memory/:id: an operator forgets an entry of the own project.
ForgetMemory(i) ==
  /\ memory[i].scope \in {"run", "another run", "project"}
  /\ memory' = Without({i}) /\ UNCHANGED <<memoryDriver, remembering>>

\* clear: every entry that a query of the scope would find, expired ones too.
ClearScope(scope) ==
  /\ memory' = Without({i \in DOMAIN memory : ScopeMatches(memory[i].scope, scope)})
  /\ UNCHANGED <<memoryDriver, remembering>>

\* POST /api/memory/prune: the expired entries of every tenant.
PruneMemory ==
  /\ memory' = Without({i \in DOMAIN memory : ~Live(i)}) /\ UNCHANGED <<memoryDriver, remembering>>

MemoryNext ==
  \/ \E r \in Rememberer : BeginRemember(r) \/ WriteMemory(r)
  \/ \E i \in DOMAIN memory : OutliveEntry(i) \/ ForgetMemory(i)
  \/ \E scope \in MemoryScopes : ClearScope(scope)
  \/ PruneMemory

MemoryTypeOK ==
  /\ memoryDriver \in {"embedded", "postgres"} /\ memory \in Seq(Entry) /\ Len(memory) <= MaxEntries
  /\ remembering \in [Rememberer -> Entry]

\* What a run recalls is live, of its own organization and no more than was asked
\* for; and something broader is among it only when nothing that is the run's own
\* was left out, however the scopes' answers overlap (MemoryManager.recallScoped).
RecallIsSound ==
  /\ Cardinality(Recalled) <= RecallLimit
  /\ \A i \in Recalled : Live(i) /\ memory[i].scope # "another tenant"
  /\ (\E i \in Recalled : memory[i].scope # "run") => Candidates("run", TRUE) \subseteq Recalled

\* Violated. manager.ts:89-91, "Search progressively broader scopes until enough
\* results are found": a broader query asks for as many as are missing and its best
\* are those already seen, so that entries within reach are not recalled.
RecallIsFull ==
  Cardinality(Recalled) < RecallLimit => Candidates("organization", TRUE) \subseteq Recalled

\* Violated. Two callers look for a duplicate before either writes, and RecentWindow
\* entries later nobody looks that far back (manager.ts:75-83).
NothingIsRememberedTwice ==
  \A i, j \in DOMAIN memory :
    i # j /\ Live(i) /\ Live(j) /\ memory[i].scope = memory[j].scope => memory[i].words # memory[j].words
=============================================================================
