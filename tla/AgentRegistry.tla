---------------------------- MODULE AgentRegistry ----------------------------
(***************************************************************************)
(* Agent definitions: how a YAML document or the SDK's options become one  *)
(* (agent/src/definition.ts, sdk/src/agent.ts), how it is written to the   *)
(* store and parsed again (registry.ts), and the registry of a process,    *)
(* its memory before its store, in two processes that restart.             *)
(***************************************************************************)
EXTENDS FiniteSets, Integers

CONSTANTS Process,        \* processes with a registry of their own
          Version,        \* versions of one agent, in order
          NONE,
          MaxRestarts     \* bound: restarts

ASSUME AgentRegistryAssumption ==
  Version \subseteq Nat /\ MaxRestarts \in Nat /\ NONE \notin {"one", "list"}

-----------------------------------------------------------------------------
\* A section that is written as a boolean or as a mapping (memory, planning,
\* verification, recovery): enabled unless it says no, with what else it says.
RawSection == [form : {"boolean", "mapping"}, enabled : {"yes", "no", "unsaid"}, setting : BOOLEAN]
Switch(on) == [form |-> "boolean", enabled |-> IF on THEN "yes" ELSE "no", setting |-> FALSE]
ToggleOf(raw) == [enabled |-> raw.enabled # "no", setting |-> raw.form = "mapping" /\ raw.setting]

\* Optional values: limits, permissions and checkpointing are kept when stated.
Stated == {"limit", "execute", "allow_unisolated", "retain"}

\* A tool id is a single segment, which names a family, or is qualified.
ToolId == {"filesystem", "filesystem.*", "search_code"}
ExpandToolFamilies(ids) == {IF id = "filesystem" THEN "filesystem.*" ELSE id : id \in ids}

\* parseAgentDefinition of a valid document; a fallback given alone becomes a list.
Parse(raw) ==
  [memory |-> ToggleOf(raw.memory), tools |-> ExpandToolFamilies(raw.tools),
   stated |-> raw.stated, fallback |-> raw.fallback # NONE]

\* Defect: the sections are written back as the boolean alone.
SerializeSwitch(definition) ==
  [memory |-> Switch(definition.memory.enabled), tools |-> definition.tools,
   stated |-> definition.stated, fallback |-> IF definition.fallback THEN "list" ELSE NONE]

\* serializeAgentDefinition; toRawPermissions of registry.ts leaves one value out.
Serialize(definition) ==
  [memory |-> [form |-> "mapping", enabled |-> IF definition.memory.enabled THEN "yes" ELSE "no",
               setting |-> definition.memory.setting], tools |-> definition.tools,
   stated |-> definition.stated \ {"allow_unisolated"},
   fallback |-> IF definition.fallback THEN "list" ELSE NONE]

\* The SDK's options: sections are booleans, everything stated is passed on.
OptionsToRaw(memory, stated) ==
  [memory |-> Switch(memory), tools |-> {"filesystem"}, stated |-> stated, fallback |-> NONE]

Documents ==
  [memory : RawSection, tools : SUBSET ToolId, stated : {{}, {"limit"}}, fallback : {NONE, "one", "list"}]
    \cup {OptionsToRaw(memory, stated) : memory \in BOOLEAN, stated \in SUBSET Stated}
PlainDocument == [memory |-> Switch(FALSE), tools |-> {}, stated |-> {}, fallback |-> NONE]

-----------------------------------------------------------------------------
VARIABLES document,   \* what an author wrote; the other authors write PlainDocument
          known,      \* process -> version -> the definition in its memory
          writing,    \* process -> the versions whose save has not returned
          loading,    \* process -> what a read of the store has found
          shelf,      \* version -> the stored document, and when it was written
          handed,     \* version -> the definitions runs were executed with
          restarts

AgentRegistryVars == <<document, known, writing, loading, shelf, handed, restarts>>

AgentRegistryInit(raw) ==
  /\ document = raw
  /\ known = [p \in Process |-> [v \in Version |-> NONE]]
  /\ writing = [p \in Process |-> {}] /\ loading = [p \in Process |-> NONE]
  /\ shelf = [v \in Version |-> NONE] /\ handed = [v \in Version |-> {}]
  /\ restarts = 0

VersionsKnown(p) == {v \in Version : known[p][v] # NONE}
LatestVersion(versions) == CHOOSE v \in versions : \A other \in versions : other <= v
WrittenAt == Cardinality({v \in Version : shelf[v] # NONE})

\* Defect: what is remembered is the definition as it was given.
NormalizedOnce(raw) == Parse(raw)

\* register parses the definition's own serialization first.
Normalized(raw) == Parse(Serialize(Parse(raw)))

\* Only the process's own memory is asked whether the version is taken.
Register(p, v, raw) ==
  /\ known[p][v] = NONE
  /\ known' = [known EXCEPT ![p][v] = Normalized(raw)]
  /\ writing' = [writing EXCEPT ![p] = @ \cup {v}]
  /\ UNCHANGED <<document, loading, shelf, handed, restarts>>

\* The save that follows: one row per version, newest by the time of writing; or
\* it fails, and the memory keeps what the store has not got.
SaveDefinition(p, v) ==
  /\ v \in writing[p]
  /\ writing' = [writing EXCEPT ![p] = @ \ {v}]
  /\ \/ shelf' = [shelf EXCEPT ![v] = [raw |-> Serialize(known[p][v]), at |-> WrittenAt]]
     \/ UNCHANGED shelf
  /\ UNCHANGED <<document, known, loading, handed, restarts>>

\* get: memory first; definitionFor asks for the version its run has pinned.
UseKnown(p, v) ==
  /\ known[p][v] # NONE
  /\ handed' = [handed EXCEPT ![v] = @ \cup {known[p][v]}]
  /\ UNCHANGED <<document, known, writing, loading, shelf, restarts>>

\* loadFromStore: the row is read, and remembered when the read returns.
ReadShelf(p, v) ==
  /\ known[p][v] = NONE /\ loading[p] = NONE /\ shelf[v] # NONE
  /\ loading' = [loading EXCEPT ![p] = [version |-> v, raw |-> shelf[v].raw]]
  /\ UNCHANGED <<document, known, writing, shelf, handed, restarts>>

\* get without a version: the newest the process knows, or the row written last.
ReadLatest(p) ==
  /\ VersionsKnown(p) = {} /\ loading[p] = NONE
  /\ \E v \in Version :
       /\ shelf[v] # NONE /\ \A other \in Version : shelf[other] # NONE => shelf[other].at <= shelf[v].at
       /\ loading' = [loading EXCEPT ![p] = [version |-> v, raw |-> shelf[v].raw]]
  /\ UNCHANGED <<document, known, writing, shelf, handed, restarts>>

EndLoad(p) ==
  /\ loading[p] # NONE
  /\ LET v == loading[p].version
         found == Parse(loading[p].raw)
     IN  /\ known' = [known EXCEPT ![p][v] = found]
         /\ handed' = [handed EXCEPT ![v] = @ \cup {found}]
  /\ loading' = [loading EXCEPT ![p] = NONE]
  /\ UNCHANGED <<document, writing, shelf, restarts>>

RestartRegistry(p) ==
  /\ restarts < MaxRestarts /\ restarts' = restarts + 1
  /\ known' = [known EXCEPT ![p] = [v \in Version |-> NONE]]
  /\ writing' = [writing EXCEPT ![p] = {}] /\ loading' = [loading EXCEPT ![p] = NONE]
  /\ UNCHANGED <<document, shelf, handed>>

AgentRegistryNext ==
  \E p \in Process :
    \/ ReadLatest(p) \/ EndLoad(p) \/ RestartRegistry(p)
    \/ \E v \in Version :
         \/ \E raw \in {document, PlainDocument} : Register(p, v, raw)
         \/ SaveDefinition(p, v) \/ UseKnown(p, v) \/ ReadShelf(p, v)

-----------------------------------------------------------------------------
Definition == {Parse(raw) : raw \in Documents} \cup {Normalized(raw) : raw \in Documents}
AgentRegistryTypeOK ==
  /\ document \in [memory : RawSection, tools : SUBSET ToolId, stated : SUBSET Stated,
                   fallback : {NONE, "one", "list"}]
  /\ restarts \in 0..MaxRestarts
  /\ \A p \in Process : /\ writing[p] \subseteq VersionsKnown(p)
                        /\ \A v \in VersionsKnown(p) : known[p][v] \in Definition
  /\ \A v \in Version : handed[v] \subseteq Definition

\* What a process remembers is what it would read back from the store after a
\* restart, whatever the author's document left to a default or wrote short.
RememberedIsReloadable ==
  \A p \in Process, v \in Version : known[p][v] # NONE => Parse(Serialize(known[p][v])) = known[p][v]

\* No definition that a run has been executed with was changed by being stored:
\* it states what the author's document states, but for the one value left out.
RegisteredIsAsWritten ==
  \A v \in Version : \A used \in handed[v] : \E raw \in {document, PlainDocument} :
    used = [Parse(raw) EXCEPT !.stated = @ \ {"allow_unisolated"}]

\* Violated. registry.ts:46: "Definitions are immutable once registered: a change
\* is a new version, so a run can always be replayed against the definition it used."
VersionsAreImmutable == \A v \in Version : Cardinality(handed[v]) <= 1

\* Violated. registry.ts:158: "parseAgentDefinition(serializeAgentDefinition(x)) is
\* a fixed point, which is what makes stored definitions re-parsable."
SerializeIsAFixedPoint == Parse(Serialize(Parse(document))) = Parse(document)
=============================================================================
