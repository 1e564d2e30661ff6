---------------------------- MODULE StoreDrivers ----------------------------
(***************************************************************************)
(* The two drivers of packages/persistence side by side: the embedded one  *)
(* (embedded-store.ts over logs) and the Postgres one (prisma-store.ts     *)
(* over the tables of schema.prisma). Every collection's calls are the     *)
(* same; what differs is how a row is written, which writes are refused,   *)
(* what becomes of an optional value that is absent, cleared or blank, in  *)
(* which order rows are read, which spelling of an email is found, what a  *)
(* search writes, and what the versions of an agent share.                 *)
(***************************************************************************)
EXTENDS FiniteSets, Integers, Sequences, SequencesExt

CONSTANTS MaxAsked,        \* bound: calls made
          Collections      \* the collections of a configuration

\* A row: its id, the number, name or time it is found or sorted by (a step's
\* index, an event's sequence, a slug, createdAt) and one of its optional values,
\* which may be set and blank; of a memory the count of its accesses, blank being
\* zero; of an agent's version, which has none, the agent's name, one or another.
RowId == 1..2
Slot == 0..2
Rows == [id : RowId, slot : Slot, optional : {"absent", "blank", "set"}]

\* What a read answers: an optional value may also be there and null.
Answers == [id : RowId, slot : Slot, optional : {"absent", "null", "blank", "set"}]

\* How a collection writes and reads: put and upsert replace the row of that id,
\* append keeps every copy, insert and create want a new id, increasing a higher
\* slot; and the order of each of its reads, "log" the one of the lines of the
\* log, "any" none that the query states.
Drive(create, save, reads) == [create |-> create, save |-> save, reads |-> reads]

EmbeddedRuns == Drive("insert", "update", <<"descending", "ascending">>)
EmbeddedEvents == Drive("increasing", "increasing", <<"ascending", "descending">>)
EmbeddedSteps == Drive("put", "put", <<"ascending">>)
EmbeddedCheckpoints == Drive("put", "put", <<"ascending", "descending">>)
EmbeddedIdentity == Drive("put", "put", <<"log">>)
EmbeddedStates == Drive("put", "put", <<"log">>)
EmbeddedApprovals == Drive("put", "put", <<"descending", "ascending">>)
EmbeddedRecords == [artifacts |-> Drive("put", "put", <<"log">>),
                    failures |-> Drive("put", "put", <<"ascending">>),
                    usage |-> Drive("append", "append", <<"ascending", "log">>),
                    recoveries |-> Drive("append", "append", <<"ascending">>),
                    invocations |-> Drive("append", "append", <<"log">>),
                    policyDecisions |-> Drive("append", "append", <<"log">>)]
EmbeddedAgents == Drive("put", "put", <<"descending">>)
EmbeddedPolicies == Drive("put", "put", <<"descending">>)
EmbeddedWebhooks == Drive("put", "put", <<"ascending">>)
EmbeddedDeliveries == Drive("append", "append", <<"descending">>)
EmbeddedMemory == Drive("put", "put", <<"descending">>)

Embedded ==
  [runs |-> EmbeddedRuns, events |-> EmbeddedEvents, steps |-> EmbeddedSteps,
   checkpoints |-> EmbeddedCheckpoints, identity |-> EmbeddedIdentity, states |-> EmbeddedStates,
   approvals |-> EmbeddedApprovals, agents |-> EmbeddedAgents, policies |-> EmbeddedPolicies,
   webhooks |-> EmbeddedWebhooks, deliveries |-> EmbeddedDeliveries,
   memory |-> EmbeddedMemory, artifacts |-> EmbeddedRecords.artifacts,
   failures |-> EmbeddedRecords.failures, usage |-> EmbeddedRecords.usage,
   recoveries |-> EmbeddedRecords.recoveries, invocations |-> EmbeddedRecords.invocations,
   policyDecisions |-> EmbeddedRecords.policyDecisions]

PostgresRuns == Drive("create", "update", <<"descending", "ascending">>)
PostgresEvents == Drive("create", "create", <<"ascending", "descending">>)
PostgresSteps == Drive("upsert", "upsert", <<"ascending">>)
PostgresCheckpoints == Drive("create", "create", <<"ascending", "descending">>)
PostgresStates == Drive("upsert", "upsert", <<"any">>)
PostgresMemory == Drive("upsert", "upsert", <<"descending">>)
PostgresApprovals == Drive("create", "update", <<"descending", "ascending">>)
PostgresArtifacts == Drive("create", "create", <<"ascending">>)
PostgresUsage == Drive("create", "create", <<"ascending", "ascending">>)
PostgresFailures == Drive("create", "create", <<"ascending">>)
PostgresRecords == [recoveries |-> Drive("create", "create", <<"ascending">>),
                    invocations |-> Drive("create", "create", <<"any">>),
                    policyDecisions |-> Drive("create", "create", <<"any">>)]
PostgresAgents == Drive("upsert", "upsert", <<"descending">>)
PostgresIdentity == Drive("upsert", "upsert", <<"any">>)
PostgresWebhooks == Drive("upsert", "upsert", <<"ascending">>)
PostgresDeliveries == Drive("create", "create", <<"descending">>)
PostgresPolicies == Drive("upsert", "upsert", <<"descending">>)

Postgres ==
  [runs |-> PostgresRuns, events |-> PostgresEvents, steps |-> PostgresSteps,
   checkpoints |-> PostgresCheckpoints, identity |-> PostgresIdentity, states |-> PostgresStates,
   approvals |-> PostgresApprovals, agents |-> PostgresAgents, policies |-> PostgresPolicies,
   webhooks |-> PostgresWebhooks, deliveries |-> PostgresDeliveries, memory |-> PostgresMemory,
   artifacts |-> PostgresArtifacts, usage |-> PostgresUsage, failures |-> PostgresFailures,
   recoveries |-> PostgresRecords.recoveries, invocations |-> PostgresRecords.invocations,
   policyDecisions |-> PostgresRecords.policyDecisions]

ASSUME StoreDriversAssumption == MaxAsked \in Nat /\ Collections \subseteq DOMAIN Embedded

\* @unique and @@unique of the tables that have one beside their id.
SlotIsUnique == {"events", "steps", "checkpoints", "identity"}

\* approvalToRow ends each optional column with `?? null` and a memory's count with
\* `?? 0`; the other tables write them with json(), which answers undefined for an
\* absent value: an update then leaves the column as it was. Some have none.
AlwaysWritten == {"approvals", "memory"}
NoOptional == {"artifacts", "invocations", "policies"}

\* Rows the program writes once, under an id that is new each time.
WrittenOnce == {"events", "checkpoints", "artifacts", "deliveries"}

\* Rows whose slot is the time they are made at, by the clock of one process.
Timed == {"runs", "approvals", "agents", "webhooks", "deliveries", "memory", "artifacts", "usage",
          "failures", "recoveries"}

\* Rows that are read with `row.name ? ...`, for which a blank is absent, where the
\* other row mappers compare with null: users, approvals, steps.
BlankIsDropped == {"identity", "approvals", "steps"}

\* Rows that are given back as `{...row}`, a NULL column as null.
NullIsSpread == {"failures", "recoveries", "policyDecisions"}

\* ... whose delete refuses a row that is not there; webhooks use deleteMany.
DeleteWantsARow == {"memory", "checkpoints", "policies"}
Removable == DeleteWantsARow \cup {"webhooks"}

VARIABLES collection,  \* the collection of this behaviour
          kept,        \* the embedded driver's rows, in the order of the log
          table,       \* the rows of the Postgres table
          asked,       \* calls made
          refusedBy,   \* the drivers that have refused a call
          apart        \* how calls that both took have told the drivers apart

StoreDriversVars == <<collection, kept, table, asked, refusedBy, apart>>

StoreDriversInit(name) ==
  /\ collection = name
  /\ kept = <<>> /\ table = {} /\ asked = 0 /\ refusedBy = {} /\ apart = {}

\* The row mappers of a collection: an optional value that is absent is a NULL column (a count that
\* is absent a zero), and a NULL column is absent again where its row is not spread
\* (runToRow, rowToRun and their like).
ToRow(name, row) ==
  [id |-> row.id, slot |-> row.slot,
   optional |-> IF row.optional # "absent" THEN row.optional
                ELSE IF name = "memory" THEN "blank" ELSE "NULL"]

FromRow(name, columns) ==
  [id |-> columns.id, slot |-> columns.slot,
   optional |-> CASE columns.optional = "NULL" -> IF name \in NullIsSpread THEN "null" ELSE "absent"
                  [] columns.optional = "blank" /\ name \in BlankIsDropped -> "absent"
                  [] OTHER -> columns.optional]

Held(id) == {i \in DOMAIN kept : kept[i].id = id}
Stored(id) == {row \in table : row.id = id}

\* Defect: an event is only refused when its number is in use.
EmbeddedTakesLate(way, row) ==
  CASE way = "insert" -> Held(row.id) = {}
    [] way = "update" -> Held(row.id) # {}
    [] way = "increasing" -> \A i \in DOMAIN kept : kept[i].slot # row.slot
    [] OTHER -> TRUE

EmbeddedTakes(way, row) ==
  CASE way = "insert" -> Held(row.id) = {}
    [] way = "update" -> Held(row.id) # {}
    [] way = "increasing" -> \A i \in DOMAIN kept : kept[i].slot < row.slot
    [] OTHER -> TRUE

\* A log's put replaces the row in place; the other ways add a line.
EmbeddedAfter(way, row) ==
  IF way \in {"append", "increasing"} \/ Held(row.id) = {} THEN Append(kept, row)
  ELSE [kept EXCEPT ![CHOOSE i \in Held(row.id) : TRUE] = row]

PostgresTakes(way, row) ==
  /\ way = "create" => Stored(row.id) = {}
  /\ way = "update" => Stored(row.id) # {}
  /\ collection \in SlotIsUnique => ~\E other \in table : other.id # row.id /\ other.slot = row.slot

\* An update writes every column, the optional ones only when they are set or always
\* written. The versions of an agent share the Agent row and with it the name (the
\* project too, which no update changes); createdAt of a version stays as it was.
PostgresAfter(row) ==
  LET others == table \ Stored(row.id)
      written == ToRow(collection, row)
      old == CHOOSE old \in Stored(row.id) : TRUE
      left == collection \notin AlwaysWritten /\ row.optional = "absent"
  IN  IF collection = "agents"
      THEN {[other EXCEPT !.optional = row.optional] : other \in others} \cup
           {IF Stored(row.id) = {} THEN written ELSE [written EXCEPT !.slot = old.slot]}
      ELSE others \cup
           {IF Stored(row.id) # {} /\ left THEN [written EXCEPT !.optional = old.optional] ELSE written}

\* The log takes a row as it is: the optional value it lacks now, the later time of
\* the version, the name that the agent's other versions do not have.
SetsApart(row) ==
  {way \in {"cleared", "retimed", "renamed"} :
     CASE way = "cleared" -> /\ collection \notin AlwaysWritten /\ row.optional = "absent"
                             /\ \E i \in Held(row.id) : kept[i].optional # "absent"
       [] way = "retimed" -> \E i \in Held(row.id) : kept[i].slot # row.slot
       [] OTHER -> /\ collection = "agents"
                   /\ \E i \in DOMAIN kept \ Held(row.id) : kept[i].optional # row.optional}

Ask(way, row) ==
  /\ asked < MaxAsked /\ asked' = asked + 1
  /\ LET embedded == EmbeddedTakes(Embedded[collection][way], row)
         postgres == PostgresTakes(Postgres[collection][way], row)
     IN  /\ kept' = IF embedded THEN EmbeddedAfter(Embedded[collection][way], row) ELSE kept
         /\ table' = IF postgres THEN PostgresAfter(row) ELSE table
         /\ refusedBy' = refusedBy \cup (IF embedded THEN {} ELSE {"embedded"})
                                   \cup (IF postgres THEN {} ELSE {"postgres"})
         /\ apart' = apart \cup SetsApart(row)
  /\ UNCHANGED collection

\* A row that was not written before: of a new step, event, checkpoint, run, key.
AskCreate ==
  \E row \in Rows :
    /\ Held(row.id) = {} /\ Stored(row.id) = {}
    /\ collection \in NoOptional => row.optional = "set"
    /\ collection = "agents" => row.optional # "absent"
    /\ collection \in Timed => \A i \in DOMAIN kept : kept[i].slot <= row.slot
    /\ Ask("create", row)

\* The same id again: a step that moves on, a run that is updated, an approval
\* that is decided; and the ids that a retry or a resumed run makes a second time
\* (fail_<action>, pol_<action>, the action itself, rec_<run>_<n>, use_<run>_<n>).
\* A process that starts registers its versions again, at the time of the start.
AskSave ==
  /\ collection \notin WrittenOnce
  /\ \E row \in Rows :
       /\ Held(row.id) # {}
       /\ \A i \in Held(row.id) :
            kept[i].slot = row.slot \/ (collection = "agents" /\ kept[i].slot < row.slot)
       /\ collection \in NoOptional => row.optional = "set"
       /\ collection = "agents" => row.optional # "absent"
       /\ Ask("save", row)

\* A log's delete leaves the other lines as they were.
LinesWithout(id) ==
  LET others == DOMAIN kept \ Held(id)
  IN  [n \in 1..Cardinality(others) |->
         kept[CHOOSE i \in others : Cardinality({j \in others : j <= i}) = n]]

AskDelete ==
  /\ collection \in Removable /\ asked < MaxAsked /\ asked' = asked + 1
  /\ \E id \in RowId :
       /\ kept' = LinesWithout(id)
       /\ table' = table \ Stored(id)
       /\ refusedBy' = refusedBy \cup (IF collection \in DeleteWantsARow /\ Stored(id) = {}
                                       THEN {"postgres"} ELSE {})
  /\ UNCHANGED <<collection, apart>>

\* A search of the embedded memory counts an access of each row it finds, and puts
\* the row; the other driver only reads.
AskSearch ==
  /\ collection = "memory" /\ asked < MaxAsked /\ asked' = asked + 1
  /\ \E found \in SUBSET DOMAIN kept :
       /\ found # {}
       /\ kept' = [i \in DOMAIN kept |-> IF i \in found THEN [kept[i] EXCEPT !.optional = "set"] ELSE kept[i]]
  /\ apart' = apart \cup {"searched"}
  /\ UNCHANGED <<collection, table, refusedBy>>

StoreDriversNext == AskCreate \/ AskSave \/ AskDelete \/ AskSearch

StoreDriversSpec ==
  (\E name \in Collections : StoreDriversInit(name)) /\ [][StoreDriversNext]_StoreDriversVars

-----------------------------------------------------------------------------
StoreDriversTypeOK ==
  /\ collection \in Collections /\ asked \in 0..MaxAsked
  /\ kept \in Seq(Rows) /\ {FromRow(collection, columns) : columns \in table} \subseteq Answers
  /\ refusedBy \subseteq {"embedded", "postgres"}
  /\ apart \subseteq {"cleared", "retimed", "renamed", "searched"}

\* In the order of a read, a row is before another.
Before(order, row, other) ==
  \/ order = "ascending" /\ row.slot < other.slot
  \/ order = "descending" /\ row.slot > other.slot

\* What a read answers: the embedded driver sorts the lines of its log, which
\* leaves equal ones as they were; Postgres any order that the query allows. The
\* read of a memory is the one by its time, before a search counts what it found.
EmbeddedRead(order) ==
  LET first(i, j) == \/ Before(order, kept[i], kept[j])
                     \/ ~Before(order, kept[j], kept[i]) /\ i < j
  IN  [n \in DOMAIN kept |->
         kept[CHOOSE i \in DOMAIN kept : Cardinality({j \in DOMAIN kept : first(j, i)}) = n - 1]]

PostgresReads(order) ==
  {answer \in SetToSeqs({FromRow(collection, columns) : columns \in table}) :
     \A m, n \in DOMAIN answer : m < n => ~Before(order, answer[n], answer[m])}

\* getBySlug and getByPrefix: the first row of the log, the only one of the table.
EmbeddedNamed(slot) ==
  {kept[i] : i \in {i \in DOMAIN kept : kept[i].slot = slot /\ \A j \in 1..i - 1 : kept[j].slot # slot}}
PostgresNamed(slot) == {FromRow(collection, columns) : columns \in {row \in table : row.slot = slot}}

\* getByEmail: the log compares in lower case, in which the slots 1 and 2 are one
\* name; the table compares as it is written.
Lower(slot) == IF slot = 2 THEN 1 ELSE slot
EmbeddedByEmail(slot) ==
  {kept[i] : i \in {i \in DOMAIN kept :
     Lower(kept[i].slot) = Lower(slot) /\ \A j \in 1..i - 1 : Lower(kept[j].slot) # Lower(slot)}}
SpelledAsKept(slot) == \A i \in DOMAIN kept : Lower(kept[i].slot) = Lower(slot) => kept[i].slot = slot

SameAnswers ==
  /\ \A n \in DOMAIN Embedded[collection].reads :
       EmbeddedRead(Embedded[collection].reads[n]) \in PostgresReads(Postgres[collection].reads[n])
  /\ collection = "identity" =>
       \A slot \in Slot :
         /\ EmbeddedNamed(slot) = PostgresNamed(slot)
         /\ SpelledAsKept(slot) => EmbeddedByEmail(slot) = PostgresNamed(slot)

\* A blank that is read with `?` is lost, a value that is absent comes back as null
\* or, of a memory, as zero.
NotGivenBack ==
  \E i \in DOMAIN kept :
    \/ collection \in BlankIsDropped /\ kept[i].optional = "blank"
    \/ collection \in NullIsSpread \cup {"memory"} /\ kept[i].optional = "absent"

\* These are the only ways to tell the drivers apart: one of them refuses a call
\* that the other takes; a save clears an optional value, which Postgres keeps; a
\* version of an agent is registered again at another time or under another name;
\* a memory is searched; an optional value is one that Postgres does not give back
\* as it was; an email is looked up in a spelling other than the one kept. As long
\* as none of them happened, what the embedded driver answers to every read
\* Postgres may answer too, in the order that the query states.
NothingElseSetsApart == refusedBy = {} /\ apart = {} /\ ~NotGivenBack => SameAnswers

\* Under either driver a run's history holds one event of each number, and what
\* the embedded driver keeps is in order.
EventsAreNumbered ==
  collection = "events" =>
    /\ \A i, j \in DOMAIN kept : i < j => kept[i].slot < kept[j].slot
    /\ \A one, other \in table : one.slot = other.slot => one = other

\* Violated. What store.ts:108 promises: "Both the embedded driver and the
\* Postgres/Prisma driver satisfy it, so the runtime is storage-agnostic."
StorageIsAgnostic == refusedBy \in {{}, {"embedded", "postgres"}}
=============================================================================
