----------------------------- MODULE DurableLog -----------------------------
(***************************************************************************)
(* The JSON-lines files under the embedded store                           *)
(* (packages/persistence/src/embedded/jsonl.ts): an index in memory, a     *)
(* file that every write is appended to, and a process that dies.  A       *)
(* collection keeps the latest record of an id and rewrites its file when  *)
(* one is deleted; an append log keeps every item.                         *)
(*                                                                         *)
(* A line of the file is a record, or something that does not parse.  The  *)
(* last line may lack its newline: a crash or a failed write cut it short. *)
(***************************************************************************)
EXTENDS Naturals, Sequences, FiniteSets

CONSTANTS Id,          \* keys of a collection
          MaxWrites,   \* bound: puts and appends
          MaxTears     \* bound: writes cut short, crashes

ASSUME DurableLogAssumption == MaxWrites \in Nat /\ MaxTears \in Nat

VARIABLES keyed,     \* a collection (JsonlLog) or an append log (JsonlAppendLog)
          file,      \* lines on disk
          cut,       \* the last line has no newline
          index,     \* records in memory
          process,   \* "up", "renaming" (the rewrite is written, not renamed), "down"
          written,   \* versions handed out so far
          acked,     \* history: records whose write returned, as a reader expects them
          tears      \* history: how often a write was cut short

DurableLogVars == <<keyed, file, cut, index, process, written, acked, tears>>

Record == [id : Id, version : 1..MaxWrites]
Line == [record : Record, parses : BOOLEAN]

\* put: a collection replaces what the id had, an append log adds.
Put(records, r) == {x \in records : keyed => x.id # r.id} \cup {r}

\* load: what a starting process makes of the file.
Load ==
  LET Shows(i) == /\ file[i].parses
                  /\ keyed => \A j \in (i + 1)..Len(file) :
                                 file[j].parses => file[j].record.id # file[i].record.id
  IN  {file[i].record : i \in {i \in DOMAIN file : Shows(i)}}

\* What the file becomes when bytes of a record are appended: after a line
\* that was cut short they end up on that line, which then parses no more.
Appended(r, parses) ==
  IF cut THEN [file EXCEPT ![Len(file)].parses = FALSE]
         ELSE Append(file, [record |-> r, parses |-> parses])

\* compact: one line for every record in memory, in the order of writing.
Compacted(records) ==
  LET before(r) == {x \in records : x.version <= r.version}
      at(n) == CHOOSE r \in records : Cardinality(before(r)) = n
  IN  [n \in 1..Cardinality(records) |-> [record |-> at(n), parses |-> TRUE]]

DurableLogInit(kind) ==
  /\ keyed = kind
  /\ file = <<>> /\ cut = FALSE
  /\ index = {} /\ process = "up"
  /\ written = 0 /\ acked = {} /\ tears = 0

FreshRecord(id) == [id |-> id, version |-> written + 1]

\* put / append: memory first, then the file; then the caller goes on.
WriteRecord(id) ==
  /\ process = "up" /\ written < MaxWrites
  /\ index' = Put(index, FreshRecord(id))
  /\ file' = Appended(FreshRecord(id), TRUE)
  /\ cut' = FALSE
  /\ written' = written + 1
  /\ acked' = Put(acked, FreshRecord(id))
  /\ UNCHANGED <<keyed, process, tears>>

\* The write is cut short: part of the line, or all of it but the newline.
\* Either the process is gone with it, or the write threw (a full disk) and
\* the caller saw the error, with the record in memory all the same.
WriteCutShort(id) ==
  /\ process = "up" /\ written < MaxWrites /\ tears < MaxTears
  /\ \E parses \in BOOLEAN : file' = Appended(FreshRecord(id), parses)
  /\ cut' = TRUE
  /\ written' = written + 1
  /\ tears' = tears + 1
  /\ \/ process' = "down" /\ index' = {}
     \/ process' = process /\ index' = Put(index, FreshRecord(id))
  /\ UNCHANGED <<keyed, acked>>

\* delete and close rewrite the whole file next to the old one ...
Rewrite(records) ==
  /\ keyed /\ process = "up"
  /\ index' = records
  /\ acked' = {r \in acked : \E x \in records : x.id = r.id}
  /\ process' = "renaming"
  /\ UNCHANGED <<keyed, file, cut, written, tears>>

Delete(id) ==
  /\ \E r \in index : r.id = id
  /\ Rewrite({r \in index : r.id # id})

Compact == Rewrite(index)

\* Defect: the file itself is rewritten, and a crash finds it half done.
RenameInPlace ==
  /\ process = "renaming"
  /\ file' = SubSeq(Compacted(index), 1, Cardinality(index) \div 2)
  /\ cut' = FALSE
  /\ process' = "up"
  /\ UNCHANGED <<keyed, index, written, acked, tears>>

\* ... and rename it over the old one.
Rename ==
  /\ process = "renaming"
  /\ file' = Compacted(index)
  /\ cut' = FALSE
  /\ process' = "up"
  /\ UNCHANGED <<keyed, index, written, acked, tears>>

Die ==
  /\ process # "down"
  /\ process' = "down" /\ index' = {}
  /\ UNCHANGED <<keyed, file, cut, written, acked, tears>>

\* Defect: the first line that does not parse ends the load.
ReopenUpToTear ==
  /\ process = "down"
  /\ process' = "up"
  /\ index' = IF \A i \in DOMAIN file : file[i].parses THEN Load ELSE {}
  /\ UNCHANGED <<keyed, file, cut, written, acked, tears>>

Reopen ==
  /\ process = "down"
  /\ process' = "up"
  /\ index' = Load
  /\ UNCHANGED <<keyed, file, cut, written, acked, tears>>

DurableLogNext ==
  \/ \E id \in Id : WriteRecord(id) \/ WriteCutShort(id) \/ Delete(id)
  \/ Compact \/ Rename \/ Die \/ Reopen

-----------------------------------------------------------------------------

DurableLogTypeOK ==
  /\ keyed \in BOOLEAN /\ cut \in BOOLEAN
  /\ file \in Seq(Line) /\ (cut => file # <<>>)
  /\ index \subseteq Record /\ acked \subseteq Record
  /\ process \in {"up", "renaming", "down"}
  /\ written \in 0..MaxWrites /\ tears \in 0..MaxTears

Survives(r, records) ==
  \E x \in records : x.id = r.id /\ (x = r \/ (keyed /\ x.version > r.version))

\* A write that returned is found by every later process, whatever crashes in
\* between: what README.md:319 says of the embedded store.  Violated:
\* a line that was cut short swallows the record appended after it.
AckedSurvives == \A r \in acked : Survives(r, Load)

\* What does hold: every write cut short costs at most one record that was
\* acknowledged, the one written next; everything else is found again, also
\* when the process dies between the rewrite of a file and its renaming.
ATearCostsOneRecord ==
  Cardinality({r \in acked : ~Survives(r, Load)}) <= tears

\* As long as the process lives its readers see everything it acknowledged
\* since it started and everything the file gave it, also what is lost on disk.
ReadersSeeTheFile ==
  process = "up" => \A r \in Load : Survives(r, index)
=============================================================================
