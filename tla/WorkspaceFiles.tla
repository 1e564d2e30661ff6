--------------------------- MODULE WorkspaceFiles ---------------------------
(****************************************************************************)
(* The workspace as the filesystem tools leave it, and what the run is      *)
(* charged for it: each tool reports the bytes it persisted, the loop adds  *)
(* them up when it records a batch, saves them later, and stops the run     *)
(* that is over its storage budget. A tool's own file operations are        *)
(* synchronous, so that each is one step; refused calls leave no trace.     *)
(* The second part is how a workspace is captured and restored. The two     *)
(* share no variable.                                                       *)
(****************************************************************************)
EXTENDS Integers, FiniteSets, Folds

CONSTANTS WorkspaceFile, InDirectory,      \* the files, and those of one directory
          MaxFileSize, StorageLimit, BatchActions, MaxFileDeaths

ASSUME WorkspaceFilesAssumption ==
  /\ IsFiniteSet(WorkspaceFile) /\ InDirectory \subseteq WorkspaceFile
  /\ {MaxFileSize, StorageLimit, BatchActions, MaxFileDeaths} \subseteq Nat

VARIABLES fileSize,    \* per file: its bytes, or Missing
          owed,        \* what the batch's outcomes report and nobody has charged yet
          batchLeft,   \* actions the batch may still run
          storageBytes,  \* run.usage.storageBytes in the session's memory
          storageSaved,  \* … and in the store
          overBudget,  \* the run was failed for it
          seesAll,     \* only the filesystem tools wrote, and no outcome was lost
          fileDeaths

WorkspaceFilesVars ==
  <<fileSize, owed, batchLeft, storageBytes, storageSaved, overBudget, seesAll, fileDeaths>>
LoopVars == <<storageBytes, storageSaved, overBudget, seesAll, fileDeaths>>

Missing == -1
Exists(f) == fileSize[f] # Missing
SizeOf(f) == IF Exists(f) THEN fileSize[f] ELSE 0
BytesIn(files) == MapThenFoldSet(+, 0, SizeOf, LAMBDA S : CHOOSE f \in S : TRUE, files)
Used == BytesIn(WorkspaceFile)

WorkspaceFilesInit ==
  /\ fileSize = [f \in WorkspaceFile |-> Missing]
  /\ owed = 0 /\ batchLeft = BatchActions /\ storageBytes = 0 /\ storageSaved = 0
  /\ overBudget = FALSE /\ seesAll = TRUE /\ fileDeaths = 0

\* Nothing is left to save, and the run goes on.
Saved == storageSaved = storageBytes /\ ~overBudget

\* One action of the batch: the files it leaves and the persistedBytes it reports.
ToolCall(files, persisted) ==
  /\ batchLeft > 0 /\ Saved
  /\ fileSize' = files /\ owed' = owed + persisted /\ batchLeft' = batchLeft - 1
  /\ UNCHANGED LoopVars

\* Defect: an append is charged as if it replaced what was there.
PersistedAsGrowth(f, mode, bytes) == bytes - SizeOf(f)

\* What filesystem.write reports.
Persisted(f, mode, bytes) == IF mode = "append" THEN bytes ELSE bytes - SizeOf(f)

WriteFile(f) ==
  \E mode \in {"overwrite", "append", "create"}, bytes \in 0..MaxFileSize :
    LET written == IF mode = "append" THEN SizeOf(f) + bytes ELSE bytes
    IN /\ mode = "create" => ~Exists(f)
       /\ written <= MaxFileSize   \* a bound of the model
       /\ ToolCall([fileSize EXCEPT ![f] = written], Persisted(f, mode, bytes))

\* filesystem.edit replaces text that is there.
EditFile(f) ==
  /\ Exists(f) /\ fileSize[f] > 0
  /\ \E bytes \in 0..MaxFileSize : ToolCall([fileSize EXCEPT ![f] = bytes], bytes - fileSize[f])

\* filesystem.move reports nothing, whether or not it overwrites.
MoveFile(f, g) ==
  /\ Exists(f) /\ f # g
  /\ \E overwrite \in BOOLEAN :
       /\ Exists(g) => overwrite
       /\ ToolCall([fileSize EXCEPT ![f] = Missing, ![g] = fileSize[f]], 0)

\* Defect: a directory counts for a byte of its own.
FreedWithDirectory(files) == BytesIn(files) + (IF Cardinality(files) > 1 THEN 1 ELSE 0)

\* freedBytes: a file's size, or the sum over the tree below a directory.
FreedBytes(files) == BytesIn(files)

\* filesystem.delete of a file, or of the directory with recursive; of what is
\* not there it reports nothing.
DeletePath(files) ==
  ToolCall([f \in WorkspaceFile |-> IF f \in files THEN Missing ELSE fileSize[f]], -FreedBytes(files))

\* terminal.exec, git and the run's other tools write files and report nothing, and
\* what the recovery's retry of an action reports is not added up.
CommandWrites(f) ==
  /\ batchLeft > 0 /\ Saved /\ batchLeft' = batchLeft - 1 /\ seesAll' = FALSE
  /\ \E bytes \in 1..MaxFileSize : fileSize' = [fileSize EXCEPT ![f] = bytes]
  /\ UNCHANGED <<owed, storageBytes, storageSaved, overBudget, fileDeaths>>

Charged == IF storageBytes + owed > 0 THEN storageBytes + owed ELSE 0

\* record: the batch is charged; the save comes before anything else.
RecordBatch ==
  /\ Saved /\ storageBytes' = Charged /\ owed' = 0 /\ batchLeft' = BatchActions
  /\ UNCHANGED <<fileSize, storageSaved, overBudget, seesAll, fileDeaths>>

OverBudget(bytes) == bytes >= IF StorageLimit = 0 THEN 1 ELSE StorageLimit

\* Defect: the budget is held against what was saved before.
PersistUsageUnchecked ==
  /\ storageSaved # storageBytes /\ storageSaved' = storageBytes /\ overBudget' = OverBudget(storageSaved)
  /\ UNCHANGED <<fileSize, owed, batchLeft, storageBytes, seesAll, fileDeaths>>

\* session.persist, and checkStorageLimit after it.
PersistUsage ==
  /\ storageSaved # storageBytes /\ storageSaved' = storageBytes /\ overBudget' = OverBudget(storageBytes)
  /\ UNCHANGED <<fileSize, owed, batchLeft, storageBytes, seesAll, fileDeaths>>

\* The process dies. The next session reads what was saved, and the journal answers
\* for the actions that were committed, without the bytes they reported.
DieWithFiles ==
  /\ ~overBudget /\ fileDeaths < MaxFileDeaths /\ fileDeaths' = fileDeaths + 1
  /\ storageBytes' = storageSaved /\ owed' = 0 /\ batchLeft' = BatchActions
  /\ seesAll' = FALSE /\ UNCHANGED <<fileSize, storageSaved, overBudget>>

WorkspaceFilesNext ==
  \/ \E f \in WorkspaceFile : WriteFile(f) \/ EditFile(f) \/ DeletePath({f}) \/ CommandWrites(f)
  \/ \E f, g \in WorkspaceFile : MoveFile(f, g)
  \/ DeletePath(InDirectory)
  \/ RecordBatch \/ PersistUsage \/ DieWithFiles

WorkspaceFilesTypeOK ==
  /\ fileSize \in [WorkspaceFile -> Missing..MaxFileSize] /\ owed \in Int
  /\ batchLeft \in 0..BatchActions /\ {storageBytes, storageSaved} \subseteq Nat
  /\ {overBudget, seesAll} \subseteq BOOLEAN /\ fileDeaths \in 0..MaxFileDeaths

\* What the run is charged and owes covers what its files take, after any sequence
\* of writes, appends, edits, moves over other files and recursive deletes; and its
\* files outgrow the budget by no more than one batch (tools/filesystem.ts
\* persistedBytes and freedBytes; loop.ts:211-215, checkStorageLimit).
StorageIsCharged ==
  seesAll => /\ Used <= storageBytes + owed
             /\ Used < (IF StorageLimit = 0 THEN 1 ELSE StorageLimit)
                         + (BatchActions - batchLeft) * MaxFileSize + (IF Saved THEN 0 ELSE BatchActions * MaxFileSize)

\* Violated. filesystem.ts:423, "so the storage budget tracks real usage": a process
\* that dies between the commit and the save is never charged for what it wrote, and
\* a deleted file that a command wrote is refunded though it was never charged.
StorageIsTracked == Used <= storageBytes + owed

-----------------------------------------------------------------------------
(***************************************************************************)
(* captureWorkspace and restoreWorkspace of packages/tools/src/environment/*)
(* snapshot.ts: a content-addressed blob store beside the workspace.  Both *)
(* walk the files one by one in a process that may die between two of them *)
(* or in the middle of writing a blob.                                     *)
(***************************************************************************)
CONSTANTS File, Content,
          ABSENT,      \* no such file, no such blob
          TORN,        \* the content of a blob whose writer died
          MaxDeaths    \* bound: deaths of the process

\* What is not there is no content, and not what a torn blob holds.
ASSUME SnapshotAssumption == ABSENT \notin Content /\ TORN # ABSENT

VARIABLES tree,       \* the workspace: the content of every file
          blobs,      \* the blob of every content: absent, torn or whole
          manifest,   \* the files of the last snapshot that was saved
          snapshot,   \* whether there is one
          walk,       \* the walk in progress: what it does, what is left, what it has
          deaths,
          tornBlobs   \* history: contents whose blob a death cut short

SnapshotVars == <<tree, blobs, manifest, snapshot, walk, deaths, tornBlobs>>

NoWalk == [does |-> "nothing", left |-> {}, found |-> [f \in File |-> ABSENT]]

SnapshotInit ==
  /\ tree \in [File -> Content \cup {ABSENT}]
  /\ blobs = [c \in Content |-> "absent"]
  /\ manifest = [f \in File |-> ABSENT] /\ snapshot = FALSE
  /\ walk = NoWalk /\ deaths = 0 /\ tornBlobs = {}

\* A tool changes, makes or removes a file between two walks.
ChangeFile ==
  /\ walk.does = "nothing" /\ snapshot
  /\ \E f \in File, c \in Content \cup {ABSENT} : tree' = [tree EXCEPT ![f] = c]
  /\ UNCHANGED <<blobs, manifest, snapshot, walk, deaths, tornBlobs>>

BeginCapture ==
  /\ walk.does = "nothing"
  /\ walk' = [NoWalk EXCEPT !.does = "capture", !.left = {f \in File : tree[f] # ABSENT}]
  /\ UNCHANGED <<tree, blobs, manifest, snapshot, deaths, tornBlobs>>

\* Defect: the manifest names a blob that was not written.
CaptureByName ==
  /\ walk.does = "capture"
  /\ \E f \in walk.left :
       walk' = [walk EXCEPT !.left = @ \ {f}, !.found[f] = tree[f]]
  /\ UNCHANGED <<tree, blobs, manifest, snapshot, deaths, tornBlobs>>

\* One file: its blob is written unless a file of that name exists.  What a
\* command left behind after TORN is content like any other and is not followed.
CaptureFile ==
  /\ walk.does = "capture"
  /\ \E f \in walk.left :
       /\ walk' = [walk EXCEPT !.left = @ \ {f}, !.found[f] = tree[f]]
       /\ blobs' = IF tree[f] \in Content /\ blobs[tree[f]] = "absent"
                   THEN [blobs EXCEPT ![tree[f]] = "whole"] ELSE blobs
  /\ UNCHANGED <<tree, manifest, snapshot, deaths, tornBlobs>>

\* The snapshot becomes part of a checkpoint.
SaveManifest ==
  /\ walk.does = "capture" /\ walk.left = {}
  /\ manifest' = walk.found /\ snapshot' = TRUE
  /\ walk' = NoWalk
  /\ UNCHANGED <<tree, blobs, deaths, tornBlobs>>

BeginRestore ==
  /\ walk.does = "nothing" /\ snapshot
  /\ walk' = [NoWalk EXCEPT !.does = "restore", !.left = {f \in File : manifest[f] # ABSENT}]
  /\ UNCHANGED <<tree, blobs, manifest, snapshot, deaths, tornBlobs>>

Blob(content) ==
  IF content \notin Content THEN content
  ELSE IF blobs[content] = "whole" THEN content
  ELSE IF blobs[content] = "torn" THEN TORN ELSE ABSENT

\* Defect: a file that is there already is taken to be right.
RestoreMissingFile ==
  /\ walk.does = "restore"
  /\ \E f \in walk.left :
       /\ tree' = IF tree[f] # ABSENT THEN tree ELSE [tree EXCEPT ![f] = Blob(manifest[f])]
       /\ walk' = [walk EXCEPT !.left = @ \ {f}]
  /\ UNCHANGED <<blobs, manifest, snapshot, deaths, tornBlobs>>

\* One file: skipped when its hash matches, else copied from its blob, whatever
\* the blob holds; a missing blob throws and ends the walk.
RestoreFile ==
  /\ walk.does = "restore"
  /\ \E f \in walk.left :
       IF tree[f] # manifest[f] /\ Blob(manifest[f]) = ABSENT
       THEN walk' = [NoWalk EXCEPT !.does = "failed"] /\ UNCHANGED tree
       ELSE /\ tree' = IF tree[f] = manifest[f] THEN tree
                       ELSE [tree EXCEPT ![f] = Blob(manifest[f])]
            /\ walk' = [walk EXCEPT !.left = @ \ {f}]
  /\ UNCHANGED <<blobs, manifest, snapshot, deaths, tornBlobs>>

\* removeExtra is false wherever it is called: other files stay.
EndRestore ==
  /\ walk.does = "restore" /\ walk.left = {}
  /\ walk' = NoWalk
  /\ UNCHANGED <<tree, blobs, manifest, snapshot, deaths, tornBlobs>>

\* The process dies during a walk, perhaps with half a blob written.
DieWalking ==
  /\ walk.does \in {"capture", "restore"} /\ deaths < MaxDeaths
  /\ deaths' = deaths + 1
  /\ walk' = NoWalk
  /\ IF walk.does = "restore" THEN UNCHANGED <<blobs, tornBlobs>>
     ELSE \E half \in {{}} \cup {{tree[f]} : f \in walk.left} :
            /\ \A c \in half : c \in Content /\ blobs[c] = "absent"
            /\ blobs' = [c \in Content |-> IF c \in half THEN "torn" ELSE blobs[c]]
            /\ tornBlobs' = tornBlobs \cup half
  /\ UNCHANGED <<tree, manifest, snapshot>>

SnapshotNext ==
  \/ ChangeFile \/ BeginCapture \/ CaptureFile \/ SaveManifest
  \/ BeginRestore \/ RestoreFile \/ EndRestore \/ DieWalking

-----------------------------------------------------------------------------
SnapshotTypeOK ==
  /\ {tree, manifest} \subseteq [File -> Content \cup {ABSENT, TORN}]
  /\ blobs \in [Content -> {"absent", "torn", "whole"}]
  /\ walk \in [does : {"nothing", "capture", "restore", "failed"}, left : SUBSET File,
               found : [File -> Content \cup {ABSENT, TORN}]]
  /\ deaths \in 0..MaxDeaths /\ tornBlobs \subseteq Content /\ snapshot \in BOOLEAN

\* A restore that came to its end, after any number of captures and restores cut
\* short by a death, has every file of the snapshot back byte for byte, except
\* the contents whose blob a death left torn: the next capture takes that blob
\* for written, because it only asks whether it exists.
RestoreIsExact ==
  (walk.does = "restore" /\ walk.left = {}) =>
    \A f \in File : manifest[f] \notin {ABSENT, TORN} =>
      tree[f] = manifest[f] \/ manifest[f] \in tornBlobs

\* A saved snapshot can always be restored: no blob it names is missing.
SnapshotIsComplete == walk.does # "failed"
=============================================================================
