-------------------------- MODULE WorkspaceExport --------------------------
(***************************************************************************)
(* A streamed checkpoint of a workspace and its restoration into another   *)
(* VM (LocalDockerWorkspaceProvider.export_workspace_stream and            *)
(* restore_workspace_stream, and the guest helper they call).              *)
(*                                                                         *)
(* The host reads the guest one bounded call at a time: a listing with     *)
(* hashes, every chunk of every file, and the listing again.  A listing    *)
(* walks /work folder by folder and hashes the files of one before it      *)
(* looks at the next.  Processes of the guest may write in between; every  *)
(* guest call may fail.  A file is a sequence of chunks with a stamp,      *)
(* which stands for its inode, size, mtime and ctime and which no two      *)
(* writes share.  /work is folder 0 and has one level of folders; what a   *)
(* listing leaves out by rule (links, secrets, what it may not read) is    *)
(* not a path here.                                                        *)
(***************************************************************************)
EXTENDS Naturals, Sequences, FiniteSets, FiniteSetsExt, Functions

CONSTANTS
    Path,           \* the names of files: numbers, in the order of sorted names
    Width,          \* names in a folder: file p is in folder p \div Width
    Content,        \* what a file may hold: sequences of chunks
    Quota,          \* workspace_quota_bytes, in chunks
    MaxWrites,      \* bound: writes of guest processes
    MaxRestores     \* bound: calls of restore_workspace_stream

ASSUME ExportAssumption ==
    /\ IsFiniteSet(Path) /\ Path \subseteq Nat
    /\ Width \in Nat \ {0}
    /\ Quota \in Nat /\ MaxWrites \in Nat /\ MaxRestores \in Nat

VARIABLES
    files,          \* /work of the source: the content and stamp of each file
    writes,         \* the stamps given out
    export,         \* the host's call of export_workspace_stream
    chunks,         \* the chunks stored as artifacts
    archive,        \* the checkpoint, once exported
    target,         \* /work of the VM it is restored into
    restore,        \* the host's call of restore_workspace_stream
    moved,          \* history: a folder was moved since the second listing began
    during          \* history: the states of the source since the second listing began

exportVars == <<files, writes, export, chunks, archive, target, restore, moved, during>>

NoFiles == <<>>
NoPath == 0
View(fs) == [p \in DOMAIN fs |-> fs[p].content]
With(f, x, v) == [y \in DOMAIN f \cup {x} |-> IF y = x THEN v ELSE f[y]]
Tables(T) == UNION {[P -> T] : P \in SUBSET Path}
Files == Tables([content : Content, stamp : 0 .. MaxWrites])

Folder(p) == p \div Width
Folders == {Folder(p) : p \in Path} \ {0}
FilesIn(d) == {p \in DOMAIN files : Folder(p) = d}

ExportPc == {"idle", "check", "walk", "scan", "read", "failed", "done"}
RestorePc == {"idle", "next", "stage", "final", "failed", "done"}

ExportTypeOK ==
    /\ files \in Files /\ writes \in 0 .. MaxWrites
    /\ export.pc \in ExportPc /\ export.pass \in 1 .. 2
    /\ moved \in BOOLEAN
    /\ export.todo \subseteq Path /\ export.folders \subseteq Folders
    /\ export.listing \in Files /\ export.before \in Files
    /\ DOMAIN export.read \subseteq Path
    /\ restore.pc \in RestorePc /\ restore.todo \subseteq Path
    /\ restore.count \in 0 .. MaxRestores

NoExport == [pc |-> "idle", pass |-> 1, folders |-> {}, todo |-> {}, listing |-> NoFiles,
             before |-> NoFiles, read |-> NoFiles, parts |-> <<>>]

ExportInit ==
    /\ files \in {[p \in P |-> [content |-> c, stamp |-> 0]] :
                    P \in SUBSET Path, c \in Content}
    /\ writes = 0
    /\ export = NoExport
    /\ chunks = {} /\ archive = NoFiles
    /\ target = NoFiles
    /\ restore = [pc |-> "idle", todo |-> {}, staged |-> <<>>, count |-> 0]
    /\ moved = FALSE
    /\ during = {}
-----------------------------------------------------------------------------
(* The guest.  Its processes come and go, and only what they write is kept:   *)
(* that none is alive is seen at one moment and says nothing of the next.    *)

\* Only what happens while an export runs can be seen by it.
Exporting == export.pc \in {"check", "walk", "scan", "read"}

Changed(fs) ==
    /\ files' = fs
    /\ during' = IF during = {} THEN {} ELSE during \cup {View(fs)}
    /\ UNCHANGED <<export, chunks, archive, target, restore>>

\* put, or any other process: a file is created or replaced as a whole.
WriteFile(p, c) ==
    /\ Exporting /\ writes < MaxWrites
    /\ writes' = writes + 1
    /\ moved' = moved
    /\ Changed(With(files, p, [content |-> c, stamp |-> writes + 1]))

RemoveFile(p) ==
    /\ Exporting /\ p \in DOMAIN files
    /\ UNCHANGED <<writes, moved>>
    /\ Changed(Restrict(files, DOMAIN files \ {p}))

\* The file of the same name in folder d.
Into(p, d) == (d * Width) + (p % Width)

\* mv of folder a to a name b that is free or an empty folder: its files keep
\* their stamps.
MoveFolder(a, b) ==
    LET there == {Into(p, b) : p \in FilesIn(a)} IN
    /\ Exporting /\ FilesIn(a) # {} /\ FilesIn(b) = {} /\ there \subseteq Path
    /\ UNCHANGED writes
    /\ moved' = (during # {})
    /\ Changed([q \in (DOMAIN files \ FilesIn(a)) \cup there |->
                   IF q \in DOMAIN files THEN files[q]
                   ELSE files[CHOOSE p \in FilesIn(a) : Into(p, b) = q]])
-----------------------------------------------------------------------------
(* export_workspace_stream *)

Step(e) ==
    /\ export' = e
    /\ UNCHANGED <<files, writes, archive, target, restore>>

\* The call begins with the first listing.
BeginExport ==
    /\ export.pc = "idle"
    /\ Step([export EXCEPT !.pc = "check"])
    /\ UNCHANGED <<chunks, moved, during>>

\* Any guest call may fail, be refused by before_read, or find a process running.
ExportFails ==
    /\ Exporting
    /\ Step([NoExport EXCEPT !.pc = "failed"])
    /\ moved' = FALSE /\ during' = {}
    /\ UNCHANGED chunks

\* list3 asserts that no other process is alive (ExportFails) ...
CheckQuiescent ==
    /\ export.pc = "check"
    /\ Step([export EXCEPT !.pc = "walk"])
    /\ during' = IF export.pass = 2 THEN {View(files)} ELSE {}
    /\ UNCHANGED <<chunks, moved>>

\* ... then os.walk reads the names in /work, those of its folders as well,
\* which may be empty ...
Walk ==
    /\ export.pc = "walk"
    /\ \E empty \in SUBSET {d \in Folders : FilesIn(d) = {}} :
        Step([export EXCEPT !.pc = "scan", !.todo = FilesIn(0), !.listing = NoFiles,
                            !.folders = {d \in Folders : FilesIn(d) # {}} \cup empty])
    /\ UNCHANGED <<chunks, moved, during>>

\* ... each file is hashed while its stamp stays the same; a name that is gone
\* ends the listing (ExportFails) ...
Scan(p) ==
    /\ export.pc = "scan" /\ p \in export.todo /\ p = Min(export.todo)
    /\ p \in DOMAIN files
    /\ Step([export EXCEPT !.todo = @ \ {p}, !.listing = With(@, p, files[p])])
    /\ UNCHANGED <<chunks, moved, during>>

\* ... and only then the names in the next folder are read.
NextFolder(d) ==
    /\ export.pc = "scan" /\ export.todo = {}
    /\ d \in export.folders /\ d = Min(export.folders)
    /\ Step([export EXCEPT !.folders = @ \ {d}, !.todo = FilesIn(d)])
    /\ UNCHANGED <<chunks, moved, during>>

\* Nothing is left to walk.
Walked == export.pc = "scan" /\ export.todo = {} /\ export.folders = {}

Size(fs) == MapThenSumSet(LAMBDA p : Len(fs[p].content), DOMAIN fs)

\* The first listing is complete: the quota is checked and the reads begin.
Listed ==
    /\ Walked /\ export.pass = 1
    /\ IF Size(export.listing) > Quota
       THEN Step([NoExport EXCEPT !.pc = "failed"])
       ELSE Step([export EXCEPT !.pc = "read", !.before = export.listing,
                                !.todo = DOMAIN export.listing])
    /\ UNCHANGED <<chunks, moved, during>>

Reading == Min(export.todo)

\* chunk reads one piece of a file that still has the stamp of the listing;
\* the broker stores it if it is new.
ReadChunk ==
    LET offset == Len(export.parts) IN
    /\ export.pc = "read" /\ export.todo # {}
    /\ offset < Len(export.before[Reading].content)
    /\ Reading \in DOMAIN files /\ files[Reading].stamp = export.before[Reading].stamp
    /\ LET piece == files[Reading].content[offset + 1] IN
        /\ chunks' = chunks \cup {piece}
        /\ Step([export EXCEPT !.parts = Append(@, piece)])
    /\ UNCHANGED <<moved, during>>

\* All pieces of a file are read: their hash is the listed one.
FileRead ==
    /\ export.pc = "read" /\ export.todo # {}
    /\ Len(export.parts) = Len(export.before[Reading].content)
    /\ export.parts = export.before[Reading].content
    /\ Step([export EXCEPT !.todo = @ \ {Reading}, !.parts = <<>>,
                           !.read = With(@, Reading, export.parts)])
    /\ UNCHANGED <<chunks, moved, during>>

\* Every file is read: list3 once more.
SecondListing ==
    /\ export.pc = "read" /\ export.todo = {}
    /\ Step([export EXCEPT !.pc = "check", !.pass = 2])
    /\ UNCHANGED <<chunks, moved, during>>

AnyListing == TRUE                                                  \* mutant
\* "Workspace changed during export" otherwise.
SameListing == export.listing = export.before

\* The second listing is complete; the manifest is built from what was read.
Exported ==
    /\ Walked /\ export.pass = 2
    /\ SameListing
    /\ archive' = export.read
    /\ export' = [NoExport EXCEPT !.pc = "done"]
    /\ UNCHANGED <<files, writes, chunks, target, restore, moved, during>>

\* The process is destroyed, or the export is tried again under a new
\* operation id; the chunks stay.
RetryExport ==
    /\ export.pc = "failed"
    /\ export' = NoExport
    /\ UNCHANGED <<files, writes, chunks, archive, target, restore, moved, during>>
-----------------------------------------------------------------------------
(* restore_workspace_stream, into a VM that no other process writes to *)

Restoring(r) ==
    /\ restore' = r
    /\ UNCHANGED <<files, writes, export, chunks, archive, moved, during>>

\* list: the target must be empty, a leftover of an earlier restore included.
BeginRestore ==
    /\ export.pc = "done" /\ restore.pc \in {"idle", "failed"}
    /\ restore.count < MaxRestores
    /\ Restoring([pc |-> IF target = NoFiles THEN "next" ELSE "failed",
                  todo |-> DOMAIN archive, staged |-> <<>>, count |-> restore.count + 1])
    /\ UNCHANGED target

\* stage_chunk appends to a temporary file, a listed name of the workspace.
StageChunk ==
    LET p == Min(restore.todo)
        offset == Len(restore.staged) IN
    /\ restore.pc \in {"next", "stage"} /\ restore.todo # {}
    /\ restore.pc = "next" \/ offset < Len(archive[p])
    /\ archive[p] # <<>> => archive[p][offset + 1] \in chunks
    /\ Restoring([restore EXCEPT !.pc = "stage",
                    !.staged = IF archive[p] = <<>> THEN @
                               ELSE Append(@, archive[p][offset + 1])])
    /\ target' = With(target, NoPath, restore'.staged)

\* commit_stage renames a complete file whose name is free.
CommitStage ==
    LET p == Min(restore.todo) IN
    /\ restore.pc = "stage" /\ restore.staged = archive[p]
    /\ p \notin DOMAIN target
    /\ Restoring([restore EXCEPT !.pc = "next", !.todo = @ \ {p}, !.staged = <<>>])
    /\ target' = With(Restrict(target, DOMAIN target \ {NoPath}), p, restore.staged)

\* The listing of the target is compared with the manifest.
Restored ==
    /\ restore.pc = "next" /\ restore.todo = {}
    /\ Restoring([restore EXCEPT !.pc = IF target = archive THEN "done" ELSE "failed"])
    /\ UNCHANGED target

\* A guest call fails, or a chunk cannot be read back exactly.
RestoreFails ==
    /\ restore.pc \in {"next", "stage"}
    /\ Restoring([restore EXCEPT !.pc = "failed", !.todo = {}, !.staged = <<>>])
    /\ UNCHANGED target

ExportNext ==
    \/ \E p \in Path, c \in Content : WriteFile(p, c)
    \/ \E p \in Path : RemoveFile(p) \/ Scan(p)
    \/ \E a, b \in Folders : MoveFolder(a, b)
    \/ \E d \in Folders : NextFolder(d)
    \/ BeginExport \/ ExportFails \/ CheckQuiescent \/ Walk \/ Listed \/ ReadChunk
    \/ FileRead \/ SecondListing \/ Exported \/ RetryExport
    \/ BeginRestore \/ StageChunk \/ CommitStage \/ Restored \/ RestoreFails

ExportSpec == ExportInit /\ [][ExportNext]_exportVars
-----------------------------------------------------------------------------
(* Properties. *)

\* What fs says of the name p, a file or that there is none, is what v says.
SameAt(fs, v, p) ==
    /\ p \in DOMAIN fs <=> p \in DOMAIN v
    /\ p \in DOMAIN fs => fs[p] = v[p]

\* Every name of fs, present or not, was so at some moment since the second
\* listing began, and its files were all there at one of these moments, unless
\* a folder was moved.
WasThere(fs) ==
    /\ \A p \in Path : \E v \in during : SameAt(fs, v, p)
    /\ moved \/ \E v \in during : \A p \in DOMAIN fs : SameAt(fs, v, p)

\* A checkpoint holds nothing that the workspace did not hold, and leaves out
\* nothing that was there all along, though it was read file by file and folder
\* by folder while processes could write; neither does a workspace for which a
\* restore reported success, after any number of failed ones.  It need not be
\* a state of the workspace: files that came and went between two folders of
\* both listings can be missing together.
CheckpointWasThere ==
    /\ export.pc = "done" => WasThere(archive)
    /\ restore.pc = "done" => WasThere(target)

\* Checkpoints and restores hold what the workspace held.
ExportSound == ExportTypeOK /\ CheckpointWasThere
=============================================================================
