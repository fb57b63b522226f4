--------------------------- MODULE PortableMemory ---------------------------
(***************************************************************************)
(* The portable memory of a branch: research notes and context checkpoints *)
(* that a task's worker writes under its fence, the notes that a successor *)
(* gets at a handoff, and the pages of the obligations of the branch.      *)
(*                                                                         *)
(* A record stands for a task, a claim or a receipt of the branch; it is   *)
(* an obligation while it is open.  A revision stands for a record's       *)
(* content.  A checkpoint is written in one transaction, but under read    *)
(* committed isolation: what it says of the records was read earlier.      *)
(***************************************************************************)
EXTENDS Naturals, Sequences, FiniteSets, FiniteSetsExt

CONSTANTS
    Rec,            \* the records of the branch, in the order of their ids
    Writer,         \* executions of the task
    PageSize,       \* records on a page
    MaxLineage,     \* checkpoints of a lineage (256 in the code)
    MaxChanges,     \* bound: changes of records
    MaxCheckpoints  \* bound: checkpoints

\* Ids come after 0, the cursor of the first page.
ASSUME MemoryAssumption ==
    /\ Rec \subseteq Nat \ {0} /\ IsFiniteSet(Rec)
    /\ {PageSize, MaxLineage, MaxChanges, MaxCheckpoints} \subseteq Nat
    /\ PageSize > 0 /\ MaxLineage > 0

VARIABLES
    record,         \* each record: whether it is open, and its revision
    checkpoints,    \* the issued checkpoints, in order
    holderFence,    \* the fence of the task's lease
    draft,          \* each writer's transaction
    walk,           \* a reader that pages through the open records
    changes         \* changes so far

memoryVars == <<record, checkpoints, holderFence, draft, walk, changes>>

Revision == 0 .. MaxChanges
\* Revision 0: the record does not exist yet.
Version == [open : BOOLEAN, rev : Revision]
NoDraft == [pc |-> "off", fence |-> 0]
\* due: the records that were open since the walk began and were not shown.
NoWalk == [on |-> FALSE, cursor |-> 0, due |-> {}]

OpenRecs == {r \in Rec : record[r].open}
\* _obligation_fingerprints, and the core of a full checkpoint: the open records
\* with their revisions.
Obligations == {<<r, record[r].rev>> : r \in OpenRecs}
References(S) == {<<r, record[r].rev>> : r \in S}

MemoryTypeOK ==
    /\ record \in [Rec -> Version]
    /\ \A i \in DOMAIN checkpoints :
        /\ checkpoints[i].kind \in {"notes", "full"}
        /\ checkpoints[i].generation \in 0 .. MaxLineage
        /\ checkpoints[i].previous \in 0 .. i - 1
    /\ holderFence \in Nat
    /\ \A w \in Writer : draft[w].pc \in {"off", "open", "drafted"}
    /\ walk.on \in BOOLEAN /\ walk.due \subseteq Rec
    /\ changes \in 0 .. MaxChanges

MemoryInit ==
    /\ record = [r \in Rec |-> [open |-> FALSE, rev |-> 0]]
    /\ checkpoints = <<>>
    /\ holderFence = 0
    /\ draft = [w \in Writer |-> NoDraft]
    /\ walk = NoWalk
    /\ changes = 0

\* A record is created, revised, settled or opened again.
Change(r) ==
    /\ changes < MaxChanges
    /\ changes' = changes + 1
    /\ \E b \in BOOLEAN :
        /\ record[r].rev = 0 => b
        /\ record' = [record EXCEPT ![r] = [open |-> b, rev |-> @.rev + 1]]
        /\ walk' = [walk EXCEPT !.due = IF b THEN @ ELSE @ \ {r}]
    /\ UNCHANGED <<checkpoints, holderFence, draft>>
-----------------------------------------------------------------------------
(* Checkpoints. *)

\* Another execution takes the task over; a writer keeps the fence it has.
TakeOver(w) ==
    /\ draft[w].pc = "off" /\ holderFence < Cardinality(Writer)
    /\ holderFence' = holderFence + 1
    /\ draft' = [draft EXCEPT ![w] = [pc |-> "open", fence |-> holderFence + 1]]
    /\ UNCHANGED <<record, checkpoints, walk, changes>>

\* _lineage: the generation of the checkpoint that a full one continues.
Continues(p) ==
    p # 0 => checkpoints[p].kind = "full" /\ checkpoints[p].generation < MaxLineage

\* The first half of the action: the fence is checked, and the core, the
\* obligations and the chosen evidence are read.
Draft(w, kind, p, cited) ==
    /\ draft[w].pc = "open" /\ draft[w].fence = holderFence
    /\ Len(checkpoints) < MaxCheckpoints
    /\ kind = "notes" => p = 0
    /\ Continues(p)
    /\ \A r \in cited : record[r].rev > 0
    /\ draft' = [draft EXCEPT ![w] =
            [pc |-> "drafted", fence |-> draft[w].fence, kind |-> kind, previous |-> p,
             generation |-> IF kind = "notes" THEN 0
                            ELSE IF p = 0 THEN 1 ELSE checkpoints[p].generation + 1,
             obligations |-> Obligations, open |-> References(OpenRecs),
             evidence |-> References(cited)]]
    /\ UNCHANGED <<record, checkpoints, holderFence, walk, changes>>

UncheckedInsert(w) == TRUE                                          \* mutant
\* After the bytes are stored the fence is checked again.
StillFenced(w) == draft[w].fence = holderFence

Insert(w) ==
    /\ draft[w].pc = "drafted" /\ StillFenced(w) /\ Len(checkpoints) < MaxCheckpoints
    /\ checkpoints' = Append(checkpoints, draft[w])
    /\ draft' = [draft EXCEPT ![w] = [pc |-> "open", fence |-> draft[w].fence]]
    /\ UNCHANGED <<record, holderFence, walk, changes>>

\* STALE_LEASE, an envelope that is exceeded, or a crash.
DropDraft(w) ==
    /\ draft[w].pc = "drafted"
    /\ draft' = [draft EXCEPT ![w] = [pc |-> "open", fence |-> draft[w].fence]]
    /\ UNCHANGED <<record, checkpoints, holderFence, walk, changes>>

\* The obligations and the evidence are as they were read.
Unchanged(c) ==
    /\ c.obligations = Obligations
    /\ \A x \in c.evidence : record[x[1]].rev = x[2]

\* handoff_notes: the latest checkpoint of the task, labelled current or stale.
HandoffCheckpoint == checkpoints[Len(checkpoints)]
HandoffLabel == IF Unchanged(HandoffCheckpoint) THEN "current" ELSE "stale"
-----------------------------------------------------------------------------
(* index_page: the open records after the cursor, in the order of their ids. *)

StartWalk ==
    /\ ~walk.on
    /\ walk' = [on |-> TRUE, cursor |-> 0, due |-> OpenRecs]
    /\ UNCHANGED <<record, checkpoints, holderFence, draft, changes>>

LaterOf(n) == {r \in OpenRecs : r > n}
\* The first n of a set of ids.
FirstOf(S, n) == {r \in S : Cardinality({q \in S : q < r}) < n}

\* next_cursor: the last id of an incomplete page.
NextCursor(shown, rest) == Max(shown)

ReadPage ==
    LET rest == LaterOf(walk.cursor)
        shown == FirstOf(rest, PageSize) IN
    /\ walk.on
    /\ walk' = IF Cardinality(rest) =< PageSize
               THEN [NoWalk EXCEPT !.due = walk.due \ shown]
               ELSE [walk EXCEPT !.due = @ \ shown,
                                 !.cursor = NextCursor(shown, rest \ shown)]
    /\ UNCHANGED <<record, checkpoints, holderFence, draft, changes>>

MemoryNext ==
    \/ \E r \in Rec : Change(r)
    \/ \E w \in Writer :
        \/ TakeOver(w) \/ Insert(w) \/ DropDraft(w)
        \/ \E kind \in {"notes", "full"}, p \in 0 .. Len(checkpoints),
              cited \in {{}} \cup {{r} : r \in Rec} :
            Draft(w, kind, p, cited)
    \/ StartWalk \/ ReadPage

MemorySpec == MemoryInit /\ [][MemoryNext]_memoryVars
-----------------------------------------------------------------------------
(* Properties. *)

\* Notes that a successor gets as current were written with the obligations
\* and the evidence as they are now: none was settled, opened again or revised.
CurrentNotesAreCurrent ==
    checkpoints # <<>> /\ HandoffLabel = "current" =>
        /\ HandoffCheckpoint.open = References(OpenRecs)
        /\ \A x \in HandoffCheckpoint.evidence : record[x[1]].rev = x[2]

\* Checkpoints come in the order of the fences, so the latest one, which a
\* handoff gets, is never that of a worker that lost the task earlier.
NotesInFenceOrder ==
    \A i, j \in DOMAIN checkpoints : i < j => checkpoints[i].fence =< checkpoints[j].fence

\* A walk over the pages shows every record that was open throughout, whatever
\* is opened, settled or revised meanwhile.
PagesShowSteady == ~walk.on => walk.due = {}

\* What a successor is handed is what the research memory says now.
MemorySound ==
    /\ MemoryTypeOK
    /\ CurrentNotesAreCurrent
    /\ NotesInFenceOrder
    /\ PagesShowSteady
=============================================================================
