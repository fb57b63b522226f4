------------------------------ MODULE Records ------------------------------
(***************************************************************************)
(* Who may read which record of one experiment (_in_scope), how a new      *)
(* record is attributed to a branch (_insert), and the keyset pages in     *)
(* which an agent lists records while other actors write (_page_records).  *)
(*                                                                         *)
(* Record ids are random, so a new record may sort anywhere.  All records  *)
(* are of one experiment; its agents are named by their branches.          *)
(***************************************************************************)
EXTENDS Naturals, FiniteSets, FiniteSetsExt

CONSTANTS
    RecBranch,      \* branches of the experiment
    Lister,         \* the branches whose agents list records
    ListedKind,     \* the kinds of records that they list
    RecId,          \* record ids, as numbers in the order of the ids
    PageLimit,      \* rows of a page
    ScanLimit,      \* rows scanned for a page
    MaxDecided      \* bound of the model on decisions about the target

RecordKind == {"artifact", "checkpoint", "private", "input", "message", "receipt", "post",
               "node", "reader"}

NoBranch == "none"

\* There are finitely many record ids.
ASSUME RecordsAssumption ==
    /\ NoBranch \notin RecBranch
    /\ Lister \subseteq RecBranch /\ ListedKind \subseteq RecordKind
    /\ RecId \subseteq Nat \ {0} /\ IsFiniteSet(RecId)
    /\ PageLimit \in Nat \ {0} /\ ScanLimit \in Nat /\ PageLimit <= ScanLimit
    /\ MaxDecided \in Nat

VARIABLES
    sharing,        \* the experiment's sharing
    record,         \* the records, by id
    approval,       \* number of the target's latest decision, and whether it approves
    listing         \* each agent's scan: kind, position, items read, and (history) what it
                    \* could read when the scan began and at every page since

recordVars == <<sharing, record, approval, listing>>

NoRecord == [kind |-> "none", branch |-> NoBranch, author |-> NoBranch, to |-> NoBranch,
             refs |-> {}, review |-> 0]
NoScan == [pc |-> "idle", kind |-> "artifact", position |-> 0, items |-> {}, steady |-> {}]

RecordsTypeOK ==
    /\ sharing \in {"none", "verified", "ideas"}
    /\ record \in [RecId -> [kind : RecordKind \cup {"none"}, branch : RecBranch \cup {NoBranch},
                             author : RecBranch \cup {NoBranch},
                             to : RecBranch \cup {NoBranch}, refs : SUBSET RecId,
                             review : 0 .. MaxDecided]]
    /\ approval \in [number : 0 .. MaxDecided, approved : BOOLEAN]
    /\ listing \in [Lister -> [pc : {"idle", "reading", "listed"}, kind : RecordKind,
                                  position : RecId \cup {0}, items : SUBSET RecId,
                                  steady : SUBSET RecId]]

RecordsInit ==
    /\ sharing \in {"none", "verified", "ideas"}
    /\ record = [i \in RecId |-> NoRecord]
    /\ approval = [number |-> 0, approved |-> FALSE]
    /\ listing = [b \in Lister |-> NoScan]
-----------------------------------------------------------------------------
(* _in_scope *)

\* _accepted_for_sharing: a receipt of the target's present, approving review, or the
\* artifact that such a receipt verified.
Accepted(i) ==
    LET Valid(r) == /\ record[r].kind = "receipt" /\ approval.approved
                    /\ record[r].review = approval.number
    IN  \/ Valid(i)
        \/ record[i].kind = "artifact" /\ \E r \in RecId : Valid(r) /\ i \in record[r].refs

\* The last rules of _in_scope: ownership, trusted inputs and the experiment's sharing.
SharedWith(b, i) ==
    LET row == record[i]
    IN  \/ row.branch = b
        \/ row.kind = "input"
        \/ /\ row.kind # "checkpoint" /\ sharing # "none"
           /\ CASE row.kind = "message" -> sharing = "ideas" /\ row.to = b
                [] row.kind # "message" /\ sharing = "ideas" /\ row.branch # NoBranch ->
                     row.kind = "artifact"
                [] OTHER -> Accepted(i)

\* An artifact that a message or a post refers to.
ReferenceInScope(b, i) ==
    record[i].kind \in {"artifact", "input"} /\ SharedWith(b, i)

InScope(b, i) ==
    LET row == record[i]
        refsInScope == \A a \in row.refs : ReferenceInScope(b, a)
    IN  CASE row.kind \in {"none", "private"} -> FALSE
          [] row.kind = "reader" -> row.branch = b
          [] row.kind = "node" -> sharing = "ideas"
          [] row.kind = "post" -> (row.branch = b \/ sharing = "ideas") /\ refsInScope
          [] row.kind = "message" -> (row.to = b => refsInScope) /\ SharedWith(b, i)
          [] OTHER -> SharedWith(b, i)
-----------------------------------------------------------------------------
(* _insert *)

\* An artifact, a message, a post, a node or reader state, by an agent.  It may refer to an
\* artifact that it can read.  The record is its own branch's; an agent that declares
\* another branch is refused.
AgentInsert(b, i, kind, to, refs) ==
    /\ record[i] = NoRecord
    /\ kind \in {"artifact", "message", "post", "node", "reader"}
    /\ (kind = "message") <=> (to # NoBranch)
    /\ refs # {} => kind \in {"message", "post"}
    /\ kind \in {"message", "post", "node"} => sharing = "ideas"
    /\ \A a \in refs : ReferenceInScope(b, a)
    /\ record' = [record EXCEPT ![i] =
         [kind |-> kind, branch |-> b, author |-> b, to |-> to,
          refs |-> refs, review |-> 0]]
    /\ UNCHANGED <<sharing, approval, listing>>

\* The controller's record of a branch's work: the branch of the record it links to, which
\* a declared branch must match.
ControllerBranch(declared, linked) == IF declared = NoBranch THEN linked ELSE declared

\* A receipt of a verified artifact, or a checkpoint or other runtime artifact of a task.
ControllerInsert(i, kind, declared, a) ==
    LET linked == IF kind = "receipt" THEN record[a].branch ELSE NoBranch
    IN  /\ record[i] = NoRecord
        /\ \/ kind = "receipt" /\ record[a].kind = "artifact" /\ approval.approved
           \/ kind \in {"checkpoint", "private"} /\ declared # NoBranch
        /\ declared # NoBranch /\ linked # NoBranch => declared = linked
        /\ record' = [record EXCEPT ![i] =
             [NoRecord EXCEPT !.kind = kind, !.branch = ControllerBranch(declared, linked),
                              !.author = IF kind = "receipt" THEN record[a].author
                                         ELSE declared,
                              !.refs = IF kind = "receipt" THEN {a} ELSE {},
                              !.review = IF kind = "receipt" THEN approval.number ELSE 0]]
        /\ UNCHANGED <<sharing, approval, listing>>

\* A trusted input, supplied with the experiment.
TrustedInput(i) ==
    /\ record[i] = NoRecord
    /\ record' = [record EXCEPT ![i] = [NoRecord EXCEPT !.kind = "input"]]
    /\ UNCHANGED <<sharing, approval, listing>>

\* A reviewer decides about the target; receipts of an earlier review no longer count.
DecideTarget(approved) ==
    /\ approval.number < MaxDecided
    /\ approval' = [number |-> approval.number + 1, approved |-> approved]
    /\ UNCHANGED <<sharing, record, listing>>
-----------------------------------------------------------------------------
(* page_records and list_records *)

StartScan(b, kind) ==
    /\ listing[b].pc = "idle"
    /\ listing' = [listing EXCEPT ![b] =
         [NoScan EXCEPT !.pc = "reading", !.kind = kind,
                        !.steady = {i \in RecId : record[i].kind = kind /\ InScope(b, i)}]]
    /\ UNCHANGED <<sharing, record, approval>>

\* The rows of the scan after its position, in the order of their ids.
RowsAfter(b) == {i \in RecId : record[i].kind = listing[b].kind /\ i > listing[b].position}

\* Rows are scanned until the page is full or scan_limit rows were seen.
ScannedRows(b) ==
    {i \in RowsAfter(b) :
        /\ Cardinality({j \in RowsAfter(b) : j <= i}) <= ScanLimit
        /\ Cardinality({j \in RowsAfter(b) : j < i /\ InScope(b, j)}) < PageLimit}

\* The scan ends when its page is short.
ShortPageEnds(b) ==                                                 \* mutant
    Cardinality({i \in ScannedRows(b) : InScope(b, i)}) = PageLimit

\* A row beyond the scanned ones proves that more remain.
RowsRemain(b) == Cardinality(ScannedRows(b)) < Min({ScanLimit + 1, Cardinality(RowsAfter(b))})

ReadPage(b) ==
    /\ listing[b].pc = "reading"
    /\ listing' = [listing EXCEPT
         ![b].steady = {i \in @ : InScope(b, i)},
         ![b].items = @ \cup {i \in ScannedRows(b) : InScope(b, i)},
         ![b].pc = IF RowsRemain(b) THEN "reading" ELSE "listed",
         ![b].position = IF RowsRemain(b) THEN Max(ScannedRows(b)) ELSE @]
    /\ UNCHANGED <<sharing, record, approval>>

RecordsNext ==
    \/ \E i \in RecId :
        \/ TrustedInput(i)
        \/ \E b \in RecBranch, kind \in RecordKind, to \in RecBranch \cup {NoBranch} :
              \E refs \in {{}} \cup {{a} : a \in RecId \ {i}} :
                 AgentInsert(b, i, kind, to, refs)
        \/ \E kind \in RecordKind, declared \in RecBranch \cup {NoBranch}, a \in RecId :
              ControllerInsert(i, kind, declared, a)
    \/ \E approved \in BOOLEAN : DecideTarget(approved)
    \/ \E b \in Lister : ReadPage(b) \/ \E kind \in ListedKind : StartScan(b, kind)

RecordsSpec == RecordsInit /\ [][RecordsNext]_recordVars
-----------------------------------------------------------------------------
(* Properties *)

\* A scan that ended listed every record that its agent could read when it began and at
\* each of its pages, however many rows it could not read lie between, wherever new records
\* sort, and whatever a reviewer decided meanwhile.
ListsAllReadable ==
    \A b \in Lister : listing[b].pc = "listed" => listing[b].steady \subseteq listing[b].items

\* Another branch's work reaches an agent only through the experiment's sharing: nothing
\* when it is none, only what the present review's receipts verify when it is verified,
\* never another branch's runtime state, and never a message or post whose artifact the
\* agent cannot read.
BranchesKeptApart ==
    \A b \in RecBranch, i \in RecId :
        InScope(b, i) /\ record[i].author \notin {b, NoBranch} =>
            /\ sharing # "none"
            /\ record[i].kind \notin {"checkpoint", "private", "reader"}
            /\ sharing = "verified" => Accepted(i)
            /\ record[i].kind \in {"message", "post"} => \A a \in record[i].refs : InScope(b, a)

\* Listing records is complete and keeps the branches apart.
ListingsSound == RecordsTypeOK /\ ListsAllReadable /\ BranchesKeptApart
=============================================================================
