------------------------------ MODULE Commons ------------------------------
(***************************************************************************)
(* The commons of an experiment: nodes with Lean statements, dependency    *)
(* links, expiring work claims, and the Lean source each node publishes    *)
(* (commons.py, commons_discourse.py, commons_sources.py and the lean_check *)
(* tool of society_tools.py).                                              *)
(*                                                                         *)
(* Every command locks the experiment row and re-reads its node, so a      *)
(* command is one step.  lean_check is not one command: it reads the node, *)
(* inlines each imported module by a read of its own, runs Lean, asks      *)
(* source_blocking_rank, and only then calls record_lean_source.  Other    *)
(* branches publish, restate and abandon nodes between those steps.        *)
(*                                                                         *)
(* A file stands for its digest: two publications of the same file have    *)
(* the same sha256.  A statement is a version number, 0 for none.          *)
(***************************************************************************)
EXTENDS Naturals, FiniteSets

CONSTANTS
    CNode,         \* the nodes, the goal excluded: it takes no source
    Branch,        \* research branches
    Author,        \* the branch that authors each node
    File,          \* Lean files an agent may check
    Imports,       \* the nodes whose modules a file imports
    Clean,         \* the files with no sorry in their own lines
    NoFile,        \* the module of a node without a source: a sorry stub
    Candidates,    \* the node and file pairs lean_check is called with
    Existing,      \* nodes posted before the behaviour starts
    MaxCommands    \* bound: lean_check calls, commands and lapsed claims

ASSUME CommonsAssumption ==
    /\ Author \in [CNode -> Branch]
    /\ Imports \in [File -> SUBSET CNode]
    /\ Clean \subseteq File
    /\ NoFile \notin File
    /\ Candidates \subseteq CNode \X File
    /\ Existing \subseteq CNode
    /\ MaxCommands \in Nat

VARIABLES
    made,     \* nodes created
    shut,     \* nodes abandoned
    stmt,     \* the version of each node's Lean statement
    elab,     \* nodes whose statement elaborates
    writer,   \* the branch that wrote each statement
    source,   \* each node's published source
    depends,  \* the depends_on edges
    claims,   \* live claims: node -> branches
    live,     \* branches that still have an unfinished task
    check,    \* the lean_check each branch is in
    commands  \* how many commands were given, against the bound

commonsVars ==
    <<made, shut, stmt, elab, writer, source, depends, claims, live, check, commands>>
-----------------------------------------------------------------------------
(* Sources and what they prove. *)

Rank == {"partial", "complete", "verified"}
RankValue(r) == IF r = "partial" THEN 1 ELSE IF r = "complete" THEN 2 ELSE 3
CompleteRanks == {"complete", "verified"}

NoSource == [file |-> NoFile]
HasSource(n) == source[n].file # NoFile

\* What an importer of m inlines: its source, else the stub of its statement.
ModuleFile(m) == source[m].file
HasModule(m) == HasSource(m) \/ (stmt[m] > 0 /\ m \in elab)

\* Every module the check of n's source inlined is still its node's source.
DirectOnly(n) ==                                                   \* mutant
    \A e \in source[n].closure :
        e[1] \in Imports[source[n].file] => ModuleFile(e[1]) = e[2]
Stands(n) ==
    \A e \in source[n].closure : ModuleFile(e[1]) = e[2]

\* source_state: the rank, "stale", "stub" or "none".
SourceState(n) ==
    IF HasSource(n)
    THEN IF source[n].stmt = stmt[n] /\ Stands(n) THEN source[n].rank ELSE "stale"
    ELSE IF stmt[n] > 0 /\ n \in elab THEN "stub" ELSE "none"

\* blocking_rank: n's source keeps its place against one of rank r from b.
NeverHeld(n, r, b) == FALSE                                        \* mutant
Held(n, r, b) ==
    /\ SourceState(n) \in Rank
    /\ LET held == source[n].rank IN
       \/ RankValue(r) < RankValue(held)
       \/ /\ r = held
          /\ held \in CompleteRanks
          /\ b \notin {source[n].branch, Author[n]}
          /\ \/ held = "verified"
             \/ stmt[n] > 0 /\ n \in elab
             \/ {source[n].branch, Author[n]} \cap live # {}

ImportEdges ==
    {e \in CNode \X CNode : HasSource(e[1]) /\ e[2] \in Imports[ModuleFile(e[1])]}

\* The nodes reachable from the members of S along the relation R (the least
\* set with them that R does not leave), and the relations with a cycle.
Keeps(R, T) == \A e \in R : e[1] \in T => e[2] \in T
Reached(R, S) ==
    {y \in CNode : \A T \in SUBSET CNode : S \subseteq T /\ Keeps(R, T) => y \in T}

Cyclic(R) == \E n \in CNode : n \in Reached(R, {m \in CNode : <<n, m>> \in R})

\* record_lean_source adds an edge per import, except one that closes a cycle.
WithEdges(n, ms) ==
    depends \cup {<<n, m>> : m \in {k \in ms \ {n} : n \notin Reached(depends, {k})}}
-----------------------------------------------------------------------------
Idle == [phase |-> "idle"]

CommonsInit ==
    /\ made = Existing
    /\ shut = {}
    /\ stmt = [n \in CNode |-> 0]
    /\ elab = {}
    /\ writer = Author
    /\ source = [n \in CNode |-> NoSource]
    /\ depends = {}
    /\ claims = [n \in CNode |-> {}]
    /\ live = Branch
    /\ check = [b \in Branch |-> Idle]
    /\ commands = 0

OpenNode(n) == n \in made \ shut
Working(b) == b \in live /\ check[b] = Idle

Count ==
    /\ commands < MaxCommands
    /\ commands' = commands + 1

\* create_node: a new node has no incoming edge, so its own close no cycle.
CreateNode(n, targets) ==
    /\ Working(Author[n])
    /\ n \notin made
    /\ targets \subseteq made
    /\ IF targets = {} THEN UNCHANGED commands ELSE Count
    /\ made' = made \cup {n}
    /\ depends' = depends \cup ({n} \X targets)
    /\ UNCHANGED <<shut, stmt, elab, writer, source, claims, live, check>>

\* link_nodes: refused when the target already depends on the source.
LinkNodes(b, n, m) ==
    /\ Count
    /\ Working(b)
    /\ {n, m} \subseteq made
    /\ <<n, m>> \notin depends
    /\ n \notin Reached(depends, {m})
    /\ depends' = depends \cup {<<n, m>>}
    /\ UNCHANGED <<made, shut, stmt, elab, writer, source, claims, live, check>>

\* abandon_node: the author's only status move.
AbandonNode(n) ==
    /\ Working(Author[n])
    /\ OpenNode(n)
    /\ shut' = shut \cup {n}
    /\ Count
    /\ UNCHANGED <<made, stmt, elab, writer, source, depends, claims, live, check>>

\* claim_node: claim (or renew), release; a claim also lapses at its expiry.
ClaimNode(b, n) ==
    /\ Working(b)
    /\ OpenNode(n)
    /\ b \notin claims[n]
    /\ claims' = [claims EXCEPT ![n] = @ \cup {b}]
    /\ Count
    /\ UNCHANGED <<made, shut, stmt, elab, writer, source, depends, live, check>>

ClaimEnds(b, n) ==
    /\ b \in claims[n]
    /\ claims' = [claims EXCEPT ![n] = @ \ {b}]
    /\ Count
    /\ UNCHANGED <<made, shut, stmt, elab, writer, source, depends, live, check>>

\* _may_formalize: a claimant never replaces another writer's elaborated
\* statement, nor one a verified source proves.
MayFormalize(b, n) ==
    \/ b = Author[n]
    \/ /\ SourceState(n) # "verified"
       /\ stmt[n] > 0 /\ n \in elab => writer[n] = b
       /\ b \in claims[n]

\* set_lean_statement with a new text and the outcome of its elaboration.
SetLeanStatement(b, n, ok) ==
    /\ Count
    /\ Working(b)
    /\ OpenNode(n)
    /\ MayFormalize(b, n)
    /\ stmt' = [stmt EXCEPT ![n] = @ + 1]
    /\ elab' = IF ok THEN elab \cup {n} ELSE elab \ {n}
    /\ writer' = [writer EXCEPT ![n] = b]
    /\ UNCHANGED <<made, shut, source, depends, claims, live, check>>

\* The branch's last task finishes: its claims are released, its tools stop.
BranchEnds(b) ==
    /\ b \in live
    /\ live' = live \ {b}
    /\ claims' = [n \in CNode |-> claims[n] \ {b}]
    /\ check' = [check EXCEPT ![b] = Idle]
    /\ Count
    /\ UNCHANGED <<made, shut, stmt, elab, writer, source, depends>>
-----------------------------------------------------------------------------
(* lean_check of file f for node n by branch b. *)

\* read_node, then expand_commons begins.
StartCheck(b, n, f) ==
    /\ Working(b)
    /\ n \in made
    /\ <<n, f>> \in Candidates
    /\ Imports[f] \subseteq made
    /\ Count
    /\ check' = [check EXCEPT ![b] =
         [phase |-> "expand", node |-> n, file |-> f, stmt |-> stmt[n],
          open |-> OpenNode(n), todo |-> Imports[f], closure |-> {}]]
    /\ UNCHANGED <<made, shut, stmt, elab, writer, source, depends, claims, live>>

Seen(c) == {e[1] : e \in c.closure}

\* The next module the expansion reads: the files fix the order.
NextModule(c) == CHOOSE m \in c.todo : TRUE

\* _module: one imported module is read and inlined, its imports to follow.
InlineModule(b) ==
    LET c == check[b] m == NextModule(c) f == ModuleFile(m) IN
    /\ c.phase = "expand"
    /\ c.todo # {}
    /\ HasModule(m)
    /\ check' = [check EXCEPT ![b].closure = @ \cup {<<m, f>>},
                              ![b].todo =
         (@ \cup (IF f = NoFile THEN {} ELSE Imports[f])) \ (Seen(c) \cup {m})]
    /\ UNCHANGED <<made, shut, stmt, elab, writer, source, depends, claims, live, commands>>

\* The modules as this check read them import one another in a circle.
ReadCycle(c) ==
    LET read == {e \in CNode \X CNode :
                   \E x \in c.closure : x[1] = e[1] /\ x[2] # NoFile /\ e[2] \in Imports[x[2]]}
    IN  Cyclic(read)

\* No sorry in the flattened file.
FlatIsClean(c) == c.file \in Clean /\ \A e \in c.closure : e[2] \in Clean

\* _source_rank: what Lean and the statement check may make of the file.
Ranks(c) ==
    IF ~FlatIsClean(c) THEN {"partial"}
    ELSE IF c.stmt = 0 THEN {"complete", "partial"}
    ELSE {"verified", "partial"}

\* The refusals between the check and the stored artifact.
MayStore(b, r) ==
    LET c == check[b] IN
    /\ ~ReadCycle(c)
    /\ c.node \notin Seen(c)
    /\ c.open
    /\ ~Held(c.node, r, b)

\* Lean and the statement check ran.
Judge(b, r) ==
    LET c == check[b] IN
    /\ c.phase = "expand"
    /\ c.todo = {}
    /\ r \in Ranks(c)
    /\ MayStore(b, r)
    /\ check' = [check EXCEPT ![b] =
         [phase |-> "store", node |-> c.node, file |-> c.file, stmt |-> c.stmt,
          rank |-> r, closure |-> c.closure]]
    /\ UNCHANGED <<made, shut, stmt, elab, writer, source, depends, claims, live, commands>>

\* _imports_reach, along the stored sources' imports.
ImportsReach(n, ms) == n \in Reached(ImportEdges, ms)

SameStatement(c) == stmt[c.node] > 0 => c.stmt = stmt[c.node]

\* The refusals of record_lean_source.
MayRecord(b) ==
    LET c == check[b] IN
    /\ OpenNode(c.node)
    /\ SameStatement(c)
    /\ ~Held(c.node, c.rank, b)
    /\ ~ImportsReach(c.node, Imports[c.file])

\* record_lean_source, under the experiment lock, then the publisher's claim.
RecordLeanSource(b) ==
    LET c == check[b] n == c.node IN
    /\ c.phase = "store"
    /\ MayRecord(b)
    /\ source' = [source EXCEPT ![n] =
         [file |-> c.file, rank |-> c.rank, branch |-> b, stmt |-> c.stmt,
          closure |-> c.closure]]
    /\ depends' = WithEdges(n, Imports[c.file])
    /\ claims' = [claims EXCEPT ![n] = @ \cup {b}]
    /\ check' = [check EXCEPT ![b] = Idle]
    /\ UNCHANGED <<made, shut, stmt, elab, writer, live, commands>>

\* A refusal ends the call with nothing stored.  (A file Lean rejects is the
\* same as one never checked.)
EndCheck(b) ==
    LET c == check[b] IN
    /\ \/ c.phase = "expand" /\ c.todo # {} /\ ~HasModule(NextModule(c))
       \/ c.phase = "expand" /\ c.todo = {} /\ \E r \in Ranks(c) : ~MayStore(b, r)
       \/ c.phase = "store" /\ ~MayRecord(b)
    /\ check' = [check EXCEPT ![b] = Idle]
    /\ UNCHANGED <<made, shut, stmt, elab, writer, source, depends, claims, live, commands>>
-----------------------------------------------------------------------------
CommonsNext ==
    \/ \E n \in CNode, ts \in SUBSET CNode : CreateNode(n, ts)
    \/ \E b \in Branch, n, m \in CNode : LinkNodes(b, n, m)
    \/ \E n \in CNode : AbandonNode(n)
    \/ \E b \in Branch, n \in CNode : ClaimNode(b, n)
    \/ \E b \in Branch, n \in CNode : ClaimEnds(b, n)
    \/ \E b \in Branch, n \in CNode, ok \in BOOLEAN : SetLeanStatement(b, n, ok)
    \/ \E b \in Branch : BranchEnds(b)
    \/ \E b \in Branch, n \in CNode, f \in File : StartCheck(b, n, f)
    \/ \E b \in Branch : InlineModule(b)
    \/ \E b \in Branch, r \in Rank : Judge(b, r)
    \/ \E b \in Branch : EndCheck(b)
    \/ \E b \in Branch : RecordLeanSource(b)

CommonsSpec == CommonsInit /\ [][CommonsNext]_commonsVars
-----------------------------------------------------------------------------
\* The shapes of the commons' records.
CommonsTypeOK ==
    /\ made \subseteq CNode
    /\ shut \subseteq made
    /\ stmt \in [CNode -> 0..MaxCommands]
    /\ elab \subseteq CNode
    /\ writer \in [CNode -> Branch]
    /\ depends \subseteq CNode \X CNode
    /\ claims \in [CNode -> SUBSET Branch]
    /\ live \subseteq Branch
    /\ \A n \in CNode : source[n].file \in File \cup {NoFile}

\* What source_state reports complete or verified would compile today: the
\* modules its check inlined are, file by file, the ones an importer would
\* inline now along the stored imports, none has a sorry, and the check judged
\* the node's present statement, however many sources and statements changed
\* between its reads and since (Closures.stands).
CompleteStillCompiles ==
    \A n \in CNode :
        SourceState(n) \in CompleteRanks =>
            LET s == source[n]
                mods == Reached(ImportEdges, Imports[s.file])
            IN  /\ s.stmt = stmt[n]
                /\ s.closure = {<<m, ModuleFile(m)>> : m \in mods}
                /\ {s.file} \cup {ModuleFile(m) : m \in mods} \subseteq Clean

\* The stored sources never import one another in a circle and the dependency
\* links stay a DAG, although two publications checked at the same time may
\* each import the other's node (record_lean_source, _add_edge).
GraphsAcyclic ==
    /\ ~Cyclic(ImportEdges)
    /\ ~Cyclic(depends)

\* A verified node keeps a verified source of its publisher or its author, for
\* its present statement, unless its author restates it; it goes stale only when
\* those two replace the source, or when a module it inlines changes: no check
\* another branch began before the proof was published, and no claimant, undoes it.
ProofKeepsItsPlace ==
    [][\A n \in CNode :
         SourceState(n) = "verified" =>
            \/ stmt'[n] # stmt[n] /\ writer'[n] = Author[n]
            \/ /\ source'[n].rank = "verified" /\ source'[n].stmt = stmt'[n]
               /\ source'[n].branch \in {source[n].branch, Author[n]}
               /\ \/ SourceState(n)' = "verified"
                  \/ \E m \in {n} \cup {e[1] : e \in source[n].closure} : source'[m] # source[m]
      ]_commonsVars

\* The commons calls complete only what compiles today, over graphs without circles.
CommonsSound == CommonsTypeOK /\ CompleteStillCompiles /\ GraphsAcyclic
=============================================================================
