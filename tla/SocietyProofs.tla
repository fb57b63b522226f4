--------------------------- MODULE SocietyProofs ---------------------------
(***************************************************************************)
(* Proofs about a research society: the commons' sources and graphs, its   *)
(* referee panels, recruits, the directories of profiles and teams, and    *)
(* the syntheses of its discussion, for any nodes, branches, files,        *)
(* models, posts and limits.                                               *)
(***************************************************************************)
EXTENDS Commons, Reviews, Synthesis, Recruiting, Directory, FiniteSetTheorems,
        SequenceTheorems, WellFoundedInduction, TLAPS

\* The least of a nonempty set of natural numbers.
LEMMA LeastOfNat ==
    ASSUME NEW S \in SUBSET Nat, S # {}
    PROVE  Min(S) \in S /\ \A y \in S : Min(S) =< y
<1> DEFINE R == OpToRel(<, Nat)
<1>1. IsWellFoundedOn(R, Nat)
  BY NatLessThanWellFounded
<1>2. \A x, y \in Nat : <<x, y>> \in R <=> x < y
  BY DEF OpToRel
<1> HIDE DEF R
<1>3. \E x \in S : \A y \in S : ~ (<<y, x>> \in R)
  BY <1>1, WFMin
<1>4. \E x \in S : \A y \in S : x =< y
  <2>1. PICK x \in S : \A y \in S : ~ (<<y, x>> \in R)
    BY <1>3
  <2>2. \A y \in S : ~ (y < x) /\ y \in Nat /\ x \in Nat
    BY <1>2, <2>1
  <2>3. QED BY <2>2
<1>5. QED BY <1>4 DEF Min

\* The greatest of a finite set of numbers.
LEMMA LargestOfFinite ==
    ASSUME NEW S \in SUBSET Nat, S # {}, IsFiniteSet(S)
    PROVE  Max(S) \in S /\ \A y \in S : y =< Max(S)
<1> DEFINE Above(i) == {j \in S : j > i}
           C == {Cardinality(Above(i)) : i \in S}
<1>1. \A i \in S : IsFiniteSet(Above(i)) /\ Cardinality(Above(i)) \in Nat
  BY FS_Subset, FS_CardinalityType
<1>2. C \in SUBSET Nat /\ C # {}
  BY <1>1
<1>3. PICK n \in C : \A c \in C : n =< c
  BY <1>2, LeastOfNat
<1>4. PICK m \in S : n = Cardinality(Above(m))
  OBVIOUS
<1>5. ASSUME NEW j \in S, j > m PROVE FALSE
  <2>1. m \in Nat /\ j \in Nat /\ \A k \in S : k \in Nat /\ (k > j => k > m) /\ ~(j > j)
    BY <1>5
  <2>2. Above(j) \in SUBSET Above(m) /\ j \in Above(m) /\ j \notin Above(j)
    BY <1>5, <2>1
  <2>3. Cardinality(Above(j)) =< Cardinality(Above(m)) /\ Above(j) # Above(m)
    BY <1>1, <2>2, FS_Subset
  <2>4. Cardinality(Above(j)) # Cardinality(Above(m))
    BY <1>1, <2>2, <2>3, FS_Subset
  <2>5. Cardinality(Above(j)) \in C
    OBVIOUS
  <2>6. n =< Cardinality(Above(j))
    BY <1>3, <2>5
  <2>7. Cardinality(Above(j)) \in Nat /\ n \in Nat
    BY <1>1, <1>4
  <2>8. QED BY <1>4, <2>3, <2>4, <2>6, <2>7
<1>6. \A j \in S : m >= j
  BY <1>5
<1>7. Max(S) \in S /\ \A y \in S : Max(S) >= y
  BY <1>6 DEF Max
<1>8. QED BY <1>7

\* Counting on from a, every position is reached once round.
LEMMA Rotation ==
    ASSUME NEW L \in Nat \ {0}, NEW a \in 1 .. L, NEW j \in 1 .. L
    PROVE  \E t \in 1 .. L : ((a - 1 + t) % L) + 1 = j
<1>1. \A m \in 0 .. (L - 1) : m % L = m /\ (L + m) % L = m
  OBVIOUS
<1>2. j - 1 \in 0 .. (L - 1)
  OBVIOUS
<1>3. CASE j > a
  <2>1. j - a \in 1 .. L /\ a - 1 + (j - a) = j - 1
    BY <1>3
  <2>2. ((a - 1 + (j - a)) % L) + 1 = j
    BY <1>1, <1>2, <2>1
  <2>3. QED BY <2>1, <2>2
<1>4. CASE j <= a
  <2>1. j - a + L \in 1 .. L /\ a - 1 + (j - a + L) = L + (j - 1)
    BY <1>4
  <2>2. (L + (j - 1)) % L = j - 1
    BY <1>1, <1>2
  <2>3. ((a - 1 + (j - a + L)) % L) + 1 = j
    BY <2>1, <2>2
  <2>4. QED BY <2>1, <2>3
<1>5. QED BY <1>3, <1>4

-----------------------------------------------------------------------------
(***************************************************************************)
(* The commons                                                             *)
(*                                                                         *)
(* What a check has inlined and what it has still to read are the modules  *)
(* its file leads to along the files as they were read.  A source keeps    *)
(* that trace, so while each of those files is still its node's source, it *)
(* is the closure along the sources as they are stored now.                *)
(***************************************************************************)

Modules == CNode \X (File \cup {NoFile})
Read(closure) == {e[1] : e \in closure}

\* T holds what its own members import, as those were read.
Follows(closure, T) ==
    \A e \in closure : e[1] \in T /\ e[2] # NoFile => Imports[e[2]] \subseteq T

Traced(file, closure, todo) ==
    /\ Imports[file] \subseteq Read(closure) \cup todo
    /\ \A e \in closure : e[2] # NoFile => Imports[e[2]] \subseteq Read(closure) \cup todo
    /\ \A T \in SUBSET CNode :
          Imports[file] \subseteq T /\ Follows(closure, T) => Read(closure) \cup todo \subseteq T

Justified(s) ==
    /\ Traced(s.file, s.closure, {})
    /\ s.rank \in CompleteRanks => s.file \in Clean /\ \A e \in s.closure : e[2] \in Clean
    /\ s.rank = "verified" => s.stmt > 0

SourceRecord == [file : File, rank : Rank, branch : Branch, stmt : Nat,
                 closure : SUBSET Modules]
ReadRecord == [phase : {"expand"}, node : CNode, file : File, stmt : Nat, open : BOOLEAN,
               todo : SUBSET CNode, closure : SUBSET Modules]
StoreRecord == [phase : {"store"}, node : CNode, file : File, stmt : Nat, rank : Rank,
                closure : SUBSET Modules]

CommonsTypes ==
    /\ made \subseteq CNode /\ shut \subseteq made
    /\ commands \in 0 .. MaxCommands
    /\ stmt \in [CNode -> Nat] /\ \A n \in CNode : stmt[n] <= commands
    /\ elab \subseteq CNode /\ writer \in [CNode -> Branch]
    /\ depends \subseteq made \X made
    /\ claims \in [CNode -> SUBSET Branch]
    /\ live \subseteq Branch
    /\ source \in [CNode -> {NoSource} \cup SourceRecord]
    /\ check \in [Branch -> {Idle} \cup ReadRecord \cup StoreRecord]

SourcesJustified == \A n \in CNode : HasSource(n) => Justified(source[n])

ChecksJustified ==
    \A b \in Branch :
        /\ check[b].phase # "idle" => Imports[check[b].file] \subseteq made
        /\ check[b].phase = "expand" =>
              Traced(check[b].file, check[b].closure, check[b].todo)
        /\ check[b].phase = "store" => Justified(check[b])

CommonsInv ==
    /\ CommonsTypes
    /\ SourcesJustified
    /\ ChecksJustified
    /\ GraphsAcyclic

\* What Reached is: the least set with S that R does not leave.
LEMMA ReachedLeast ==
    ASSUME NEW R \in SUBSET (CNode \X CNode), NEW S \in SUBSET CNode
    PROVE  /\ Reached(R, S) \subseteq CNode /\ S \subseteq Reached(R, S)
           /\ Keeps(R, Reached(R, S))
           /\ \A T \in SUBSET CNode : S \subseteq T /\ Keeps(R, T) => Reached(R, S) \subseteq T
<1>1. Reached(R, S) \subseteq CNode /\ S \subseteq Reached(R, S)
  BY DEF Reached
<1>2. Keeps(R, Reached(R, S))
  <2> SUFFICES ASSUME NEW e \in R, e[1] \in Reached(R, S) PROVE e[2] \in Reached(R, S)
    BY DEF Keeps
  <2>1. e[2] \in CNode
    OBVIOUS
  <2>2. ASSUME NEW T \in SUBSET CNode, S \subseteq T, Keeps(R, T) PROVE e[2] \in T
    BY <2>2 DEF Reached, Keeps
  <2>3. QED BY <2>1, <2>2 DEF Reached
<1>3. QED BY <1>1, <1>2 DEF Reached

\* New edges from n alone, to nodes that do not lead back to n, close no cycle.
LEMMA AcyclicAdd ==
    ASSUME NEW R \in SUBSET (CNode \X CNode), NEW Q \in SUBSET (CNode \X CNode),
           NEW n \in CNode, NEW S \in SUBSET CNode,
           ~Cyclic(R), n \notin Reached(R, S), Q \subseteq R \cup ({n} \X S)
    PROVE  ~Cyclic(Q)
<1> SUFFICES ASSUME NEW x \in CNode PROVE x \notin Reached(Q, {m \in CNode : <<x, m>> \in Q})
  BY DEF Cyclic
<1>1. PICK A, B, C, T : /\ A = {m \in CNode : <<x, m>> \in Q}
                        /\ B = {m \in CNode : <<x, m>> \in R}
                        /\ C = Reached(R, S) /\ T = Reached(R, B)
  OBVIOUS
<1>2. A \in SUBSET CNode /\ B \in SUBSET CNode
  BY <1>1
<1>3. C \subseteq CNode /\ S \subseteq C /\ Keeps(R, C)
  BY <1>1, ReachedLeast
<1>4. T \subseteq CNode /\ B \subseteq T /\ Keeps(R, T)
  BY <1>1, <1>2, ReachedLeast
<1>5. /\ C \subseteq CNode /\ S \subseteq C /\ Keeps(R, C)
      /\ T \subseteq CNode /\ B \subseteq T /\ Keeps(R, T)
  BY <1>3, <1>4
<1>6. x \notin T /\ n \notin C
  BY <1>1 DEF Cyclic
<1>7. \A U \in SUBSET CNode : A \subseteq U /\ Keeps(Q, U) => Reached(Q, A) \subseteq U
  BY <1>2, ReachedLeast
<1>8. Keeps(Q, T \cup C)
  <2> SUFFICES ASSUME NEW e \in Q, e[1] \in T \cup C PROVE e[2] \in T \cup C
    BY DEF Keeps
  <2>1. CASE e \in R
    BY <1>5, <2>1 DEF Keeps
  <2>2. CASE e \in {n} \X S
    BY <1>5, <2>2
  <2>3. QED BY <2>1, <2>2
<1>9. CASE x = n
  <2>1. A \subseteq T \cup C
    BY <1>1, <1>5
  <2>2. QED BY <1>1, <1>5, <1>6, <1>7, <1>8, <1>9, <2>1
<1>10. CASE x # n
  <2>1. A \subseteq T
    BY <1>1, <1>5, <1>10
  <2>2. CASE n \in T
    <3>1. x \notin C
      <4> SUFFICES ASSUME x \in C PROVE FALSE
        OBVIOUS
      <4>1. B \subseteq C
        BY <1>1, <1>5 DEF Keeps
      <4>2. T \subseteq C
        BY <1>1, <1>5, <4>1, ReachedLeast
      <4>3. QED BY <1>6, <2>2, <4>2
    <3>2. QED BY <1>1, <1>5, <1>6, <1>7, <1>8, <2>1, <3>1
  <2>3. CASE n \notin T
    <3>1. Keeps(Q, T)
      <4> SUFFICES ASSUME NEW e \in Q, e[1] \in T PROVE e[2] \in T
        BY DEF Keeps
      <4>1. e \in R
        BY <2>3
      <4>2. QED BY <1>5, <4>1 DEF Keeps
    <3>2. QED BY <1>1, <1>5, <1>6, <1>7, <2>1, <3>1
  <2>4. QED BY <2>2, <2>3
<1>11. QED BY <1>9, <1>10

\* A union of single starts reaches no more than they do.
LEMMA NoWayBack ==
    ASSUME NEW R \in SUBSET (CNode \X CNode), NEW S \in SUBSET CNode, NEW n,
           \A m \in S : n \notin Reached(R, {m})
    PROVE  n \notin Reached(R, S)
<1>1. PICK U : U = UNION {Reached(R, {m}) : m \in S}
  OBVIOUS
<1>2. \A m \in S : /\ m \in Reached(R, {m}) /\ Keeps(R, Reached(R, {m}))
                 /\ Reached(R, {m}) \subseteq CNode
  BY ReachedLeast
<1>3. U \subseteq CNode /\ S \subseteq U /\ n \notin U
  BY <1>1, <1>2
<1>4. Keeps(R, U)
  BY <1>1, <1>2 DEF Keeps
<1>5. QED BY <1>3, <1>4, ReachedLeast

LEMMA InitCommons == CommonsInit => CommonsInv
<1> SUFFICES ASSUME CommonsInit PROVE CommonsInv
  OBVIOUS
<1> USE CommonsAssumption
<1>1. CommonsTypes
  BY DEF CommonsInit, CommonsTypes
<1>2. \A n \in CNode : ~HasSource(n)
  BY DEF CommonsInit, HasSource, NoSource
<1>3. SourcesJustified
  BY <1>2 DEF SourcesJustified
<1>4. ChecksJustified
  BY DEF CommonsInit, ChecksJustified, Idle
<1>5. ImportEdges = {} /\ depends = {}
  BY <1>2 DEF ImportEdges, CommonsInit
<1>6. ~Cyclic({})
  <2> SUFFICES ASSUME NEW x \in CNode, x \in Reached({}, {m \in CNode : <<x, m>> \in {}})
               PROVE  FALSE
    BY DEF Cyclic
  <2>1. Keeps({}, {}) /\ {m \in CNode : <<x, m>> \in {}} \subseteq {}
    BY DEF Keeps
  <2>2. QED BY <2>1 DEF Reached
<1>7. QED BY <1>1, <1>3, <1>4, <1>5, <1>6 DEF CommonsInv, GraphsAcyclic

\* Where the sources stand, their imports stay as they are.
LEMMA GraphsStand ==
    ASSUME CommonsInv, UNCHANGED <<source, depends>>
    PROVE  GraphsAcyclic' /\ SourcesJustified'
<1>1. ImportEdges' = ImportEdges
  BY DEF ImportEdges, HasSource, ModuleFile
<1>2. GraphsAcyclic'
  BY <1>1 DEF CommonsInv, GraphsAcyclic
<1>3. SourcesJustified'
  BY DEF CommonsInv, SourcesJustified, HasSource
<1>4. QED BY <1>2, <1>3

\* A node is created, with edges to older nodes.
LEMMA CreateKept ==
    ASSUME CommonsInv, NEW n \in CNode, NEW ts \in SUBSET CNode, CreateNode(n, ts)
    PROVE  CommonsInv'
<1>1. /\ n \notin made /\ ts \subseteq made /\ made' = made \cup {n}
      /\ depends' = depends \cup ({n} \X ts)
      /\ UNCHANGED <<shut, stmt, elab, writer, source, claims, live, check>>
      /\ \/ commands' = commands
         \/ commands < MaxCommands /\ commands' = commands + 1
  BY DEF CreateNode, Count
<1>2. CommonsTypes
  BY DEF CommonsInv
<1>3. depends \in SUBSET (CNode \X CNode) /\ made \in SUBSET CNode /\ depends \subseteq made \X made
  BY <1>2 DEF CommonsTypes
<1>4. commands' \in 0 .. MaxCommands /\ commands <= commands'
  BY <1>1, <1>2, CommonsAssumption DEF CommonsTypes
<1>5. depends' \subseteq made' \X made'
  BY <1>1, <1>3
<1>6. \A k \in CNode : stmt[k] <= commands'
  BY <1>1, <1>2, <1>4 DEF CommonsTypes
<1>7. CommonsTypes'
  BY <1>1, <1>2, <1>4, <1>5, <1>6 DEF CommonsTypes
<1>8. ~Cyclic(depends')
  <2>1. Keeps(depends, made)
    BY <1>3 DEF Keeps
  <2>2. n \notin Reached(depends, ts)
    BY <1>1, <1>3, <2>1, ReachedLeast
  <2>3. PICK R : R = depends'
    OBVIOUS
  <2>4. R \in SUBSET (CNode \X CNode) /\ R \subseteq depends \cup ({n} \X ts)
    BY <1>1, <1>3, <2>3
  <2>5. ~Cyclic(depends)
    BY DEF CommonsInv, GraphsAcyclic
  <2>6. ~Cyclic(R)
    BY <1>3, <2>2, <2>4, <2>5, AcyclicAdd
  <2>7. QED BY <2>3, <2>6
<1>9. ImportEdges' = ImportEdges
  BY <1>1 DEF ImportEdges, HasSource, ModuleFile
<1>10. GraphsAcyclic'
  BY <1>8, <1>9 DEF CommonsInv, GraphsAcyclic, Cyclic, Reached, Keeps
<1>11. SourcesJustified'
  BY <1>1 DEF CommonsInv, SourcesJustified, HasSource
<1>12. ChecksJustified'
  BY <1>1 DEF CommonsInv, ChecksJustified
<1>13. QED BY <1>7, <1>10, <1>11, <1>12 DEF CommonsInv

\* An edge between nodes, unless the target already depends on the source.
LEMMA LinkKept ==
    ASSUME CommonsInv, NEW b \in Branch, NEW n \in CNode, NEW m \in CNode, LinkNodes(b, n, m)
    PROVE  CommonsInv'
<1>1. /\ {n, m} \subseteq made /\ depends' = depends \cup {<<n, m>>}
      /\ n \notin Reached(depends, {m})
      /\ UNCHANGED <<made, shut, stmt, elab, writer, source, claims, live, check>>
      /\ commands < MaxCommands /\ commands' = commands + 1
  BY DEF LinkNodes, Count
<1>2. CommonsTypes
  BY DEF CommonsInv
<1>3. depends \in SUBSET (CNode \X CNode) /\ depends \subseteq made \X made
  BY <1>2 DEF CommonsTypes
<1>4. commands' \in 0 .. MaxCommands /\ commands <= commands'
  BY <1>1, <1>2, CommonsAssumption DEF CommonsTypes
<1>5. depends' \subseteq made' \X made'
  BY <1>1, <1>3
<1>6. \A k \in CNode : stmt[k] <= commands'
  BY <1>1, <1>2, <1>4 DEF CommonsTypes
<1>7. CommonsTypes'
  BY <1>1, <1>2, <1>4, <1>5, <1>6 DEF CommonsTypes
<1>8. ~Cyclic(depends')
  <2>1. PICK R : R = depends'
    OBVIOUS
  <2>2. R \in SUBSET (CNode \X CNode) /\ R \subseteq depends \cup ({n} \X {m})
    BY <1>1, <1>3, <2>1
  <2>3. ~Cyclic(depends) /\ {m} \in SUBSET CNode
    BY DEF CommonsInv, GraphsAcyclic
  <2>4. ~Cyclic(R)
    BY <1>1, <1>3, <2>2, <2>3, AcyclicAdd
  <2>5. QED BY <2>1, <2>4
<1>9. ImportEdges' = ImportEdges
  BY <1>1 DEF ImportEdges, HasSource, ModuleFile
<1>10. GraphsAcyclic'
  BY <1>8, <1>9 DEF CommonsInv, GraphsAcyclic, Cyclic, Reached, Keeps
<1>11. SourcesJustified'
  BY <1>1 DEF CommonsInv, SourcesJustified, HasSource
<1>12. ChecksJustified'
  BY <1>1 DEF CommonsInv, ChecksJustified
<1>13. QED BY <1>7, <1>10, <1>11, <1>12 DEF CommonsInv

\* The commands on a node that touch neither sources nor edges.
LEMMA NodeCommandKept ==
    ASSUME CommonsInv, NEW n \in CNode, NEW b \in Branch, NEW ok \in BOOLEAN,
           \/ AbandonNode(n) \/ ClaimNode(b, n) \/ ClaimEnds(b, n)
           \/ SetLeanStatement(b, n, ok)
    PROVE  CommonsInv'
<1>1. CommonsTypes
  BY DEF CommonsInv
<1>2. /\ UNCHANGED <<made, source, depends, live, check>>
      /\ commands < MaxCommands /\ commands' = commands + 1
  BY DEF AbandonNode, ClaimNode, ClaimEnds, SetLeanStatement, Count
<1>3. commands' \in 0 .. MaxCommands /\ commands' = commands + 1 /\ commands \in Nat
  BY <1>1, <1>2, CommonsAssumption DEF CommonsTypes
<1>4. shut' \subseteq made /\ claims' \in [CNode -> SUBSET Branch]
  BY <1>1 DEF AbandonNode, ClaimNode, ClaimEnds, SetLeanStatement, CommonsTypes, OpenNode
<1>5. elab' \subseteq CNode /\ writer' \in [CNode -> Branch]
  BY <1>1 DEF AbandonNode, ClaimNode, ClaimEnds, SetLeanStatement, CommonsTypes
<1>6. stmt' \in [CNode -> Nat] /\ \A k \in CNode : stmt'[k] <= commands'
  <2>1. stmt \in [CNode -> Nat] /\ \A k \in CNode : stmt[k] <= commands
    BY <1>1 DEF CommonsTypes
  <2>2. stmt' = stmt \/ stmt' = [stmt EXCEPT ![n] = @ + 1]
    BY DEF AbandonNode, ClaimNode, ClaimEnds, SetLeanStatement
  <2>3. stmt' \in [CNode -> Nat]
    BY <2>1, <2>2
  <2>4. \A k \in CNode : stmt'[k] = stmt[k] \/ stmt'[k] = stmt[k] + 1
    BY <2>1, <2>2
  <2>5. QED BY <1>3, <2>1, <2>3, <2>4
<1>7. CommonsTypes'
  BY <1>1, <1>2, <1>3, <1>4, <1>5, <1>6 DEF CommonsTypes
<1>8. ChecksJustified'
  BY <1>2 DEF CommonsInv, ChecksJustified
<1>9. QED BY <1>2, <1>7, <1>8, GraphsStand DEF CommonsInv

\* A branch's last task finishes.
LEMMA BranchEndsKept ==
    ASSUME CommonsInv, NEW b \in Branch, BranchEnds(b)
    PROVE  CommonsInv'
<1>1. CommonsTypes
  BY DEF CommonsInv
<1>2. /\ UNCHANGED <<made, shut, stmt, elab, writer, source, depends>>
      /\ commands < MaxCommands /\ commands' = commands + 1
      /\ live' = live \ {b} /\ claims' = [n \in CNode |-> claims[n] \ {b}]
      /\ check' = [check EXCEPT ![b] = Idle]
  BY DEF BranchEnds, Count
<1>3. commands' \in 0 .. MaxCommands /\ commands <= commands'
  BY <1>1, <1>2, CommonsAssumption DEF CommonsTypes
<1>4. \A n \in CNode : stmt'[n] <= commands'
  BY <1>1, <1>2, <1>3 DEF CommonsTypes
<1>5. CommonsTypes'
  BY <1>1, <1>2, <1>3, <1>4 DEF CommonsTypes
<1>6. \A a \in Branch : check'[a] = check[a] \/ check'[a] = Idle
  BY <1>1, <1>2 DEF CommonsTypes
<1>7. ChecksJustified'
  BY <1>2, <1>6 DEF CommonsInv, ChecksJustified, Idle
<1>8. QED BY <1>2, <1>5, <1>7, GraphsStand DEF CommonsInv

\* A branch's check moves on, and nothing else but the count of commands.
LEMMA CheckMoves ==
    ASSUME CommonsInv, NEW b \in Branch, NEW k \in {Idle} \cup ReadRecord \cup StoreRecord,
           check' = [check EXCEPT ![b] = k],
           UNCHANGED <<made, shut, stmt, elab, writer, source, depends, claims, live>>,
           commands' \in 0 .. MaxCommands, commands <= commands',
           k.phase # "idle" => Imports[k.file] \subseteq made,
           k.phase = "expand" => Traced(k.file, k.closure, k.todo),
           k.phase = "store" => Justified(k)
    PROVE  CommonsInv'
<1>1. CommonsTypes
  BY DEF CommonsInv
<1>2. \A n \in CNode : stmt'[n] <= commands'
  BY <1>1 DEF CommonsTypes
<1>3. CommonsTypes'
  BY <1>1, <1>2 DEF CommonsTypes
<1>4. \A a \in Branch : IF a = b THEN check'[a] = k ELSE check'[a] = check[a]
  BY <1>1 DEF CommonsTypes
<1>5. ChecksJustified'
  BY <1>4 DEF CommonsInv, ChecksJustified
<1>6. QED BY <1>3, <1>5, GraphsStand DEF CommonsInv

\* lean_check begins: nothing is inlined yet, the file's imports are to be read.
LEMMA StartKept ==
    ASSUME CommonsInv, NEW b \in Branch, NEW n \in CNode, NEW f \in File, StartCheck(b, n, f)
    PROVE  CommonsInv'
<1>1. CommonsTypes
  BY DEF CommonsInv
<1>2. PICK k : k = [phase |-> "expand", node |-> n, file |-> f, stmt |-> stmt[n],
                    open |-> OpenNode(n), todo |-> Imports[f], closure |-> {}]
  OBVIOUS
<1>3. /\ k.phase = "expand" /\ k.file = f /\ k.todo = Imports[f] /\ k.closure = {}
      /\ k \in ReadRecord
  <2>1. Imports[f] \in SUBSET CNode /\ stmt[n] \in Nat /\ OpenNode(n) \in BOOLEAN
    BY <1>1, CommonsAssumption DEF CommonsTypes, OpenNode
  <2>2. QED BY <1>2, <2>1 DEF ReadRecord
<1>4. /\ check' = [check EXCEPT ![b] = k] /\ Imports[f] \subseteq made
      /\ UNCHANGED <<made, shut, stmt, elab, writer, source, depends, claims, live>>
      /\ commands < MaxCommands /\ commands' = commands + 1
  BY <1>2 DEF StartCheck, Count
<1>5. commands' \in 0 .. MaxCommands /\ commands <= commands'
  BY <1>1, <1>4, CommonsAssumption DEF CommonsTypes
<1>6. Traced(k.file, k.closure, k.todo)
  BY <1>3 DEF Traced, Read
<1>7. k.phase # "idle" /\ k.phase # "store" /\ Imports[k.file] \subseteq made
  BY <1>3, <1>4
<1>8. k \in {Idle} \cup ReadRecord \cup StoreRecord
  BY <1>3
<1>9. QED BY <1>4, <1>5, <1>6, <1>7, <1>8, CheckMoves

\* A module is inlined: it is read, and its own imports are to be read.
LEMMA InlineTraced ==
    ASSUME NEW file \in File, NEW closure \in SUBSET Modules, NEW todo \in SUBSET CNode,
           NEW m \in todo, NEW f \in File \cup {NoFile}, Traced(file, closure, todo),
           NEW rest, rest = (todo \cup (IF f = NoFile THEN {} ELSE Imports[f]))
                            \ (Read(closure) \cup {m})
    PROVE  Traced(file, closure \cup {<<m, f>>}, rest)
<1>1. PICK wide : wide = closure \cup {<<m, f>>}
  OBVIOUS
<1>2. Read(wide) = Read(closure) \cup {m}
  <2>1. <<m, f>> \in wide /\ <<m, f>>[1] = m
    BY <1>1
  <2>2. \A x : x \in Read(wide) <=> \E e \in wide : x = e[1]
    BY DEF Read
  <2>3. \A x : x \in Read(closure) <=> \E e \in closure : x = e[1]
    BY DEF Read
  <2>4. \A x \in Read(wide) : x \in Read(closure) \/ x = m
    BY <1>1, <2>1, <2>2, <2>3
  <2>5. \A x \in Read(closure) \cup {m} : x \in Read(wide)
    BY <1>1, <2>1, <2>2, <2>3
  <2>6. QED BY <2>4, <2>5
<1>3. Read(wide) \cup rest =
          Read(closure) \cup todo \cup (IF f = NoFile THEN {} ELSE Imports[f])
  BY <1>2
<1>4. \A e \in wide : e \in closure \/ (e[1] = m /\ e[2] = f)
  BY <1>1
<1>5. ASSUME NEW T \in SUBSET CNode, Imports[file] \subseteq T, Follows(wide, T)
      PROVE  Read(wide) \cup rest \subseteq T
  <2>1. Follows(closure, T)
    BY <1>1, <1>5 DEF Follows
  <2>2. Read(closure) \cup todo \subseteq T
    BY <1>5, <2>1 DEF Traced
  <2>3. f # NoFile => Imports[f] \subseteq T
    <3>1. <<m, f>> \in wide /\ <<m, f>>[1] = m /\ <<m, f>>[2] = f
      BY <1>1
    <3>2. m \in T
      BY <2>2
    <3>3. QED BY <1>5, <3>1, <3>2 DEF Follows
  <2>4. QED BY <1>3, <2>2, <2>3
<1>6. \A e \in wide : e[2] # NoFile => Imports[e[2]] \subseteq Read(wide) \cup rest
  BY <1>3, <1>4 DEF Traced
<1>7. Imports[file] \subseteq Read(wide) \cup rest
  BY <1>3 DEF Traced
<1>8. Traced(file, wide, rest)
  BY <1>5, <1>6, <1>7 DEF Traced
<1>9. QED BY <1>1, <1>8

LEMMA InlineKept ==
    ASSUME CommonsInv, NEW b \in Branch, InlineModule(b)
    PROVE  CommonsInv'
<1>1. CommonsTypes /\ source \in [CNode -> {NoSource} \cup SourceRecord]
      /\ check \in [Branch -> {Idle} \cup ReadRecord \cup StoreRecord]
  BY DEF CommonsInv, CommonsTypes
<1>2. PICK c, m, f : c = check[b] /\ m = NextModule(c) /\ f = ModuleFile(m)
  OBVIOUS
<1>3. c.phase = "expand" /\ c.todo # {}
  BY <1>2 DEF InlineModule
<1>4. c \in ReadRecord
  BY <1>1, <1>2, <1>3 DEF Idle, StoreRecord
<1>5. m \in c.todo /\ m \in CNode
  BY <1>2, <1>3, <1>4 DEF NextModule, ReadRecord
<1>6. f \in File \cup {NoFile}
  <2>1. source[m] \in {NoSource} \cup SourceRecord
    BY <1>1, <1>5
  <2>2. QED BY <1>2, <2>1 DEF ModuleFile, NoSource, SourceRecord
<1>7. PICK wide, rest : /\ wide = c.closure \cup {<<m, f>>}
                        /\ rest = (c.todo \cup (IF f = NoFile THEN {} ELSE Imports[f]))
                                  \ (Seen(c) \cup {m})
  OBVIOUS
<1>8. PICK k : k = [c EXCEPT !.closure = wide, !.todo = rest]
  OBVIOUS
<1>9. wide \in SUBSET Modules /\ rest \in SUBSET CNode
  BY <1>4, <1>5, <1>6, <1>7, CommonsAssumption DEF Modules, ReadRecord
<1>10. /\ k \in ReadRecord /\ k.phase = "expand" /\ k.file = c.file
       /\ k.closure = wide /\ k.todo = rest
  BY <1>4, <1>8, <1>9 DEF ReadRecord
<1>11. check' = [check EXCEPT ![b] = k]
  <2>1. check' = [check EXCEPT
          ![b].closure = @ \cup {<<m, f>>},
          ![b].todo = (@ \cup (IF f = NoFile THEN {} ELSE Imports[f])) \ (Seen(c) \cup {m})]
    BY <1>2 DEF InlineModule
  <2>2. check' = [check EXCEPT ![b] = [c EXCEPT !.closure = wide, !.todo = rest]]
    BY <1>1, <1>2, <1>4, <1>7, <2>1 DEF ReadRecord
  <2>3. QED BY <1>8, <2>2
<1>12. UNCHANGED <<made, shut, stmt, elab, writer, source, depends, claims, live, commands>>
  BY DEF InlineModule
<1>13. Traced(c.file, c.closure, c.todo) /\ Imports[c.file] \subseteq made
  BY <1>2, <1>3 DEF CommonsInv, ChecksJustified
<1>14. Traced(k.file, k.closure, k.todo)
  <2>1. Seen(c) = Read(c.closure) /\ c.file \in File /\ c.closure \in SUBSET Modules
        /\ c.todo \in SUBSET CNode
    BY <1>4 DEF Seen, Read, ReadRecord
  <2>2. rest = (c.todo \cup (IF f = NoFile THEN {} ELSE Imports[f]))
               \ (Read(c.closure) \cup {m})
    BY <1>7, <2>1
  <2>3. Traced(c.file, c.closure \cup {<<m, f>>}, rest)
    BY <1>5, <1>6, <1>13, <2>1, <2>2, InlineTraced
  <2>4. QED BY <1>7, <1>10, <2>3
<1>15. commands' \in 0 .. MaxCommands /\ commands <= commands'
  BY <1>1, <1>12, CommonsAssumption DEF CommonsTypes
<1>16. k.phase # "idle" /\ k.phase # "store" /\ Imports[k.file] \subseteq made
  BY <1>10, <1>13
<1>17. k \in {Idle} \cup ReadRecord \cup StoreRecord
  BY <1>10
<1>18. QED BY <1>11, <1>12, <1>14, <1>15, <1>16, <1>17, CheckMoves

\* Lean ran on the flattened file: the trace is closed.
LEMMA JudgeKept ==
    ASSUME CommonsInv, NEW b \in Branch, NEW r \in Rank, Judge(b, r)
    PROVE  CommonsInv'
<1>1. CommonsTypes /\ check \in [Branch -> {Idle} \cup ReadRecord \cup StoreRecord]
  BY DEF CommonsInv, CommonsTypes
<1>2. PICK c : c = check[b]
  OBVIOUS
<1>3. c.phase = "expand" /\ c.todo = {} /\ r \in Ranks(c)
  BY <1>2 DEF Judge
<1>4. c \in ReadRecord
  BY <1>1, <1>2, <1>3 DEF Idle, StoreRecord
<1>5. PICK k : k = [phase |-> "store", node |-> c.node, file |-> c.file, stmt |-> c.stmt,
                    rank |-> r, closure |-> c.closure]
  OBVIOUS
<1>6. /\ k \in StoreRecord /\ k.phase = "store" /\ k.file = c.file /\ k.rank = r
      /\ k.closure = c.closure /\ k.stmt = c.stmt
  BY <1>4, <1>5 DEF ReadRecord, StoreRecord
<1>7. check' = [check EXCEPT ![b] = k]
      /\ UNCHANGED <<made, shut, stmt, elab, writer, source, depends, claims, live, commands>>
  BY <1>2, <1>5 DEF Judge
<1>8. Traced(c.file, c.closure, {}) /\ Imports[c.file] \subseteq made
  BY <1>2, <1>3 DEF CommonsInv, ChecksJustified
<1>9. Justified(k)
  <2>1. c.stmt \in Nat
    BY <1>4 DEF ReadRecord
  <2>2. r \in CompleteRanks => FlatIsClean(c)
    BY <1>3 DEF Ranks, CompleteRanks
  <2>3. r = "verified" => c.stmt > 0
    BY <1>3, <2>1 DEF Ranks
  <2>4. QED BY <1>6, <1>8, <2>2, <2>3 DEF Justified, FlatIsClean
<1>10. commands' \in 0 .. MaxCommands /\ commands <= commands'
  BY <1>1, <1>7, CommonsAssumption DEF CommonsTypes
<1>11. k.phase # "idle" /\ k.phase # "expand" /\ Imports[k.file] \subseteq made
  BY <1>6, <1>8
<1>12. k \in {Idle} \cup ReadRecord \cup StoreRecord
  BY <1>6
<1>13. QED BY <1>7, <1>9, <1>10, <1>11, <1>12, CheckMoves

LEMMA EndCheckKept ==
    ASSUME CommonsInv, NEW b \in Branch, EndCheck(b)
    PROVE  CommonsInv'
<1>1. CommonsTypes
  BY DEF CommonsInv
<1>2. check' = [check EXCEPT ![b] = Idle]
      /\ UNCHANGED <<made, shut, stmt, elab, writer, source, depends, claims, live, commands>>
  BY DEF EndCheck
<1>3. commands' \in 0 .. MaxCommands /\ commands <= commands'
  BY <1>1, <1>2, CommonsAssumption DEF CommonsTypes
<1>4. Idle.phase = "idle"
  BY DEF Idle
<1>5. Idle \in {Idle} \cup ReadRecord \cup StoreRecord
  OBVIOUS
<1>6. QED BY <1>2, <1>3, <1>4, <1>5, CheckMoves

\* A source is recorded for a node its imports do not lead back to.
LEMMA RecordKept ==
    ASSUME CommonsInv, NEW b \in Branch, RecordLeanSource(b)
    PROVE  CommonsInv'
<1>1. CommonsTypes /\ check \in [Branch -> {Idle} \cup ReadRecord \cup StoreRecord]
      /\ source \in [CNode -> {NoSource} \cup SourceRecord]
  BY DEF CommonsInv, CommonsTypes
<1>2. PICK c, n : c = check[b] /\ n = c.node
  OBVIOUS
<1>3. c.phase = "store" /\ MayRecord(b)
  BY <1>2 DEF RecordLeanSource
<1>4. c \in StoreRecord
  BY <1>1, <1>2, <1>3 DEF Idle, ReadRecord
<1>5. PICK s : s = [file |-> c.file, rank |-> c.rank, branch |-> b, stmt |-> c.stmt,
                    closure |-> c.closure]
  OBVIOUS
<1>6. /\ s \in SourceRecord /\ s.file = c.file /\ s.rank = c.rank /\ s.stmt = c.stmt
      /\ s.closure = c.closure /\ n \in CNode /\ c.file \in File
  BY <1>2, <1>4, <1>5 DEF StoreRecord, SourceRecord
<1>7. PICK ms : ms = Imports[c.file]
  OBVIOUS
<1>8. /\ source' = [source EXCEPT ![n] = s] /\ depends' = WithEdges(n, ms)
      /\ claims' = [claims EXCEPT ![n] = @ \cup {b}] /\ check' = [check EXCEPT ![b] = Idle]
      /\ UNCHANGED <<made, shut, stmt, elab, writer, live, commands>>
  BY <1>2, <1>5, <1>7 DEF RecordLeanSource
<1>9. n \in made /\ n \notin Reached(ImportEdges, ms)
  BY <1>2, <1>3, <1>7 DEF MayRecord, OpenNode, ImportsReach
<1>10. ms \subseteq made /\ Justified(c)
  BY <1>2, <1>3, <1>7 DEF CommonsInv, ChecksJustified
<1>11. made \in SUBSET CNode /\ depends \subseteq made \X made /\ ms \in SUBSET CNode
  BY <1>1, <1>10 DEF CommonsTypes
<1>12. PICK S : S = {k \in ms \ {n} : n \notin Reached(depends, {k})}
  OBVIOUS
<1>13. depends' = depends \cup ({n} \X S)
  <2>1. depends' = depends \cup {<<n, m>> : m \in S}
    BY <1>8, <1>12 DEF WithEdges
  <2>2. {<<n, m>> : m \in S} = {n} \X S
    OBVIOUS
  <2>3. QED BY <2>1, <2>2
<1>14. depends' \subseteq made' \X made'
  BY <1>8, <1>9, <1>10, <1>11, <1>12, <1>13
<1>15. CommonsTypes'
  <2>1. claims' \in [CNode -> SUBSET Branch]
    BY <1>1, <1>8 DEF CommonsTypes
  <2>2. check' \in [Branch -> {Idle} \cup ReadRecord \cup StoreRecord]
    BY <1>1, <1>8
  <2>3. source' \in [CNode -> {NoSource} \cup SourceRecord]
    BY <1>1, <1>6, <1>8
  <2>4. QED BY <1>1, <1>8, <1>14, <2>1, <2>2, <2>3 DEF CommonsTypes
<1>16. \A k \in CNode : IF k = n THEN source'[k] = s ELSE source'[k] = source[k]
  BY <1>1, <1>8
<1>17. SourcesJustified'
  <2>1. Justified(s)
    BY <1>6, <1>10 DEF Justified
  <2>2. QED BY <1>16, <2>1 DEF CommonsInv, SourcesJustified, HasSource
<1>18. ChecksJustified'
  <2>1. \A a \in Branch : check'[a] = check[a] \/ check'[a] = Idle
    BY <1>1, <1>8
  <2>2. QED BY <1>8, <2>1 DEF CommonsInv, ChecksJustified, Idle
<1>19. ~Cyclic(ImportEdges')
  <2>1. PICK Q : Q = ImportEdges'
    OBVIOUS
  <2>2. Q \subseteq ImportEdges \cup ({n} \X ms) /\ Q \in SUBSET (CNode \X CNode)
    <3>1. ASSUME NEW e \in Q PROVE e \in ImportEdges \cup ({n} \X ms)
      <4>1. /\ e \in CNode \X CNode /\ source'[e[1]].file # NoFile
            /\ e[2] \in Imports[source'[e[1]].file]
        BY <2>1, <3>1 DEF ImportEdges, HasSource, ModuleFile
      <4>2. CASE e[1] = n
        BY <1>6, <1>7, <1>16, <4>1, <4>2
      <4>3. CASE e[1] # n
        BY <1>16, <4>1, <4>3 DEF ImportEdges, HasSource, ModuleFile
      <4>4. QED BY <4>2, <4>3
    <3>2. QED BY <2>1, <3>1 DEF ImportEdges
  <2>3. ImportEdges \in SUBSET (CNode \X CNode)
    BY DEF ImportEdges
  <2>4. ~Cyclic(ImportEdges)
    BY DEF CommonsInv, GraphsAcyclic
  <2>5. ~Cyclic(Q)
    BY <1>6, <1>9, <1>11, <2>2, <2>3, <2>4, AcyclicAdd
  <2>6. QED BY <2>1, <2>5
<1>20. ~Cyclic(depends')
  <2>1. depends \in SUBSET (CNode \X CNode) /\ S \in SUBSET CNode
    BY <1>11, <1>12
  <2>2. n \notin Reached(depends, S)
    BY <1>12, <2>1, NoWayBack
  <2>3. PICK Q : Q = depends'
    OBVIOUS
  <2>4. Q \in SUBSET (CNode \X CNode) /\ Q \subseteq depends \cup ({n} \X S)
    BY <1>6, <1>13, <2>1, <2>3
  <2>5. ~Cyclic(depends)
    BY DEF CommonsInv, GraphsAcyclic
  <2>6. ~Cyclic(Q)
    BY <1>6, <2>1, <2>2, <2>4, <2>5, AcyclicAdd
  <2>7. QED BY <2>3, <2>6
<1>21. GraphsAcyclic'
  BY <1>19, <1>20 DEF GraphsAcyclic, Cyclic, Reached, Keeps
<1>22. QED BY <1>15, <1>17, <1>18, <1>21 DEF CommonsInv

LEMMA CommonsKept == CommonsInv /\ [CommonsNext]_commonsVars => CommonsInv'
<1> SUFFICES ASSUME CommonsInv, [CommonsNext]_commonsVars PROVE CommonsInv'
  OBVIOUS
<1>1. CASE \E n \in CNode, ts \in SUBSET CNode : CreateNode(n, ts)
  BY <1>1, CreateKept
<1>2. CASE \E b \in Branch, n, m \in CNode : LinkNodes(b, n, m)
  BY <1>2, LinkKept
<1>3. CASE \E n \in CNode : AbandonNode(n)
  <2>1. PICK n \in CNode : AbandonNode(n)
    BY <1>3
  <2>2. \E b \in Branch : b = Author[n]
    BY CommonsAssumption
  <2>3. TRUE \in BOOLEAN
    OBVIOUS
  <2>4. QED BY <2>1, <2>2, <2>3, NodeCommandKept
<1>4. CASE \E b \in Branch, n \in CNode : ClaimNode(b, n) \/ ClaimEnds(b, n)
  <2>1. TRUE \in BOOLEAN
    OBVIOUS
  <2>2. QED BY <1>4, <2>1, NodeCommandKept
<1>5. CASE \E b \in Branch, n \in CNode, ok \in BOOLEAN : SetLeanStatement(b, n, ok)
  BY <1>5, NodeCommandKept
<1>6. CASE \E b \in Branch : BranchEnds(b)
  BY <1>6, BranchEndsKept
<1>7. CASE \E b \in Branch, n \in CNode, f \in File : StartCheck(b, n, f)
  BY <1>7, StartKept
<1>8. CASE \E b \in Branch : InlineModule(b) \/ EndCheck(b) \/ RecordLeanSource(b)
  BY <1>8, InlineKept, EndCheckKept, RecordKept
<1>9. CASE \E b \in Branch, r \in Rank : Judge(b, r)
  BY <1>9, JudgeKept
<1>10. CASE UNCHANGED commonsVars
  <2>1. UNCHANGED <<source, depends>> /\ UNCHANGED <<made, check>>
    BY <1>10 DEF commonsVars
  <2>2. CommonsTypes'
    BY <1>10 DEF commonsVars, CommonsInv, CommonsTypes
  <2>3. ChecksJustified'
    BY <2>1 DEF CommonsInv, ChecksJustified
  <2>4. QED BY <2>1, <2>2, <2>3, GraphsStand DEF CommonsInv
<1>11. QED BY <1>1, <1>2, <1>3, <1>4, <1>5, <1>6, <1>7, <1>8, <1>9, <1>10 DEF CommonsNext

\* A source that stands has the closure its node's imports lead to now.
LEMMA StandingClosure ==
    ASSUME CommonsInv, NEW n \in CNode, SourceState(n) \in CompleteRanks
    PROVE  LET s == source[n]
               mods == Reached(ImportEdges, Imports[s.file])
           IN  /\ s.stmt = stmt[n]
               /\ s.closure = {<<m, ModuleFile(m)>> : m \in mods}
               /\ {s.file} \cup {ModuleFile(m) : m \in mods} \subseteq Clean
<1> DEFINE s == source[n]
           mods == Reached(ImportEdges, Imports[s.file])
<1>1. HasSource(n) /\ s.stmt = stmt[n] /\ Stands(n) /\ s.rank \in CompleteRanks
  BY DEF SourceState, CompleteRanks
<1>2. s \in SourceRecord
  <2>1. source \in [CNode -> {NoSource} \cup SourceRecord]
    BY DEF CommonsInv, CommonsTypes
  <2>2. QED BY <1>1, <2>1 DEF HasSource, NoSource
<1>3. Traced(s.file, s.closure, {}) /\ s.file \in Clean /\ \A e \in s.closure : e[2] \in Clean
  BY <1>1 DEF CommonsInv, SourcesJustified, Justified
<1>4. \A e \in s.closure : /\ e = <<e[1], e[2]>> /\ e[1] \in CNode
                           /\ ModuleFile(e[1]) = e[2]
  BY <1>1, <1>2 DEF Stands, SourceRecord, Modules
<1>5. ImportEdges \in SUBSET (CNode \X CNode) /\ Imports[s.file] \in SUBSET CNode
  BY <1>2, CommonsAssumption DEF ImportEdges, SourceRecord
<1>6. /\ mods \subseteq CNode /\ Imports[s.file] \subseteq mods /\ Keeps(ImportEdges, mods)
      /\ \A T \in SUBSET CNode :
            Imports[s.file] \subseteq T /\ Keeps(ImportEdges, T) => mods \subseteq T
  BY <1>5, ReachedLeast
<1> HIDE DEF s, mods
<1>7. Read(s.closure) \subseteq mods
  <2>1. Follows(s.closure, mods)
    <3> SUFFICES ASSUME NEW e \in s.closure, e[1] \in mods, e[2] # NoFile,
                        NEW m \in Imports[e[2]]
                 PROVE  m \in mods
      BY DEF Follows
    <3>1. HasSource(e[1]) /\ e[2] = ModuleFile(e[1]) /\ e[1] \in CNode
      BY <1>4 DEF HasSource, ModuleFile
    <3>2. m \in CNode
      <4>1. e[2] \in File
        BY <1>2 DEF SourceRecord, Modules
      <4>2. QED BY <4>1, CommonsAssumption
    <3>3. <<e[1], m>> \in ImportEdges
      BY <3>1, <3>2 DEF ImportEdges
    <3>4. QED BY <1>6, <3>3 DEF Keeps
  <2>2. QED BY <1>3, <1>6, <2>1 DEF Traced
<1>8. mods \subseteq Read(s.closure)
  <2>1. Imports[s.file] \subseteq Read(s.closure)
    BY <1>3 DEF Traced
  <2>2. Keeps(ImportEdges, Read(s.closure))
    <3> SUFFICES ASSUME NEW d \in ImportEdges, d[1] \in Read(s.closure)
                 PROVE  d[2] \in Read(s.closure)
      BY DEF Keeps
    <3>1. PICK e \in s.closure : e[1] = d[1]
      BY DEF Read
    <3>2. e[2] = ModuleFile(d[1]) /\ e[2] # NoFile /\ d[2] \in Imports[e[2]]
      BY <1>4, <3>1 DEF ImportEdges, HasSource, ModuleFile
    <3>3. QED BY <1>3, <3>2 DEF Traced
  <2>3. Read(s.closure) \in SUBSET CNode
    BY <1>4 DEF Read
  <2>4. QED BY <1>6, <2>1, <2>2, <2>3
<1>9. s.closure = {<<m, ModuleFile(m)>> : m \in mods}
  <2>1. \A e \in s.closure : e = <<e[1], ModuleFile(e[1])>> /\ e[1] \in mods
    BY <1>4, <1>7 DEF Read
  <2>2. ASSUME NEW m \in mods PROVE <<m, ModuleFile(m)>> \in s.closure
    <3>1. PICK e \in s.closure : e[1] = m
      BY <1>8 DEF Read
    <3>2. QED BY <1>4, <3>1
  <2>3. QED BY <2>1, <2>2
<1>10. ASSUME NEW m \in mods PROVE ModuleFile(m) \in Clean
  <2>1. PICK e \in s.closure : e[1] = m
    BY <1>8 DEF Read
  <2>2. QED BY <1>3, <1>4, <2>1
<1>11. QED BY <1>1, <1>3, <1>9, <1>10 DEF s, mods

\* THEOREM: what the commons calls complete or verified compiles today against
\* the sources it would be flattened with, and neither the sources nor the
\* dependency links go in a circle, however many checks, restatements and
\* publications of other branches fell between the reads of a check (lean_check
\* and record_lean_source of commons_sources.py, _add_edge of commons.py).
THEOREM CommonsSafety == CommonsSpec => []CommonsSound
<1>1. CommonsInv => CommonsSound
  <2> SUFFICES ASSUME CommonsInv PROVE CommonsSound
    OBVIOUS
  <2>1. CommonsTypes
    BY DEF CommonsInv
  <2>2. \A n \in CNode : source[n].file \in File \cup {NoFile}
    <3> TAKE n \in CNode
    <3>1. source[n] \in {NoSource} \cup SourceRecord
      BY <2>1 DEF CommonsTypes
    <3>2. QED BY <3>1 DEF NoSource, SourceRecord
  <2>3. stmt \in [CNode -> 0 .. MaxCommands]
    <3>1. /\ stmt \in [CNode -> Nat] /\ \A n \in CNode : stmt[n] <= commands
          /\ commands \in 0 .. MaxCommands
      BY <2>1 DEF CommonsTypes
    <3>2. \A n \in CNode : stmt[n] \in 0 .. MaxCommands
      BY <3>1, CommonsAssumption
    <3>3. QED BY <3>1, <3>2
  <2>4. CommonsTypeOK
    BY <2>1, <2>2, <2>3 DEF CommonsTypes, CommonsTypeOK
  <2>5. CompleteStillCompiles
    BY StandingClosure DEF CompleteStillCompiles
  <2>6. GraphsAcyclic
    BY DEF CommonsInv
  <2>7. QED BY <2>4, <2>5, <2>6 DEF CommonsSound
<1>2. QED BY InitCommons, CommonsKept, <1>1, PTL DEF CommonsSpec

\* THEOREM: a verified node keeps a verified source of its publisher or its
\* author for its present statement, until its author restates it
\* (blocking_rank of commons_sources.py, _may_formalize of commons_discourse.py).
THEOREM ProofPlace == CommonsSpec => ProofKeepsItsPlace
<1> DEFINE Kept(n) ==
      SourceState(n) = "verified" =>
            \/ stmt'[n] # stmt[n] /\ writer'[n] = Author[n]
            \/ /\ source'[n].rank = "verified" /\ source'[n].stmt = stmt'[n]
               /\ source'[n].branch \in {source[n].branch, Author[n]}
               /\ \/ SourceState(n)' = "verified"
                  \/ \E m \in {n} \cup {e[1] : e \in source[n].closure} : source'[m] # source[m]
<1>1. ASSUME CommonsInv, [CommonsNext]_commonsVars, NEW n \in CNode,
             SourceState(n) = "verified"
      PROVE  Kept(n)
  <2>1. /\ HasSource(n) /\ source[n].stmt = stmt[n] /\ Stands(n)
        /\ source[n].rank = "verified"
    BY <1>1 DEF SourceState
  <2>2. /\ source \in [CNode -> {NoSource} \cup SourceRecord] /\ stmt \in [CNode -> Nat]
        /\ writer \in [CNode -> Branch]
        /\ check \in [Branch -> {Idle} \cup ReadRecord \cup StoreRecord]
    BY <1>1 DEF CommonsInv, CommonsTypes
  <2>3. source[n].stmt > 0
    BY <1>1, <2>1 DEF CommonsInv, SourcesJustified, Justified
  <2>4. CASE UNCHANGED <<source, stmt>>
    <3>1. SourceState(n)' = "verified"
      <4>1. HasSource(n)' /\ Stands(n)'
        BY <2>1, <2>4 DEF HasSource, Stands, ModuleFile
      <4>2. QED BY <2>1, <2>4, <4>1 DEF SourceState
    <3>2. QED BY <2>1, <2>4, <3>1
  <2>5. CASE \E b \in Branch, k \in CNode, ok \in BOOLEAN : SetLeanStatement(b, k, ok)
    <3>1. PICK b \in Branch, k \in CNode, ok \in BOOLEAN : SetLeanStatement(b, k, ok)
      BY <2>5
    <3>2. /\ stmt' = [stmt EXCEPT ![k] = @ + 1] /\ writer' = [writer EXCEPT ![k] = b]
          /\ MayFormalize(b, k) /\ source' = source
      BY <3>1 DEF SetLeanStatement
    <3>3. CASE k = n
      <4>1. b = Author[n]
        BY <1>1, <3>2, <3>3 DEF MayFormalize
      <4>2. stmt'[n] = stmt[n] + 1 /\ writer'[n] = b
        BY <2>2, <3>2, <3>3
      <4>3. stmt[n] \in Nat
        BY <2>2
      <4>4. QED BY <4>1, <4>2, <4>3
    <3>4. CASE k # n
      <4>1. stmt'[n] = stmt[n]
        BY <2>2, <3>2, <3>4
      <4>2. HasSource(n)' /\ Stands(n)'
        BY <2>1, <3>2 DEF HasSource, Stands, ModuleFile
      <4>3. SourceState(n)' = "verified"
        BY <2>1, <3>2, <4>1, <4>2 DEF SourceState
      <4>4. QED BY <2>1, <3>2, <4>1, <4>3
    <3>5. QED BY <3>3, <3>4
  <2>6. CASE \E b \in Branch : RecordLeanSource(b)
    <3>1. PICK b \in Branch : RecordLeanSource(b)
      BY <2>6
    <3>2. PICK c, k : c = check[b] /\ k = c.node
      OBVIOUS
    <3>3. c.phase = "store" /\ MayRecord(b) /\ stmt' = stmt
      BY <3>1, <3>2 DEF RecordLeanSource
    <3>4. c \in StoreRecord
      BY <2>2, <3>2, <3>3 DEF Idle, ReadRecord
    <3>5. PICK s : s = [file |-> c.file, rank |-> c.rank, branch |-> b, stmt |-> c.stmt,
                        closure |-> c.closure]
      OBVIOUS
    <3>6. source' = [source EXCEPT ![k] = s]
      BY <3>1, <3>2, <3>5 DEF RecordLeanSource
    <3>7. /\ s.file = c.file /\ s.rank = c.rank /\ s.stmt = c.stmt /\ s.branch = b
          /\ c.rank \in Rank
      BY <3>4, <3>5 DEF StoreRecord
    <3>8. \A m \in CNode : IF m = k THEN source'[m] = s ELSE source'[m] = source[m]
      BY <2>2, <3>6
    <3>9. CASE k = n
      <4>1. SourceState(n) \in Rank /\ ~Held(n, c.rank, b) /\ SameStatement(c)
        BY <1>1, <3>2, <3>3, <3>9 DEF MayRecord, Rank
      <4>2. ~(RankValue(c.rank) < RankValue("verified"))
        BY <2>1, <4>1 DEF Held
      <4>3. c.rank = "verified"
        BY <3>7, <4>2 DEF RankValue, Rank
      <4>4. b \in {source[n].branch, Author[n]}
        BY <2>1, <4>1, <4>3 DEF Held, CompleteRanks
      <4>5. c.stmt = stmt[n]
        BY <2>1, <2>3, <3>2, <3>9, <4>1 DEF SameStatement
      <4>6. source'[n] = s
        BY <3>8, <3>9
      <4>7. CASE s = source[n]
        <5>1. source' = source
          BY <2>2, <3>6, <3>9, <4>7
        <5>2. QED BY <2>4, <3>3, <5>1
      <4>8. CASE s # source[n]
        BY <3>3, <3>7, <4>3, <4>4, <4>5, <4>6, <4>8
      <4>9. QED BY <4>7, <4>8
    <3>10. CASE k # n
      <4>1. source'[n] = source[n]
        BY <3>8, <3>10
      <4>2. CASE Stands(n)'
        <5>1. HasSource(n)'
          BY <2>1, <4>1 DEF HasSource
        <5>2. SourceState(n)' = "verified"
          BY <2>1, <3>3, <4>1, <4>2, <5>1 DEF SourceState
        <5>3. QED BY <2>1, <3>3, <4>1, <5>2
      <4>3. CASE ~Stands(n)'
        <5>1. PICK e \in source[n].closure : source'[e[1]].file # e[2]
          BY <4>1, <4>3 DEF Stands, ModuleFile
        <5>2. source'[e[1]] # source[e[1]]
          BY <2>1, <5>1 DEF Stands, ModuleFile
        <5>3. e[1] \in {n} \cup {d[1] : d \in source[n].closure}
          OBVIOUS
        <5>4. QED BY <2>1, <3>3, <4>1, <5>2, <5>3
      <4>4. QED BY <4>2, <4>3
    <3>11. QED BY <3>9, <3>10
  <2>7. QED
    <3>1. UNCHANGED commonsVars => UNCHANGED <<source, stmt>>
      BY DEF commonsVars
    <3>2. \A k \in CNode, ts \in SUBSET CNode : CreateNode(k, ts) => UNCHANGED <<source, stmt>>
      BY DEF CreateNode
    <3>3. \A b \in Branch, k, m \in CNode : LinkNodes(b, k, m) => UNCHANGED <<source, stmt>>
      BY DEF LinkNodes
    <3>4. \A b \in Branch, k \in CNode :
              AbandonNode(k) \/ ClaimNode(b, k) \/ ClaimEnds(b, k) => UNCHANGED <<source, stmt>>
      BY DEF AbandonNode, ClaimNode, ClaimEnds
    <3>5. \A k \in CNode : AbandonNode(k) => UNCHANGED <<source, stmt>>
      BY DEF AbandonNode
    <3>6. \A b \in Branch, k \in CNode, f \in File :
              StartCheck(b, k, f) => UNCHANGED <<source, stmt>>
      BY DEF StartCheck
    <3>7. \A b \in Branch :
              BranchEnds(b) \/ InlineModule(b) \/ EndCheck(b) => UNCHANGED <<source, stmt>>
      BY DEF BranchEnds, InlineModule, EndCheck
    <3>8. \A b \in Branch, r \in Rank : Judge(b, r) => UNCHANGED <<source, stmt>>
      BY DEF Judge
    <3>9. QED BY <1>1, <2>4, <2>5, <2>6, <3>1, <3>2, <3>3, <3>4, <3>5, <3>6, <3>7, <3>8
             DEF CommonsNext
<1>2. CommonsInv /\ [CommonsNext]_commonsVars => \A n \in CNode : Kept(n)
  BY <1>1
<1>3. CommonsInv /\ [CommonsNext]_commonsVars => [\A n \in CNode : Kept(n)]_commonsVars
  BY <1>2
<1> HIDE DEF Kept
<1>4. QED
  <2>1. CommonsSpec => [][\A n \in CNode : Kept(n)]_commonsVars
    BY InitCommons, CommonsKept, <1>3, PTL DEF CommonsSpec
  <2>2. QED BY <2>1 DEF ProofKeepsItsPlace, Kept

-----------------------------------------------------------------------------
(***************************************************************************)
(* Referee panels                                                          *)
(*                                                                         *)
(* Of the nodes with one text only one is ever refereed: earlier ones were *)
(* closed without a referee.  A panel has at most one referee at work, who *)
(* is of a family that judged least, and whose verdict still fits.         *)
(***************************************************************************)

Families == {Models[i] : i \in 1 .. Len(Models)}
RefereeRecord == [node : RNode, family : Families,
                  verdict : {"none", "sound", "gaps", "wrong"}, ended : BOOLEAN]

Refereed(n) == \E i \in 1 .. Len(referees) : referees[i].node = n

\* The verdicts of a family on a node.
Judged(n, f) ==
    {i \in 1 .. Len(referees) : /\ referees[i].node = n /\ referees[i].family = f
                                /\ referees[i].verdict # "none"}

PostedOnce == \A i, j \in 1 .. Len(posted) : posted[i] = posted[j] => i = j

EarlierClosed ==
    \A n, m \in Posted :
        Refereed(n) /\ Text[m] = Text[n] /\ Position(m) < Position(n) =>
            m \in closed /\ ~Refereed(m)

PanelWithin(n) ==
    /\ Cardinality(Panel(n) \ Gaps(n)) <= PanelLimit
    /\ Cardinality(Gaps(n)) <= PanelLimit
    /\ Open(n) # {} => Cardinality(Gaps(n)) < PanelLimit
    /\ \A i, j \in Open(n) : i = j

JudgedEvenly(n) ==
    /\ \A f, g \in Families : Cardinality(Judged(n, f)) <= Cardinality(Judged(n, g)) + 1
    /\ \A i \in Open(n), f, g \in Families :
          referees[i].family = f => Cardinality(Judged(n, f)) <= Cardinality(Judged(n, g))

ReviewsTypes ==
    /\ posted \in Seq(RNode) /\ PostedOnce
    /\ closed \subseteq Posted /\ provedAsStated \subseteq RNode
    /\ referees \in Seq(RefereeRecord) /\ Len(referees) <= MaxReferees
    /\ \A i \in 1 .. Len(referees) : referees[i].node \in Posted

ReviewsInv ==
    /\ ReviewsTypes
    /\ EarlierClosed
    /\ \A n \in RNode : PanelWithin(n) /\ JudgedEvenly(n)

LEMMA PostedIs ==
    ASSUME posted \in Seq(RNode)
    PROVE  /\ Posted \subseteq RNode
           /\ \A n : n \in Posted <=> \E i \in 1 .. Len(posted) : posted[i] = n
BY DEF Posted

\* A node's position is the only one.
LEMMA PositionOf ==
    ASSUME posted \in Seq(RNode), PostedOnce, NEW n \in Posted
    PROVE  /\ Position(n) \in 1 .. Len(posted) /\ posted[Position(n)] = n
           /\ \A i \in 1 .. Len(posted) : posted[i] = n => i = Position(n)
<1>1. \E i \in 1 .. Len(posted) : posted[i] = n
  BY DEF Posted
<1>2. Position(n) \in 1 .. Len(posted) /\ posted[Position(n)] = n
  BY <1>1 DEF Position
<1>3. QED BY <1>2 DEF PostedOnce

\* A node's referees are finitely many, and what a set of them counts.
LEMMA PanelSets ==
    ASSUME Len(referees) \in Nat, NEW n
    PROVE  /\ IsFiniteSet(Panel(n)) /\ IsFiniteSet(Gaps(n)) /\ IsFiniteSet(Panel(n) \ Gaps(n))
           /\ Cardinality(Gaps(n)) \in Nat /\ Cardinality(Panel(n) \ Gaps(n)) \in Nat
           /\ \A f : IsFiniteSet(Judged(n, f)) /\ Cardinality(Judged(n, f)) \in Nat
<1>1. IsFiniteSet(1 .. Len(referees))
  BY FS_Interval
<1>2. /\ Panel(n) \subseteq 1 .. Len(referees) /\ Gaps(n) \subseteq 1 .. Len(referees)
      /\ Panel(n) \ Gaps(n) \subseteq 1 .. Len(referees)
      /\ \A f : Judged(n, f) \subseteq 1 .. Len(referees)
  BY DEF Panel, Gaps, Judged
<1>3. /\ IsFiniteSet(Panel(n)) /\ IsFiniteSet(Gaps(n)) /\ IsFiniteSet(Panel(n) \ Gaps(n))
      /\ \A f : IsFiniteSet(Judged(n, f))
  BY <1>1, <1>2, FS_Subset
<1>4. QED BY <1>3, FS_CardinalityType

LEMMA InitReviews == ReviewsInit => ReviewsInv
<1> SUFFICES ASSUME ReviewsInit PROVE ReviewsInv
  OBVIOUS
<1>1. posted = <<>> /\ referees = <<>> /\ Len(posted) = 0 /\ Len(referees) = 0
  BY DEF ReviewsInit
<1>2. Posted = {}
  BY <1>1 DEF Posted
<1>3. ReviewsTypes
  <2>1. posted \in Seq(RNode) /\ referees \in Seq(RefereeRecord)
    BY <1>1
  <2>2. PostedOnce /\ closed \subseteq Posted /\ provedAsStated \subseteq RNode
    BY <1>1 DEF ReviewsInit, PostedOnce
  <2>3. Len(referees) <= MaxReferees
    BY <1>1, ReviewsAssumption
  <2>4. \A i \in 1 .. Len(referees) : referees[i].node \in Posted
    BY <1>1
  <2>5. QED BY <2>1, <2>2, <2>3, <2>4 DEF ReviewsTypes
<1>4. EarlierClosed
  BY <1>2 DEF EarlierClosed
<1>5. ASSUME NEW n \in RNode PROVE PanelWithin(n) /\ JudgedEvenly(n)
  <2>1. Panel(n) = {} /\ Gaps(n) = {} /\ Open(n) = {} /\ \A f : Judged(n, f) = {}
    BY <1>1 DEF Panel, Gaps, Open, Judged
  <2>2. Cardinality({}) = 0 /\ Panel(n) \ Gaps(n) = {} /\ PanelLimit \in Nat /\ 0 <= PanelLimit
    BY <2>1, FS_EmptySet, ReviewsAssumption
  <2>3. QED BY <2>1, <2>2 DEF PanelWithin, JudgedEvenly
<1>6. QED BY <1>3, <1>4, <1>5 DEF ReviewsInv

\* Nothing about the referees changes.
LEMMA PanelsStand ==
    ASSUME ReviewsInv, UNCHANGED referees
    PROVE  (\A n \in RNode : PanelWithin(n) /\ JudgedEvenly(n))'
<1>1. ASSUME NEW n \in RNode PROVE PanelWithin(n)' /\ JudgedEvenly(n)'
  <2>1. Panel(n)' = Panel(n)
    BY DEF Panel, Counts, Live
  <2>2. Gaps(n)' = Gaps(n) /\ Open(n)' = Open(n)
    BY <2>1 DEF Gaps, Open, Live
  <2>3. \A f : Judged(n, f)' = Judged(n, f)
    BY DEF Judged
  <2>4. PanelWithin(n) /\ JudgedEvenly(n)
    BY DEF ReviewsInv
  <2>5. PanelWithin(n)'
    BY <2>1, <2>2, <2>4 DEF PanelWithin
  <2>6. JudgedEvenly(n)'
    BY <2>2, <2>3, <2>4 DEF JudgedEvenly
  <2>7. QED BY <2>5, <2>6
<1>2. QED BY <1>1

\* A node is posted, as the last one.
LEMMA PostKept ==
    ASSUME ReviewsInv, NEW n \in RNode, PostNode(n)
    PROVE  ReviewsInv'
<1>1. /\ n \notin Posted /\ posted' = Append(posted, n)
      /\ UNCHANGED <<closed, provedAsStated, referees>>
  BY DEF PostNode
<1>2. posted \in Seq(RNode) /\ PostedOnce
  BY DEF ReviewsInv, ReviewsTypes
<1>3. /\ posted' \in Seq(RNode) /\ Len(posted') = Len(posted) + 1 /\ Len(posted) \in Nat
      /\ posted'[Len(posted) + 1] = n
      /\ \A i \in 1 .. Len(posted) : posted'[i] = posted[i]
  BY <1>1, <1>2
<1>4. \A i \in 1 .. Len(posted') : i \in 1 .. Len(posted) \/ i = Len(posted) + 1
  BY <1>3
<1>5. \A i \in 1 .. Len(posted) : i \in 1 .. Len(posted') /\ posted[i] # n
  BY <1>1, <1>3 DEF Posted
<1>6. PostedOnce'
  BY <1>2, <1>3, <1>4, <1>5 DEF PostedOnce
<1>7. Posted' = Posted \cup {n}
  <2>1. Len(posted) + 1 \in 1 .. Len(posted')
    BY <1>3
  <2>2. QED BY <1>3, <1>4, <1>5, <2>1 DEF Posted
<1>8. ReviewsTypes'
  BY <1>1, <1>3, <1>6, <1>7 DEF ReviewsInv, ReviewsTypes
<1>9. \A m \in Posted : Position(m)' = Position(m) /\ Position(m) \in 1 .. Len(posted)
  <2> TAKE m \in Posted
  <2>1. /\ Position(m) \in 1 .. Len(posted) /\ posted[Position(m)] = m
        /\ Position(m) \in 1 .. Len(posted') /\ posted'[Position(m)] = m
    BY <1>2, <1>3, <1>5, PositionOf
  <2>2. \A i \in 1 .. Len(posted') : posted'[i] = m => i = Position(m)
    BY <1>6, <2>1 DEF PostedOnce
  <2>3. Position(m)' \in 1 .. Len(posted') /\ posted'[Position(m)'] = m
    BY <2>1 DEF Position
  <2>4. QED BY <2>1, <2>2, <2>3
<1>10. Position(n)' = Len(posted) + 1
  <2>1. Len(posted) + 1 \in 1 .. Len(posted') /\ posted'[Len(posted) + 1] = n
    BY <1>3
  <2>2. Position(n)' \in 1 .. Len(posted') /\ posted'[Position(n)'] = n
    BY <2>1 DEF Position
  <2>3. QED BY <1>6, <2>1, <2>2 DEF PostedOnce
<1>11. ~Refereed(n) /\ \A m : Refereed(m)' = Refereed(m)
  BY <1>1 DEF ReviewsInv, ReviewsTypes, Refereed
<1>12. EarlierClosed'
  <2> SUFFICES ASSUME NEW k \in Posted', NEW m \in Posted', Refereed(k)', Text[m] = Text[k],
                      Position(m)' < Position(k)'
               PROVE  m \in closed' /\ ~Refereed(m)'
    BY DEF EarlierClosed
  <2>1. k \in Posted
    BY <1>7, <1>11
  <2>2. m # n
    <3>1. Position(k)' \in 1 .. Len(posted)
      BY <1>9, <2>1
    <3>2. ~(Len(posted) + 1 < Position(k)')
      BY <1>3, <3>1
    <3>3. QED BY <1>10, <3>2
  <2>3. QED BY <1>1, <1>7, <1>9, <1>11, <2>1, <2>2 DEF ReviewsInv, EarlierClosed
<1>13. QED BY <1>1, <1>8, <1>12, PanelsStand DEF ReviewsInv

\* A node is closed, or its source changes.
LEMMA NodeKept ==
    ASSUME ReviewsInv, NEW n \in RNode, CloseReviewed(n) \/ SourceChanges(n)
    PROVE  ReviewsInv'
<1>1. /\ UNCHANGED <<posted, referees>> /\ n \in Posted /\ closed \subseteq closed'
      /\ closed' \subseteq closed \cup {n}
      /\ provedAsStated' \subseteq provedAsStated \cup {n}
  BY DEF CloseReviewed, SourceChanges
<1>2. Posted' = Posted /\ (\A m : Position(m)' = Position(m) /\ Refereed(m)' = Refereed(m))
  BY <1>1 DEF Posted, Position, Refereed
<1>3. ReviewsTypes'
  BY <1>1, <1>2 DEF ReviewsInv, ReviewsTypes, PostedOnce
<1>4. EarlierClosed'
  BY <1>1, <1>2 DEF ReviewsInv, EarlierClosed
<1>5. QED BY <1>1, <1>3, <1>4, PanelsStand DEF ReviewsInv

\* A referee's own record changes, who judges what does not.
LEMMA RefereeMoves ==
    ASSUME ReviewsInv, NEW i \in 1 .. Len(referees), NEW t \in RefereeRecord,
           referees' = [referees EXCEPT ![i] = t],
           t.node = referees[i].node, t.family = referees[i].family,
           UNCHANGED <<posted, closed, provedAsStated>>
    PROVE  /\ ReviewsTypes' /\ EarlierClosed'
           /\ Len(referees') = Len(referees) /\ referees'[i] = t
           /\ \A j \in 1 .. Len(referees) : j # i => referees'[j] = referees[j]
           /\ \A n \in RNode : n # t.node => PanelWithin(n)' /\ JudgedEvenly(n)'
<1>1. referees \in Seq(RefereeRecord)
  BY DEF ReviewsInv, ReviewsTypes
<1>2. /\ referees' \in Seq(RefereeRecord) /\ Len(referees') = Len(referees)
      /\ referees'[i] = t
      /\ \A j \in 1 .. Len(referees) : j # i => referees'[j] = referees[j]
  BY <1>1
<1>3. Posted' = Posted /\ \A m : Position(m)' = Position(m)
  BY DEF Posted, Position
<1>4. \A j \in 1 .. Len(referees) : referees'[j].node = referees[j].node
  BY <1>2
<1>5. \A m : Refereed(m)' = Refereed(m)
  BY <1>2, <1>4 DEF Refereed
<1>6. ReviewsTypes'
  BY <1>2, <1>3, <1>4 DEF ReviewsInv, ReviewsTypes, PostedOnce
<1>7. EarlierClosed'
  BY <1>3, <1>5 DEF ReviewsInv, EarlierClosed
<1>8. ASSUME NEW n \in RNode, n # t.node PROVE PanelWithin(n)' /\ JudgedEvenly(n)'
  <2>1. \A j \in 1 .. Len(referees) :
            referees'[j].node = n => referees'[j] = referees[j] /\ referees[j].node = n
    BY <1>2, <1>8
  <2>2. \A j \in 1 .. Len(referees) : referees[j].node = n => referees'[j] = referees[j]
    BY <1>2, <1>8
  <2>3. Panel(n)' = Panel(n)
    BY <1>2, <2>1, <2>2 DEF Panel, Counts, Live
  <2>4. \A j \in Panel(n) : referees'[j] = referees[j]
    BY <2>2 DEF Panel
  <2>5. Gaps(n)' = Gaps(n) /\ Open(n)' = Open(n)
    BY <2>3, <2>4 DEF Gaps, Open
  <2>6. \A f : Judged(n, f)' = Judged(n, f)
    BY <1>2, <2>1, <2>2 DEF Judged
  <2>7. \A j \in Open(n) : referees'[j] = referees[j]
    BY <2>4 DEF Open
  <2>8. PanelWithin(n) /\ JudgedEvenly(n)
    BY DEF ReviewsInv
  <2>9. PanelWithin(n)'
    BY <2>3, <2>5, <2>8 DEF PanelWithin
  <2>10. JudgedEvenly(n)'
    BY <2>5, <2>6, <2>7, <2>8 DEF JudgedEvenly
  <2>11. QED BY <2>9, <2>10
<1>9. QED BY <1>2, <1>6, <1>7, <1>8

\* A referee's task ends: one that gave no verdict leaves the panel.
LEMMA EndKept ==
    ASSUME ReviewsInv, NEW i \in 1 .. Len(referees), RefereeEnds(i)
    PROVE  ReviewsInv'
<1>1. referees \in Seq(RefereeRecord) /\ Len(referees) \in Nat
  BY DEF ReviewsInv, ReviewsTypes
<1>2. referees[i] \in RefereeRecord
  BY <1>1
<1>3. PICK t, n : t = [referees[i] EXCEPT !.ended = TRUE] /\ n = referees[i].node
  OBVIOUS
<1>4. /\ t \in RefereeRecord /\ t.node = n /\ t.family = referees[i].family
      /\ t.verdict = referees[i].verdict /\ t.ended = TRUE
  BY <1>3, <1>2 DEF RefereeRecord
<1>5. /\ referees' = [referees EXCEPT ![i] = t] /\ UNCHANGED <<posted, closed, provedAsStated>>
      /\ ~referees[i].ended
  BY <1>3 DEF RefereeEnds, Live
<1>6. /\ ReviewsTypes' /\ EarlierClosed'
      /\ Len(referees') = Len(referees) /\ referees'[i] = t
      /\ \A j \in 1 .. Len(referees) : j # i => referees'[j] = referees[j]
      /\ \A m \in RNode : m # n => PanelWithin(m)' /\ JudgedEvenly(m)'
  <2>1. t.node = referees[i].node /\ t.family = referees[i].family
    BY <1>3, <1>4
  <2>2. /\ ReviewsTypes' /\ EarlierClosed'
        /\ Len(referees') = Len(referees) /\ referees'[i] = t
        /\ \A j \in 1 .. Len(referees) : j # i => referees'[j] = referees[j]
        /\ \A m \in RNode : m # t.node => PanelWithin(m)' /\ JudgedEvenly(m)'
    BY <1>4, <1>5, <2>1, RefereeMoves
  <2>3. t.node = n
    BY <1>4
  <2>4. QED BY <2>2, <2>3
<1>7. n \in RNode
  BY <1>3, <1>2 DEF RefereeRecord
<1>8. \A j \in 1 .. Len(referees) : /\ referees'[j].node = referees[j].node
                                    /\ referees'[j].family = referees[j].family
                                    /\ referees'[j].verdict = referees[j].verdict
  BY <1>3, <1>4, <1>6
<1>9. Panel(n)' \subseteq Panel(n) /\ Panel(n) \subseteq Panel(n)' \cup {i}
  <2>1. \A j \in 1 .. Len(referees) : Counts(referees'[j]) => Counts(referees[j])
    BY <1>4, <1>5, <1>6 DEF Counts, Live
  <2>2. QED BY <1>6, <1>8, <2>1 DEF Panel
<1>10. Gaps(n)' = Gaps(n)
  <2>1. \A j \in Panel(n) : j \in 1 .. Len(referees) /\ referees[j].node = n
    BY DEF Panel
  <2>2. \A j \in Panel(n) : referees[j].verdict = "gaps" => j \in Panel(n)'
    BY <1>6, <1>8, <2>1 DEF Panel, Counts
  <2>3. QED BY <1>8, <1>9, <2>1, <2>2 DEF Gaps
<1>11. Open(n)' \subseteq Open(n)
  <2>1. \A j \in Panel(n)' : j \in Panel(n) /\ j \in 1 .. Len(referees)
    BY <1>6, <1>9 DEF Panel
  <2>2. \A j \in 1 .. Len(referees) : Live(referees'[j]) => Live(referees[j])
    BY <1>4, <1>5, <1>6 DEF Live
  <2>3. QED BY <1>8, <2>1, <2>2 DEF Open
<1>12. \A f : Judged(n, f)' = Judged(n, f)
  BY <1>6, <1>8 DEF Judged
<1>13. PanelWithin(n) /\ JudgedEvenly(n)
  BY <1>7 DEF ReviewsInv
<1>14. PanelWithin(n)'
  <2>1. Panel(n)' \ Gaps(n)' \subseteq Panel(n) \ Gaps(n)
    BY <1>9, <1>10
  <2>2. /\ IsFiniteSet(Panel(n) \ Gaps(n)) /\ Cardinality(Panel(n) \ Gaps(n)) \in Nat
        /\ PanelLimit \in Nat
    BY <1>1, PanelSets, ReviewsAssumption
  <2>3. PICK S : S = Panel(n)' \ Gaps(n)'
    OBVIOUS
  <2>4. Cardinality(S) <= Cardinality(Panel(n) \ Gaps(n)) /\ Cardinality(S) \in Nat
    BY <2>1, <2>2, <2>3, FS_Subset, FS_CardinalityType
  <2>5. Cardinality(S) <= PanelLimit
    BY <1>13, <2>2, <2>4 DEF PanelWithin
  <2>6. QED BY <1>10, <1>11, <1>13, <2>3, <2>5 DEF PanelWithin
<1>15. JudgedEvenly(n)'
  <2>1. \A j \in Open(n) : referees'[j].family = referees[j].family
    BY <1>8 DEF Open, Panel
  <2>2. QED BY <1>11, <1>12, <1>13, <2>1 DEF JudgedEvenly
<1>16. QED BY <1>6, <1>14, <1>15 DEF ReviewsInv

\* The one referee at work gives a verdict, of a family that had judged least.
LEMMA SubmitKept ==
    ASSUME ReviewsInv, NEW i \in 1 .. Len(referees), NEW verdict \in {"sound", "gaps", "wrong"},
           SubmitReview(i, verdict)
    PROVE  ReviewsInv'
<1>1. referees \in Seq(RefereeRecord) /\ Len(referees) \in Nat
  BY DEF ReviewsInv, ReviewsTypes
<1>2. referees[i] \in RefereeRecord
  BY <1>1
<1>3. PICK t, n, own : /\ t = [referees[i] EXCEPT !.verdict = verdict]
                       /\ n = referees[i].node /\ own = referees[i].family
  OBVIOUS
<1>4. /\ t \in RefereeRecord /\ t.node = n /\ t.family = own
      /\ t.verdict = verdict /\ t.ended = referees[i].ended
  BY <1>3, <1>2 DEF RefereeRecord
<1>5. /\ referees' = [referees EXCEPT ![i] = t] /\ UNCHANGED <<posted, closed, provedAsStated>>
      /\ ~referees[i].ended /\ referees[i].verdict = "none"
  BY <1>3 DEF SubmitReview, Live
<1>6. /\ ReviewsTypes' /\ EarlierClosed'
      /\ Len(referees') = Len(referees) /\ referees'[i] = t
      /\ \A j \in 1 .. Len(referees) : j # i => referees'[j] = referees[j]
      /\ \A m \in RNode : m # n => PanelWithin(m)' /\ JudgedEvenly(m)'
  <2>1. t.node = referees[i].node /\ t.family = referees[i].family
    BY <1>3, <1>4
  <2>2. /\ ReviewsTypes' /\ EarlierClosed'
        /\ Len(referees') = Len(referees) /\ referees'[i] = t
        /\ \A j \in 1 .. Len(referees) : j # i => referees'[j] = referees[j]
        /\ \A m \in RNode : m # t.node => PanelWithin(m)' /\ JudgedEvenly(m)'
    BY <1>4, <1>5, <2>1, RefereeMoves
  <2>3. t.node = n
    BY <1>4
  <2>4. QED BY <2>2, <2>3
<1>7. n \in RNode /\ own \in Families /\ referees[i].node = n /\ referees[i].family = own
  BY <1>3, <1>2 DEF RefereeRecord
<1>8. \A j \in 1 .. Len(referees) : /\ referees'[j].node = referees[j].node
                                    /\ referees'[j].family = referees[j].family
                                    /\ referees'[j].ended = referees[j].ended
  BY <1>4, <1>6, <1>7
<1>9. i \in Open(n)
  BY <1>5, <1>7 DEF Open, Panel, Counts, Live
<1>10. PanelWithin(n) /\ JudgedEvenly(n)
  BY <1>7 DEF ReviewsInv
<1>11. Open(n) = {i}
  BY <1>9, <1>10 DEF PanelWithin
<1>12. Panel(n)' = Panel(n) /\ i \in Panel(n) /\ i \notin Gaps(n)
  <2>1. \A j \in 1 .. Len(referees) :
            referees'[j].node = n => (Counts(referees'[j]) <=> Counts(referees[j]))
    BY <1>4, <1>5, <1>6 DEF Counts, Live
  <2>2. Panel(n)' = Panel(n)
    BY <1>6, <1>8, <2>1 DEF Panel
  <2>3. QED BY <1>5, <1>9, <2>2 DEF Open, Gaps
<1>13. Open(n)' = {}
  <2> SUFFICES ASSUME NEW j \in Open(n)' PROVE FALSE
    OBVIOUS
  <2>1. /\ j \in Panel(n) /\ j \in 1 .. Len(referees) /\ Live(referees'[j])
        /\ referees'[j].verdict = "none"
    BY <1>12 DEF Open, Panel
  <2>2. j # i
    BY <1>4, <1>6, <2>1
  <2>3. j \in Open(n)
    BY <1>6, <2>1, <2>2 DEF Open
  <2>4. QED BY <1>11, <2>2, <2>3
<1>14. Gaps(n)' = IF verdict = "gaps" THEN Gaps(n) \cup {i} ELSE Gaps(n)
  <2>1. Gaps(n)' = {j \in Panel(n) : referees'[j].verdict = "gaps"}
    BY <1>12 DEF Gaps
  <2>2. \A j \in Panel(n) : j \in 1 .. Len(referees)
    BY DEF Panel
  <2>3. QED BY <1>4, <1>5, <1>6, <1>12, <2>1, <2>2 DEF Gaps
<1>15. PanelWithin(n)'
  <2>1. /\ IsFiniteSet(Panel(n) \ Gaps(n)) /\ Cardinality(Panel(n) \ Gaps(n)) \in Nat
        /\ IsFiniteSet(Gaps(n)) /\ Cardinality(Gaps(n)) \in Nat /\ PanelLimit \in Nat
    BY <1>1, PanelSets, ReviewsAssumption
  <2>2. PICK G : G = Gaps(n)'
    OBVIOUS
  <2>3. PICK S : S = Panel(n)' \ Gaps(n)'
    OBVIOUS
  <2>4. Cardinality(G) <= PanelLimit
    <3>1. CASE verdict = "gaps"
      <4>1. Cardinality(Gaps(n)) < PanelLimit
        BY <1>9, <1>10 DEF PanelWithin
      <4>2. Cardinality(G) = Cardinality(Gaps(n)) + 1
        BY <1>12, <1>14, <2>1, <2>2, <3>1, FS_AddElement
      <4>3. QED BY <2>1, <4>1, <4>2
    <3>2. CASE verdict # "gaps"
      BY <1>10, <1>14, <2>2, <3>2 DEF PanelWithin
    <3>3. QED BY <3>1, <3>2
  <2>5. Cardinality(S) <= PanelLimit
    <3>1. S \subseteq Panel(n) \ Gaps(n)
      BY <1>12, <1>14, <2>3
    <3>2. Cardinality(S) <= Cardinality(Panel(n) \ Gaps(n)) /\ Cardinality(S) \in Nat
      BY <2>1, <3>1, FS_Subset, FS_CardinalityType
    <3>3. QED BY <1>10, <2>1, <3>2 DEF PanelWithin
  <2>6. QED BY <1>13, <2>2, <2>3, <2>4, <2>5 DEF PanelWithin
<1>16. JudgedEvenly(n)'
  <2>1. \A f : Judged(n, f)' = IF f = own THEN Judged(n, f) \cup {i} ELSE Judged(n, f)
    <3>1. \A j \in 1 .. Len(referees) : j # i => referees'[j].verdict = referees[j].verdict
      BY <1>6
    <3>2. referees'[i].verdict # "none" /\ referees[i].verdict = "none"
      BY <1>4, <1>5, <1>6
    <3>3. QED BY <1>6, <1>7, <1>8, <3>1, <3>2 DEF Judged
  <2>2. i \notin Judged(n, own)
    BY <1>5 DEF Judged
  <2>3. \A f : IsFiniteSet(Judged(n, f)) /\ Cardinality(Judged(n, f)) \in Nat
    BY <1>1, PanelSets
  <2>4. Cardinality(Judged(n, own) \cup {i}) = Cardinality(Judged(n, own)) + 1
    BY <2>2, <2>3, FS_AddElement
  <2>5. /\ \A f, g \in Families : Cardinality(Judged(n, f)) <= Cardinality(Judged(n, g)) + 1
        /\ \A g \in Families : Cardinality(Judged(n, own)) <= Cardinality(Judged(n, g))
    BY <1>7, <1>9, <1>10 DEF JudgedEvenly
  <2>6. ASSUME NEW f \in Families, NEW g \in Families
        PROVE  (Cardinality(Judged(n, f)) <= Cardinality(Judged(n, g)) + 1)' 
    <3>1. PICK a, b, c, d, e : /\ a = Cardinality(Judged(n, f)) /\ b = Cardinality(Judged(n, g))
                               /\ c = Cardinality(Judged(n, own))
                               /\ d = Cardinality(Judged(n, f))' /\ e = Cardinality(Judged(n, g))'
      OBVIOUS
    <3>2. a \in Nat /\ b \in Nat /\ c \in Nat
      BY <2>3, <3>1
    <3>3. a <= b + 1 /\ c <= b
      BY <2>5, <3>1
    <3>4. d = IF f = own THEN c + 1 ELSE a
      BY <2>1, <2>4, <3>1
    <3>5. e = IF g = own THEN c + 1 ELSE b
      BY <2>1, <2>4, <3>1
    <3>6. g = own => b = c
      BY <3>1
    <3>7. d <= e + 1
      BY <3>2, <3>3, <3>4, <3>5, <3>6
    <3>8. QED BY <3>1, <3>7
  <2>7. QED BY <1>13, <2>6 DEF JudgedEvenly
<1>17. QED BY <1>6, <1>15, <1>16 DEF ReviewsInv
\* The panel's next referee is of a family that gave fewest verdicts on it.
LEMMA LeastUsed ==
    ASSUME ReviewsInv, NEW n \in RNode, Open(n) = {}
    PROVE  /\ RefereeFamily(n) \in Families
           /\ \A f \in Families :
                 Cardinality(Judged(n, RefereeFamily(n))) <= Cardinality(Judged(n, f))
<1> DEFINE L == Len(Models)
<1> DEFINE a == AuthorModel[n]
<1>1. L \in Nat \ {0} /\ a \in 1 .. L /\ Len(referees) \in Nat
  BY ReviewsAssumption DEF ReviewsInv, ReviewsTypes
<1>2. \A f : UsedBy(n, f) = Cardinality(Judged(n, f)) /\ UsedBy(n, f) \in Nat
  <2>1. \A i \in Panel(n) : referees[i].verdict # "none"
    BY DEF Panel, Counts, Open
  <2>2. \A f : {i \in Panel(n) : referees[i].family = f} = Judged(n, f)
    BY <2>1 DEF Panel, Counts, Judged
  <2>3. \A f : UsedBy(n, f) = Cardinality(Judged(n, f))
    BY <2>2 DEF UsedBy
  <2>4. QED BY <1>1, <2>3, PanelSets
<1>3. \A s \in 1 .. L : Family(n, s) \in Families
  <2>1. \A s \in 1 .. L : ((a - 1 + s) % L) + 1 \in 1 .. L
    BY <1>1
  <2>2. QED BY <2>1 DEF Family, Families
<1>4. \A f \in Families : \E s \in 1 .. L : Family(n, s) = f
  <2> TAKE f \in Families
  <2>1. PICK j \in 1 .. L : Models[j] = f
    BY DEF Families
  <2>2. PICK s \in 1 .. L : ((a - 1 + s) % L) + 1 = j
    BY <1>1, Rotation
  <2>3. Family(n, s) = f
    BY <2>1, <2>2 DEF Family
  <2>4. QED BY <2>3
<1>5. \E s \in 1 .. L : \A t \in 1 .. L : Sooner(n, s, t)
  <2> DEFINE U == {UsedBy(n, Family(n, s)) : s \in 1 .. L}
  <2>1. PICK u \in U : \A x \in U : u <= x
    <3>1. U \subseteq Nat
      BY <1>2
    <3>2. U # {}
      BY <1>1
    <3> HIDE DEF U
    <3>3. QED BY <3>1, <3>2, LeastOfNat
  <2>2. \A t \in 1 .. L : UsedBy(n, Family(n, t)) \in Nat /\ u <= UsedBy(n, Family(n, t))
    BY <1>2, <2>1
  <2> DEFINE A == {IsAuthors(n, s) : s \in {s \in 1 .. L : UsedBy(n, Family(n, s)) = u}}
  <2>3. PICK b \in A : \A x \in A : b <= x
    <3>1. A \subseteq Nat
      BY DEF IsAuthors
    <3>2. A # {}
      BY <2>1
    <3> HIDE DEF A
    <3>3. QED BY <3>1, <3>2, LeastOfNat
  <2>4. \A t \in 1 .. L : IsAuthors(n, t) \in Nat
    BY DEF IsAuthors
  <2>5. \A t \in 1 .. L : UsedBy(n, Family(n, t)) = u => b <= IsAuthors(n, t)
    BY <2>3
  <2> DEFINE S == {s \in 1 .. L : UsedBy(n, Family(n, s)) = u /\ IsAuthors(n, s) = b}
  <2>6. PICK s \in S : \A x \in S : s <= x
    <3>1. S \subseteq Nat
      BY <1>1
    <3>2. S # {}
      BY <2>3
    <3> HIDE DEF S
    <3>3. QED BY <3>1, <3>2, LeastOfNat
  <2>7. s \in 1 .. L /\ UsedBy(n, Family(n, s)) = u /\ IsAuthors(n, s) = b
    BY <2>6
  <2>8. ASSUME NEW t \in 1 .. L PROVE Sooner(n, s, t)
    <3>1. CASE UsedBy(n, Family(n, t)) # u
      <4>1. u \in Nat /\ UsedBy(n, Family(n, t)) \in Nat /\ u <= UsedBy(n, Family(n, t))
        BY <2>2, <2>7
      <4>2. u < UsedBy(n, Family(n, t))
        BY <3>1, <4>1
      <4>3. QED BY <2>7, <4>2 DEF Sooner
    <3>2. CASE UsedBy(n, Family(n, t)) = u /\ IsAuthors(n, t) # b
      <4>1. b \in Nat /\ IsAuthors(n, t) \in Nat /\ b <= IsAuthors(n, t)
        BY <2>4, <2>5, <2>7, <3>2
      <4>2. b < IsAuthors(n, t)
        BY <3>2, <4>1
      <4>3. QED BY <2>7, <3>2, <4>2 DEF Sooner
    <3>3. CASE UsedBy(n, Family(n, t)) = u /\ IsAuthors(n, t) = b
      <4>1. s <= t
        BY <2>6, <3>3
      <4>2. QED BY <2>7, <3>3, <4>1 DEF Sooner
    <3>4. QED BY <3>1, <3>2, <3>3
  <2>9. QED BY <2>7, <2>8
<1>6. PICK s \in 1 .. L : RefereeFamily(n) = Family(n, s) /\ \A t \in 1 .. L : Sooner(n, s, t)
  <2> DEFINE s == CHOOSE s \in 1 .. L : \A t \in 1 .. L : Sooner(n, s, t)
  <2>1. s \in 1 .. L /\ \A t \in 1 .. L : Sooner(n, s, t)
    BY <1>5
  <2>2. RefereeFamily(n) = Family(n, s)
    BY DEF RefereeFamily
  <2>3. QED BY <2>1, <2>2
<1>7. \A t \in 1 .. L : UsedBy(n, Family(n, s)) <= UsedBy(n, Family(n, t))
  <2> TAKE t \in 1 .. L
  <2>1. UsedBy(n, Family(n, s)) \in Nat /\ UsedBy(n, Family(n, t)) \in Nat
    BY <1>2
  <2>2. Sooner(n, s, t)
    BY <1>6
  <2>3. QED BY <2>1, <2>2 DEF Sooner
<1>8. QED BY <1>2, <1>3, <1>4, <1>6, <1>7

\* A referee is asked for.
LEMMA RequestKept ==
    ASSUME ReviewsInv, NEW n \in RNode, RequestReview(n)
    PROVE  ReviewsInv'
<1>1. /\ referees \in Seq(RefereeRecord) /\ Len(referees) \in Nat
      /\ PostedOnce /\ posted \in Seq(RNode)
  BY DEF ReviewsInv, ReviewsTypes
<1>2. PICK k, t : /\ k = Len(referees) + 1
                  /\ t = [node |-> n, family |-> RefereeFamily(n), verdict |-> "none",
                          ended |-> FALSE]
  OBVIOUS
<1>3. /\ n \in Posted /\ Owners(n) = {} /\ Open(n) = {} /\ Room(n)
      /\ Len(referees) < MaxReferees /\ referees' = Append(referees, t)
      /\ UNCHANGED <<posted, closed, provedAsStated>>
  BY <1>2 DEF RequestReview
<1>4. /\ RefereeFamily(n) \in Families
      /\ \A f \in Families :
            Cardinality(Judged(n, RefereeFamily(n))) <= Cardinality(Judged(n, f))
  BY <1>3, LeastUsed
<1>5. PICK own : own = RefereeFamily(n)
  OBVIOUS
<1>6. /\ t \in RefereeRecord /\ t.node = n /\ t.family = own /\ t.verdict = "none"
      /\ t.ended = FALSE
  BY <1>2, <1>4, <1>5 DEF RefereeRecord
<1>7. /\ referees' \in Seq(RefereeRecord) /\ Len(referees') = k /\ referees'[k] = t
      /\ \A i \in 1 .. Len(referees) : referees'[i] = referees[i]
  BY <1>1, <1>2, <1>3, <1>6
<1>8. \A i : i \in 1 .. Len(referees') <=> i \in 1 .. Len(referees) \/ i = k
  BY <1>1, <1>2, <1>7
<1>9. k \notin 1 .. Len(referees)
  BY <1>1, <1>2
<1>10. Posted' = Posted /\ \A m : Position(m)' = Position(m)
  BY <1>3 DEF Posted, Position
<1>11. ReviewsTypes'
  <2>1. \A i \in 1 .. Len(referees') : referees'[i].node \in Posted
    BY <1>3, <1>6, <1>7, <1>8 DEF ReviewsInv, ReviewsTypes
  <2>2. Len(referees') <= MaxReferees
    BY <1>1, <1>2, <1>3, <1>7, ReviewsAssumption
  <2>3. PostedOnce'
    BY <1>1, <1>3 DEF PostedOnce
  <2>4. QED BY <1>3, <1>7, <1>10, <2>1, <2>2, <2>3 DEF ReviewsInv, ReviewsTypes
<1>12. \A m : Refereed(m)' <=> Refereed(m) \/ m = n
  BY <1>6, <1>7, <1>8 DEF Refereed
<1>13. EarlierClosed'
  <2> SUFFICES ASSUME NEW j \in Posted, NEW m \in Posted, Refereed(j)', Text[m] = Text[j],
                      Position(m) < Position(j)
               PROVE  m \in closed /\ ~Refereed(m)'
    BY <1>3, <1>10 DEF EarlierClosed
  <2>1. Position(m) \in Nat /\ Position(j) \in Nat /\ Position(n) \in Nat
    BY <1>1, <1>3, PositionOf
  <2>2. CASE Refereed(j)
    <3>1. m \in closed /\ ~Refereed(m)
      BY <2>2 DEF ReviewsInv, EarlierClosed
    <3>2. m # n
      BY <3>1 DEF RequestReview
    <3>3. QED BY <1>12, <3>1, <3>2
  <2>3. CASE j = n
    <3>1. m \in closed /\ ~Refereed(m)
      BY <1>3, <2>3 DEF Owners, Refereed
    <3>2. m # n
      BY <2>1, <2>3
    <3>3. QED BY <1>12, <3>1, <3>2
  <2>4. QED BY <1>12, <2>2, <2>3
<1>14. ASSUME NEW m \in RNode, m # n PROVE PanelWithin(m)' /\ JudgedEvenly(m)'
  <2>1. Panel(m)' = Panel(m)
    BY <1>6, <1>7, <1>8, <1>14 DEF Panel, Counts, Live
  <2>2. \A j \in Panel(m) : referees'[j] = referees[j]
    BY <1>7 DEF Panel
  <2>3. Gaps(m)' = Gaps(m) /\ Open(m)' = Open(m)
    BY <2>1, <2>2 DEF Gaps, Open
  <2>4. \A f : Judged(m, f)' = Judged(m, f)
    BY <1>6, <1>7, <1>8, <1>14 DEF Judged
  <2>5. \A j \in Open(m) : referees'[j] = referees[j]
    BY <2>2 DEF Open
  <2>6. PanelWithin(m) /\ JudgedEvenly(m)
    BY DEF ReviewsInv
  <2>7. PanelWithin(m)'
    BY <2>1, <2>3, <2>6 DEF PanelWithin
  <2>8. JudgedEvenly(m)'
    BY <2>3, <2>4, <2>5, <2>6 DEF JudgedEvenly
  <2>9. QED BY <2>7, <2>8
<1>15. Panel(n)' = Panel(n) \cup {k} /\ k \notin Panel(n)
  BY <1>6, <1>7, <1>8, <1>9 DEF Panel, Counts, Live
<1>16. \A j \in Panel(n) : referees'[j] = referees[j]
  BY <1>7 DEF Panel
<1>17. Gaps(n)' = Gaps(n) /\ Gaps(n) \subseteq Panel(n)
  BY <1>6, <1>7, <1>15, <1>16 DEF Gaps
<1>18. Open(n)' = {k}
  BY <1>3, <1>6, <1>7, <1>15, <1>16 DEF Open, Live
<1>19. \A f : Judged(n, f)' = Judged(n, f)
  BY <1>6, <1>7, <1>8 DEF Judged
<1>20. PanelWithin(n) /\ JudgedEvenly(n)
  BY DEF ReviewsInv
<1>21. PanelWithin(n)'
  <2>1. /\ IsFiniteSet(Panel(n) \ Gaps(n)) /\ Cardinality(Panel(n) \ Gaps(n)) \in Nat
        /\ Cardinality(Gaps(n)) \in Nat /\ PanelLimit \in Nat
    BY <1>1, PanelSets, ReviewsAssumption
  <2>2. PICK S : S = Panel(n)' \ Gaps(n)'
    OBVIOUS
  <2>3. S = (Panel(n) \ Gaps(n)) \cup {k}
    BY <1>15, <1>17, <2>2
  <2>4. Cardinality(S) = Cardinality(Panel(n) \ Gaps(n)) + 1
    BY <1>15, <2>1, <2>3, FS_AddElement
  <2>5. Cardinality(S) <= PanelLimit /\ Cardinality(Gaps(n)) < PanelLimit
    BY <1>3, <2>1, <2>4 DEF Room
  <2>6. QED BY <1>17, <1>18, <1>20, <2>2, <2>5 DEF PanelWithin
<1>22. JudgedEvenly(n)'
  BY <1>4, <1>5, <1>6, <1>7, <1>18, <1>19, <1>20 DEF JudgedEvenly
<1>23. QED BY <1>11, <1>13, <1>14, <1>21, <1>22 DEF ReviewsInv

LEMMA ReviewsKept == ReviewsInv /\ [ReviewsNext]_reviewsVars => ReviewsInv'
<1> SUFFICES ASSUME ReviewsInv, [ReviewsNext]_reviewsVars PROVE ReviewsInv'
  OBVIOUS
<1>1. CASE \E n \in RNode : PostNode(n)
  BY <1>1, PostKept
<1>2. CASE \E n \in RNode : CloseReviewed(n) \/ SourceChanges(n)
  BY <1>2, NodeKept
<1>3. CASE \E n \in RNode : RequestReview(n)
  BY <1>3, RequestKept
<1>4. CASE \E i \in 1 .. Len(referees), v \in {"sound", "gaps", "wrong"} : SubmitReview(i, v)
  BY <1>4, SubmitKept
<1>5. CASE \E i \in 1 .. Len(referees) : RefereeEnds(i)
  BY <1>5, EndKept
<1>6. CASE UNCHANGED reviewsVars
  <2>1. UNCHANGED referees /\ UNCHANGED <<posted, closed, provedAsStated>>
    BY <1>6 DEF reviewsVars
  <2>2. Posted' = Posted /\ (\A m : Position(m)' = Position(m) /\ Refereed(m)' = Refereed(m))
    BY <2>1 DEF Posted, Position, Refereed
  <2>3. ReviewsTypes'
    BY <2>1, <2>2 DEF ReviewsInv, ReviewsTypes, PostedOnce
  <2>4. EarlierClosed'
    BY <2>1, <2>2 DEF ReviewsInv, EarlierClosed
  <2>5. QED BY <2>1, <2>3, <2>4, PanelsStand DEF ReviewsInv
<1>7. QED BY <1>1, <1>2, <1>3, <1>4, <1>5, <1>6 DEF ReviewsNext

\* The verdicts on a text are those of its one refereed node, so of one panel.
LEMMA OneNodePerText ==
    ASSUME ReviewsInv, NEW n \in RNode
    PROVE  \E m \in RNode : \A i \in 1 .. Len(referees) :
               Text[referees[i].node] = Text[n] => referees[i].node = m
<1>1. CASE \E i \in 1 .. Len(referees) : Text[referees[i].node] = Text[n]
  <2>1. PICK i \in 1 .. Len(referees) : Text[referees[i].node] = Text[n]
    BY <1>1
  <2>2. posted \in Seq(RNode) /\ PostedOnce
        /\ \A j \in 1 .. Len(referees) : referees[j].node \in Posted /\ Refereed(referees[j].node)
    BY DEF ReviewsInv, ReviewsTypes, Refereed
  <2>3. ASSUME NEW j \in 1 .. Len(referees), Text[referees[j].node] = Text[n]
        PROVE  referees[j].node = referees[i].node
    <3>1. PICK a \in Posted, b \in Posted : a = referees[i].node /\ b = referees[j].node
      BY <2>2
    <3>2. /\ Position(a) \in 1 .. Len(posted) /\ posted[Position(a)] = a
          /\ Position(b) \in 1 .. Len(posted) /\ posted[Position(b)] = b
          /\ Len(posted) \in Nat
      BY <2>2, PositionOf
    <3>3. Refereed(a) /\ Refereed(b) /\ Text[a] = Text[b]
      BY <2>1, <2>2, <2>3, <3>1
    <3>4. ~(Position(a) < Position(b)) /\ ~(Position(b) < Position(a))
      BY <3>3 DEF ReviewsInv, EarlierClosed
    <3>5. Position(a) \in Nat /\ Position(b) \in Nat
      BY <3>2
    <3>6. Position(a) = Position(b)
      BY <3>4, <3>5
    <3>7. QED BY <3>1, <3>2, <3>6
  <2>4. referees[i].node \in RNode
    BY <2>2, PostedIs
  <2>5. QED BY <2>3, <2>4
<1>2. CASE ~\E i \in 1 .. Len(referees) : Text[referees[i].node] = Text[n]
  BY <1>2
<1>3. QED BY <1>1, <1>2

\* One text never gets more verdicts than its one panel may give.
LEMMA TextBounded == ReviewsInv => VerdictsPerText
<1> SUFFICES ASSUME ReviewsInv, NEW n \in RNode
             PROVE  /\ Cardinality(Verdicts(Text[n], {"sound", "wrong"})) <= PanelLimit
                    /\ Cardinality(Verdicts(Text[n], {"gaps"})) <= PanelLimit
  BY DEF VerdictsPerText
<1>1. PICK m \in RNode : \A i \in 1 .. Len(referees) :
                             Text[referees[i].node] = Text[n] => referees[i].node = m
  BY OneNodePerText
<1>2. PanelWithin(m) /\ Len(referees) \in Nat /\ PanelLimit \in Nat
  BY ReviewsAssumption DEF ReviewsInv, ReviewsTypes
<1>3. /\ IsFiniteSet(Panel(m) \ Gaps(m)) /\ IsFiniteSet(Gaps(m))
      /\ Cardinality(Panel(m) \ Gaps(m)) \in Nat /\ Cardinality(Gaps(m)) \in Nat
  BY <1>2, PanelSets
<1>4. /\ Verdicts(Text[n], {"sound", "wrong"}) \subseteq Panel(m) \ Gaps(m)
      /\ Verdicts(Text[n], {"gaps"}) \subseteq Gaps(m)
  <2>1. ASSUME NEW i \in 1 .. Len(referees), Text[referees[i].node] = Text[n],
               referees[i].verdict # "none"
        PROVE  i \in Panel(m)
    BY <1>1, <2>1 DEF Panel, Counts
  <2>2. QED BY <2>1 DEF Verdicts, Gaps
<1>5. /\ Cardinality(Verdicts(Text[n], {"sound", "wrong"})) <= Cardinality(Panel(m) \ Gaps(m))
      /\ Cardinality(Verdicts(Text[n], {"gaps"})) <= Cardinality(Gaps(m))
      /\ Cardinality(Verdicts(Text[n], {"sound", "wrong"})) \in Nat
      /\ Cardinality(Verdicts(Text[n], {"gaps"})) \in Nat
  BY <1>3, <1>4, FS_Subset, FS_CardinalityType
<1>6. QED BY <1>2, <1>3, <1>5 DEF PanelWithin

\* The panel is the verdicts given and the one referee at work, if any.
LEMMA PanelEven == ReviewsInv => PanelSpreads
<1> SUFFICES ASSUME ReviewsInv, NEW n \in RNode,
                    NEW i \in 1 .. Len(Models), NEW j \in 1 .. Len(Models)
             PROVE  UsedBy(n, Models[i]) <= UsedBy(n, Models[j]) + 1
  BY DEF PanelSpreads
<1> DEFINE Counted(f) == {k \in Panel(n) : referees[k].family = f}
<1>1. PICK f \in Families, g \in Families : f = Models[i] /\ g = Models[j]
  BY DEF Families
<1>2. Len(referees) \in Nat /\ PanelWithin(n) /\ JudgedEvenly(n)
  BY DEF ReviewsInv, ReviewsTypes
<1>3. /\ IsFiniteSet(Judged(n, f)) /\ Cardinality(Judged(n, f)) \in Nat
      /\ IsFiniteSet(Judged(n, g)) /\ Cardinality(Judged(n, g)) \in Nat
      /\ IsFiniteSet(Panel(n))
  BY <1>2, PanelSets
<1>4. \A h : Judged(n, h) \subseteq Counted(h) /\ Counted(h) \subseteq Judged(n, h) \cup Open(n)
  BY DEF Panel, Judged, Counts, Open
<1>5. \A h : IsFiniteSet(Counted(h)) /\ Cardinality(Counted(h)) \in Nat
  BY <1>3, FS_Subset, FS_CardinalityType
<1>6. UsedBy(n, f) = Cardinality(Counted(f)) /\ UsedBy(n, g) = Cardinality(Counted(g))
  BY DEF UsedBy
<1>7. Cardinality(Judged(n, g)) <= Cardinality(Counted(g))
  BY <1>4, <1>5, FS_Subset
<1> HIDE DEF Counted
<1>8. CASE Counted(f) = Judged(n, f)
  <2>1. Cardinality(Judged(n, f)) <= Cardinality(Judged(n, g)) + 1
    BY <1>2 DEF JudgedEvenly
  <2>2. QED BY <1>1, <1>3, <1>5, <1>6, <1>7, <1>8, <2>1
<1>9. CASE Counted(f) # Judged(n, f)
  <2>1. PICK k \in Open(n) : k \in Counted(f) /\ k \notin Judged(n, f)
    BY <1>4, <1>9
  <2>2. Counted(f) = Judged(n, f) \cup {k}
    BY <1>2, <1>4, <2>1 DEF PanelWithin
  <2>3. Cardinality(Counted(f)) = Cardinality(Judged(n, f)) + 1
    BY <1>3, <2>1, <2>2, FS_AddElement
  <2>4. referees[k].family = f
    BY <2>1 DEF Counted
  <2>5. Cardinality(Judged(n, f)) <= Cardinality(Judged(n, g))
    BY <1>2, <2>1, <2>4 DEF JudgedEvenly
  <2>6. QED BY <1>1, <1>3, <1>5, <1>6, <1>7, <2>3, <2>5
<1>10. QED BY <1>8, <1>9

\* THEOREM: whatever authors abandon and post again, a text gets verdicts of
\* one bounded panel, spread evenly over the experiment's model families
\* (request_review, submit_review and _referee_model of commons_review.py).
THEOREM ReviewsSafety == ReviewsSpec => []ReviewsSound
<1>1. ReviewsInv => ReviewsSound
  <2>1. ReviewsInv => ReviewsTypeOK
    <3> SUFFICES ASSUME ReviewsInv PROVE ReviewsTypeOK
      OBVIOUS
    <3>1. /\ Posted \subseteq RNode /\ closed \subseteq Posted /\ provedAsStated \subseteq RNode
          /\ Len(referees) <= MaxReferees /\ referees \in Seq(RefereeRecord)
          /\ \A i \in 1 .. Len(referees) : referees[i].node \in Posted
      BY PostedIs DEF ReviewsInv, ReviewsTypes
    <3>2. \A i \in 1 .. Len(referees) : referees[i] \in RefereeRecord
      BY <3>1
    <3>3. \A i \in 1 .. Len(referees) :
              /\ referees[i].ended \in BOOLEAN
              /\ referees[i].verdict \in {"none", "sound", "gaps", "wrong"}
      BY <3>2 DEF RefereeRecord
    <3>4. QED BY <3>1, <3>3 DEF ReviewsTypeOK
  <2>2. QED BY <2>1, TextBounded, PanelEven DEF ReviewsSound
<1>2. QED BY InitReviews, ReviewsKept, <1>1, PTL DEF ReviewsSpec

-----------------------------------------------------------------------------
(***************************************************************************)
(* Recruits                                                                *)
(*                                                                         *)
(* A source was complete when it was published, a call makes its recruit   *)
(* once, a scoped recruit serves the statement its scope names, and no     *)
(* recruiter ended while work that it waits for is pending.  The budget    *)
(* reserved is that of the tasks at work.                                  *)
(***************************************************************************)

TaskRecord == [status : {"none", "queued", "running", "ending", "ended"}, joined : BOOLEAN,
               node : FocusNode \cup {NoNode}, scope : Statement \cup {NoStatement},
               objective : Statement \cup {NoStatement}, result : {"none", "own", "source"},
               source : Statement \cup {NoStatement},
               reason : {"none", "scope_proved", "scope_closed", "result_returned", "final"}]

Unfinished == {"queued", "running", "ending"}

\* What a task record may claim, given the statements proved so far.
ServesScope(t) ==
    /\ t.scope # NoStatement => t.node \in FocusNode
    /\ t.reason = "scope_proved" => <<t.node, t.scope>> \in proved
    /\ t.result = "source" => t.source = t.scope

SourcesProved ==
    \A n \in FocusNode : focus[n].source # NoStatement => <<n, focus[n].source>> \in proved

HiresOnce(r) ==
    /\ hire[r].pc \in {"new", "read"} => staff[r].status = "none"
    /\ hire[r].pc = "read" /\ hire[r].until => hire[r].node \in FocusNode

\* The tasks whose first reservation is held.
AtWork == {r \in Recruit : staff[r].status \in {"running", "ending"}}
Reserved == IsFiniteSet(AtWork) /\ purse.reserved = Price * Cardinality(AtWork)

RecruitingInv ==
    /\ RecruitingTypeOK
    /\ staff \in [Recruit -> TaskRecord]
    /\ SourcesProved
    /\ \A r \in Recruit : HiresOnce(r)
    /\ \A r \in Recruit : ServesScope(staff[r])
    /\ \A r \in Recruit : staff[r].status = "ended" => PendingRecruits(r) = {}
    /\ Reserved

LEMMA InitRecruiting == RecruitingInit => RecruitingInv
<1> SUFFICES ASSUME RecruitingInit PROVE RecruitingInv
  OBVIOUS
<1>1. NoTask \in TaskRecord
  BY DEF NoTask, TaskRecord, NoNode
<1>2. staff \in [Recruit -> TaskRecord] /\ \A r \in Recruit : staff[r] = NoTask
  BY <1>1 DEF RecruitingInit
<1>3. RecruitingTypeOK
  BY <1>2 DEF RecruitingInit, RecruitingTypeOK, FocusState, NoTask
<1>4. SourcesProved /\ \A r \in Recruit : HiresOnce(r) /\ ServesScope(staff[r])
  BY <1>2 DEF RecruitingInit, SourcesProved, HiresOnce, ServesScope, NoTask
<1>5. Reserved
  <2>1. AtWork = {}
    BY <1>2 DEF AtWork, NoTask
  <2>2. Price * 0 = 0
    BY RecruitingAssumption
  <2>3. QED BY <2>1, <2>2, FS_EmptySet DEF Reserved, RecruitingInit
<1>6. \A r \in Recruit : staff[r].status # "ended"
  BY <1>2 DEF NoTask
<1>7. QED BY <1>2, <1>3, <1>4, <1>5, <1>6 DEF RecruitingInv

\* A recruit's task changes: what is left to show is about its own record.
LEMMA StaffMoves ==
    ASSUME RecruitingInv, NEW r \in Recruit, NEW t \in TaskRecord,
           staff' = [staff EXCEPT ![r] = t], UNCHANGED <<focus, proved>>,
           ServesScope(t),
           t.status \in Unfinished /\ t.joined =>
               \/ staff[r].status \in Unfinished /\ staff[r].joined
               \/ MayRecruit(r),
           t.status = "ended" => PendingRecruits(r) = {},
           RecruitingTypeOK', (\A b \in Recruit : HiresOnce(b))', Reserved'
    PROVE  RecruitingInv'
<1>1. staff \in [Recruit -> TaskRecord]
  BY DEF RecruitingInv
<1>2. staff' \in [Recruit -> TaskRecord] /\ staff'[r] = t
  BY <1>1
<1>3. \A b \in Recruit : b # r => staff'[b] = staff[b]
  BY <1>1
<1>4. SourcesProved'
  BY DEF RecruitingInv, SourcesProved
<1>5. (\A b \in Recruit : ServesScope(staff[b]))'
  BY <1>2, <1>3 DEF RecruitingInv, ServesScope
<1>6. ASSUME NEW b \in Recruit, staff'[b].status = "ended", NEW c \in PendingRecruits(b)'
      PROVE  FALSE
  <2>1. /\ c \in Recruit /\ Recruiter[c] = b /\ staff'[c].joined
        /\ staff'[c].status \in Unfinished
    BY <1>6 DEF PendingRecruits, Unfinished
  <2>2. CASE b = r
    <3>1. c # r /\ staff'[c] = staff[c]
      BY <1>3, <1>6, <2>1, <2>2 DEF Unfinished
    <3>2. c \in PendingRecruits(r)
      BY <2>1, <2>2, <3>1 DEF PendingRecruits, Unfinished
    <3>3. QED BY <1>2, <1>6, <2>2, <3>2
  <2>3. CASE b # r
    <3>1. staff[b].status = "ended" /\ PendingRecruits(b) = {}
      BY <1>3, <1>6, <2>3 DEF RecruitingInv
    <3>2. CASE c # r
      <4>1. c \in PendingRecruits(b)
        BY <1>3, <2>1, <3>2 DEF PendingRecruits, Unfinished
      <4>2. QED BY <3>1, <4>1
    <3>3. CASE c = r
      <4>1. b # Team
        BY RecruitingAssumption
      <4>2. ~MayRecruit(r)
        BY <2>1, <3>1, <3>3, <4>1 DEF MayRecruit
      <4>3. staff[r].status \in Unfinished /\ staff[r].joined
        BY <1>2, <2>1, <3>3, <4>2
      <4>4. r \in PendingRecruits(b)
        BY <2>1, <3>3, <4>3 DEF PendingRecruits, Unfinished
      <4>5. QED BY <3>1, <4>4
    <3>4. QED BY <3>2, <3>3
  <2>4. QED BY <2>2, <2>3
<1>7. (\A b \in Recruit : staff[b].status = "ended" => PendingRecruits(b) = {})'
  BY <1>6
<1>8. QED BY <1>2, <1>4, <1>5, <1>7 DEF RecruitingInv

\* One task more, or one less, holds its reservation.
LEMMA OneReservation ==
    ASSUME NEW k \in Nat
    PROVE  Price * (k + 1) = Price * k + Price /\ Price * k \in Nat /\ Price \in Nat \ {0}
BY RecruitingAssumption

\* Who is at work after a task changed.
LEMMA WorkChanges ==
    ASSUME RecruitingInv, NEW r \in Recruit, NEW t \in TaskRecord,
           staff' = [staff EXCEPT ![r] = t]
    PROVE  AtWork' = IF t.status \in {"running", "ending"} THEN AtWork \cup {r}
                     ELSE AtWork \ {r}
<1>1. staff \in [Recruit -> TaskRecord]
  BY DEF RecruitingInv
<1>2. staff'[r] = t /\ \A b \in Recruit : b # r => staff'[b] = staff[b]
  BY <1>1
<1>3. QED BY <1>2 DEF AtWork

HireRecord == [pc : {"new", "read", "created", "done", "refused", "lost"},
               node : FocusNode \cup {NoNode}, joined : BOOLEAN, until : BOOLEAN,
               quoted : Statement \cup {NoStatement}, claim : BOOLEAN]

\* A call moves, or the nodes change, while no task does.
LEMMA StaffStands ==
    ASSUME RecruitingInv, UNCHANGED <<staff, purse>>, proved \subseteq proved',
           focus' \in [FocusNode -> FocusState], hire' \in [Recruit -> HireRecord],
           SourcesProved', (\A b \in Recruit : HiresOnce(b))'
    PROVE  RecruitingInv'
<1>1. staff' \in [Recruit -> TaskRecord] /\ purse' \in [spent : Nat, reserved : Nat]
  BY DEF RecruitingInv, RecruitingTypeOK
<1>2. RecruitingTypeOK'
  <2>1. \A r \in Recruit : staff'[r] \in TaskRecord
    BY <1>1
  <2>2. QED BY <1>1, <2>1 DEF RecruitingTypeOK, HireRecord, TaskRecord
<1>3. Reserved'
  BY DEF RecruitingInv, Reserved, AtWork
<1>4. (\A r \in Recruit : ServesScope(staff[r]))'
  BY DEF RecruitingInv, ServesScope
<1>5. (\A r \in Recruit : staff[r].status = "ended" => PendingRecruits(r) = {})'
  BY DEF RecruitingInv, PendingRecruits
<1>6. QED BY <1>1, <1>2, <1>3, <1>4, <1>5 DEF RecruitingInv

\* A task moves on, the calls and the nodes stand.
LEMMA TaskMoves ==
    ASSUME RecruitingInv, NEW r \in Recruit, NEW t \in TaskRecord,
           staff' = [staff EXCEPT ![r] = t], UNCHANGED <<focus, hire, proved>>,
           staff[r].status # "none", ServesScope(t), t.joined = staff[r].joined,
           t.status \in Unfinished => staff[r].status \in Unfinished,
           t.status = "ended" => PendingRecruits(r) = {},
           purse' \in [spent : Nat, reserved : Nat], Reserved'
    PROVE  RecruitingInv'
<1>1. /\ staff \in [Recruit -> TaskRecord] /\ hire \in [Recruit -> HireRecord]
      /\ focus \in [FocusNode -> FocusState]
  BY DEF RecruitingInv, RecruitingTypeOK, HireRecord
<1>2. staff' \in [Recruit -> TaskRecord] /\ staff'[r] = t
  BY <1>1
<1>3. RecruitingTypeOK'
  <2>1. \A b \in Recruit : staff'[b] \in TaskRecord
    BY <1>2
  <2>2. QED BY <1>1, <2>1 DEF RecruitingTypeOK, HireRecord, TaskRecord
<1>4. (\A b \in Recruit : HiresOnce(b))'
  BY <1>1 DEF RecruitingInv, HiresOnce
<1>5. QED BY <1>3, <1>4, StaffMoves

\* Nothing is reserved or released.
LEMMA SameWork ==
    ASSUME RecruitingInv, NEW r \in Recruit, NEW t \in TaskRecord,
           staff' = [staff EXCEPT ![r] = t], purse' = purse,
           t.status \in {"running", "ending"} <=> staff[r].status \in {"running", "ending"}
    PROVE  Reserved'
<1>1. AtWork' = AtWork
  BY WorkChanges DEF AtWork
<1>2. QED BY <1>1 DEF RecruitingInv, Reserved

LEMMA RecruitingKept == RecruitingInv /\ [RecruitingNext]_recruitVars => RecruitingInv'
<1> SUFFICES ASSUME RecruitingInv, [RecruitingNext]_recruitVars PROVE RecruitingInv'
  OBVIOUS
<1>1. /\ focus \in [FocusNode -> FocusState] /\ hire \in [Recruit -> HireRecord]
      /\ staff \in [Recruit -> TaskRecord] /\ purse \in [spent : Nat, reserved : Nat]
  BY DEF RecruitingInv, RecruitingTypeOK, HireRecord
<1>2. /\ \A n \in FocusNode : focus[n] \in FocusState
      /\ \A r \in Recruit : hire[r] \in HireRecord /\ staff[r] \in TaskRecord
      /\ \A r \in Recruit : HiresOnce(r) /\ ServesScope(staff[r])
  BY <1>1 DEF RecruitingInv
<1>3. ASSUME UNCHANGED recruitVars PROVE RecruitingInv'
  BY <1>1, <1>3, StaffStands DEF recruitVars, RecruitingInv, SourcesProved, HiresOnce
\* The node is restated, its source goes stale, or it is closed.
<1>4. ASSUME NEW n \in FocusNode, NEW k \in FocusState, focus' = [focus EXCEPT ![n] = k],
             UNCHANGED <<hire, staff, purse>>, proved \subseteq proved',
             k.source # NoStatement => <<n, k.source>> \in proved'
      PROVE  RecruitingInv'
  <2>1. focus' \in [FocusNode -> FocusState]
    BY <1>1, <1>4
  <2>2. focus'[n] = k /\ \A m \in FocusNode : m # n => focus'[m] = focus[m]
    BY <1>1, <1>4
  <2>3. SourcesProved'
    BY <1>4, <2>2 DEF RecruitingInv, SourcesProved
  <2>4. (\A b \in Recruit : HiresOnce(b))'
    BY <1>4 DEF RecruitingInv, HiresOnce
  <2>5. QED BY <1>1, <1>4, <2>1, <2>3, <2>4, StaffStands
<1>5. ASSUME NEW n \in FocusNode, NEW s \in Statement, Restate(n, s) PROVE RecruitingInv'
  <2> DEFINE k == [focus[n] EXCEPT !.statement = s]
  <2>1. k \in FocusState /\ k.source = focus[n].source
    BY <1>2 DEF FocusState
  <2>2. focus' = [focus EXCEPT ![n] = k] /\ UNCHANGED <<hire, staff, purse, proved>>
    BY <1>5 DEF Restate
  <2> HIDE DEF k
  <2>3. k.source # NoStatement => <<n, k.source>> \in proved
    BY <2>1 DEF RecruitingInv, SourcesProved
  <2>4. QED BY <1>4, <2>1, <2>2, <2>3
<1>6. ASSUME NEW n \in FocusNode, PublishSource(n) PROVE RecruitingInv'
  <2> DEFINE k == [focus[n] EXCEPT !.source = focus[n].statement]
  <2>1. k \in FocusState /\ k.source = focus[n].statement
    BY <1>2 DEF FocusState
  <2>2. /\ focus' = [focus EXCEPT ![n] = k] /\ UNCHANGED <<hire, staff, purse>>
        /\ proved' = proved \cup {<<n, focus[n].statement>>}
    BY <1>6 DEF PublishSource
  <2> HIDE DEF k
  <2>3. QED BY <1>4, <2>1, <2>2
<1>7. ASSUME NEW n \in FocusNode, SourceStale(n) PROVE RecruitingInv'
  <2> DEFINE k == [focus[n] EXCEPT !.source = NoStatement]
  <2>1. k \in FocusState /\ k.source = NoStatement
    BY <1>2 DEF FocusState
  <2>2. focus' = [focus EXCEPT ![n] = k] /\ UNCHANGED <<hire, staff, purse, proved>>
    BY <1>7 DEF SourceStale
  <2> HIDE DEF k
  <2>3. QED BY <1>4, <2>1, <2>2
<1>8. ASSUME NEW n \in FocusNode, CloseNode(n) PROVE RecruitingInv'
  <2> DEFINE k == [focus[n] EXCEPT !.open = FALSE]
  <2>1. k \in FocusState /\ k.source = focus[n].source
    BY <1>2 DEF FocusState
  <2>2. focus' = [focus EXCEPT ![n] = k] /\ UNCHANGED <<hire, staff, purse, proved>>
    BY <1>8 DEF CloseNode
  <2> HIDE DEF k
  <2>3. k.source # NoStatement => <<n, k.source>> \in proved
    BY <2>1 DEF RecruitingInv, SourcesProved
  <2>4. QED BY <1>4, <2>1, <2>2, <2>3
\* A call moves on without making a task.
<1>9. ASSUME NEW r \in Recruit, NEW h \in HireRecord, hire' = [hire EXCEPT ![r] = h],
             UNCHANGED <<focus, staff, purse, proved>>,
             h.pc \in {"new", "read"} => staff[r].status = "none",
             h.pc = "read" /\ h.until => h.node \in FocusNode
      PROVE  RecruitingInv'
  <2>1. hire' \in [Recruit -> HireRecord]
    BY <1>1, <1>9
  <2>2. hire'[r] = h /\ \A b \in Recruit : b # r => hire'[b] = hire[b]
    BY <1>1, <1>9
  <2>3. (\A b \in Recruit : HiresOnce(b))'
    BY <1>2, <1>9, <2>2 DEF HiresOnce
  <2>4. SourcesProved'
    BY <1>9 DEF RecruitingInv, SourcesProved
  <2>5. QED BY <1>1, <1>9, <2>1, <2>3, <2>4, StaffStands
<1>10. ASSUME NEW r \in Recruit, NEW n \in FocusNode \cup {NoNode}, NEW joined \in BOOLEAN,
              NEW until \in BOOLEAN, ReadFocus(r, n, joined, until)
       PROVE  RecruitingInv'
  <2> DEFINE quoted == IF n = NoNode THEN NoStatement ELSE focus[n].statement
  <2> DEFINE pc == IF \/ n # NoNode /\ ~focus[n].open
                      \/ until /\ (IF n = NoNode THEN TRUE ELSE ~CanScope(n))
                   THEN "refused" ELSE "read"
  <2>1. quoted \in Statement \cup {NoStatement}
    BY <1>2 DEF FocusState
  <2>2. pc \in {"refused", "read"} /\ (pc = "read" /\ until => n \in FocusNode)
    OBVIOUS
  <2>3. /\ hire[r].pc = "new" /\ UNCHANGED <<focus, staff, purse, proved>>
        /\ hire' = [hire EXCEPT ![r] = [pc |-> pc, node |-> n, joined |-> joined,
                                        until |-> until, quoted |-> quoted, claim |-> FALSE]]
    BY <1>10 DEF ReadFocus
  <2> HIDE DEF pc, quoted
  <2> DEFINE h == [pc |-> pc, node |-> n, joined |-> joined, until |-> until,
                   quoted |-> quoted, claim |-> FALSE]
  <2>4. h \in HireRecord /\ h.pc = pc /\ h.node = n /\ h.until = until
    BY <2>1, <2>2 DEF HireRecord
  <2>5. staff[r].status = "none"
    BY <1>2, <2>3 DEF HiresOnce
  <2>6. hire' = [hire EXCEPT ![r] = h]
    BY <2>3
  <2> HIDE DEF h
  <2>7. QED BY <1>9, <2>2, <2>3, <2>4, <2>5, <2>6
<1>11. ASSUME NEW r \in Recruit, RecruitResearcher(r) PROVE RecruitingInv'
  <2> DEFINE n == hire[r].node
  <2> DEFINE accepted == (hire[r].until => CanScope(n)) /\ Admits
  <2>1. /\ hire[r].pc = "read" /\ MayRecruit(r) /\ UNCHANGED <<focus, purse, proved>>
        /\ staff[r].status = "none" /\ (hire[r].until => n \in FocusNode)
    BY <1>2, <1>11 DEF RecruitResearcher, HiresOnce
  <2>2. CASE ~accepted
    <3> DEFINE h == [hire[r] EXCEPT !.pc = "refused"]
    <3>1. h \in HireRecord /\ h.pc = "refused"
      BY <1>2 DEF HireRecord
    <3>2. hire' = [hire EXCEPT ![r] = h] /\ staff' = staff
      BY <1>11, <2>2 DEF RecruitResearcher
    <3> HIDE DEF h
    <3>3. QED BY <1>9, <2>1, <3>1, <3>2
  <2>3. CASE accepted
    <3> DEFINE h == [hire[r] EXCEPT !.pc = "created"]
    <3> DEFINE scope == IF hire[r].until THEN focus[n].statement ELSE NoStatement
    <3> DEFINE t == [status |-> "queued", joined |-> hire[r].joined, node |-> n,
                     scope |-> scope, objective |-> hire[r].quoted, result |-> "none",
                     source |-> NoStatement, reason |-> "none"]
    <3>1. h \in HireRecord /\ h.pc = "created"
      BY <1>2 DEF HireRecord
    <3>2. scope \in Statement \cup {NoStatement} /\ (scope # NoStatement => n \in FocusNode)
      BY <1>2, <2>1 DEF FocusState
    <3>3. hire' = [hire EXCEPT ![r] = h] /\ staff' = [staff EXCEPT ![r] = t]
      BY <1>11, <2>3 DEF RecruitResearcher, NoTask
    <3> HIDE DEF scope, accepted, h
    <3>4. t \in TaskRecord
      BY <1>2, <3>2 DEF TaskRecord, HireRecord
    <3>5. /\ t.status = "queued" /\ t.scope = scope /\ t.node = n /\ t.reason = "none"
          /\ t.result = "none"
      OBVIOUS
    <3> HIDE DEF t
    <3>6. ServesScope(t)
      BY <3>2, <3>5 DEF ServesScope
    <3>7. hire' \in [Recruit -> HireRecord] /\ staff' \in [Recruit -> TaskRecord]
      BY <1>1, <3>1, <3>3, <3>4
    <3>8. /\ hire'[r] = h /\ \A b \in Recruit : b # r => hire'[b] = hire[b]
          /\ staff'[r] = t /\ \A b \in Recruit : b # r => staff'[b] = staff[b]
      BY <1>1, <3>3
    <3>9. (\A b \in Recruit : HiresOnce(b))'
      BY <1>2, <3>1, <3>8 DEF HiresOnce
    <3>10. RecruitingTypeOK'
      <4>1. \A b \in Recruit : staff'[b] \in TaskRecord
        BY <3>7
      <4>2. QED BY <1>1, <2>1, <3>7, <4>1 DEF RecruitingTypeOK, HireRecord, TaskRecord
    <3>11. Reserved'
      BY <2>1, <3>3, <3>4, <3>5, SameWork
    <3>12. QED BY <2>1, <3>3, <3>4, <3>5, <3>6, <3>9, <3>10, <3>11, StaffMoves
  <2>4. QED BY <2>2, <2>3
<1>12. ASSUME NEW r \in Recruit, FocusClaim(r) PROVE RecruitingInv'
  <2> DEFINE claim == IF hire[r].node = NoNode THEN FALSE ELSE focus[hire[r].node].open
  <2> DEFINE h == [hire[r] EXCEPT !.pc = "done", !.claim = claim]
  <2>1. claim \in BOOLEAN
    BY <1>2 DEF HireRecord, FocusState
  <2>2. hire' = [hire EXCEPT ![r] = h] /\ UNCHANGED <<focus, staff, purse, proved>>
    BY <1>12 DEF FocusClaim
  <2> HIDE DEF claim
  <2>3. h \in HireRecord /\ h.pc = "done"
    BY <1>2, <2>1 DEF HireRecord
  <2> HIDE DEF h
  <2>4. QED BY <1>9, <2>2, <2>3
<1>13. ASSUME NEW r \in Recruit, RecruiterDies(r) PROVE RecruitingInv'
  <2> DEFINE h == [hire[r] EXCEPT !.pc = "lost"]
  <2>1. hire' = [hire EXCEPT ![r] = h] /\ UNCHANGED <<focus, staff, purse, proved>>
    BY <1>13 DEF RecruiterDies
  <2>2. h \in HireRecord /\ h.pc = "lost"
    BY <1>2 DEF HireRecord
  <2> HIDE DEF h
  <2>3. QED BY <1>9, <2>1, <2>2
<1>14. ASSUME NEW r \in Recruit, StartRecruit(r) PROVE RecruitingInv'
  <2> DEFINE t == [staff[r] EXCEPT !.status = "running"]
  <2>1. /\ staff[r].status = "queued" /\ UNCHANGED <<focus, hire, proved>>
        /\ staff' = [staff EXCEPT ![r] = t]
        /\ purse' = [purse EXCEPT !.reserved = @ + Price]
    BY <1>14 DEF StartRecruit
  <2>2. t \in TaskRecord /\ t.status = "running" /\ t.joined = staff[r].joined
    BY <1>2 DEF TaskRecord
  <2>3. ServesScope(t)
    BY <1>2 DEF ServesScope, TaskRecord
  <2> HIDE DEF t
  <2>4. AtWork' = AtWork \cup {r} /\ r \notin AtWork
    BY <2>1, <2>2, WorkChanges DEF AtWork
  <2>5. IsFiniteSet(AtWork) /\ purse.reserved = Price * Cardinality(AtWork)
    BY DEF RecruitingInv, Reserved
  <2>6. /\ IsFiniteSet(AtWork') /\ Cardinality(AtWork') = Cardinality(AtWork) + 1
        /\ Cardinality(AtWork) \in Nat
    BY <2>4, <2>5, FS_AddElement, FS_CardinalityType
  <2>7. purse'.reserved = purse.reserved + Price /\ purse'.spent = purse.spent
    BY <1>1, <2>1
  <2>8. purse' \in [spent : Nat, reserved : Nat]
    BY <1>1, <2>1, RecruitingAssumption
  <2>9. Reserved'
    BY <2>5, <2>6, <2>7, OneReservation DEF Reserved
  <2>10. QED BY <2>1, <2>2, <2>3, <2>8, <2>9, TaskMoves DEF Unfinished
\* A task moves on at work.
<1>15. ASSUME NEW r \in Recruit, NEW t \in TaskRecord, staff' = [staff EXCEPT ![r] = t],
              UNCHANGED <<focus, hire, purse, proved>>,
              staff[r].status \in {"running", "ending"}, t.status \in {"running", "ending"},
              t.joined = staff[r].joined, ServesScope(t)
       PROVE  RecruitingInv'
  <2>1. Reserved'
    BY <1>15, SameWork
  <2>2. QED BY <1>1, <1>15, <2>1, TaskMoves DEF Unfinished
<1>16. ASSUME NEW r \in Recruit, ReturnResult(r) PROVE RecruitingInv'
  <2> DEFINE t == [staff[r] EXCEPT !.result = "own"]
  <2>1. /\ staff[r].status = "running" /\ UNCHANGED <<focus, hire, purse, proved>>
        /\ staff' = [staff EXCEPT ![r] = t]
    BY <1>16 DEF ReturnResult
  <2>2. t \in TaskRecord /\ t.status = staff[r].status /\ t.joined = staff[r].joined
    BY <1>2 DEF TaskRecord
  <2>3. ServesScope(t)
    BY <1>2 DEF ServesScope, TaskRecord
  <2> HIDE DEF t
  <2>4. QED BY <1>15, <2>1, <2>2, <2>3
<1>17. ASSUME NEW r \in Recruit, DeliverWork(r) PROVE RecruitingInv'
  <2> DEFINE reason == Completion(r)
  <2> DEFINE returns == reason = "scope_proved" /\ staff[r].joined /\ staff[r].result = "none"
  <2> DEFINE result == IF returns THEN "source" ELSE staff[r].result
  <2> DEFINE src == IF returns THEN focus[staff[r].node].source ELSE staff[r].source
  <2> DEFINE t == [staff[r] EXCEPT !.status = "ending", !.reason = reason, !.result = result,
                                   !.source = src]
  <2>1. /\ staff[r].status = "running" /\ reason # "none"
        /\ UNCHANGED <<focus, hire, purse, proved>> /\ staff' = [staff EXCEPT ![r] = t]
    BY <1>17 DEF DeliverWork
  <2>2. reason \in {"scope_proved", "scope_closed", "result_returned", "none"}
    BY DEF Completion, ScopeEnding
  <2>3. ASSUME reason = "scope_proved"
        PROVE  /\ staff[r].node \in FocusNode /\ focus[staff[r].node].source = staff[r].scope
               /\ <<staff[r].node, staff[r].scope>> \in proved
    <3>1. staff[r].scope # NoStatement /\ ScopeEnding(r) = "scope_proved"
      BY <2>3 DEF Completion
    <3>2. staff[r].node \in FocusNode
      BY <1>2, <3>1 DEF ServesScope
    <3>3. focus[staff[r].node].statement = staff[r].scope /\ Complete(staff[r].node)
      BY <3>1 DEF ScopeEnding
    <3>4. QED BY <3>2, <3>3 DEF Complete, RecruitingInv, SourcesProved
  <2>4. returns => reason = "scope_proved"
    OBVIOUS
  <2>5. result \in {"none", "own", "source"} /\ src \in Statement \cup {NoStatement}
    BY <1>2, <2>3 DEF TaskRecord
  <2>6. result = "source" => src = staff[r].scope
    BY <1>2, <2>3 DEF ServesScope
  <2> HIDE DEF reason, result, src, returns
  <2>7. /\ t \in TaskRecord /\ t.status = "ending" /\ t.joined = staff[r].joined
        /\ t.reason = reason /\ t.result = result /\ t.source = src
        /\ t.node = staff[r].node /\ t.scope = staff[r].scope
    BY <1>2, <2>1, <2>2, <2>5 DEF TaskRecord
  <2> HIDE DEF t
  <2>8. ServesScope(t)
    BY <1>2, <2>3, <2>6, <2>7 DEF ServesScope
  <2>9. QED BY <1>15, <2>1, <2>7, <2>8
<1>18. ASSUME NEW r \in Recruit, FinalAnswer(r) PROVE RecruitingInv'
  <2> DEFINE t == [staff[r] EXCEPT !.status = "ending", !.reason = "final"]
  <2>1. /\ staff[r].status = "running" /\ UNCHANGED <<focus, hire, purse, proved>>
        /\ staff' = [staff EXCEPT ![r] = t]
    BY <1>18 DEF FinalAnswer
  <2>2. t \in TaskRecord /\ t.status = "ending" /\ t.joined = staff[r].joined
    BY <1>2 DEF TaskRecord
  <2>3. ServesScope(t)
    BY <1>2 DEF ServesScope, TaskRecord
  <2> HIDE DEF t
  <2>4. QED BY <1>15, <2>1, <2>2, <2>3
<1>19. ASSUME NEW r \in Recruit, FinishRecruit(r) PROVE RecruitingInv'
  <2>1. staff[r].status = "ending" /\ UNCHANGED <<focus, hire, proved>>
    BY <1>19 DEF FinishRecruit
  <2>2. CASE PendingRecruits(r) # {}
    <3> DEFINE t == [staff[r] EXCEPT !.status = "running", !.reason = "none"]
    <3>1. staff' = [staff EXCEPT ![r] = t] /\ purse' = purse
      BY <1>19, <2>2 DEF FinishRecruit
    <3>2. t \in TaskRecord /\ t.status = "running" /\ t.joined = staff[r].joined
      BY <1>2 DEF TaskRecord
    <3>3. ServesScope(t)
      BY <1>2 DEF ServesScope, TaskRecord
    <3> HIDE DEF t
    <3>4. QED BY <1>15, <2>1, <3>1, <3>2, <3>3
  <2>3. CASE PendingRecruits(r) = {}
    <3> DEFINE t == [staff[r] EXCEPT !.status = "ended"]
    <3>1. staff' = [staff EXCEPT ![r] = t]
      BY <1>19, <2>3 DEF FinishRecruit
    <3>2. PICK cost \in 0 .. Price :
              purse' = [spent |-> purse.spent + cost, reserved |-> purse.reserved - Price]
      BY <1>19, <2>3 DEF FinishRecruit
    <3>3. t \in TaskRecord /\ t.status = "ended" /\ t.joined = staff[r].joined
      BY <1>2 DEF TaskRecord
    <3>4. ServesScope(t)
      BY <1>2 DEF ServesScope, TaskRecord
    <3> HIDE DEF t
    <3>5. AtWork' = AtWork \ {r} /\ r \in AtWork
      BY <2>1, <3>1, <3>3, WorkChanges DEF AtWork
    <3>6. IsFiniteSet(AtWork) /\ purse.reserved = Price * Cardinality(AtWork)
      BY DEF RecruitingInv, Reserved
    <3>7. IsFiniteSet(AtWork') /\ Cardinality(AtWork') = Cardinality(AtWork) - 1
      BY <3>5, <3>6, FS_RemoveElement
    <3>8. PICK k \in Nat : Cardinality(AtWork) = k + 1
      <4>1. Cardinality(AtWork) \in Nat /\ Cardinality(AtWork) # 0
        BY <3>5, <3>6, FS_CardinalityType, FS_EmptySet
      <4>2. Cardinality(AtWork) - 1 \in Nat
        BY <4>1
      <4>3. QED BY <4>1, <4>2
    <3>9. purse.reserved = Price * k + Price /\ Price * k \in Nat /\ Price \in Nat
      BY <3>6, <3>8, OneReservation
    <3>10. purse'.reserved = Price * k /\ purse'.spent = purse.spent + cost
      BY <1>1, <3>2, <3>9
    <3>11. purse' \in [spent : Nat, reserved : Nat]
      BY <1>1, <3>2, <3>9
    <3>12. Reserved'
      BY <3>7, <3>8, <3>10 DEF Reserved
    <3>13. QED BY <2>1, <2>3, <3>1, <3>3, <3>4, <3>11, <3>12, TaskMoves DEF Unfinished
  <2>4. QED BY <2>2, <2>3
<1>20. QED
  BY <1>3, <1>5, <1>6, <1>7, <1>8, <1>10, <1>11, <1>12, <1>13, <1>14, <1>16, <1>17, <1>18,
     <1>19 DEF RecruitingNext

\* Whatever becomes of the nodes, however recruits recruit and whoever dies inside a call: a
\* recruit ends as proved only if its own statement had a complete source, and with nothing
\* pending that it waits for.
THEOREM RecruitingSafety == RecruitingSpec => []RecruitingSound
<1>1. RecruitingInv => RecruitingSound
  BY DEF RecruitingInv, RecruitingSound, ProvedMeansItsStatement, ServesScope
<1>2. QED BY <1>1, InitRecruiting, RecruitingKept, PTL DEF RecruitingSpec
-----------------------------------------------------------------------------
(***************************************************************************)
(* The directory                                                           *)
(*                                                                         *)
(* A branch whose profile stood since an agent began to read was shown, or *)
(* its profile comes later in the order of the pages; teams are finite;    *)
(* and a writer at the component's revision has read its present text.     *)
(***************************************************************************)

\* A published profile of the branch that the pages have yet to reach.
ComesLater(b) ==
    \E i \in ProfileId : LatestProfile(b, i) /\ profile[i].published /\ i > browse.position

BrowseCovers ==
    /\ browse.pc = "reading" => \A b \in browse.steady : b \in browse.shown \/ ComesLater(b)
    /\ browse.pc = "read" => browse.steady \subseteq browse.shown

\* A record that is published names the branch that published it.
MembersPublish == \A i \in ProfileId : profile[i].published => profile[i].branch \in Member

TeamsWithin ==
    \A b \in Member : IsFiniteSet(teams[b]) /\ Cardinality(teams[b]) <= TeamLimit

ReadsText(w) ==
    /\ registrar[w].pc = "read" => /\ registrar[w].revision <= component.revision
                                   /\ RevisionHolds(w) => registrar[w].text = component.text
    /\ registrar[w].pc = "done" => w \in component.text

DirectoryInv ==
    /\ DirectoryTypeOK
    /\ MembersPublish
    /\ BrowseCovers
    /\ TeamsWithin
    /\ \A w \in Writer : ReadsText(w)

LEMMA InitDirectory == DirectoryInit => DirectoryInv
<1> SUFFICES ASSUME DirectoryInit PROVE DirectoryInv
  OBVIOUS
<1>1. Cardinality(ProfileId) \in Nat
  BY DirectoryAssumption, FS_CardinalityType
<1>2. 0 \in 0 .. Cardinality(ProfileId) /\ 0 \in 0 .. MaxJoins /\ 0 \in 0 .. MaxRevision
  BY <1>1, DirectoryAssumption
<1>3. NoProfile \in [branch : Member \cup {"none"}, published : BOOLEAN,
                     order : 0 .. Cardinality(ProfileId)]
  BY <1>2 DEF NoProfile
<1>4. DirectoryTypeOK
  BY <1>2, <1>3 DEF DirectoryInit, DirectoryTypeOK, NoBrowse
<1>5. BrowseCovers /\ MembersPublish
  BY DEF DirectoryInit, BrowseCovers, NoBrowse, MembersPublish, NoProfile
<1>6. TeamsWithin
  <2>1. IsFiniteSet({}) /\ Cardinality({}) = 0 /\ 0 <= TeamLimit
    BY FS_EmptySet, DirectoryAssumption
  <2>2. QED BY <2>1 DEF TeamsWithin, DirectoryInit
<1>7. \A w \in Writer : ReadsText(w)
  BY DEF ReadsText, DirectoryInit
<1>8. QED BY <1>4, <1>5, <1>6, <1>7 DEF DirectoryInv

\* Publishing appends a record; it disturbs no other branch's latest one.
LEMMA PublishKept ==
    ASSUME DirectoryInv, NEW b \in Member, NEW i \in ProfileId, NEW published \in BOOLEAN,
           PublishProfile(b, i, published)
    PROVE  DirectoryInv'
<1> DEFINE used == {j \in ProfileId : profile[j] # NoProfile}
<1> DEFINE n == 1 + Cardinality(used)
<1> DEFINE k == [branch |-> b, published |-> published, order |-> n]
<1>1. /\ profile[i] = NoProfile /\ profile' = [profile EXCEPT ![i] = k]
      /\ browse' = [browse EXCEPT !.steady = @ \ {b}]
      /\ UNCHANGED <<teams, joins, component, registrar>>
  BY DEF PublishProfile
<1>2. n \in 0 .. Cardinality(ProfileId)
  <2>1. IsFiniteSet(ProfileId) /\ used \subseteq ProfileId /\ i \notin used
    BY <1>1, DirectoryAssumption
  <2>2. IsFiniteSet(used) /\ used \cup {i} \subseteq ProfileId
    BY <2>1, FS_Subset
  <2>3. /\ Cardinality(used) \in Nat /\ Cardinality(ProfileId) \in Nat
        /\ Cardinality(used \cup {i}) = Cardinality(used) + 1
    BY <2>1, <2>2, FS_AddElement, FS_CardinalityType
  <2>4. Cardinality(used \cup {i}) <= Cardinality(ProfileId)
    BY <2>1, <2>2, FS_Subset
  <2>5. QED BY <2>3, <2>4
<1> HIDE DEF n
<1>3. /\ profile \in [ProfileId -> [branch : Member \cup {"none"}, published : BOOLEAN,
                                    order : 0 .. Cardinality(ProfileId)]]
      /\ browse \in [pc : {"idle", "reading", "read"}, position : ProfileId \cup {0},
                     shown : SUBSET Member, steady : SUBSET Member]
  BY DEF DirectoryInv, DirectoryTypeOK
<1>4. DirectoryTypeOK'
  <2>1. k \in [branch : Member \cup {"none"}, published : BOOLEAN,
               order : 0 .. Cardinality(ProfileId)]
    BY <1>2
  <2>2. profile' \in [ProfileId -> [branch : Member \cup {"none"}, published : BOOLEAN,
                                    order : 0 .. Cardinality(ProfileId)]]
    BY <1>1, <1>3, <2>1
  <2>3. browse' \in [pc : {"idle", "reading", "read"}, position : ProfileId \cup {0},
                     shown : SUBSET Member, steady : SUBSET Member]
    BY <1>1, <1>3
  <2>4. QED BY <1>1, <2>2, <2>3 DEF DirectoryInv, DirectoryTypeOK
<1>5. /\ browse'.pc = browse.pc /\ browse'.shown = browse.shown
      /\ browse'.position = browse.position /\ browse'.steady = browse.steady \ {b}
  BY <1>1, <1>3
<1>6. /\ profile'[i] = k /\ k.branch = b
      /\ \A j \in ProfileId : j # i => profile'[j] = profile[j]
  BY <1>1, <1>3
<1> HIDE DEF k
<1>7. ASSUME NEW c \in Member, c # b, ComesLater(c) PROVE ComesLater(c)'
  <2>1. PICK j \in ProfileId : LatestProfile(c, j) /\ profile[j].published /\ j > browse.position
    BY <1>7 DEF ComesLater
  <2>2. j # i
    BY <1>1, <2>1 DEF NoProfile
  <2>3. LatestProfile(c, j)'
    BY <1>6, <1>7, <2>1, <2>2 DEF LatestProfile
  <2>4. QED BY <1>5, <1>6, <2>1, <2>2, <2>3 DEF ComesLater
<1>8. BrowseCovers'
  <2>1. browse'.steady \subseteq Member
    BY <1>3, <1>5
  <2>2. QED BY <1>5, <1>7, <2>1 DEF DirectoryInv, BrowseCovers
<1>9. TeamsWithin' /\ (\A w \in Writer : ReadsText(w))'
  BY <1>1 DEF DirectoryInv, TeamsWithin, ReadsText, RevisionHolds
<1>10. MembersPublish'
  BY <1>6 DEF DirectoryInv, MembersPublish
<1>11. QED BY <1>4, <1>8, <1>9, <1>10 DEF DirectoryInv

\* Memberships change within the limit.
LEMMA TeamsKept ==
    ASSUME DirectoryInv, NEW b \in Member, NEW team \in TeamName,
           JoinTeam(b, team) \/ LeaveTeam(b, team)
    PROVE  DirectoryInv'
<1> DEFINE now == IF JoinTeam(b, team) THEN teams[b] \cup {team} ELSE teams[b] \ {team}
<1>1. teams \in [Member -> SUBSET TeamName] /\ joins \in 0 .. MaxJoins /\ MaxJoins \in Nat
  BY DirectoryAssumption DEF DirectoryInv, DirectoryTypeOK
<1>2. /\ teams' = [teams EXCEPT ![b] = now] /\ joins' = joins + 1 /\ joins < MaxJoins
      /\ UNCHANGED <<profile, browse, component, registrar>>
  BY DEF JoinTeam, LeaveTeam
<1>3. now \subseteq TeamName
  BY <1>1
<1>4. IsFiniteSet(teams[b]) /\ Cardinality(teams[b]) <= TeamLimit /\ TeamLimit \in Nat
  BY DirectoryAssumption DEF DirectoryInv, TeamsWithin
<1>5. IsFiniteSet(now) /\ Cardinality(now) <= TeamLimit
  <2>1. Cardinality(teams[b]) \in Nat
    BY <1>4, FS_CardinalityType
  <2>2. CASE JoinTeam(b, team)
    <3>1. now = teams[b] \cup {team} /\ MayJoin(b, team)
      BY <2>2 DEF JoinTeam
    <3>2. CASE team \in teams[b]
      <4>1. now = teams[b]
        BY <3>1, <3>2
      <4>2. QED BY <1>4, <4>1
    <3>3. CASE team \notin teams[b]
      <4>1. Cardinality(teams[b]) < TeamLimit
        BY <3>1, <3>3 DEF MayJoin
      <4>2. IsFiniteSet(now) /\ Cardinality(now) = Cardinality(teams[b]) + 1
        BY <1>4, <3>1, <3>3, FS_AddElement
      <4>3. QED BY <1>4, <2>1, <4>1, <4>2
    <3>4. QED BY <3>2, <3>3
  <2>3. CASE ~JoinTeam(b, team)
    <3>1. now \subseteq teams[b]
      BY <2>3
    <3>2. IsFiniteSet(now) /\ Cardinality(now) <= Cardinality(teams[b])
      BY <1>4, <3>1, FS_Subset
    <3>3. Cardinality(now) \in Nat
      BY <3>2, FS_CardinalityType
    <3>4. QED BY <1>4, <2>1, <3>2, <3>3
  <2>4. QED BY <2>2, <2>3
<1> HIDE DEF now
<1>6. /\ teams' \in [Member -> SUBSET TeamName] /\ teams'[b] = now
      /\ \A c \in Member : c # b => teams'[c] = teams[c]
  BY <1>1, <1>2, <1>3
<1>7. TeamsWithin'
  BY <1>5, <1>6 DEF DirectoryInv, TeamsWithin
<1>8. joins' \in 0 .. MaxJoins
  BY <1>1, <1>2
<1>9. DirectoryTypeOK'
  BY <1>2, <1>6, <1>8 DEF DirectoryInv, DirectoryTypeOK
<1>10. MembersPublish' /\ BrowseCovers' /\ (\A w \in Writer : ReadsText(w))'
  BY <1>2 DEF DirectoryInv, MembersPublish, BrowseCovers, ComesLater, LatestProfile,
             ReadsText, RevisionHolds
<1>11. QED BY <1>7, <1>9, <1>10 DEF DirectoryInv

\* A registration replaces the text that it builds on, or is refused.
LEMMA RegistryKept ==
    ASSUME DirectoryInv, NEW w \in Writer, ReadComponent(w) \/ RegisterComponent(w)
    PROVE  DirectoryInv'
<1> DEFINE RegRecord == [pc : {"new", "read", "done", "conflict"}, revision : 0 .. MaxRevision,
                         text : SUBSET Writer]
<1>1. /\ component \in [revision : 0 .. MaxRevision, text : SUBSET Writer]
      /\ registrar \in [Writer -> RegRecord] /\ MaxRevision \in Nat
  BY DirectoryAssumption DEF DirectoryInv, DirectoryTypeOK
<1>2. /\ component.revision \in 0 .. MaxRevision /\ component.text \subseteq Writer
      /\ registrar[w] \in RegRecord /\ \A v \in Writer : ReadsText(v)
  BY <1>1 DEF DirectoryInv
<1>3. UNCHANGED <<profile, teams, joins, browse>>
  BY DEF ReadComponent, RegisterComponent
<1>4. MembersPublish' /\ BrowseCovers' /\ TeamsWithin'
  BY <1>3 DEF DirectoryInv, MembersPublish, BrowseCovers, ComesLater, LatestProfile, TeamsWithin
\* The writer's own record changes.
<1>5. ASSUME NEW k \in RegRecord, registrar' = [registrar EXCEPT ![w] = k],
             component' \in [revision : 0 .. MaxRevision, text : SUBSET Writer],
             ReadsText(w)',
             \A v \in Writer : v # w /\ registrar'[v] = registrar[v] => ReadsText(v)'
      PROVE  DirectoryInv'
  <2>1. registrar' \in [Writer -> RegRecord]
    BY <1>1, <1>5
  <2>2. \A v \in Writer : v # w => registrar'[v] = registrar[v]
    BY <1>1, <1>5
  <2>3. (\A v \in Writer : ReadsText(v))'
    BY <1>5, <2>2
  <2>4. DirectoryTypeOK'
    BY <1>3, <1>5, <2>1 DEF DirectoryInv, DirectoryTypeOK
  <2>5. QED BY <1>4, <2>3, <2>4 DEF DirectoryInv
<1>6. CASE ReadComponent(w)
  <2> DEFINE k == [pc |-> "read", revision |-> component.revision, text |-> component.text]
  <2>1. k \in RegRecord
    BY <1>2
  <2>2. registrar' = [registrar EXCEPT ![w] = k] /\ component' = component
    BY <1>6 DEF ReadComponent
  <2>3. registrar'[w] = k
    BY <1>1, <2>2
  <2>4. component.revision <= component.revision
    BY <1>2
  <2>5. ReadsText(w)'
    BY <2>2, <2>3, <2>4 DEF ReadsText
  <2>6. \A v \in Writer : v # w /\ registrar'[v] = registrar[v] => ReadsText(v)'
    BY <1>2, <2>2 DEF ReadsText, RevisionHolds
  <2>7. QED BY <1>1, <1>5, <2>1, <2>2, <2>5, <2>6
<1>7. CASE RegisterComponent(w)
  <2>1. registrar[w].pc = "read"
    BY <1>7 DEF RegisterComponent
  <2>2. CASE ~(RevisionHolds(w) /\ component.revision < MaxRevision)
    <3> DEFINE k == [registrar[w] EXCEPT !.pc = "conflict"]
    <3>1. k \in RegRecord /\ k.pc = "conflict"
      BY <1>2
    <3>2. registrar' = [registrar EXCEPT ![w] = k] /\ component' = component
      BY <1>7, <2>2 DEF RegisterComponent
    <3> HIDE DEF k
    <3>3. registrar'[w] = k
      BY <1>1, <3>2
    <3>4. ReadsText(w)'
      BY <3>1, <3>3 DEF ReadsText
    <3>5. \A v \in Writer : v # w /\ registrar'[v] = registrar[v] => ReadsText(v)'
      BY <1>2, <3>2 DEF ReadsText, RevisionHolds
    <3>6. QED BY <1>1, <1>5, <3>1, <3>2, <3>4, <3>5
  <2>3. CASE RevisionHolds(w) /\ component.revision < MaxRevision
    <3> DEFINE k == [registrar[w] EXCEPT !.pc = "done"]
    <3>1. k \in RegRecord /\ k.pc = "done"
      BY <1>2
    <3>2. /\ registrar' = [registrar EXCEPT ![w] = k]
          /\ component' = [revision |-> component.revision + 1,
                           text |-> registrar[w].text \cup {w}]
      BY <1>7, <2>3 DEF RegisterComponent
    <3> HIDE DEF k
    <3>3. registrar[w].text = component.text
      BY <1>2, <2>1, <2>3 DEF ReadsText
    <3>4. /\ component'.revision = component.revision + 1
          /\ component'.text = component.text \cup {w}
      BY <3>2, <3>3
    <3>5. component' \in [revision : 0 .. MaxRevision, text : SUBSET Writer]
      <4>1. component.revision + 1 \in 0 .. MaxRevision
        BY <1>1, <1>2, <2>3
      <4>2. registrar[w].text \cup {w} \in SUBSET Writer
        BY <1>2, <3>3
      <4>3. QED BY <3>2, <4>1, <4>2
    <3>6. registrar'[w] = k
      BY <1>1, <3>2
    <3>7. ReadsText(w)'
      BY <3>1, <3>4, <3>6 DEF ReadsText
    <3>8. ASSUME NEW v \in Writer, v # w, registrar'[v] = registrar[v] PROVE ReadsText(v)'
      <4>1. registrar[v].revision \in Nat /\ component.revision \in Nat
        BY <1>1, <1>2
      <4>2. ReadsText(v)
        BY <1>2
      <4>3. registrar[v].pc = "read" => registrar[v].revision < component'.revision
        BY <3>4, <4>1, <4>2 DEF ReadsText
      <4>4. registrar[v].pc = "read" => /\ registrar[v].revision <= component'.revision
                                        /\ registrar[v].revision # component'.revision
        BY <3>4, <4>1, <4>3
      <4>5. QED BY <3>4, <3>8, <4>2, <4>4 DEF ReadsText, RevisionHolds
    <3>9. QED BY <1>1, <1>5, <3>1, <3>2, <3>5, <3>7, <3>8
  <2>4. QED BY <2>2, <2>3
<1>8. QED BY <1>6, <1>7

\* A page holds the first of the records that come after the position.
LEMMA ScannedFirst ==
    /\ ScannedProfiles \subseteq ProfilesAfter /\ IsFiniteSet(ScannedProfiles)
    /\ \A i \in ProfilesAfter, s \in ScannedProfiles : i <= s => i \in ScannedProfiles
    /\ ProfilesAfter # {} => ScannedProfiles # {}
    /\ Cardinality(ScannedProfiles) <= DirectoryScan
<1> DEFINE After == ProfilesAfter
<1> DEFINE UpTo(i) == {j \in After : j <= i}
<1> DEFINE Above(i) == {j \in After : j < i /\ Listed(j)}
<1>1. After \subseteq ProfileId /\ After \subseteq Nat /\ IsFiniteSet(After)
  <2>1. After \subseteq ProfileId
    BY DEF ProfilesAfter
  <2>2. QED BY <2>1, DirectoryAssumption, FS_Subset
<1>2. \A i \in ProfileId : /\ IsFiniteSet(UpTo(i)) /\ Cardinality(UpTo(i)) \in Nat
                           /\ IsFiniteSet(Above(i)) /\ Cardinality(Above(i)) \in Nat
  BY <1>1, FS_Subset, FS_CardinalityType
<1>3. ScannedProfiles = {i \in After : /\ Cardinality(UpTo(i)) <= DirectoryScan
                                       /\ Cardinality(Above(i)) < DirectoryLimit}
  BY DEF ScannedProfiles
<1>4. DirectoryScan \in Nat /\ DirectoryScan > 0 /\ DirectoryLimit \in Nat /\ DirectoryLimit > 0
  BY DirectoryAssumption
<1>5. ScannedProfiles \subseteq After /\ IsFiniteSet(ScannedProfiles)
  BY <1>1, <1>3, FS_Subset
<1>6. ASSUME NEW i \in After, NEW s \in ScannedProfiles, i <= s PROVE i \in ScannedProfiles
  <2>1. s \in After /\ i \in Nat /\ s \in Nat /\ i \in ProfileId /\ s \in ProfileId
    BY <1>1, <1>3
  <2>2. UpTo(i) \subseteq UpTo(s) /\ Above(i) \subseteq Above(s)
    <3>1. \A j \in After : j \in Nat /\ (j <= i => j <= s) /\ (j < i => j < s)
      BY <1>1, <1>6, <2>1
    <3>2. QED BY <3>1
  <2>3. /\ Cardinality(UpTo(i)) <= Cardinality(UpTo(s))
        /\ Cardinality(Above(i)) <= Cardinality(Above(s))
    BY <1>2, <2>1, <2>2, FS_Subset
  <2>4. Cardinality(UpTo(s)) <= DirectoryScan /\ Cardinality(Above(s)) < DirectoryLimit
    BY <1>3
  <2>5. QED
    <3> HIDE DEF After, UpTo, Above
    <3>1. /\ Cardinality(UpTo(i)) \in Nat /\ Cardinality(UpTo(s)) \in Nat
          /\ Cardinality(Above(i)) \in Nat /\ Cardinality(Above(s)) \in Nat
      BY <1>2, <2>1
    <3>2. Cardinality(UpTo(i)) <= DirectoryScan /\ Cardinality(Above(i)) < DirectoryLimit
      BY <1>4, <2>3, <2>4, <3>1
    <3>3. QED BY <1>3, <1>6, <3>2
<1>7. ASSUME After # {} PROVE ScannedProfiles # {}
  <2>1. PICK m \in After : \A j \in After : m <= j
    BY <1>1, <1>7, LeastOfNat
  <2>2. UpTo(m) = {m} /\ Above(m) = {}
    <3>1. \A j \in After : j \in Nat /\ m \in Nat /\ (j <= m => j = m) /\ ~(j < m)
      BY <1>1, <2>1
    <3>2. m <= m
      BY <2>1
    <3>3. QED BY <3>1, <3>2
  <2>3. Cardinality({m}) = 1 /\ Cardinality({}) = 0
    BY FS_Singleton, FS_EmptySet
  <2>4. Cardinality(UpTo(m)) <= DirectoryScan /\ Cardinality(Above(m)) < DirectoryLimit
    BY <1>4, <2>2, <2>3
  <2>5. QED BY <1>3, <2>4
<1>8. Cardinality(ScannedProfiles) <= DirectoryScan
  <2>1. CASE ScannedProfiles = {}
    BY <1>4, <2>1, FS_EmptySet
  <2>2. CASE ScannedProfiles # {}
    <3>1. ScannedProfiles \in SUBSET Nat
      BY <1>1, <1>5
    <3>2. PICK m \in ScannedProfiles : \A j \in ScannedProfiles : j <= m
      BY <1>5, <2>2, <3>1, LargestOfFinite
    <3>3. ScannedProfiles \subseteq UpTo(m)
      BY <1>5, <3>2
    <3>4. m \in ProfileId
      BY <1>1, <1>5
    <3>5. Cardinality(ScannedProfiles) <= Cardinality(UpTo(m))
      BY <1>2, <3>3, <3>4, FS_Subset
    <3>6. Cardinality(UpTo(m)) <= DirectoryScan
      BY <1>3
    <3>7. Cardinality(ScannedProfiles) \in Nat /\ Cardinality(UpTo(m)) \in Nat
      BY <1>2, <1>5, <3>4, FS_CardinalityType
    <3> HIDE DEF UpTo
    <3>8. QED BY <1>4, <3>5, <3>6, <3>7
  <2>3. QED BY <2>1, <2>2
<1>9. QED BY <1>5, <1>6, <1>7, <1>8

\* The agent starts to read, or reads one page.
LEMMA BrowseKept ==
    ASSUME DirectoryInv, Browse \/ DirectoryPage
    PROVE  DirectoryInv'
<1> DEFINE BrowseRecord == [pc : {"idle", "reading", "read"}, position : ProfileId \cup {0},
                            shown : SUBSET Member, steady : SUBSET Member]
<1>1. /\ browse \in BrowseRecord
      /\ \A i \in ProfileId : profile[i] \in [branch : Member \cup {"none"}, published : BOOLEAN,
                                              order : 0 .. Cardinality(ProfileId)]
  BY DEF DirectoryInv, DirectoryTypeOK
<1>2. UNCHANGED <<profile, teams, joins, component, registrar>>
  BY DEF Browse, DirectoryPage
<1>3. MembersPublish' /\ TeamsWithin' /\ (\A w \in Writer : ReadsText(w))'
  BY <1>2 DEF DirectoryInv, MembersPublish, TeamsWithin, ReadsText, RevisionHolds
<1>4. SUFFICES browse' \in BrowseRecord /\ BrowseCovers'
  BY <1>2, <1>3 DEF DirectoryInv, DirectoryTypeOK
<1>5. CASE Browse
  <2> DEFINE steady == {b \in Member : Published(b)}
  <2>1. browse' = [pc |-> "reading", position |-> 0, shown |-> {}, steady |-> steady]
    BY <1>5 DEF Browse, NoBrowse
  <2>2. browse' \in BrowseRecord
    BY <2>1
  <2>3. ASSUME NEW b \in steady PROVE ComesLater(b)'
    <3>1. PICK i \in ProfileId : LatestProfile(b, i) /\ profile[i].published
      BY <2>3 DEF Published
    <3>2. \A j \in Nat \ {0} : j > 0
      OBVIOUS
    <3>3. i > 0
      BY <3>2, DirectoryAssumption
    <3>4. LatestProfile(b, i)'
      BY <1>2, <3>1 DEF LatestProfile
    <3>5. QED BY <1>2, <2>1, <3>1, <3>3, <3>4 DEF ComesLater
  <2> HIDE DEF steady
  <2>4. QED BY <2>1, <2>2, <2>3 DEF BrowseCovers
<1>6. CASE DirectoryPage
  <2> DEFINE page == ScannedProfiles
  <2> DEFINE left == Cardinality(ProfilesAfter)
  <2> DEFINE most == Min({DirectoryScan + 1, left})
  <2> DEFINE more == Cardinality(page) < most
  <2> DEFINE shown == browse.shown \cup {profile[i].branch : i \in {i \in page : Listed(i)}}
  <2> DEFINE position == IF more THEN Max(page) ELSE browse.position
  <2> DEFINE pc == IF more THEN "reading" ELSE "read"
  <2>1. /\ browse.pc = "reading"
        /\ browse' = [browse EXCEPT !.shown = shown, !.pc = pc, !.position = position]
    BY <1>6 DEF DirectoryPage
  <2>2. /\ page \subseteq ProfilesAfter /\ IsFiniteSet(page)
        /\ \A i \in ProfilesAfter, s \in page : i <= s => i \in page
        /\ ProfilesAfter # {} => page # {}
        /\ Cardinality(page) <= DirectoryScan
    BY ScannedFirst
  <2>3. /\ ProfilesAfter \subseteq ProfileId /\ IsFiniteSet(ProfilesAfter)
        /\ ProfileId \subseteq Nat /\ page \in SUBSET Nat
    <3>1. ProfilesAfter \subseteq ProfileId
      BY DEF ProfilesAfter
    <3>2. QED BY <2>2, <3>1, DirectoryAssumption, FS_Subset
  <2>4. /\ left \in Nat /\ Cardinality(page) \in Nat /\ DirectoryScan \in Nat
        /\ DirectoryScan + 1 \in Nat
    BY <2>2, <2>3, DirectoryAssumption, FS_CardinalityType
  <2>5. most \in {DirectoryScan + 1, left} /\ most <= left
    BY <2>4, LeastOfNat
  <2>6. ASSUME more PROVE Max(page) \in page /\ \A i \in page : i <= Max(page)
    <3>1. left # 0
      BY <2>4, <2>5, <2>6
    <3>2. page # {}
      BY <2>2, <3>1, FS_EmptySet
    <3>3. QED BY <2>2, <2>3, <3>2, LargestOfFinite
  <2>7. ASSUME ~more PROVE page = ProfilesAfter
    <3>1. Cardinality(page) >= left
      <4>1. most = left \/ most = DirectoryScan + 1
        BY <2>5
      <4>2. ~(DirectoryScan >= DirectoryScan + 1)
        BY <2>4
      <4> HIDE DEF most, left, page
      <4>3. QED BY <2>2, <2>4, <2>7, <4>1, <4>2
    <3>2. Cardinality(page) <= left /\ (left = Cardinality(page) => page = ProfilesAfter)
      BY <2>2, <2>3, FS_Subset
    <3>3. left = Cardinality(page)
      BY <2>4, <3>1, <3>2
    <3>4. QED BY <3>2, <3>3
  <2>8. position \in ProfileId \cup {0}
    BY <1>1, <2>2, <2>3, <2>6
  <2>9. shown \in SUBSET Member
    <3>1. \A i \in page : Listed(i) => profile[i].branch \in Member
      BY <2>2, <2>3 DEF Listed, DirectoryInv, MembersPublish
    <3>2. QED BY <1>1, <3>1
  <2>10. pc \in {"reading", "read"}
    OBVIOUS
  <2>11. ASSUME NEW b \in browse.steady
         PROVE  b \in shown \/ (more /\ \E i \in ProfileId : /\ LatestProfile(b, i)
                                                            /\ profile[i].published
                                                            /\ i > position)
    <3>1. CASE b \in browse.shown
      BY <3>1
    <3>2. CASE b \notin browse.shown
      <4>1. PICK i \in ProfileId : /\ LatestProfile(b, i) /\ profile[i].published
                                   /\ i > browse.position
        BY <2>1, <3>2 DEF DirectoryInv, BrowseCovers, ComesLater
      <4>2. profile[i].branch = b /\ Listed(i) /\ i \in ProfilesAfter
        BY <4>1 DEF LatestProfile, Listed, ProfilesAfter, NoProfile
      <4>3. CASE i \in page
        BY <4>2, <4>3
      <4>4. CASE i \notin page
        <5>1. more
          BY <2>7, <4>2, <4>4
        <5>2. Max(page) \in page /\ ~(i <= Max(page))
          BY <2>2, <2>6, <4>2, <4>4, <5>1
        <5>3. i \in Nat /\ Max(page) \in Nat
          BY <2>3, <5>2
        <5>4. i > Max(page)
          BY <5>2, <5>3
        <5>5. QED BY <4>1, <5>1, <5>4
      <4>5. QED BY <4>3, <4>4
    <3>3. QED BY <3>1, <3>2
  <2>12. (more => pc = "reading") /\ (~more => pc = "read")
    OBVIOUS
  <2> HIDE DEF shown, position, pc, page, left, most, more
  <2>13. /\ browse' \in BrowseRecord /\ browse'.pc = pc /\ browse'.shown = shown
         /\ browse'.position = position /\ browse'.steady = browse.steady
    BY <1>1, <2>1, <2>8, <2>9, <2>10
  <2>14. pc = "reading" => \A b \in browse.steady : b \in shown \/ ComesLater(b)'
    BY <1>2, <2>11, <2>13 DEF ComesLater, LatestProfile
  <2>15. pc = "read" => browse.steady \subseteq shown
    <3>1. pc = "read" => ~more
      BY DEF pc
    <3>2. QED BY <2>11, <3>1
  <2>16. QED BY <2>13, <2>14, <2>15 DEF BrowseCovers
<1>7. QED BY <1>5, <1>6

LEMMA DirectoryKept == DirectoryInv /\ [DirectoryNext]_directoryVars => DirectoryInv'
<1> SUFFICES ASSUME DirectoryInv, [DirectoryNext]_directoryVars PROVE DirectoryInv'
  OBVIOUS
<1>1. CASE UNCHANGED directoryVars
  BY <1>1 DEF directoryVars, DirectoryInv, DirectoryTypeOK, MembersPublish, BrowseCovers,
              ComesLater, LatestProfile, TeamsWithin, ReadsText, RevisionHolds
<1>2. CASE ProfilesNext
  BY <1>2, BrowseKept, PublishKept DEF ProfilesNext
<1>3. CASE TeamsNext
  BY <1>3, TeamsKept DEF TeamsNext
<1>4. CASE RegistryNext
  BY <1>4, RegistryKept DEF RegistryNext
<1>5. QED BY <1>1, <1>2, <1>3, <1>4 DEF DirectoryNext

\* Whatever branches publish, withdraw and join while an agent pages through the directory,
\* for any page and scan limits: it is shown every branch whose published profile stood, no
\* branch is in more teams than allowed, and no accepted registration is dropped.
THEOREM DirectorySafety == DirectorySpec => []DirectorySound
<1>1. DirectoryInv => DirectorySound
  BY DEF DirectoryInv, DirectorySound, BrowseCovers, TeamsWithin, ReadsText
<1>2. QED BY <1>1, InitDirectory, DirectoryKept, PTL DEF DirectorySpec
-----------------------------------------------------------------------------
(* What a function that walks along an interval computes. *)

\* A statement about the places of an interval that holds at the first of them and at
\* the next one after each holds at all of them.
LEMMA AlongInterval ==
    ASSUME NEW a \in Nat, NEW b \in Nat, NEW S \in SUBSET (a .. b), a <= b, a \in S,
           \A i \in a + 1 .. b : i - 1 \in S => i \in S
    PROVE  \A i \in a .. b : i \in S
<1> SUFFICES ASSUME NEW i \in a .. b, i \notin S PROVE FALSE
  OBVIOUS
<1> DEFINE R == (a .. b) \ S
<1>1. PICK x \in R : \A y \in R : x <= y
  <2>1. R \in SUBSET Nat /\ R # {}
    OBVIOUS
  <2>2. QED BY <2>1, LeastOfNat
<1>2. x \in a + 1 .. b /\ x - 1 \in a .. b
  BY <1>1
<1>3. x - 1 \notin R
  BY <1>1, <1>2
<1>4. QED BY <1>1, <1>2, <1>3

\* The functions on an interval that start at x and go on from place to place by g.
Walks(S, x, a, b, g) ==
    {f \in [a .. b -> S] : f[a] = x /\ \A i \in a + 1 .. b : f[i] = g[<<i, f[i - 1]>>]}

\* There is one.
LEMMA WalkExists ==
    ASSUME NEW S, NEW x \in S, NEW a \in Nat, NEW b \in Nat, a <= b,
           NEW g \in [(a .. b) \X S -> S]
    PROVE  Walks(S, x, a, b, g) # {}
<1> DEFINE Walk(f, n) == /\ f \in [a .. n -> S] /\ f[a] = x
                         /\ \A i \in a + 1 .. n : f[i] = g[<<i, f[i - 1]>>]
           Good == {n \in a .. b : \E f \in [a .. n -> S] : Walk(f, n)}
<1>1. a \in Good
  <2>1. [i \in a .. a |-> x] \in [a .. a -> S] /\ Walk([i \in a .. a |-> x], a)
    OBVIOUS
  <2> HIDE DEF Walk
  <2>2. a \in a .. b
    OBVIOUS
  <2>3. QED BY <2>1, <2>2
<1>2. ASSUME NEW n \in a + 1 .. b, n - 1 \in Good
      PROVE  n \in Good
  <2>1. PICK f \in [a .. n - 1 -> S] : Walk(f, n - 1)
    BY <1>2
  <2> DEFINE h == [i \in a .. n |-> IF i = n THEN g[<<n, f[n - 1]>>] ELSE f[i]]
  <2>2. n - 1 \in a .. n - 1 /\ n \notin a .. n - 1 /\ n \in a .. n
    OBVIOUS
  <2>3. h \in [a .. n -> S]
    <3>1. g[<<n, f[n - 1]>>] \in S
      BY <2>2
    <3>2. \A i \in a .. n : i # n => i \in a .. n - 1
      OBVIOUS
    <3>3. QED BY <3>1, <3>2
  <2>4. h[a] = x
    BY <2>1, <2>2
  <2>5. ASSUME NEW i \in a + 1 .. n
        PROVE  h[i] = g[<<i, h[i - 1]>>]
    <3>1. i \in a .. n /\ i - 1 \in a .. n - 1 /\ i - 1 \in a .. n /\ i - 1 # n
      OBVIOUS
    <3>2. h[i - 1] = f[i - 1]
      BY <3>1
    <3>3. CASE i = n
      BY <3>1, <3>2, <3>3
    <3>4. CASE i # n
      <4>1. i \in a + 1 .. n - 1
        BY <3>4
      <4>2. f[i] = g[<<i, f[i - 1]>>]
        BY <2>1, <4>1
      <4>3. h[i] = f[i]
        BY <3>1, <3>4
      <4>4. QED BY <3>2, <4>2, <4>3
    <3>5. QED BY <3>3, <3>4
  <2> HIDE DEF h
  <2>6. Walk(h, n)
    BY <2>3, <2>4, <2>5
  <2>7. QED BY <2>3, <2>6
<1>3. b \in Good
  <2> HIDE DEF Good
  <2>1. Good \in SUBSET (a .. b)
    BY DEF Good
  <2>2. \A i \in a .. b : i \in Good
    BY <1>1, <1>2, <2>1, AlongInterval
  <2>3. QED BY <2>2
<1>4. PICK f \in [a .. b -> S] : Walk(f, b)
  BY <1>3
<1>5. QED BY <1>4 DEF Walks

-----------------------------------------------------------------------------
(* The schedule of syntheses. *)

\* What a synthesis covers.
SynthesisEntries == [sample : Seq(Nat), count : Nat]

\* The total is a walk along the syntheses.
LEMMA TotalWalks ==
    ASSUME NEW s \in Seq(SynthesisEntries)
    PROVE  \E f \in [0 .. Len(s) -> Nat] :
              /\ TotalOf(s) = f[Len(s)] /\ f[0] = 0
              /\ \A k \in 1 .. Len(s) : f[k] = f[k - 1] + s[k].count
<1> DEFINE n == Len(s)
           total == CHOOSE total : total = [k \in 0 .. Len(s) |->
                        IF k = 0 THEN 0 ELSE total[k - 1] + s[k].count]
           g == [p \in (0 .. n) \X Nat |-> IF p[1] = 0 THEN 0 ELSE p[2] + s[p[1]].count]
<1>1. n \in Nat /\ \A k \in 1 .. n : s[k].count \in Nat
  <2>1. n \in Nat /\ \A k \in 1 .. n : s[k] \in SynthesisEntries
    OBVIOUS
  <2>2. QED BY <2>1 DEF SynthesisEntries
<1>2. TotalOf(s) = total[n]
  BY DEF TotalOf
<1>3. g \in [(0 .. n) \X Nat -> Nat]
  <2>1. \A k \in 0 .. n : k # 0 => k \in 1 .. n
    BY <1>1
  <2> HIDE DEF n
  <2>2. QED BY <1>1, <2>1
<1> HIDE DEF n
<1>4. PICK f \in [0 .. n -> Nat] : f[0] = 0 /\ \A k \in 0 + 1 .. n : f[k] = g[<<k, f[k - 1]>>]
  <2> HIDE DEF g
  <2>1. PICK z \in Nat : z = 0
    OBVIOUS
  <2>2. PICK N : N = Nat
    OBVIOUS
  <2>3. n \in Nat /\ z <= n /\ z \in N /\ g \in [(z .. n) \X N -> N]
    BY <1>1, <1>3, <2>1, <2>2
  <2>4. Walks(N, z, z, n, g) # {}
    BY <2>3, WalkExists
  <2>5. PICK f \in Walks(N, z, z, n, g) : TRUE
    BY <2>4
  <2>6. QED BY <2>1, <2>2, <2>5 DEF Walks
<1>5. \A k \in 1 .. n : f[k] = f[k - 1] + s[k].count
  <2>1. \A k \in 1 .. n : k - 1 \in 0 .. n /\ k \in 0 + 1 .. n
    BY <1>1
  <2>2. ASSUME NEW k \in 1 .. n
        PROVE  g[<<k, f[k - 1]>>] = f[k - 1] + s[k].count
    <3>1. <<k, f[k - 1]>> \in (0 .. n) \X Nat /\ k # 0
      BY <1>1
    <3>2. QED BY <3>1
  <2> HIDE DEF g
  <2>3. QED BY <1>4, <2>1, <2>2
<1>6. f = [k \in 0 .. n |-> IF k = 0 THEN 0 ELSE f[k - 1] + s[k].count]
  <2>1. \A k \in 0 .. n : k # 0 => k \in 1 .. n
    BY <1>1
  <2>2. QED BY <1>4, <1>5, <2>1
<1>7. total = [k \in 0 .. n |-> IF k = 0 THEN 0 ELSE total[k - 1] + s[k].count]
  BY <1>6 DEF n
<1> HIDE DEF total, g
<1>8. \A k \in 0 .. n : total[k] = f[k]
  <2>1. \A k \in 0 + 1 .. n : k \in 0 .. n /\ k \in 1 .. n /\ k # 0
    BY <1>1
  <2>2. \A k \in 0 + 1 .. n : total[k] = total[k - 1] + s[k].count
    BY <1>7, <2>1
  <2>3. total[0] = 0
    BY <1>1, <1>7
  <2>4. \A k \in 0 + 1 .. n : total[k - 1] = f[k - 1] => total[k] = f[k]
    BY <1>5, <2>1, <2>2
  <2> DEFINE A == {k \in 0 .. n : total[k] = f[k]}
  <2>5. PICK z \in Nat : z = 0
    OBVIOUS
  <2>6. /\ n \in Nat /\ z <= n /\ A \in SUBSET (z .. n) /\ z \in A
        /\ \A k \in z + 1 .. n : k - 1 \in A => k \in A
    BY <1>1, <1>4, <2>3, <2>4, <2>5
  <2> HIDE DEF A
  <2>7. \A k \in z .. n : k \in A
    BY <2>6, AlongInterval
  <2>8. QED BY <2>5, <2>7 DEF A
<1>9. QED BY <1>1, <1>2, <1>4, <1>5, <1>8 DEF n

\* One more synthesis adds its count.
LEMMA TotalAppend ==
    ASSUME NEW s \in Seq(SynthesisEntries), NEW x \in SynthesisEntries
    PROVE  TotalOf(Append(s, x)) = TotalOf(s) + x.count
<1> DEFINE t == Append(s, x)
<1>1. /\ t \in Seq(SynthesisEntries) /\ Len(t) = Len(s) + 1 /\ Len(s) \in Nat
      /\ \A i \in 1 .. Len(s) : t[i] = s[i]
      /\ t[Len(s) + 1] = x
  BY AppendProperties
<1> HIDE DEF t
<1>2. PICK f \in [0 .. Len(s) -> Nat] :
         /\ TotalOf(s) = f[Len(s)] /\ f[0] = 0
         /\ \A k \in 1 .. Len(s) : f[k] = f[k - 1] + s[k].count
  BY TotalWalks
<1>3. PICK h \in [0 .. Len(t) -> Nat] :
         /\ TotalOf(t) = h[Len(t)] /\ h[0] = 0
         /\ \A k \in 1 .. Len(t) : h[k] = h[k - 1] + t[k].count
  BY <1>1, TotalWalks
<1>4. \A k \in 0 .. Len(s) : f[k] = h[k]
  <2>1. ASSUME NEW k \in 0 + 1 .. Len(s), f[k - 1] = h[k - 1]
        PROVE  f[k] = h[k]
    <3>1. k \in 1 .. Len(s) /\ k \in 1 .. Len(t)
      BY <1>1
    <3>2. QED BY <1>1, <1>2, <1>3, <2>1, <3>1
  <2> DEFINE A == {k \in 0 .. Len(s) : f[k] = h[k]}
  <2>2. PICK z \in Nat : z = 0
    OBVIOUS
  <2>3. /\ Len(s) \in Nat /\ z <= Len(s) /\ A \in SUBSET (z .. Len(s)) /\ z \in A
        /\ \A k \in z + 1 .. Len(s) : k - 1 \in A => k \in A
    BY <1>1, <1>2, <1>3, <2>1, <2>2
  <2> HIDE DEF A
  <2>4. \A k \in z .. Len(s) : k \in A
    BY <2>3, AlongInterval
  <2>5. QED BY <2>2, <2>4 DEF A
<1>5. h[Len(t)] = h[Len(s)] + x.count
  <2>1. Len(t) \in 1 .. Len(t) /\ Len(t) - 1 = Len(s)
    BY <1>1
  <2>2. h[Len(t)] = h[Len(t) - 1] + t[Len(t)].count
    BY <1>3, <2>1
  <2>3. QED BY <1>1, <2>1, <2>2
<1>6. QED
  <2>1. Len(s) \in 0 .. Len(s)
    BY <1>1
  <2>2. QED BY <1>2, <1>3, <1>4, <1>5, <2>1 DEF t

\* No synthesis adds up to nothing.
LEMMA TotalOfNone ==
    TotalOf(<<>>) = 0
<1>1. <<>> \in Seq(SynthesisEntries) /\ Len(<<>>) = 0
  OBVIOUS
<1>2. PICK f \in [0 .. Len(<<>>) -> Nat] : TotalOf(<<>>) = f[Len(<<>>)] /\ f[0] = 0
  BY <1>1, TotalWalks
<1>3. QED BY <1>1, <1>2

\* Posts as records.
PostSet ==
    [topic : Topic, branched : BOOLEAN, state : Poster \cup {"committed", "rolled_back"}]

\* The eligible posts committed after place a and up to place b, and their topics.
PassedIn(a, b) == {i \in a + 1 .. b : posts[i].state = "committed" /\ posts[i].branched}
TopicsIn(a, b) == {posts[i].topic : i \in PassedIn(a, b)}

\* A sample of these posts: it has all their topics, or two.
Spans(s, a, b) ==
    /\ s \in Seq(1 .. b) /\ Len(s) <= SampleSize
    /\ Topics(s) = TopicsIn(a, b) \/ Cardinality(Topics(s)) >= 2

\* Only the last post can be open: its transaction holds the event lock.
OnlyLastOpen ==
    \A i \in 1 .. Len(posts) : posts[i].state \in Poster =>
        i = Len(posts) /\ lock = {posts[i].state}

\* The syntheses cover the posts up to some place, the pending sample those after it.
AccountedFrom(base) ==
    /\ TotalOf(syntheses) = Cardinality(PassedIn(0, base))
    /\ policy.count = Cardinality(PassedIn(base, policy.watermark))
    /\ Spans(policy.sample, base, policy.watermark)

\* The inductive invariant.  Behind the watermark no transaction is open, so that no post
\* there can still commit.
SynthesisInv ==
    /\ posts \in Seq(PostSet) /\ Len(posts) <= MaxPosts /\ lock \subseteq Poster
    /\ policy \in [interval : Interval \cup {0}, watermark : Nat, sample : Seq(Nat), count : Nat]
    /\ policy.watermark <= Len(posts)
    /\ task \in {"none", "pending"} /\ syntheses \in Seq(SynthesisEntries)
    /\ OnlyLastOpen
    /\ \A i \in 1 .. policy.watermark : posts[i].state \notin Poster
    /\ \E base \in 0 .. policy.watermark : AccountedFrom(base)

\* The posts of an interval are finitely many, and those of adjoining intervals add up.
LEMMA PassedFinite ==
    ASSUME NEW a \in Nat, NEW b \in Nat
    PROVE  /\ IsFiniteSet(PassedIn(a, b)) /\ Cardinality(PassedIn(a, b)) \in Nat
           /\ Cardinality(PassedIn(a, b)) <= b
<1>1. IsFiniteSet(1 .. b) /\ Cardinality(1 .. b) = b
  <2>1. 1 \in Int /\ b \in Int
    OBVIOUS
  <2>2. IsFiniteSet(1 .. b) /\ Cardinality(1 .. b) = IF 1 > b THEN 0 ELSE b - 1 + 1
    BY ONLY <2>1, FS_Interval
  <2>3. QED BY <2>2
<1>2. PassedIn(a, b) \in SUBSET (1 .. b)
  BY DEF PassedIn
<1>3. IsFiniteSet(PassedIn(a, b)) /\ Cardinality(PassedIn(a, b)) <= b
  BY <1>1, <1>2, FS_Subset
<1>4. QED BY <1>3, FS_CardinalityType

LEMMA PassedAdds ==
    ASSUME NEW a \in Nat, NEW b \in Nat, NEW c \in Nat, a <= b, b <= c
    PROVE  /\ PassedIn(a, c) = PassedIn(a, b) \cup PassedIn(b, c)
           /\ Cardinality(PassedIn(a, c)) =
                 Cardinality(PassedIn(a, b)) + Cardinality(PassedIn(b, c))
<1>1. PassedIn(a, c) = PassedIn(a, b) \cup PassedIn(b, c)
  BY DEF PassedIn
<1>2. PassedIn(a, b) \cap PassedIn(b, c) = {}
  BY DEF PassedIn
<1>3. /\ IsFiniteSet(PassedIn(a, b)) /\ Cardinality(PassedIn(a, b)) \in Nat
      /\ IsFiniteSet(PassedIn(b, c)) /\ Cardinality(PassedIn(b, c)) \in Nat
  BY PassedFinite
<1>4. Cardinality({}) = 0
  BY FS_EmptySet
<1>5. Cardinality(PassedIn(a, b) \cup PassedIn(b, c)) =
          Cardinality(PassedIn(a, b)) + Cardinality(PassedIn(b, c))
            - Cardinality(PassedIn(a, b) \cap PassedIn(b, c))
  BY <1>3, FS_Union
<1>6. Cardinality(PassedIn(a, b) \cap PassedIn(b, c)) = 0
  BY <1>2, <1>4
<1>7. Cardinality(PassedIn(a, c)) = Cardinality(PassedIn(a, b) \cup PassedIn(b, c))
  BY <1>1
<1>8. QED BY <1>1, <1>3, <1>5, <1>6, <1>7

\* There is no post after a place and up to it.
LEMMA NonePassed ==
    ASSUME NEW a \in Nat
    PROVE  PassedIn(a, a) = {} /\ Cardinality(PassedIn(a, a)) = 0 /\ TopicsIn(a, a) = {}
<1>1. PassedIn(a, a) = {}
  BY DEF PassedIn
<1>2. QED BY <1>1, FS_EmptySet DEF TopicsIn

\* A sample has finitely many topics.
LEMMA TopicsFinite ==
    ASSUME NEW s, NEW n \in Nat, Len(s) = n
    PROVE  IsFiniteSet(Topics(s)) /\ Cardinality(Topics(s)) \in Nat
<1> DEFINE topic == [i \in 1 .. n |-> posts[s[i]].topic]
<1>1. IsFiniteSet(1 .. n)
  <2>1. 1 \in Int /\ n \in Int
    OBVIOUS
  <2>2. QED BY ONLY <2>1, FS_Interval
<1>2. topic \in [1 .. n -> Topics(s)]
  BY DEF Topics
<1>3. \A x \in Topics(s) : \E i \in 1 .. n : topic[i] = x
  BY DEF Topics
<1> HIDE DEF topic
<1>4. topic \in Surjection(1 .. n, Topics(s))
  BY <1>2, <1>3 DEF Surjection
<1>5. IsFiniteSet(Topics(s))
  BY <1>1, <1>4, FS_Surjection
<1>6. QED BY <1>5, FS_CardinalityType

\* Two topics of a sample make its number of topics two.
LEMMA TwoTopics ==
    ASSUME NEW s, NEW n \in Nat, Len(s) = n, NEW x \in Topics(s), NEW y \in Topics(s), x # y
    PROVE  Cardinality(Topics(s)) >= 2
<1>1. IsFiniteSet({x}) /\ Cardinality({x}) = 1
  BY FS_Singleton
<1>2. IsFiniteSet({x} \cup {y}) /\ Cardinality({x} \cup {y}) = 2
  <2>1. /\ IsFiniteSet({x} \cup {y})
        /\ Cardinality({x} \cup {y}) =
              IF y \in {x} THEN Cardinality({x}) ELSE Cardinality({x}) + 1
    BY <1>1, FS_AddElement
  <2>2. y \notin {x}
    OBVIOUS
  <2>3. QED BY <1>1, <2>1, <2>2
<1>3. IsFiniteSet(Topics(s)) /\ Cardinality(Topics(s)) \in Nat
  BY TopicsFinite
<1>4. {x} \cup {y} \in SUBSET Topics(s)
  OBVIOUS
<1>5. Cardinality({x} \cup {y}) <= Cardinality(Topics(s))
  BY <1>3, <1>4, FS_Subset
<1>6. QED BY <1>2, <1>3, <1>5

\* A post that joins the sample brings its topic, at the latest in the last place.
LEMMA SampledSpans ==
    ASSUME NEW s, NEW a \in Nat, NEW i \in Nat, a < i, Spans(s, a, i - 1),
           posts[i].state = "committed", posts[i].branched
    PROVE  Spans(Sampled(s, i), a, i)
<1> DEFINE n == Len(s)
           x == posts[i].topic
<1>1. /\ s \in Seq(1 .. i - 1) /\ n \in Nat /\ n <= SampleSize
      /\ s \in Seq(1 .. i) /\ i \in 1 .. i /\ SampleSize \in Nat /\ SampleSize >= 2
      /\ DOMAIN s = 1 .. n
  <2>1. s \in Seq(1 .. i - 1) /\ n <= SampleSize
    BY DEF Spans
  <2>2. 1 .. i - 1 \subseteq 1 .. i
    OBVIOUS
  <2>3. s \in Seq(1 .. i)
    BY <2>1, <2>2, SeqMonotonic
  <2>4. n \in Nat /\ DOMAIN s = 1 .. n
    BY <2>1, LenProperties
  <2>5. SampleSize \in Nat /\ SampleSize >= 2
    <3>1. SampleSize \in Nat \ {0, 1}
      BY SynthesisAssumption
    <3>2. QED BY <3>1
  <2>6. QED BY <2>1, <2>3, <2>4, <2>5
<1>2. TopicsIn(a, i) = TopicsIn(a, i - 1) \cup {x}
  <2>1. PassedIn(a, i) = PassedIn(a, i - 1) \cup {i}
    BY DEF PassedIn
  <2>2. QED BY <2>1 DEF TopicsIn
<1>3. IsFiniteSet(Topics(s)) /\ Cardinality(Topics(s)) \in Nat
  BY <1>1, TopicsFinite
<1>4. Topics(s) = TopicsIn(a, i - 1) \/ Cardinality(Topics(s)) >= 2
  BY DEF Spans
<1>5. \A y \in Topics(s) : \E k \in 1 .. n : y = posts[s[k]].topic
  BY DEF Topics
<1>6. CASE n < SampleSize
  <2> DEFINE t == Append(s, i)
  <2>1. /\ t \in Seq(1 .. i) /\ Len(t) = n + 1
        /\ \A k \in 1 .. n : t[k] = s[k]
        /\ t[n + 1] = i
    BY <1>1, AppendProperties
  <2>2. Sampled(s, i) = t
    BY <1>6 DEF Sampled
  <2> HIDE DEF t, n
  <2>3. Topics(t) = Topics(s) \cup {x}
    <3>1. \A k \in 1 .. n + 1 : k \in 1 .. n \/ k = n + 1
      BY <1>1
    <3>2. \A k \in 1 .. n : k \in 1 .. n + 1
      BY <1>1
    <3>3. n + 1 \in 1 .. n + 1
      BY <1>1
    <3>4. \A y : y \in Topics(t) <=> y \in Topics(s) \cup {x}
      BY <2>1, <3>1, <3>2, <3>3 DEF Topics, n
    <3>5. QED BY <3>4
  <2>4. Topics(t) = TopicsIn(a, i) \/ Cardinality(Topics(t)) >= 2
    <3>1. CASE Topics(s) = TopicsIn(a, i - 1)
      BY <1>2, <2>3, <3>1
    <3>2. CASE Cardinality(Topics(s)) >= 2
      <4>1. n + 1 \in Nat
        BY <1>1
      <4>2. IsFiniteSet(Topics(t)) /\ Cardinality(Topics(t)) \in Nat
        BY <2>1, <4>1, TopicsFinite
      <4>3. Topics(s) \in SUBSET Topics(t)
        BY <2>3
      <4>4. Cardinality(Topics(s)) <= Cardinality(Topics(t))
        BY <4>2, <4>3, FS_Subset
      <4>5. QED BY <1>3, <3>2, <4>2, <4>4
    <3>3. QED BY <1>4, <3>1, <3>2
  <2>5. QED BY <1>1, <1>6, <2>1, <2>2, <2>4 DEF Spans
<1>7. CASE ~(n < SampleSize) /\ Cardinality(Topics(s)) = 1 /\ x \notin Topics(s)
  <2> DEFINE t == [s EXCEPT ![SampleSize] = i]
  <2>1. n = SampleSize /\ 1 \in 1 .. n /\ SampleSize \in 1 .. n /\ SampleSize # 1
    <3>1. ~(n < SampleSize) /\ n \in Nat /\ n <= SampleSize /\ SampleSize \in Nat /\ SampleSize >= 2
      BY <1>1, <1>7
    <3> HIDE DEF n
    <3>2. QED BY <3>1
  <2>2. t \in Seq(1 .. i) /\ Len(t) = n /\ t[SampleSize] = i /\ t[1] = s[1]
    <3>1. /\ t \in Seq(1 .. i) /\ Len(t) = Len(s)
      BY <1>1, <2>1, ExceptSeq
    <3>2. QED BY <1>1, <2>1, <3>1
  <2>3. Sampled(s, i) = t
    BY <1>7 DEF Sampled
  <2>4. posts[s[1]].topic \in Topics(s)
    BY <2>1 DEF Topics
  <2> HIDE DEF t, n
  <2>5. x \in Topics(t) /\ posts[s[1]].topic \in Topics(t)
    BY <2>1, <2>2 DEF Topics
  <2>6. Cardinality(Topics(t)) >= 2
    BY <1>1, <1>7, <2>2, <2>4, <2>5, TwoTopics
  <2>7. QED BY <1>1, <2>2, <2>3, <2>6 DEF Spans
<1>8. CASE ~(n < SampleSize) /\ ~(Cardinality(Topics(s)) = 1 /\ x \notin Topics(s))
  <2>1. Sampled(s, i) = s
    BY <1>8 DEF Sampled
  <2>2. Cardinality(Topics(s)) # 0
    <3>1. posts[s[1]].topic \in Topics(s)
      <4>1. 1 \in 1 .. Len(s)
        BY <1>1, <1>8
      <4>2. QED BY <4>1 DEF Topics
    <3>2. QED BY <1>3, <3>1, FS_EmptySet
  <2>3. Topics(s) = TopicsIn(a, i) \/ Cardinality(Topics(s)) >= 2
    BY <1>2, <1>3, <1>4, <1>8, <2>2
  <2>4. QED BY <1>1, <2>1, <2>3 DEF Spans
<1>9. QED BY <1>6, <1>7, <1>8

\* A post that does not count leaves the sample as it is.
LEMMA SkippedSpans ==
    ASSUME NEW s, NEW a \in Nat, NEW i \in Nat, a < i, Spans(s, a, i - 1),
           ~(posts[i].state = "committed" /\ posts[i].branched)
    PROVE  Spans(s, a, i)
<1>1. PassedIn(a, i) = PassedIn(a, i - 1)
  BY DEF PassedIn
<1>2. TopicsIn(a, i) = TopicsIn(a, i - 1)
  BY <1>1 DEF TopicsIn
<1>3. s \in Seq(1 .. i)
  <2>1. 1 .. i - 1 \subseteq 1 .. i /\ s \in Seq(1 .. i - 1)
    BY DEF Spans
  <2>2. QED BY <2>1, SeqMonotonic
<1>4. QED BY <1>2, <1>3 DEF Spans

\* The batch: all committed posts up to the place that the watermark moves to.
LEMMA BatchIs ==
    ASSUME SynthesisInv, Unread # {}
    PROVE  /\ Through \in policy.watermark + 1 .. Len(posts) /\ posts[Through].state = "committed"
           /\ \A i \in policy.watermark + 1 .. Through :
                 i \in Batch <=> posts[i].state = "committed"
           /\ {i \in Batch : Eligible(i)} = PassedIn(policy.watermark, Through)
<1> DEFINE w == policy.watermark
           n == Len(posts)
           Upto(i) == {j \in Unread : j <= i}
<1>1. w \in Nat /\ n \in Nat /\ w <= n /\ BatchSize \in Nat /\ BatchSize >= 1
  <2>1. w \in Nat /\ w <= n /\ n \in Nat
    BY DEF SynthesisInv
  <2>2. BatchSize \in Nat /\ BatchSize >= 1
    <3>1. BatchSize \in Nat \ {0}
      BY SynthesisAssumption
    <3>2. QED BY <3>1
  <2>3. QED BY <2>1, <2>2
<1>2. Unread = {i \in w + 1 .. n : posts[i].state = "committed"}
  BY DEF Unread
<1>3. Batch = {i \in Unread : Cardinality(Upto(i)) <= BatchSize}
  BY DEF Batch
<1> HIDE DEF w, n
<1>4. IsFiniteSet(Unread)
  <2>1. IsFiniteSet(1 .. n)
    <3>1. 1 \in Int /\ n \in Int
      BY <1>1
    <3>2. QED BY ONLY <3>1, FS_Interval
  <2>2. Unread \in SUBSET (1 .. n)
    BY <1>1, <1>2
  <2>3. QED BY <2>1, <2>2, FS_Subset
<1>5. \A i \in Unread, j \in Unread :
          i <= j => Cardinality(Upto(i)) <= Cardinality(Upto(j)) /\ Cardinality(Upto(j)) \in Nat
                    /\ Cardinality(Upto(i)) \in Nat
  <2>1. ASSUME NEW i \in Unread, NEW j \in Unread, i <= j
        PROVE  Cardinality(Upto(i)) <= Cardinality(Upto(j)) /\ Cardinality(Upto(j)) \in Nat
               /\ Cardinality(Upto(i)) \in Nat
    <3>1. IsFiniteSet(Upto(j))
      <4>1. Upto(j) \in SUBSET Unread
        OBVIOUS
      <4>2. QED BY <1>4, <4>1, FS_Subset
    <3>2. Upto(i) \in SUBSET Upto(j)
      BY <1>1, <1>2, <2>1
    <3> HIDE DEF Upto
    <3>3. QED BY <3>1, <3>2, FS_Subset, FS_CardinalityType
  <2>2. QED BY <2>1
<1>6. Batch # {}
  <2>1. PICK x \in Unread : \A y \in Unread : x <= y
    <3>1. Unread \in SUBSET Nat
      BY <1>1, <1>2
    <3>2. QED BY <3>1, LeastOfNat
  <2>2. Upto(x) = {x}
    <3>1. \A y \in Unread : y <= x => y = x
      BY <1>1, <1>2, <2>1
    <3>2. x <= x
      BY <1>1, <1>2
    <3>3. QED BY <3>1, <3>2
  <2>3. Cardinality(Upto(x)) = 1
    BY <2>2, FS_Singleton
  <2>4. QED BY <1>1, <1>3, <2>3
<1>7. Through \in Batch /\ \A j \in Batch : j <= Through
  <2>1. \E x \in Batch : \A j \in Batch : j <= x
    <3> DEFINE T == {k \in 0 .. n : n - k \in Batch}
    <3>1. \A x \in Batch : n - x \in T
      BY <1>1, <1>2, <1>3
    <3>2. T \in SUBSET Nat /\ T # {}
      BY <1>6, <3>1
    <3>3. PICK k \in T : \A y \in T : k <= y
      BY <3>2, LeastOfNat
    <3>4. n - k \in Batch /\ k \in 0 .. n
      OBVIOUS
    <3> HIDE DEF T
    <3>5. \A j \in Batch : j <= n - k
      <4>1. ASSUME NEW j \in Batch PROVE j <= n - k
        <5>1. k <= n - j /\ j \in w + 1 .. n
          BY <1>2, <1>3, <3>1, <3>3
        <5>2. QED BY <1>1, <3>4, <5>1
      <4>2. QED BY <4>1
    <3>6. QED BY <3>4, <3>5
  <2>2. QED BY <2>1 DEF Through
<1> HIDE DEF Upto
<1>8. Through \in w + 1 .. n /\ posts[Through].state = "committed"
  BY <1>2, <1>3, <1>7
<1>9. ASSUME NEW i \in w + 1 .. Through
      PROVE  i \in Batch <=> posts[i].state = "committed"
  <2>1. i \in w + 1 .. n /\ i <= Through
    BY <1>1, <1>8
  <2>2. ASSUME posts[i].state = "committed" PROVE i \in Batch
    <3>1. i \in Unread /\ Through \in Unread /\ Cardinality(Upto(Through)) <= BatchSize
      BY <1>2, <1>3, <1>7, <2>1, <2>2
    <3>2. QED BY <1>1, <1>3, <1>5, <2>1, <3>1
  <2>3. QED BY <1>2, <1>3, <2>2
<1>10. {i \in Batch : Eligible(i)} = PassedIn(w, Through)
  <2>1. \A i \in Batch : i \in w + 1 .. Through
    BY <1>1, <1>2, <1>3, <1>7, <1>8
  <2>2. QED BY <1>9, <2>1 DEF PassedIn, Eligible
<1>11. QED BY <1>8, <1>9, <1>10 DEF w, n

\* After the walk along the batch the sample spans the posts up to its end.
LEMMA SampleAfterSpans ==
    ASSUME SynthesisInv, Unread # {}, NEW base \in 0 .. policy.watermark,
           Spans(policy.sample, base, policy.watermark)
    PROVE  Spans(SampleAfter, base, Through)
<1> DEFINE w == policy.watermark
           n == Len(posts)
           T == Through
           Places == 1 .. n
           S == Seq(Places)
           upto == CHOOSE upto : upto = [i \in policy.watermark .. Through |->
                       IF i = policy.watermark THEN policy.sample
                       ELSE IF i \in Batch /\ Eligible(i) THEN Sampled(upto[i-1], i)
                       ELSE upto[i-1]]
           g == [p \in (w .. T) \X S |->
                    IF p[1] \in Batch /\ Eligible(p[1]) /\ Sampled(p[2], p[1]) \in S
                    THEN Sampled(p[2], p[1]) ELSE p[2]]
<1>1. /\ w \in Nat /\ n \in Nat /\ w <= n /\ T \in w + 1 .. n /\ T \in Nat /\ w <= T
      /\ posts \in Seq(PostSet) /\ base \in Nat /\ base <= w
  <2>1. w \in Nat /\ n \in Nat /\ w <= n /\ posts \in Seq(PostSet)
    BY DEF SynthesisInv
  <2>2. T \in w + 1 .. n
    BY BatchIs
  <2> HIDE DEF w, n, T
  <2>3. base \in 0 .. w
    BY DEF w
  <2>4. QED BY <2>1, <2>2, <2>3
<1>2. /\ \A i \in w + 1 .. T : i \in Batch <=> posts[i].state = "committed"
  BY BatchIs
<1>3. SampleAfter = upto[T]
  BY DEF SampleAfter
<1>4. /\ Spans(policy.sample, base, w) /\ policy.sample \in S
  <2>1. policy.sample \in Seq(1 .. w) /\ 1 .. w \subseteq Places
    BY <1>1 DEF Spans
  <2> HIDE DEF Places
  <2>2. policy.sample \in Seq(Places)
    BY <2>1, SeqMonotonic
  <2>3. QED BY <2>2
<1>5. g \in [(w .. T) \X S -> S]
  <2> HIDE DEF S, w, T
  <2>1. \A p \in (w .. T) \X S : p[2] \in S
    OBVIOUS
  <2>2. QED BY <2>1
<1> HIDE DEF S
<1>6. PICK f \in [w .. T -> S] :
         f[w] = policy.sample /\ \A i \in w + 1 .. T : f[i] = g[<<i, f[i - 1]>>]
  <2> HIDE DEF g, w, T
  <2>1. Walks(S, policy.sample, w, T, g) # {}
    BY <1>1, <1>4, <1>5, WalkExists
  <2>2. PICK f \in Walks(S, policy.sample, w, T, g) : TRUE
    BY <2>1
  <2>3. QED BY <2>2 DEF Walks
<1>7. ASSUME NEW i \in w + 1 .. T, Spans(f[i - 1], base, i - 1)
      PROVE  /\ f[i] = IF i \in Batch /\ Eligible(i) THEN Sampled(f[i - 1], i) ELSE f[i - 1]
             /\ Spans(f[i], base, i)
  <2>1. /\ i \in Nat /\ base < i /\ i \in w .. T /\ i - 1 \in w .. T /\ i <= n
    <3> HIDE DEF w, T, n
    <3>1. QED BY <1>1
  <2>2. f[i - 1] \in S
    BY <2>1
  <2>3. f[i] = IF i \in Batch /\ Eligible(i) /\ Sampled(f[i - 1], i) \in S
               THEN Sampled(f[i - 1], i) ELSE f[i - 1]
    <3>1. <<i, f[i - 1]>> \in (w .. T) \X S
      BY <2>1, <2>2
    <3> HIDE DEF w, T
    <3>2. g[<<i, f[i - 1]>>] = IF i \in Batch /\ Eligible(i) /\ Sampled(f[i - 1], i) \in S
                               THEN Sampled(f[i - 1], i) ELSE f[i - 1]
      BY <3>1
    <3> HIDE DEF g
    <3>3. QED BY <1>6, <3>2
  <2>4. CASE i \in Batch /\ Eligible(i)
    <3>1. posts[i].state = "committed" /\ posts[i].branched
      BY <1>2, <2>4 DEF Eligible
    <3>2. Spans(Sampled(f[i - 1], i), base, i)
      BY <1>7, <2>1, <3>1, <1>1, SampledSpans
    <3>3. Sampled(f[i - 1], i) \in S
      <4>1. Sampled(f[i - 1], i) \in Seq(1 .. i)
        BY <3>2 DEF Spans
      <4>2. 1 .. i \subseteq Places
        <5> HIDE DEF n
        <5>1. QED BY <1>1, <2>1
      <4>3. QED BY <4>1, <4>2, SeqMonotonic DEF S
    <3>4. QED BY <2>3, <2>4, <3>2, <3>3
  <2>5. CASE ~(i \in Batch /\ Eligible(i))
    <3>1. ~(posts[i].state = "committed" /\ posts[i].branched)
      BY <1>2, <2>5 DEF Eligible
    <3>2. Spans(f[i - 1], base, i)
      BY <1>7, <2>1, <3>1, <1>1, SkippedSpans
    <3>3. QED BY <2>3, <2>5, <3>2
  <2>6. QED BY <2>4, <2>5
<1> HIDE DEF g
<1>8. \A i \in w .. T : Spans(f[i], base, i)
  <2> DEFINE A == {i \in w .. T : Spans(f[i], base, i)}
  <2> HIDE DEF w, T
  <2>1. /\ A \in SUBSET (w .. T) /\ w \in A
        /\ \A i \in w + 1 .. T : i - 1 \in A => i \in A
    BY <1>1, <1>4, <1>6, <1>7
  <2> HIDE DEF A
  <2>2. \A i \in w .. T : i \in A
    BY <1>1, <2>1, AlongInterval
  <2>3. QED BY <2>2 DEF A
<1>9. \A i \in w + 1 .. T : i - 1 \in w .. T /\ i \in w .. T /\ i # w
  <2> HIDE DEF w, T
  <2>1. QED BY <1>1
<1>10. \A i \in w + 1 .. T :
           f[i] = IF i \in Batch /\ Eligible(i) THEN Sampled(f[i - 1], i) ELSE f[i - 1]
  BY <1>7, <1>8, <1>9
<1>11. f = [i \in w .. T |-> IF i = w THEN policy.sample
                             ELSE IF i \in Batch /\ Eligible(i) THEN Sampled(f[i - 1], i)
                             ELSE f[i - 1]]
  <2>1. \A i \in w .. T : i # w => i \in w + 1 .. T
    <3> HIDE DEF w, T
    <3>1. QED BY <1>1
  <2> HIDE DEF w, T
  <2>2. QED BY <1>6, <1>10, <2>1
<1>12. upto = [i \in w .. T |-> IF i = w THEN policy.sample
                               ELSE IF i \in Batch /\ Eligible(i) THEN Sampled(upto[i - 1], i)
                               ELSE upto[i - 1]]
  BY <1>11
<1> HIDE DEF upto
<1>13. upto[T] = f[T]
  <2> DEFINE A == {i \in w .. T : upto[i] = f[i]}
  <2> HIDE DEF w, T
  <2>1. A \in SUBSET (w .. T) /\ w \in A
    <3>1. w \in w .. T
      BY <1>1
    <3>2. upto[w] = policy.sample
      BY <1>12, <3>1
    <3>3. QED BY <1>6, <3>1, <3>2
  <2>2. ASSUME NEW i \in w + 1 .. T, i - 1 \in A
        PROVE  i \in A
    <3>1. upto[i - 1] = f[i - 1] /\ i \in w .. T /\ i # w
      BY <1>9, <2>2
    <3>2. upto[i] = IF i \in Batch /\ Eligible(i) THEN Sampled(upto[i - 1], i) ELSE upto[i - 1]
      BY <1>12, <3>1
    <3>3. upto[i] = f[i]
      BY <1>10, <3>1, <3>2
    <3>4. QED BY <3>1, <3>3
  <2> HIDE DEF A
  <2>3. \A i \in w .. T : i \in A
    BY <1>1, <2>1, <2>2, AlongInterval
  <2>4. T \in w .. T
    BY <1>1
  <2>5. QED BY <2>3, <2>4 DEF A
<1>14. T \in w .. T
  <2> HIDE DEF w, T
  <2>1. QED BY <1>1
<1>15. QED BY <1>3, <1>8, <1>13, <1>14

-----------------------------------------------------------------------------
(* Steps. *)

\* What the invariant says of each variable.
LEMMA SynthesisFacts ==
    ASSUME SynthesisInv
    PROVE  /\ posts \in Seq(PostSet) /\ Len(posts) \in Nat /\ DOMAIN posts = 1 .. Len(posts)
           /\ Len(posts) <= MaxPosts /\ MaxPosts \in Nat /\ lock \subseteq Poster
           /\ policy.watermark \in Nat /\ policy.watermark <= Len(posts)
           /\ policy.count \in Nat /\ policy.sample \in Seq(Nat)
           /\ policy.interval \in Interval \cup {0}
           /\ task \in {"none", "pending"} /\ syntheses \in Seq(SynthesisEntries)
           /\ OnlyLastOpen
<1>1. posts \in Seq(PostSet) /\ policy.watermark \in Nat /\ policy.count \in Nat
      /\ policy.sample \in Seq(Nat) /\ policy.interval \in Interval \cup {0}
  BY DEF SynthesisInv
<1>2. Len(posts) \in Nat /\ DOMAIN posts = 1 .. Len(posts)
  BY <1>1, LenProperties
<1>3. MaxPosts \in Nat
  BY SynthesisAssumption
<1>4. QED BY <1>1, <1>2, <1>3 DEF SynthesisInv

\* Posts that change behind the watermark change nothing of what is accounted for.
LEMMA StillAccounted ==
    ASSUME SynthesisInv, syntheses' = syntheses, policy'.watermark = policy.watermark,
           policy'.count = policy.count, policy'.sample = policy.sample,
           \A i \in 1 .. policy.watermark : posts'[i] = posts[i]
    PROVE  \E base \in 0 .. policy'.watermark : AccountedFrom(base)'
<1>1. PICK w \in Nat : w = policy.watermark
  BY SynthesisFacts
<1>2. PICK s \in Seq(Nat) : s = policy.sample
  BY SynthesisFacts
<1>3. PICK base \in 0 .. w : AccountedFrom(base)
  BY <1>1 DEF SynthesisInv
<1>4. ASSUME NEW a \in Nat, NEW b \in Nat, b <= w
      PROVE  PassedIn(a, b)' = PassedIn(a, b) /\ TopicsIn(a, b)' = TopicsIn(a, b)
  <2>1. \A i \in a + 1 .. b : posts'[i] = posts[i]
    <3>1. \A i \in 1 .. w : posts'[i] = posts[i]
      BY <1>1
    <3>2. \A i \in a + 1 .. b : i \in 1 .. w
      BY <1>4
    <3>3. QED BY <3>1, <3>2
  <2>2. PassedIn(a, b)' = PassedIn(a, b)
    BY <2>1 DEF PassedIn
  <2>3. \A i \in PassedIn(a, b) : posts'[i] = posts[i]
    BY <2>1 DEF PassedIn
  <2>4. QED BY <2>2, <2>3 DEF TopicsIn
<1>5. base \in Nat /\ base <= w /\ policy'.watermark = w /\ policy'.sample = s
  BY <1>1, <1>2
<1>6. PassedIn(0, base)' = PassedIn(0, base)
  <2>1. PICK z \in Nat : z = 0
    OBVIOUS
  <2>2. PassedIn(z, base)' = PassedIn(z, base)
    BY <1>4, <1>5, <2>1
  <2>3. QED BY <2>1, <2>2
<1>7. PassedIn(base, w)' = PassedIn(base, w) /\ TopicsIn(base, w)' = TopicsIn(base, w)
  BY <1>4, <1>5
<1>8. Spans(s, base, w)
  BY <1>1, <1>2, <1>3 DEF AccountedFrom
<1>9. Topics(s)' = Topics(s)
  <2>1. \A i \in 1 .. Len(s) : s[i] \in 1 .. w
    <3>1. s \in Seq(1 .. w)
      BY <1>8 DEF Spans
    <3>2. QED BY <3>1
  <2>2. \A i \in 1 .. Len(s) : posts'[s[i]] = posts[s[i]]
    BY <1>1, <2>1
  <2>3. QED BY <2>2 DEF Topics
<1>10. Spans(s, base, w)'
  BY <1>7, <1>8, <1>9 DEF Spans
<1>11. Spans(policy.sample, base, policy.watermark)'
  BY <1>5, <1>10 DEF Spans, Topics, TopicsIn, PassedIn
<1>12. policy'.count = Cardinality(PassedIn(base, policy.watermark)')
  <2>1. PassedIn(base, policy.watermark)' = PassedIn(base, w)
    BY <1>5, <1>7 DEF PassedIn
  <2>2. policy.count = Cardinality(PassedIn(base, w))
    BY <1>1, <1>3 DEF AccountedFrom
  <2>3. QED BY <2>1, <2>2
<1>13. TotalOf(syntheses') = Cardinality(PassedIn(0, base)')
  BY <1>3, <1>6 DEF AccountedFrom
<1>14. AccountedFrom(base)'
  BY <1>11, <1>12, <1>13 DEF AccountedFrom
<1>15. QED BY <1>5, <1>14

\* A post is flushed after all others, while no transaction holds the event lock.
LEMMA FlushPostStep ==
    ASSUME SynthesisInv, NEW p \in Poster, NEW t \in Topic, NEW b \in BOOLEAN, FlushPost(p, t, b)
    PROVE  SynthesisInv'
<1> DEFINE x == [topic |-> t, branched |-> b, state |-> p]
           n == Len(posts)
<1>1. /\ lock = {} /\ lock' = {p} /\ n < MaxPosts /\ posts' = Append(posts, x)
      /\ policy' = policy /\ task' = task /\ syntheses' = syntheses
  BY DEF FlushPost, MayLock
<1>2. /\ posts \in Seq(PostSet) /\ n \in Nat /\ MaxPosts \in Nat /\ OnlyLastOpen
      /\ policy.watermark \in Nat /\ policy.watermark <= n
  BY SynthesisFacts
<1>3. x \in PostSet
  BY DEF PostSet
<1>4. /\ posts' \in Seq(PostSet) /\ Len(posts') = n + 1
      /\ \A i \in 1 .. n : posts'[i] = posts[i]
      /\ posts'[n + 1] = x
  BY <1>1, <1>2, <1>3, AppendProperties
<1> HIDE DEF n
<1>5. OnlyLastOpen'
  <2>1. \A i \in 1 .. n : posts[i].state \notin Poster
    BY <1>1, <1>2 DEF OnlyLastOpen, n
  <2>2. QED BY <1>1, <1>2, <1>4, <2>1 DEF OnlyLastOpen
<1>6. \A i \in 1 .. policy.watermark : posts'[i] = posts[i]
  BY <1>2, <1>4
<1>7. \E base \in 0 .. policy'.watermark : AccountedFrom(base)'
  BY <1>1, <1>6, StillAccounted
<1>8. \A i \in 1 .. policy.watermark : posts'[i].state \notin Poster
  BY <1>6 DEF SynthesisInv
<1>9. Len(posts') <= MaxPosts /\ policy.watermark <= Len(posts')
  BY <1>1, <1>2, <1>4
<1>10. policy \in [interval : Interval \cup {0}, watermark : Nat, sample : Seq(Nat), count : Nat]
  BY DEF SynthesisInv
<1>11. task \in {"none", "pending"} /\ syntheses \in Seq(SynthesisEntries)
  BY SynthesisFacts
<1>12. QED BY <1>1, <1>4, <1>5, <1>7, <1>8, <1>9, <1>10, <1>11 DEF SynthesisInv

\* Only the last post can end, and the watermark has not reached it.
LEMMA EndPostStep ==
    ASSUME SynthesisInv, NEW p \in Poster, NEW o \in {"committed", "rolled_back"}, EndPost(p, o)
    PROVE  SynthesisInv'
<1>0. PICK n \in Nat : n = Len(posts)
  BY SynthesisFacts
<1>1. /\ p \in lock /\ lock' = lock \ {p}
      /\ posts' = [i \in 1 .. n |-> IF posts[i].state = p
                                    THEN [posts[i] EXCEPT !.state = o] ELSE posts[i]]
      /\ policy' = policy /\ task' = task /\ syntheses' = syntheses
  BY <1>0 DEF EndPost
<1>2. /\ posts \in Seq(PostSet) /\ n \in Nat /\ OnlyLastOpen /\ lock \subseteq Poster
      /\ policy.watermark \in Nat /\ policy.watermark <= n
      /\ task \in {"none", "pending"} /\ syntheses \in Seq(SynthesisEntries) /\ n <= MaxPosts
  BY <1>0, SynthesisFacts
<1>3. \A i \in 1 .. n : posts[i] \in PostSet
  <2>1. \A i \in 1 .. Len(posts) : posts[i] \in PostSet
    BY <1>2, ElementOfSeq
  <2>2. QED BY <1>0, <2>1
<1>4. ASSUME NEW i \in 1 .. n
      PROVE  /\ posts'[i] \in PostSet /\ posts'[i].state \notin Poster
             /\ posts[i].state # p => posts'[i] = posts[i]
  <2>1. o \notin Poster
    BY SynthesisAssumption
  <2>2. posts'[i] = IF posts[i].state = p THEN [posts[i] EXCEPT !.state = o] ELSE posts[i]
    BY <1>1
  <2>3. CASE posts[i].state = p
    BY <1>3, <2>1, <2>2, <2>3 DEF PostSet
  <2>4. CASE posts[i].state # p
    <3>1. posts[i].state \notin Poster
      <4>1. posts[i].state \in Poster => lock = {posts[i].state}
        BY <1>0, <1>2 DEF OnlyLastOpen
      <4>2. QED BY <1>1, <2>4, <4>1
    <3>2. QED BY <1>3, <2>2, <2>4, <3>1
  <2>5. QED BY <2>3, <2>4
<1>5. posts' \in Seq(PostSet) /\ Len(posts') = n
  <2>1. posts' \in [1 .. n -> PostSet]
    <3>1. posts' = [i \in 1 .. n |-> posts'[i]]
      BY <1>1
    <3>2. QED BY <1>4, <3>1
  <2>2. posts' \in Seq(PostSet)
    BY <2>1, SeqDef
  <2>3. PICK m \in Nat : m = Len(posts') /\ DOMAIN posts' = 1 .. m
    BY <2>2, LenProperties
  <2>4. 1 .. m = 1 .. n
    BY <2>1, <2>3
  <2>5. m = n
    BY <2>4
  <2>6. QED BY <2>2, <2>3, <2>5
<1>6. OnlyLastOpen'
  BY <1>4, <1>5 DEF OnlyLastOpen
<1>7. \A i \in 1 .. policy.watermark : posts'[i] = posts[i]
  <2>1. \A i \in 1 .. policy.watermark : posts[i].state \notin Poster
    BY DEF SynthesisInv
  <2>2. \A i \in 1 .. policy.watermark : i \in 1 .. n
    BY <1>2
  <2>3. p \in Poster
    OBVIOUS
  <2>4. QED BY <1>4, <2>1, <2>2, <2>3
<1>8. \E base \in 0 .. policy'.watermark : AccountedFrom(base)'
  BY <1>1, <1>7, StillAccounted
<1>9. \A i \in 1 .. policy.watermark : posts'[i].state \notin Poster
  BY <1>7 DEF SynthesisInv
<1>10. policy \in [interval : Interval \cup {0}, watermark : Nat, sample : Seq(Nat), count : Nat]
  BY DEF SynthesisInv
<1>11. QED BY <1>1, <1>2, <1>5, <1>6, <1>8, <1>9, <1>10 DEF SynthesisInv

\* A scheduled synthesis covers the posts up to the new watermark; without one the sample
\* goes on from the same place.
LEMMA ScheduleSynthesisStep ==
    ASSUME SynthesisInv, ScheduleSynthesis
    PROVE  SynthesisInv'
<1> DEFINE Policies ==
               [interval : Interval \cup {0}, watermark : Nat, sample : Seq(Nat), count : Nat]
<1>1. PICK w \in Nat, n \in Nat : w = policy.watermark /\ n = Len(posts)
  BY SynthesisFacts
<1>2. PICK T, sample, count, due :
         /\ T = Through /\ sample = SampleAfter /\ count = CountAfter
         /\ due = (count >= policy.interval /\ Cardinality(Topics(sample)) >= 2)
  OBVIOUS
<1>3. /\ Unread # {} /\ posts' = posts /\ lock' = lock
      /\ policy' = [policy EXCEPT !.watermark = T, !.sample = IF due THEN <<>> ELSE sample,
                                  !.count = IF due THEN 0 ELSE count]
      /\ task' = IF due THEN "pending" ELSE task
      /\ syntheses' = IF due THEN Append(syntheses, [sample |-> sample, count |-> count])
                      ELSE syntheses
  BY <1>2 DEF ScheduleSynthesis
<1>4. /\ posts \in Seq(PostSet) /\ w <= n /\ OnlyLastOpen
      /\ policy.count \in Nat /\ policy \in Policies
      /\ task \in {"none", "pending"} /\ syntheses \in Seq(SynthesisEntries)
      /\ n <= MaxPosts /\ lock \subseteq Poster
  BY <1>1, SynthesisFacts DEF SynthesisInv
<1>5. PICK base \in 0 .. w : AccountedFrom(base)
  BY <1>1 DEF SynthesisInv
<1>6. /\ T \in w + 1 .. n /\ posts[T].state = "committed"
      /\ {i \in Batch : Eligible(i)} = PassedIn(w, T)
  BY <1>1, <1>2, <1>3, BatchIs
<1>7. base \in Nat /\ base <= w /\ T \in Nat /\ w <= T /\ base <= T /\ T <= n
  BY <1>6
<1>8. /\ policy.count = Cardinality(PassedIn(base, w))
      /\ TotalOf(syntheses) = Cardinality(PassedIn(0, base))
      /\ Spans(policy.sample, base, policy.watermark)
  BY <1>1, <1>5 DEF AccountedFrom
<1>9. Spans(sample, base, T)
  <2>1. base \in 0 .. policy.watermark
    BY <1>1
  <2>2. QED BY <1>2, <1>3, <1>8, <2>1, SampleAfterSpans
<1>10. count = Cardinality(PassedIn(base, T)) /\ count \in Nat
  <2>1. Cardinality(PassedIn(base, T)) =
            Cardinality(PassedIn(base, w)) + Cardinality(PassedIn(w, T))
    BY <1>7, PassedAdds
  <2>2. count = policy.count + Cardinality(PassedIn(w, T))
    BY <1>2, <1>6 DEF CountAfter
  <2>3. Cardinality(PassedIn(base, T)) \in Nat
    BY <1>7, PassedFinite
  <2>4. QED BY <1>8, <2>1, <2>2, <2>3
<1>11. sample \in Seq(Nat)
  <2>1. sample \in Seq(1 .. T) /\ 1 .. T \subseteq Nat
    BY <1>7, <1>9 DEF Spans
  <2>2. QED BY <2>1, SeqMonotonic
<1>12. \A i \in 1 .. T : posts[i].state \notin Poster
  <2>1. "committed" \notin Poster
    BY SynthesisAssumption
  <2>2. \A i \in 1 .. T : posts[i].state \in Poster => i = T
    BY <1>1, <1>4, <1>7 DEF OnlyLastOpen
  <2>3. QED BY <1>6, <2>1, <2>2
<1>13. \A a, b : PassedIn(a, b)' = PassedIn(a, b) /\ TopicsIn(a, b)' = TopicsIn(a, b)
  BY <1>3 DEF PassedIn, TopicsIn
<1>14. policy'.watermark = T
  BY <1>3, <1>4
<1>15. /\ OnlyLastOpen' /\ Len(posts') <= MaxPosts /\ posts' \in Seq(PostSet)
       /\ lock' \subseteq Poster /\ policy'.watermark <= Len(posts')
       /\ \A i \in 1 .. policy'.watermark : posts'[i].state \notin Poster
  BY <1>1, <1>3, <1>4, <1>7, <1>12, <1>14 DEF OnlyLastOpen
<1>16. CASE ~due
  <2>1. /\ policy' \in Policies /\ policy'.sample = sample /\ policy'.count = count
        /\ task' = task /\ syntheses' = syntheses
    BY <1>3, <1>4, <1>7, <1>10, <1>11, <1>16
  <2>2. policy'.count = Cardinality(PassedIn(base, policy.watermark)')
    <3>1. PassedIn(base, policy.watermark)' = PassedIn(base, T)
      BY <1>3, <1>14 DEF PassedIn
    <3>2. QED BY <1>10, <2>1, <3>1
  <2>3. Spans(policy.sample, base, policy.watermark)'
    <3>1. Topics(policy.sample)' = Topics(sample)
      BY <1>3, <2>1 DEF Topics
    <3>2. TopicsIn(base, policy.watermark)' = TopicsIn(base, T)
      BY <1>3, <1>14 DEF TopicsIn, PassedIn
    <3>3. /\ sample \in Seq(1 .. T) /\ Len(sample) <= SampleSize
          /\ Topics(sample) = TopicsIn(base, T) \/ Cardinality(Topics(sample)) >= 2
      BY <1>9 DEF Spans
    <3>4. QED BY <1>14, <2>1, <3>1, <3>2, <3>3 DEF Spans
  <2>4. TotalOf(syntheses') = Cardinality(PassedIn(0, base)')
    BY <1>8, <1>13, <2>1
  <2>5. AccountedFrom(base)'
    BY <2>2, <2>3, <2>4 DEF AccountedFrom
  <2>6. base \in 0 .. policy'.watermark
    BY <1>7, <1>14
  <2>7. task' \in {"none", "pending"} /\ syntheses' \in Seq(SynthesisEntries)
    BY <1>4, <2>1
  <2>8. QED BY <1>15, <2>1, <2>5, <2>6, <2>7 DEF SynthesisInv
<1>17. CASE due
  <2>1. PICK entry : entry = [sample |-> sample, count |-> count]
    OBVIOUS
  <2>2. /\ policy' \in Policies /\ policy'.sample = <<>> /\ policy'.count = 0
        /\ task' = "pending" /\ syntheses' = Append(syntheses, entry)
    <3>1. <<>> \in Seq(Nat)
      OBVIOUS
    <3>2. QED BY <1>3, <1>4, <1>7, <1>17, <2>1, <3>1
  <2>3. entry \in SynthesisEntries /\ entry.count = count
    BY <1>10, <1>11, <2>1 DEF SynthesisEntries
  <2>4. TotalOf(syntheses') = Cardinality(PassedIn(0, T)) /\ syntheses' \in Seq(SynthesisEntries)
    <3>1. TotalOf(Append(syntheses, entry)) = TotalOf(syntheses) + count
      BY <1>4, <2>3, TotalAppend
    <3>2. Cardinality(PassedIn(0, T)) =
              Cardinality(PassedIn(0, base)) + Cardinality(PassedIn(base, T))
      <4>1. PICK z \in Nat : z = 0
        OBVIOUS
      <4>2. Cardinality(PassedIn(z, T)) =
                Cardinality(PassedIn(z, base)) + Cardinality(PassedIn(base, T))
        BY <1>7, <4>1, PassedAdds
      <4>3. QED BY <4>1, <4>2
    <3>3. syntheses' \in Seq(SynthesisEntries)
      BY <1>4, <2>2, <2>3, AppendProperties
    <3>4. QED BY <1>8, <1>10, <2>2, <3>1, <3>2, <3>3
  <2>5. policy'.count = Cardinality(PassedIn(T, policy.watermark)')
    <3>1. PassedIn(T, policy.watermark)' = PassedIn(T, T)
      BY <1>3, <1>14 DEF PassedIn
    <3>2. QED BY <1>7, <2>2, <3>1, NonePassed
  <2>6. Spans(policy.sample, T, policy.watermark)'
    <3>1. Topics(policy.sample)' = {}
      BY <2>2 DEF Topics
    <3>2. TopicsIn(T, policy.watermark)' = {}
      BY <1>7, <1>14 DEF TopicsIn, PassedIn
    <3>3. SampleSize \in Nat
      BY SynthesisAssumption
    <3>4. policy'.sample \in Seq(1 .. policy'.watermark) /\ Len(policy'.sample) <= SampleSize
      BY <2>2, <3>3
    <3>5. QED BY <3>1, <3>2, <3>4 DEF Spans
  <2>7. TotalOf(syntheses') = Cardinality(PassedIn(0, T)')
    BY <1>13, <2>4
  <2>8. AccountedFrom(T)'
    BY <2>5, <2>6, <2>7 DEF AccountedFrom
  <2>9. T \in 0 .. policy'.watermark
    BY <1>7, <1>14
  <2>10. QED BY <1>15, <2>2, <2>4, <2>8, <2>9 DEF SynthesisInv
<1>18. QED
  <2>1. due \in BOOLEAN
    BY <1>2
  <2>2. QED BY <1>16, <1>17, <2>1

\* Another interval changes nothing that is accounted for.
LEMMA ConfigureStep ==
    ASSUME SynthesisInv, NEW k \in Interval, Configure(k)
    PROVE  SynthesisInv'
<1>1. /\ policy' = [policy EXCEPT !.interval = k]
      /\ posts' = posts /\ lock' = lock /\ task' = task /\ syntheses' = syntheses
  BY DEF Configure
<1>2. /\ policy' \in [interval : Interval \cup {0}, watermark : Nat, sample : Seq(Nat),
                      count : Nat]
      /\ policy'.watermark = policy.watermark /\ policy'.count = policy.count
      /\ policy'.sample = policy.sample
  BY <1>1 DEF SynthesisInv
<1>3. \E base \in 0 .. policy'.watermark : AccountedFrom(base)'
  BY <1>1, <1>2, StillAccounted
<1>4. OnlyLastOpen'
  BY <1>1 DEF SynthesisInv, OnlyLastOpen
<1>5. \A i \in 1 .. policy'.watermark : posts'[i].state \notin Poster
  BY <1>1, <1>2 DEF SynthesisInv
<1>6. QED BY <1>1, <1>2, <1>3, <1>4, <1>5 DEF SynthesisInv

\* Also when nothing but the task changes, or nothing at all.
LEMMA SynthesisEndsStep ==
    ASSUME SynthesisInv, SynthesisEnds \/ UNCHANGED synthesisVars
    PROVE  SynthesisInv'
<1>1. /\ policy' = policy /\ posts' = posts /\ lock' = lock /\ syntheses' = syntheses
      /\ task' \in {"none", "pending"}
  BY DEF SynthesisEnds, synthesisVars, SynthesisInv
<1>2. \E base \in 0 .. policy'.watermark : AccountedFrom(base)'
  BY <1>1, StillAccounted
<1>3. OnlyLastOpen'
  BY <1>1 DEF SynthesisInv, OnlyLastOpen
<1>4. QED BY <1>1, <1>2, <1>3 DEF SynthesisInv

\* At first nothing is posted.
LEMMA SynthesisStarts ==
    ASSUME SynthesisInit
    PROVE  SynthesisInv
<1>1. /\ posts = <<>> /\ lock = {} /\ task = "none" /\ syntheses = <<>>
      /\ policy.interval = 0 /\ policy.watermark = 0 /\ policy.sample = <<>> /\ policy.count = 0
      /\ policy = [interval |-> 0, watermark |-> 0, sample |-> <<>>, count |-> 0]
  BY DEF SynthesisInit
<1>2. /\ posts \in Seq(PostSet) /\ Len(posts) = 0 /\ syntheses \in Seq(SynthesisEntries)
      /\ policy.sample \in Seq(Nat) /\ Len(policy.sample) = 0
  BY <1>1
<1>3. MaxPosts \in Nat /\ SampleSize \in Nat
  <2>1. MaxPosts \in Nat
    BY SynthesisAssumption
  <2>2. SampleSize \in Nat \ {0, 1}
    BY SynthesisAssumption
  <2>3. QED BY <2>1, <2>2
<1>4. policy \in [interval : Interval \cup {0}, watermark : Nat, sample : Seq(Nat), count : Nat]
  BY <1>1, <1>2
<1>5. AccountedFrom(0)
  <2>1. PICK z \in Nat : z = 0
    OBVIOUS
  <2>2. PassedIn(z, z) = {} /\ Cardinality(PassedIn(z, z)) = 0 /\ TopicsIn(z, z) = {}
    BY <2>1, NonePassed
  <2>3. Topics(policy.sample) = {}
    BY <1>2 DEF Topics
  <2>4. Spans(policy.sample, 0, policy.watermark)
    <3>1. policy.sample \in Seq(1 .. policy.watermark)
      BY <1>1
    <3>2. QED BY <1>1, <1>2, <1>3, <2>1, <2>2, <2>3, <3>1 DEF Spans
  <2>5. TotalOf(syntheses) = 0
    BY <1>1, TotalOfNone
  <2>6. QED BY <1>1, <2>1, <2>2, <2>4, <2>5 DEF AccountedFrom
<1>6. OnlyLastOpen
  BY <1>2 DEF OnlyLastOpen
<1>7. \A i \in 1 .. policy.watermark : posts[i].state \notin Poster
  BY <1>1
<1>8. 0 \in 0 .. policy.watermark
  BY <1>1
<1>9. QED BY <1>1, <1>2, <1>3, <1>4, <1>5, <1>6, <1>7, <1>8 DEF SynthesisInv

\* The pending posts, those past the first that the syntheses count, are those after
\* the place up to which the syntheses cover.
LEMMA PendingPosts ==
    ASSUME NEW w \in Nat, NEW base \in Nat, base <= w
    PROVE  {i \in PassedIn(0, w) :
               Cardinality({j \in PassedIn(0, w) : j < i}) >= Cardinality(PassedIn(0, base))}
               = PassedIn(base, w)
<1> DEFINE P == PassedIn(0, w)
           Below(i) == {j \in P : j < i}
           C == PassedIn(0, base)
<1>1. PICK z \in Nat : z = 0
  OBVIOUS
<1>2. P = C \cup PassedIn(base, w)
  <2>1. PassedIn(z, w) = PassedIn(z, base) \cup PassedIn(base, w)
    BY <1>1, PassedAdds
  <2>2. QED BY <1>1, <2>1
<1>3. IsFiniteSet(P) /\ IsFiniteSet(C) /\ Cardinality(C) \in Nat
  <2>1. IsFiniteSet(PassedIn(z, w)) /\ IsFiniteSet(PassedIn(z, base))
        /\ Cardinality(PassedIn(z, base)) \in Nat
    BY PassedFinite
  <2>2. QED BY <1>1, <2>1
<1>4. \A i \in C : i \in Nat /\ i <= base
  BY DEF PassedIn
<1>5. \A i \in PassedIn(base, w) : i \in Nat /\ i > base
  BY DEF PassedIn
<1> HIDE DEF C, P
<1>6. ASSUME NEW i \in PassedIn(base, w)
      PROVE  Cardinality(Below(i)) >= Cardinality(C)
  <2>1. C \in SUBSET Below(i)
    BY <1>2, <1>4, <1>5
  <2>2. IsFiniteSet(Below(i))
    <3>1. Below(i) \in SUBSET P
      OBVIOUS
    <3>2. QED BY <1>3, <3>1, FS_Subset
  <2> HIDE DEF Below
  <2>3. Cardinality(C) <= Cardinality(Below(i)) /\ Cardinality(Below(i)) \in Nat
    BY <2>1, <2>2, FS_Subset, FS_CardinalityType
  <2>4. QED BY <1>3, <2>3
<1>7. ASSUME NEW i \in C
      PROVE  ~(Cardinality(Below(i)) >= Cardinality(C))
  <2>1. Below(i) \in SUBSET C /\ i \notin Below(i)
    BY <1>2, <1>4, <1>5
  <2> HIDE DEF Below
  <2>2. IsFiniteSet(Below(i)) /\ Cardinality(Below(i)) \in Nat
        /\ Cardinality(Below(i)) <= Cardinality(C)
    BY <1>3, <2>1, FS_Subset, FS_CardinalityType
  <2>3. Cardinality(Below(i)) # Cardinality(C)
    <3>1. Below(i) # C
      BY <2>1
    <3>2. QED BY <1>3, <2>1, <3>1, FS_Subset
  <2>4. QED BY <1>3, <2>2, <2>3
<1> HIDE DEF Below
<1>8. {i \in P : Cardinality(Below(i)) >= Cardinality(C)} = PassedIn(base, w)
  BY <1>2, <1>6, <1>7
<1>9. QED BY <1>8 DEF P, C, Below

\* The invariant gives the properties.
LEMMA SynthesisInvSound ==
    ASSUME SynthesisInv
    PROVE  SynthesisSound
<1>1. PICK w \in Nat, n \in Nat : w = policy.watermark /\ n = Len(posts)
  BY SynthesisFacts
<1>2. PICK base \in 0 .. w : AccountedFrom(base)
  BY <1>1 DEF SynthesisInv
<1>3. base \in Nat /\ base <= w /\ w <= n
  BY <1>1, SynthesisFacts
<1>4. /\ TotalOf(syntheses) = Cardinality(PassedIn(0, base))
      /\ policy.count = Cardinality(PassedIn(base, w))
      /\ Spans(policy.sample, base, w)
  BY <1>1, <1>2 DEF AccountedFrom
<1>5. Passed = PassedIn(0, w)
  BY <1>1 DEF Passed, PassedIn, Eligible
<1>6. SynthesisTypeOK
  <2>1. policy.count \in 0 .. n
    <3>1. Cardinality(PassedIn(base, w)) \in Nat /\ Cardinality(PassedIn(base, w)) <= w
      BY <1>3, PassedFinite
    <3>2. QED BY <1>3, <1>4, <3>1
  <2>2. Len(policy.sample) <= SampleSize
    BY <1>1, <1>4 DEF Spans
  <2>3. policy.watermark \in 0 .. n
    BY <1>1, <1>3
  <2>4. QED BY <1>1, <2>1, <2>2, <2>3, SynthesisFacts DEF SynthesisTypeOK
<1>7. EachPostCounted
  <2>1. PICK z \in Nat : z = 0
    OBVIOUS
  <2>2. Cardinality(PassedIn(z, w)) =
            Cardinality(PassedIn(z, base)) + Cardinality(PassedIn(base, w))
    BY <1>3, <2>1, PassedAdds
  <2>3. QED BY <1>4, <1>5, <2>1, <2>2 DEF EachPostCounted
<1>8. SampleSpansTopics
  <2>1. {i \in Passed : Cardinality({j \in Passed : j < i}) >= TotalOf(syntheses)}
            = PassedIn(base, w)
    BY <1>3, <1>4, <1>5, PendingPosts
  <2>2. Cardinality(TopicsIn(base, w)) >= 2 => Cardinality(Topics(policy.sample)) >= 2
    BY <1>4 DEF Spans
  <2>3. Cardinality({posts[i].topic : i \in PassedIn(base, w)}) >= 2 =>
            Cardinality(Topics(policy.sample)) >= 2
    BY <2>2 DEF TopicsIn
  <2>4. QED BY <2>1, <2>3 DEF SampleSpansTopics
<1>9. QED BY <1>6, <1>7, <1>8 DEF SynthesisSound

\* Every post counts towards exactly one synthesis, and the bounded sample spans two
\* topics as soon as the posts it stands for do (schedule_research_synthesis reads past
\* its watermark without the event lock, which only the last post's transaction holds).
THEOREM SynthesisSafety ==
    SynthesisSpec => []SynthesisSound
<1>1. SynthesisInit => SynthesisInv
  BY SynthesisStarts
<1>2. SynthesisInv /\ [SynthesisNext]_synthesisVars => SynthesisInv'
  <2> SUFFICES ASSUME SynthesisInv, [SynthesisNext]_synthesisVars
               PROVE  SynthesisInv'
    OBVIOUS
  <2>1. CASE \E p \in Poster, t \in Topic, b \in BOOLEAN : FlushPost(p, t, b)
    BY <2>1, FlushPostStep
  <2>2. CASE \E p \in Poster, o \in {"committed", "rolled_back"} : EndPost(p, o)
    BY <2>2, EndPostStep
  <2>3. CASE \E k \in Interval : Configure(k)
    BY <2>3, ConfigureStep
  <2>4. CASE ScheduleSynthesis
    BY <2>4, ScheduleSynthesisStep
  <2>5. CASE SynthesisEnds \/ UNCHANGED synthesisVars
    BY <2>5, SynthesisEndsStep
  <2>6. QED BY <2>1, <2>2, <2>3, <2>4, <2>5 DEF SynthesisNext
<1>3. SynthesisInv => SynthesisSound
  BY SynthesisInvSound
<1>4. QED BY <1>1, <1>2, <1>3, PTL DEF SynthesisSpec
=============================================================================
