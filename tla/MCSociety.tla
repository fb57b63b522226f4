----------------------------- MODULE MCSociety -----------------------------
(***************************************************************************)
(* Small instances of the parts of a research society, one next to the     *)
(* other: they share no state, so a behaviour is one of a single part, the *)
(* one that `part' names, while the others stay in their initial state.    *)
(***************************************************************************)
EXTENDS Commons, Reviews, Synthesis, Recruiting, Directory, TLC

CONSTANTS
    n1, n2, n3, p, q, fa, fb, fc, fd,       \* Commons
    v1, v2, mx, my, text,                   \* Reviews
    r1, r2                                  \* Recruiting

\* Two nodes of one author and one of another; a file that imports a node's source
\* may be published for it, also where that closes a circle.
NodeAuthor == n1 :> p @@ n2 :> p @@ n3 :> q
FileImports == fa :> {} @@ fb :> {} @@ fc :> {n1} @@ fd :> {n2}
FileCandidates == {<<n1, fa>>, <<n1, fb>>, <<n2, fc>>, <<n3, fd>>, <<n1, fd>>}

\* Two nodes with one text, and two model families of which one has two models.
NodeText == [n \in RNode |-> text]
ModelFamilies == <<mx, my, mx>>
NodeModel == [n \in RNode |-> IF n = v1 THEN 1 ELSE 2]

\* The team recruits one worker, who recruits the other.
RecruitedBy == r1 :> Team @@ r2 :> r1

VARIABLE part

Parked(others) == UNCHANGED <<part, others>>

SocietyInit ==
    /\ part \in {"commons", "reviews", "synthesis", "recruiting",
                 "profiles", "teams", "registry"}
    /\ CommonsInit /\ ReviewsInit /\ SynthesisInit /\ RecruitingInit /\ DirectoryInit

SocietyNext ==
    \/ /\ part = "commons" /\ CommonsNext
       /\ Parked(<<reviewsVars, synthesisVars, recruitVars, directoryVars>>)
    \/ /\ part = "reviews" /\ ReviewsNext
       /\ Parked(<<commonsVars, synthesisVars, recruitVars, directoryVars>>)
    \/ /\ part = "synthesis" /\ SynthesisNext
       /\ Parked(<<commonsVars, reviewsVars, recruitVars, directoryVars>>)
    \/ /\ part = "recruiting" /\ RecruitingNext
       /\ Parked(<<commonsVars, reviewsVars, synthesisVars, directoryVars>>)
    \/ /\ \/ part = "profiles" /\ ProfilesNext
          \/ part = "teams" /\ TeamsNext
          \/ part = "registry" /\ RegistryNext
       /\ Parked(<<commonsVars, reviewsVars, synthesisVars, recruitVars>>)

societyVars ==
    <<part, commonsVars, reviewsVars, synthesisVars, recruitVars, directoryVars>>

SocietySpec == SocietyInit /\ [][SocietyNext]_societyVars
=============================================================================
