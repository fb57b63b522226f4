----------------------------- MODULE Directory -----------------------------
(***************************************************************************)
(* The workforce directory of one experiment: research profiles, teams and *)
(* the registry of components.  Profiles and memberships are appended, the *)
(* latest of a branch counts; a registry entry is replaced under its       *)
(* revision.  An agent pages through the directory in the order of random  *)
(* profile ids while branches publish, withdraw and join.                  *)
(***************************************************************************)
EXTENDS Naturals, FiniteSets, FiniteSetsExt

CONSTANTS
    Member,         \* branches
    ProfileId,      \* ids of profile records, as numbers in the order of the ids
    TeamName,       \* names of teams
    TeamLimit,      \* teams that a branch may be in
    DirectoryLimit, \* entries of a page
    DirectoryScan,  \* profile records scanned for a page
    Writer,         \* sessions that register one component of one branch
    MaxRevision,    \* bound of the model on the component's revisions
    MaxJoins        \* bound of the model on changes of membership

ASSUME DirectoryAssumption ==
    /\ ProfileId \subseteq Nat \ {0} /\ IsFiniteSet(ProfileId)
    /\ TeamLimit \in Nat \ {0}
    /\ DirectoryLimit \in Nat \ {0} /\ DirectoryScan \in Nat \ {0}
    /\ MaxRevision \in Nat /\ MaxJoins \in Nat

VARIABLES
    profile,        \* profile records: whose, published or withdrawn, and their order
    teams,          \* each branch: the teams it is in
    joins,          \* changes of membership so far
    browse,         \* the reader: its position, the branches shown, and (history) those
                    \* whose profile stood unchanged since it began
    component,      \* the registered component: revision, and the writers whose text it
                    \* builds on
    registrar       \* each writer: the revision and the text that it read

directoryVars == <<profile, teams, joins, browse, component, registrar>>

NoProfile == [branch |-> "none", published |-> FALSE, order |-> 0]
NoBrowse == [pc |-> "idle", position |-> 0, shown |-> {}, steady |-> {}]

DirectoryTypeOK ==
    /\ profile \in [ProfileId -> [branch : Member \cup {"none"}, published : BOOLEAN,
                                  order : 0 .. Cardinality(ProfileId)]]
    /\ teams \in [Member -> SUBSET TeamName] /\ joins \in 0 .. MaxJoins
    /\ browse \in [pc : {"idle", "reading", "read"}, position : ProfileId \cup {0},
                   shown : SUBSET Member, steady : SUBSET Member]
    /\ component \in [revision : 0 .. MaxRevision, text : SUBSET Writer]
    /\ registrar \in [Writer -> [pc : {"new", "read", "done", "conflict"},
                              revision : 0 .. MaxRevision, text : SUBSET Writer]]

DirectoryInit ==
    /\ profile = [i \in ProfileId |-> NoProfile]
    /\ teams = [b \in Member |-> {}] /\ joins = 0
    /\ browse = NoBrowse
    /\ component = [revision |-> 0, text |-> {}]
    /\ registrar = [w \in Writer |-> [pc |-> "new", revision |-> 0, text |-> {}]]
-----------------------------------------------------------------------------
(* Profiles and teams *)

\* _latest_branch_record
LatestProfile(b, i) ==
    profile[i].branch = b
    /\ \A j \in ProfileId : profile[j].branch = b => profile[j].order <= profile[i].order
Published(b) == \E i \in ProfileId : LatestProfile(b, i) /\ profile[i].published

\* publish_research_profile: a record of its own each time; published FALSE withdraws.
PublishProfile(b, i, published) ==
    /\ profile[i] = NoProfile
    /\ profile' = [profile EXCEPT ![i] =
         [branch |-> b, published |-> published,
          order |-> 1 + Cardinality({j \in ProfileId : profile[j] # NoProfile})]]
    /\ browse' = [browse EXCEPT !.steady = @ \ {b}]
    /\ UNCHANGED <<teams, joins, component, registrar>>

\* A branch that is in twelve teams joins no other.
MayJoin(b, team) == team \in teams[b] \/ Cardinality(teams[b]) < TeamLimit

\* join_research_team, under the experiment's lock
JoinTeam(b, team) ==
    /\ joins < MaxJoins /\ MayJoin(b, team)
    /\ teams' = [teams EXCEPT ![b] = @ \cup {team}]
    /\ joins' = joins + 1
    /\ UNCHANGED <<profile, browse, component, registrar>>

\* Leaving a team that the branch is not in changes nothing.
LeaveTeam(b, team) ==
    /\ joins < MaxJoins /\ team \in teams[b]
    /\ teams' = [teams EXCEPT ![b] = @ \ {team}]
    /\ joins' = joins + 1
    /\ UNCHANGED <<profile, browse, component, registrar>>
-----------------------------------------------------------------------------
(* research_directory *)

Browse ==
    /\ browse.pc = "idle"
    /\ browse' = [NoBrowse EXCEPT !.pc = "reading",
                                  !.steady = {b \in Member : Published(b)}]
    /\ UNCHANGED <<profile, teams, joins, component, registrar>>

ProfilesAfter == {i \in ProfileId : profile[i] # NoProfile /\ i > browse.position}
Listed(i) == LatestProfile(profile[i].branch, i) /\ profile[i].published

\* Records are scanned until the page is full or the scan's limit is reached.
ScannedProfiles ==
    {i \in ProfilesAfter :
        /\ Cardinality({j \in ProfilesAfter : j <= i}) <= DirectoryScan
        /\ Cardinality({j \in ProfilesAfter : j < i /\ Listed(j)}) < DirectoryLimit}

DirectoryPage ==
    LET more == Cardinality(ScannedProfiles)
                  < Min({DirectoryScan + 1, Cardinality(ProfilesAfter)})
    IN  /\ browse.pc = "reading"
        /\ browse' = [browse EXCEPT
              !.shown = @ \cup {profile[i].branch : i \in {i \in ScannedProfiles : Listed(i)}},
              !.pc = IF more THEN "reading" ELSE "read",
              !.position = IF more THEN Max(ScannedProfiles) ELSE @]
        /\ UNCHANGED <<profile, teams, joins, component, registrar>>
-----------------------------------------------------------------------------
(* component_directory and register_component *)

ReadComponent(w) ==
    /\ registrar[w].pc \in {"new", "conflict"} /\ component.revision < MaxRevision
    /\ registrar' = [registrar EXCEPT ![w] = [pc |-> "read", revision |-> component.revision,
                                        text |-> component.text]]
    /\ UNCHANGED <<profile, teams, joins, browse, component>>

LastWins(w) == TRUE                                                 \* mutant
\* The first registration expects no entry, every other one the entry's revision.
RevisionHolds(w) == registrar[w].revision = component.revision

RegisterComponent(w) ==
    /\ registrar[w].pc = "read"
    /\ IF RevisionHolds(w) /\ component.revision < MaxRevision
       THEN /\ component' = [revision |-> component.revision + 1,
                             text |-> registrar[w].text \cup {w}]
            /\ registrar' = [registrar EXCEPT ![w].pc = "done"]
       ELSE /\ registrar' = [registrar EXCEPT ![w].pc = "conflict"]
            /\ component' = component
    /\ UNCHANGED <<profile, teams, joins, browse>>

ProfilesNext ==
    \/ Browse \/ DirectoryPage
    \/ \E b \in Member, i \in ProfileId, published \in BOOLEAN : PublishProfile(b, i, published)
TeamsNext == \E b \in Member, team \in TeamName : JoinTeam(b, team) \/ LeaveTeam(b, team)
RegistryNext == \E w \in Writer : ReadComponent(w) \/ RegisterComponent(w)

DirectoryNext == ProfilesNext \/ TeamsNext \/ RegistryNext

DirectorySpec == DirectoryInit /\ [][DirectoryNext]_directoryVars
-----------------------------------------------------------------------------
(* Properties *)

\* The directory is complete and consistent under concurrent changes: every branch whose
\* published profile stood unchanged while an agent read the pages was shown, no branch is
\* in more teams than it may be in, and an accepted registration never drops what another
\* accepted one wrote.
DirectorySound ==
    /\ DirectoryTypeOK
    /\ browse.pc = "read" => browse.steady \subseteq browse.shown
    /\ \A b \in Member : Cardinality(teams[b]) <= TeamLimit
    /\ \A w \in Writer : registrar[w].pc = "done" => w \in component.text
=============================================================================
