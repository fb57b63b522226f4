----------------------------- MODULE MCSessions -----------------------------
(***************************************************************************)
(* Small instances of what a task's sessions keep and of the Lean they     *)
(* run, one next to the other: a behaviour is one of the part that `part'  *)
(* names, while the others stay in one of their initial states.            *)
(***************************************************************************)
EXTENDS Continuations, CheckpointStore, PortableMemory, Transcript,
        LeanSession, LeanHost, TLC

CONSTANTS
    e1, e2,             \* Continuations
    c1, c2,             \* CheckpointStore
    k1, k2, k3, ha, hb  \* LeanSession

\* Three clients, two of them with the same header.
ClientHeader == k1 :> ha @@ k2 :> hb @@ k3 :> ha

\* A compiled source: where Lean finds its errors (0 is the header), whether it uses
\* sorry or the sorry axiom, and whether it ends the process.
CheckedSources ==
    {s \in [errors : {<<>>, <<0>>, <<1>>, <<1, 1, 2>>}, sorry : BOOLEAN,
            sorryAx : BOOLEAN, exits : BOOLEAN] : s.sorry => ~s.sorryAx}
\* The sources that the checks start from where another part is looked at.
PlainSource == [errors |-> <<>>, sorry |-> FALSE, sorryAx |-> FALSE, exits |-> FALSE]

Symmetry == Permutations({e1, e2})

VARIABLE part

Parked(others) == UNCHANGED <<part, others>>

SessionsInit ==
    /\ part \in {"chain", "checkpoints", "memory", "transcript", "daemon", "host"}
    /\ ChainInit /\ CheckpointInit /\ MemoryInit /\ TranscriptInit /\ LeanInit
    /\ LeanHostInit
    /\ part # "host" => \A c \in LeanCheck : leanCall[c].source = PlainSource

SessionsNext ==
    \/ /\ part = "chain" /\ ChainNext
       /\ Parked(<<checkpointVars, memoryVars, transcriptVars, leanVars, leanHostVars>>)
    \/ /\ part = "checkpoints" /\ CheckpointNext
       /\ Parked(<<chainVars, memoryVars, transcriptVars, leanVars, leanHostVars>>)
    \/ /\ part = "memory" /\ MemoryNext
       /\ Parked(<<chainVars, checkpointVars, transcriptVars, leanVars, leanHostVars>>)
    \/ /\ part = "transcript" /\ TranscriptNext
       /\ Parked(<<chainVars, checkpointVars, memoryVars, leanVars, leanHostVars>>)
    \/ /\ part = "daemon" /\ LeanNext
       /\ Parked(<<chainVars, checkpointVars, memoryVars, transcriptVars, leanHostVars>>)
    \/ /\ part = "host" /\ LeanHostNext
       /\ Parked(<<chainVars, checkpointVars, memoryVars, transcriptVars, leanVars>>)

sessionsVars ==
    <<part, chainVars, checkpointVars, memoryVars, transcriptVars, leanVars, leanHostVars>>

SessionsSpec == SessionsInit /\ [][SessionsNext]_sessionsVars
=============================================================================
