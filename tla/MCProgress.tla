----------------------------- MODULE MCProgress -----------------------------
(***************************************************************************)
(* Small instances of what must go on, one next to the other: a behaviour  *)
(* is one of the part that `part' names, under the fairness of that part,  *)
(* while the others stay in their initial state.                           *)
(***************************************************************************)
EXTENDS Dispatch, TeamRun, Governor, Continuations, Inbox, TLC

CONSTANTS r1, r2    \* Governor

\* A small request of the more urgent class and one larger than the bucket.
RequestEstimate == r1 :> 1 @@ r2 :> 3
RequestPriority == r1 :> 0 @@ r2 :> 1

VARIABLE part

Parked(others) == UNCHANGED <<part, others>>

ProgressInit ==
    /\ part \in {"outbox", "team", "governor", "chain", "inbox"}
    /\ DispatchInit /\ TeamInit /\ GovernorInit /\ ChainInit /\ InboxInit

ProgressNext ==
    \/ /\ part = "outbox" /\ DispatchNext
       /\ Parked(<<teamVars, governorVars, chainVars, inboxVars>>)
    \/ /\ part = "team" /\ TeamNext
       /\ Parked(<<dispatchVars, governorVars, chainVars, inboxVars>>)
    \/ /\ part = "governor" /\ GovernorNext
       /\ Parked(<<dispatchVars, teamVars, chainVars, inboxVars>>)
    \/ /\ part = "chain" /\ ChainNext
       /\ Parked(<<dispatchVars, teamVars, governorVars, inboxVars>>)
    \/ /\ part = "inbox" /\ InboxNext
       /\ Parked(<<dispatchVars, teamVars, governorVars, chainVars>>)

progressVars ==
    <<part, dispatchVars, teamVars, governorVars, chainVars, inboxVars>>

\* The fairness of each part, of which only that of `part' asks for anything.
In(p, A) == part = p /\ A

ProgressFairness ==
    /\ \A d \in Dispatcher : WF_dispatchVars(In("outbox", Claim(d)))
    /\ \A d \in Dispatcher, c \in Command :
        WF_dispatchVars(In("outbox", DeliverCommand(d, c)))
    /\ \A c \in Command : /\ WF_dispatchVars(In("outbox", LeaseLapses(c) /\ Healthy))
                          /\ WF_dispatchVars(In("outbox", BackoffEnds(c)))
    /\ WF_dispatchVars(In("outbox", TakeCommand))
    /\ WF_dispatchVars(In("outbox", \E e \in activity : Current(e) /\ ActivityStep(e)))
    /\ WF_teamVars(In("team", Supervise))
    /\ \A b \in Builder : WF_teamVars(In("team", SleepEnds(b)))
    /\ WF_governorVars(In("governor", PumpStep))
    /\ SF_governorVars(In("governor", Tick))
    /\ \A r \in Requester : WF_governorVars(In("governor", Runs(r)))
    /\ \A e \in Executor : WF_chainVars(In("chain", Work(e)))
    /\ WF_chainVars(In("chain", Expire /\ ~Working))
    /\ WF_chainVars(In("chain", WaitOver))
    /\ \A x \in Session : WF_inboxVars(In("inbox", Receive(x)))

ProgressSpec == ProgressInit /\ [][ProgressNext]_progressVars /\ ProgressFairness
=============================================================================
