------------------------------ MODULE Governor ------------------------------
(***************************************************************************)
(* TokenRateGovernor, the token bucket that admits provider requests, and  *)
(* the part of ResponsesRuntime that holds an admission (_send with        *)
(* _resend_rate_limited): what is admitted, returned, charged at its       *)
(* actual use, or left charged because nobody knows whether it was sent.   *)
(*                                                                         *)
(* One event loop: an action is what runs between two awaits.  _pump runs  *)
(* at the end of most of them; its loop is PumpStep, and nothing else      *)
(* happens before it is done.  Time passes in ticks.  The rate after cuts  *)
(* and recovery (_rate) is left open between 1 and Limit.                  *)
(***************************************************************************)
EXTENDS Integers, Sequences, FiniteSets, SequencesExt

CONSTANTS
    Requester,      \* the sessions that share the bucket
    Estimate,       \* the tokens each one asks for
    Priority,       \* its priority: lower first
    Capacity,       \* what the bucket holds
    Limit,          \* the most tokens that a tick adds
    MaxAge,         \* bound: classes that waiting may gain
    MaxPause,       \* the longest pause, in ticks
    MaxThrottles    \* bound: 429 answers

ASSUME GovernorAssumption ==
    /\ {Capacity, Limit} \subseteq Nat \ {0}
    /\ {MaxAge, MaxPause, MaxThrottles} \subseteq Nat
    /\ Estimate \in [Requester -> Nat]
    /\ Priority \in [Requester -> Nat]

VARIABLES
    level,          \* the tokens in the bucket; negative after a large request
    paused,         \* ticks left of the pause
    queue,          \* _waiters, in the order of their sequence numbers
    age,            \* the classes each request has gained since it was enqueued
    request,        \* where each session is in _send
    pumping,        \* _pump is running
    ceiling,        \* history: what the bucket may hold after all that happened
    throttles       \* 429 answers so far

governorVars == <<level, paused, queue, age, request, pumping, ceiling, throttles>>

GovernorTypeOK ==
    /\ level \in Int /\ paused \in 0 .. MaxPause
    /\ queue \in Seq(Requester)
    /\ age \in [Requester -> 0 .. MaxAge]
    /\ request \in [Requester -> {"idle", "queued", "granted", "admitted", "sent", "givenUp"}]
    /\ pumping \in BOOLEAN
    /\ ceiling \in Int /\ throttles \in Nat

GovernorInit ==
    /\ level = Capacity /\ paused = 0
    /\ queue = <<>>
    /\ age = [r \in Requester |-> 0]
    /\ request = [r \in Requester |-> "idle"]
    /\ pumping = FALSE
    /\ ceiling = Capacity
    /\ throttles = 0

LeastOf(a, b) == IF a < b THEN a ELSE b

\* The history counts tokens exactly.  Tokens that overflow the bucket are lost
\* for good; more than Capacity of lost tokens need not be told apart.
Count(delta) == ceiling' = LeastOf(level' + Capacity, ceiling + delta)

AddsAll(tokens) == level + tokens                                   \* mutant
\* _credit, and what a tick adds: never above the capacity.
Added(tokens) == LeastOf(Capacity, level + tokens)

Credit(tokens, owed) ==
    /\ level' = Added(tokens)
    /\ Count(owed)
    /\ pumping' = TRUE
-----------------------------------------------------------------------------
(* The bucket. *)

ByPriorityOnly(r) == Priority[r]                                    \* mutant
\* Waiting ages a request by one class.
Class(r) == Priority[r] - age[r]

\* The first of the waiters with the least class.
HeadOfQueue ==
    LET least == CHOOSE r \in ToSet(queue) : \A q \in ToSet(queue) : Class(r) =< Class(q)
        i == CHOOSE i \in DOMAIN queue : /\ Class(queue[i]) = Class(least)
                                         /\ \A j \in 1 .. i - 1 : Class(queue[j]) > Class(least)
    IN queue[i]

\* A request larger than the bucket is admitted once the bucket is full.
Enough(r) == level >= LeastOf(Estimate[r], Capacity)

\* One round of _pump's loop; its end sets a timer, which is a later tick.
PumpStep ==
    /\ pumping
    /\ IF queue # <<>> /\ paused = 0 /\ Enough(HeadOfQueue)
       THEN LET r == HeadOfQueue IN
            /\ queue' = RemoveFirst(queue, r)
            /\ level' = level - Estimate[r]
            /\ Count(-Estimate[r])
            /\ request' = [request EXCEPT ![r] = "granted"]
            /\ UNCHANGED pumping
       ELSE /\ pumping' = FALSE
            /\ UNCHANGED <<queue, level, ceiling, request>>
    /\ UNCHANGED <<paused, age, throttles>>

\* _refill: nothing accrues during a pause.  A waiting request ages.
Tick ==
    /\ ~pumping
    /\ \E rate \in 1 .. Limit :
        /\ level' = IF paused > 0 THEN level ELSE Added(rate)
        /\ Count(IF paused > 0 THEN 0 ELSE rate)
    /\ paused' = IF paused > 0 THEN paused - 1 ELSE 0
    /\ age' = [r \in Requester |-> IF request[r] = "idle" THEN 0
                                   ELSE LeastOf(MaxAge, age[r] + 1)]
    /\ pumping' = TRUE
    /\ UNCHANGED <<queue, request, throttles>>
-----------------------------------------------------------------------------
(* A session. *)

\* admit: a first admission starts with no age.
Admit(r) ==
    /\ ~pumping /\ request[r] = "idle"
    /\ queue' = Append(queue, r)
    /\ age' = [age EXCEPT ![r] = 0]
    /\ request' = [request EXCEPT ![r] = "queued"]
    /\ pumping' = TRUE
    /\ UNCHANGED <<level, paused, ceiling, throttles>>

KeepsGrant(r) == 0                                                  \* mutant
\* A grant that the cancelled caller never saw is credited.
Undelivered(r) == Estimate[r]

\* The wait is cancelled, or its timeout passes.
CancelWait(r) ==
    /\ ~pumping /\ request[r] \in {"queued", "granted"}
    /\ queue' = RemoveFirst(queue, r)
    /\ IF request[r] = "granted" THEN Credit(Undelivered(r), Estimate[r])
       ELSE pumping' = TRUE /\ UNCHANGED <<level, ceiling>>
    /\ request' = [request EXCEPT ![r] = "idle"]
    /\ UNCHANGED <<paused, age, throttles>>

\* The caller runs again with its admission.
Proceed(r) ==
    /\ ~pumping /\ request[r] = "granted"
    /\ request' = [request EXCEPT ![r] = "admitted"]
    /\ UNCHANGED <<level, paused, queue, age, pumping, ceiling, throttles>>

\* release: the guard completed the session, a save or generation_started
\* failed, the deadline passed before the request, or the provider answered 400.
ReleaseUnsent(r) ==
    /\ ~pumping /\ request[r] \in {"admitted", "sent"}
    /\ Credit(Estimate[r], Estimate[r])
    /\ request' = [request EXCEPT ![r] = "idle"]
    /\ UNCHANGED <<paused, queue, age, throttles>>

SendRequest(r) ==
    /\ ~pumping /\ request[r] = "admitted"
    /\ request' = [request EXCEPT ![r] = "sent"]
    /\ UNCHANGED <<level, paused, queue, age, pumping, ceiling, throttles>>

\* settle: a refund, or a charge when more was used than estimated.
SettleUse(r) ==
    /\ ~pumping /\ request[r] = "sent"
    /\ \E actual \in 0 .. Estimate[r] + 1 : Credit(Estimate[r] - actual, Estimate[r] - actual)
    /\ request' = [request EXCEPT ![r] = "idle"]
    /\ UNCHANGED <<paused, queue, age, throttles>>

\* Any other failure: the request may have been processed, so it stays charged.
FailUncertain(r) ==
    /\ ~pumping /\ request[r] = "sent"
    /\ request' = [request EXCEPT ![r] = "idle"]
    /\ UNCHANGED <<level, paused, queue, age, pumping, ceiling, throttles>>

\* throttled: what the bucket holds is spent.
Emptied == LeastOf(level, 0)

\* on_wait of a 429: throttled, then requeue, which returns the admission and
\* waits again with the age it has.  Both run before the next await.
Requeue(r) ==
    /\ ~pumping /\ request[r] = "sent" /\ throttles < MaxThrottles
    /\ throttles' = throttles + 1
    /\ \E wait \in 0 .. MaxPause : paused' = IF wait > paused THEN wait ELSE paused
    /\ level' = LeastOf(Capacity, Emptied + Estimate[r])
    /\ ceiling' = LeastOf(level' + Capacity, ceiling - level + Emptied + Estimate[r])
    /\ queue' = Append(queue, r)
    /\ request' = [request EXCEPT ![r] = "queued"]
    /\ pumping' = TRUE
    /\ UNCHANGED age

\* The wait would pass the deadline: throttled, then abandon, which awaits.
GiveUp(r) ==
    /\ ~pumping /\ request[r] = "sent" /\ throttles < MaxThrottles
    /\ throttles' = throttles + 1
    /\ \E wait \in 0 .. MaxPause : paused' = IF wait > paused THEN wait ELSE paused
    /\ level' = Emptied
    /\ ceiling' = LeastOf(level' + Capacity, ceiling - level + Emptied)
    /\ request' = [request EXCEPT ![r] = "givenUp"]
    /\ pumping' = TRUE
    /\ UNCHANGED <<queue, age>>

\* The release follows abandon; when abandon fails the admission stays charged.
Abandoned(r) ==
    /\ ~pumping /\ request[r] = "givenUp"
    /\ \/ Credit(Estimate[r], Estimate[r])
       \/ UNCHANGED <<level, pumping, ceiling>>
    /\ request' = [request EXCEPT ![r] = "idle"]
    /\ UNCHANGED <<paused, queue, age, throttles>>
-----------------------------------------------------------------------------
Runs(r) ==
    \/ Proceed(r) \/ ReleaseUnsent(r) \/ SendRequest(r) \/ SettleUse(r) \/ FailUncertain(r)
    \/ Abandoned(r)

GovernorNext ==
    \/ PumpStep \/ Tick
    \/ \E r \in Requester : Admit(r) \/ CancelWait(r) \/ Runs(r) \/ Requeue(r) \/ GiveUp(r)

GovernorSpec == GovernorInit /\ [][GovernorNext]_governorVars

\* The event loop runs what is ready, and time passes whatever else happens.
GovernorFairness ==
    /\ WF_governorVars(PumpStep)
    /\ SF_governorVars(Tick)
    /\ \A r \in Requester : WF_governorVars(Runs(r))
-----------------------------------------------------------------------------
(* Properties. *)

\* The bucket never holds more than its capacity, nor more than what it was
\* given less what was granted and not returned: no cancellation, refund or
\* 429 creates tokens, so the rate limit holds over every span of time.
NoTokensFromNowhere == level =< Capacity /\ level =< ceiling

\* Tokens are lost only when the bucket overflows: a grant that was cancelled,
\* released or settled gives back all that was not used.
NoTokensLost ==
    [][ceiling' - level' > ceiling - level => level' = Capacity]_governorVars

\* No request waits forever: aging beats the priority of newer requests, and a
\* request larger than the bucket waits for a full one.
NothingStarves == \A r \in Requester : []<>(request[r] # "queued")

\* The rate limit holds.
GovernorSound == GovernorTypeOK /\ NoTokensFromNowhere
=============================================================================
