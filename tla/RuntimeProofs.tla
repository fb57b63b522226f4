--------------------------- MODULE RuntimeProofs ---------------------------
(***************************************************************************)
(* Proofs about what the provider runtime keeps: the rate of its requests, *)
(* the checkpoints of its sessions, the updates it acknowledges, what its  *)
(* Lean tools answer, the notes that its branches keep, and the transcript *)
(* that it sends to the model.                                             *)
(***************************************************************************)
EXTENDS Governor, CheckpointStore, Inbox, LeanHost, LeanSession, PortableMemory, Transcript,
        SequenceTheorems, FiniteSetTheorems, WellFoundedInduction, TLAPS

\* The least of a nonempty set of natural numbers, and the greatest of a bounded one.
LEMMA LeastOfNat ==
    ASSUME NEW S \in SUBSET Nat, S # {}
    PROVE  Min(S) \in S /\ \A y \in S : Min(S) =< y
<1> DEFINE R == OpToRel(<, Nat)
<1>1. IsWellFoundedOn(R, Nat)
  BY NatLessThanWellFounded
<1>2. \A x, y \in Nat : <<x, y>> \in R <=> x < y
  BY DEF OpToRel
<1> HIDE DEF R
<1>3. \E x \in S : \A y \in S : ~ (<<y, x>> \in R)
  BY <1>1, WFMin
<1>4. \E x \in S : \A y \in S : x =< y
  <2>1. PICK x \in S : \A y \in S : ~ (<<y, x>> \in R)
    BY <1>3
  <2>2. \A y \in S : ~ (y < x) /\ y \in Nat /\ x \in Nat
    BY <1>2, <2>1
  <2>3. QED BY <2>2
<1>5. QED BY <1>4 DEF Min

LEMMA GreatestBelow ==
    ASSUME NEW b \in Nat, NEW S \in SUBSET (0 .. b), S # {}
    PROVE  Max(S) \in S /\ \A y \in S : y =< Max(S)
<1> DEFINE T == {x \in 0 .. b : b - x \in S}
<1>1. T \in SUBSET Nat /\ T # {}
  <2>1. PICK s \in S : TRUE
    OBVIOUS
  <2>2. b - s \in 0 .. b /\ b - (b - s) = s
    BY <2>1
  <2>3. \E x \in 0 .. b : b - x = s
    BY <2>2
  <2>4. \E x \in 0 .. b : b - x \in S
    BY <2>3
  <2>5. T # {}
    BY <2>4
  <2>6. T \in SUBSET Nat
    OBVIOUS
  <2>7. QED BY <2>5, <2>6
<1>2. Min(T) \in T /\ \A y \in T : Min(T) =< y
  <2> HIDE DEF T
  <2>1. QED BY <1>1, LeastOfNat
<1>3. \E x \in S : \A y \in S : x >= y
  <2> DEFINE m == b - Min(T)
  <2>1. m \in S /\ \A y \in S : b - y \in T
    BY <1>2
  <2>2. \A y \in S : m >= y
    BY <1>2, <2>1
  <2>3. QED BY <2>1, <2>2
<1>4. QED BY <1>3 DEF Max
-----------------------------------------------------------------------------
(* The token bucket.  The invariant is inductive with the types; that the  *)
(* head of the queue is a waiting request needs the least of its classes.  *)

USE GovernorAssumption

\* A queue without one of its members is a queue.
LEMMA RemoveFirstType ==
    ASSUME NEW S, NEW q \in Seq(S), NEW r
    PROVE  RemoveFirst(q, r) \in Seq(S)
<1> DEFINE I == {i \in 1 .. Len(q) : q[i] = r}
<1>1. CASE I = {}
  BY <1>1 DEF RemoveFirst
<1>2. CASE I # {}
  <2>1. I \in SUBSET Nat
    OBVIOUS
  <2>2. Min(I) \in I
    <3> HIDE DEF I
    <3>1. QED BY <1>2, <2>1, LeastOfNat
  <2>3. RemoveFirst(q, r) = RemoveAt(q, Min(I))
    BY <1>2 DEF RemoveFirst, SelectInSeq
  <2>4. Min(I) \in 1 .. Len(q)
    BY <2>2
  <2> HIDE DEF I
  <2>5. RemoveAt(q, Min(I)) \in Seq(S)
    <3>1. ASSUME NEW i \in 1 .. Len(q) PROVE RemoveAt(q, i) \in Seq(S)
      BY DEF RemoveAt
    <3>2. QED BY <2>4, <3>1
  <2>6. QED BY <2>3, <2>5
<1>3. QED BY <1>1, <1>2

LEMMA LeastOfTwo ==
    \A a, b \in Int : /\ LeastOf(a, b) \in Int /\ LeastOf(a, b) =< a /\ LeastOf(a, b) =< b
                      /\ LeastOf(a, b) \in {a, b}
BY DEF LeastOf

LEMMA Parameters ==
    /\ Capacity \in Nat /\ Capacity > 0 /\ Limit \in Nat
    /\ MaxAge \in Nat /\ MaxPause \in Nat /\ MaxThrottles \in Nat
    /\ \A r \in Requester : Estimate[r] \in Nat /\ Priority[r] \in Nat
OBVIOUS

\* The first of the least class is one of those that wait.
LEMMA HeadWaits ==
    ASSUME GovernorTypeOK, queue # <<>>
    PROVE  HeadOfQueue \in Requester
<1> DEFINE R == ToSet(queue)
<1>1. /\ queue \in Seq(Requester) /\ Len(queue) \in Nat /\ DOMAIN queue = 1 .. Len(queue)
      /\ \A i \in DOMAIN queue : queue[i] \in Requester
      /\ R = {queue[i] : i \in DOMAIN queue}
  BY DEF GovernorTypeOK, ToSet
<1>2. R # {} /\ R \subseteq Requester
  <2>1. Len(queue) # 0
    BY <1>1
  <2>2. 1 \in DOMAIN queue
    BY <1>1, <2>1
  <2>3. queue[1] \in R
    BY <1>1, <2>2
  <2>4. QED BY <1>1, <2>3
<1>3. \A r \in R : Class(r) + MaxAge \in Nat /\ Class(r) \in Int
  <2>1. ASSUME NEW r \in R PROVE Class(r) + MaxAge \in Nat /\ Class(r) \in Int
    <3>1. age[r] \in 0 .. MaxAge /\ Priority[r] \in Nat
      BY <1>2, Parameters DEF GovernorTypeOK
    <3>2. QED BY <3>1, Parameters DEF Class
  <2>2. QED BY <2>1
<1> DEFINE C == {Class(r) + MaxAge : r \in R}
<1>4. \E r \in R : \A q \in R : Class(r) =< Class(q)
  <2> HIDE DEF R
  <2>1. C \in SUBSET Nat /\ C # {}
    BY <1>2, <1>3
  <2>2. Min(C) \in C /\ \A y \in C : Min(C) =< y
    <3> HIDE DEF C
    <3>1. QED BY <2>1, LeastOfNat
  <2>3. PICK r \in R : Min(C) = Class(r) + MaxAge
    BY <2>2
  <2>4. \A q \in R : Class(r) + MaxAge =< Class(q) + MaxAge
    BY <2>2, <2>3
  <2>5. \A q \in R : Class(r) =< Class(q)
    BY <1>3, <2>4, Parameters
  <2>6. QED BY <2>5
<1> DEFINE least == CHOOSE r \in R : \A q \in R : Class(r) =< Class(q)
<1>5. least \in R /\ \A q \in R : Class(least) =< Class(q)
  BY <1>4
<1> HIDE DEF least
<1> DEFINE F == {i \in DOMAIN queue : Class(queue[i]) = Class(least)}
<1>6. F \in SUBSET Nat /\ F # {}
  BY <1>1, <1>5
<1>7. Min(F) \in F /\ \A i \in F : Min(F) =< i
  <2> HIDE DEF F
  <2>1. QED BY <1>6, LeastOfNat
<1> DEFINE First(i) == /\ Class(queue[i]) = Class(least)
                       /\ \A j \in 1 .. i - 1 : Class(queue[j]) > Class(least)
<1>8. First(Min(F))
  <2> DEFINE i == Min(F)
  <2>1. i \in DOMAIN queue /\ i \in 1 .. Len(queue) /\ Class(queue[i]) = Class(least)
    BY <1>1, <1>7
  <2>2. ASSUME NEW j \in 1 .. i - 1 PROVE Class(queue[j]) > Class(least)
    <3>1. j \in DOMAIN queue /\ ~ (i =< j) /\ j \in Nat
      <4>1. i \in 1 .. Len(queue) /\ Len(queue) \in Nat
        BY <1>1, <2>1
      <4> HIDE DEF i
      <4>2. j \in 1 .. Len(queue) /\ ~ (i =< j) /\ j \in Nat
        BY <4>1, <2>2
      <4>3. QED BY <1>1, <4>2
    <3>2. j \notin F
      BY <1>7, <3>1
    <3>3. Class(queue[j]) # Class(least) /\ queue[j] \in R
      BY <1>1, <3>1, <3>2
    <3>4. QED BY <1>3, <1>5, <3>3
  <2>3. QED BY <2>1, <2>2
<1>9. \E i \in DOMAIN queue : First(i)
  <2>1. Min(F) \in DOMAIN queue
    BY <1>7
  <2> HIDE DEF F, First
  <2>2. QED BY <1>8, <2>1
<1>10. HeadOfQueue = queue[CHOOSE i \in DOMAIN queue : First(i)]
  BY DEF HeadOfQueue, least
<1>11. (CHOOSE i \in DOMAIN queue : First(i)) \in DOMAIN queue
  <2> HIDE DEF First
  <2>1. QED BY <1>9
<1>12. QED BY <1>1, <1>10, <1>11

\* What a step of the bucket adds: nothing beyond the tokens that are owed is there
\* afterwards, and less than that only when the bucket is full.
Accounted ==
    /\ level' \in Int /\ ceiling' \in Int
    /\ level' =< Capacity /\ level' =< ceiling'
    /\ ceiling' - level' > ceiling - level => level' = Capacity

GovernorInv == GovernorTypeOK /\ NoTokensFromNowhere

LEMMA AddedTokens ==
    ASSUME GovernorInv, NEW tokens \in Int, level' = Added(tokens), Count(tokens)
    PROVE  Accounted
<1>1. level \in Int /\ ceiling \in Int /\ level =< Capacity /\ level =< ceiling
  BY DEF GovernorInv, GovernorTypeOK, NoTokensFromNowhere
<1>2. level' = LeastOf(Capacity, level + tokens)
      /\ ceiling' = LeastOf(level' + Capacity, ceiling + tokens)
  BY DEF Added, Count
<1>3. QED BY <1>1, <1>2, Parameters DEF LeastOf, Accounted

LEMMA SameTokens ==
    ASSUME GovernorInv, UNCHANGED <<level, ceiling>>
    PROVE  Accounted
BY DEF GovernorInv, GovernorTypeOK, NoTokensFromNowhere, Accounted

\* What else a step may change.
Typed ==
    /\ paused' \in 0 .. MaxPause /\ queue' \in Seq(Requester)
    /\ age' \in [Requester -> 0 .. MaxAge]
    /\ request' \in [Requester -> {"idle", "queued", "granted", "admitted", "sent", "givenUp"}]
    /\ pumping' \in BOOLEAN /\ throttles' \in Nat

LEMMA PumpAccounted ==
    ASSUME GovernorInv, PumpStep
    PROVE  Accounted /\ Typed
<1>1. GovernorTypeOK /\ level =< Capacity /\ level =< ceiling
  BY DEF GovernorInv, NoTokensFromNowhere
<1>2. CASE queue # <<>> /\ paused = 0 /\ Enough(HeadOfQueue)
  <2> DEFINE r == HeadOfQueue
  <2>1. r \in Requester
    BY <1>1, <1>2, HeadWaits
  <2> HIDE DEF r
  <2>2. /\ queue' = RemoveFirst(queue, r) /\ level' = level - Estimate[r]
        /\ Count(-Estimate[r]) /\ request' = [request EXCEPT ![r] = "granted"]
        /\ UNCHANGED <<pumping, paused, age, throttles>>
    BY <1>2 DEF PumpStep, r
  <2>3. Estimate[r] \in Nat
    BY <2>1, Parameters
  <2>4. Accounted
    <3>1. level \in Int /\ ceiling \in Int
      BY <1>1 DEF GovernorTypeOK
    <3>2. ceiling' = LeastOf(level' + Capacity, ceiling - Estimate[r])
      BY <2>2, <2>3, <3>1 DEF Count
    <3>3. QED BY <1>1, <2>2, <2>3, <3>1, <3>2, Parameters DEF LeastOf, Accounted
  <2>5. Typed
    <3>1. queue' \in Seq(Requester)
      BY <1>1, <2>2, RemoveFirstType DEF GovernorTypeOK
    <3>2. QED BY <1>1, <2>2, <3>1 DEF Typed, GovernorTypeOK
  <2>6. QED BY <2>4, <2>5
<1>3. CASE ~(queue # <<>> /\ paused = 0 /\ Enough(HeadOfQueue))
  <2>1. pumping' = FALSE /\ UNCHANGED <<queue, level, ceiling, request, paused, age, throttles>>
    BY <1>3 DEF PumpStep
  <2>2. QED BY <1>1, <2>1, SameTokens DEF Typed, GovernorTypeOK
<1>4. QED BY <1>2, <1>3

LEMMA TickAccounted ==
    ASSUME GovernorInv, Tick
    PROVE  Accounted /\ Typed
<1>1. GovernorTypeOK /\ level =< Capacity /\ level =< ceiling
  BY DEF GovernorInv, NoTokensFromNowhere
<1>2. PICK rate \in 1 .. Limit :
        /\ level' = IF paused > 0 THEN level ELSE Added(rate)
        /\ Count(IF paused > 0 THEN 0 ELSE rate)
  BY DEF Tick
<1>3. rate \in Int /\ 0 \in Int /\ level \in Int /\ level + 0 = level
  BY <1>1, Parameters DEF GovernorTypeOK
<1>4. CASE paused > 0
  <2>1. Added(0) = level
    BY <1>1, <1>3, Parameters DEF Added, LeastOf
  <2>2. QED
    <3>1. Accounted
      BY <1>2, <1>3, <1>4, <2>1, AddedTokens
    <3>2. paused' \in 0 .. MaxPause
      BY <1>1, <1>4, Parameters DEF Tick, GovernorTypeOK
    <3>3. age' \in [Requester -> 0 .. MaxAge]
      BY <1>1, Parameters DEF Tick, GovernorTypeOK, LeastOf
    <3>4. QED BY <1>1, <3>1, <3>2, <3>3 DEF Tick, Typed, GovernorTypeOK
<1>5. CASE ~(paused > 0)
  <2>1. Accounted
    BY <1>2, <1>3, <1>5, AddedTokens
  <2>2. paused' \in 0 .. MaxPause
    BY <1>1, <1>5, Parameters DEF Tick, GovernorTypeOK
  <2>3. age' \in [Requester -> 0 .. MaxAge]
    BY <1>1, Parameters DEF Tick, GovernorTypeOK, LeastOf
  <2>4. QED BY <1>1, <2>1, <2>2, <2>3 DEF Tick, Typed, GovernorTypeOK
<1>6. QED BY <1>4, <1>5

LEMMA SessionAccounted ==
    ASSUME GovernorInv, NEW r \in Requester,
           Admit(r) \/ CancelWait(r) \/ Runs(r) \/ Requeue(r) \/ GiveUp(r)
    PROVE  Accounted /\ Typed
<1>1. GovernorTypeOK /\ level =< Capacity /\ level =< ceiling /\ level \in Int /\ ceiling \in Int
  BY DEF GovernorInv, NoTokensFromNowhere, GovernorTypeOK
<1>2. Estimate[r] \in Nat /\ Estimate[r] \in Int
  BY Parameters
<1>3. ASSUME NEW tokens \in Int, Credit(tokens, tokens) PROVE Accounted /\ pumping' \in BOOLEAN
  BY <1>3, AddedTokens DEF Credit
<1>4. CASE Admit(r)
  <2>1. queue' \in Seq(Requester) /\ age' \in [Requester -> 0 .. MaxAge]
    BY <1>1, <1>4, Parameters DEF Admit, GovernorTypeOK
  <2>2. QED BY <1>1, <1>4, <2>1, SameTokens DEF Admit, Typed, GovernorTypeOK
<1>5. CASE CancelWait(r)
  <2>1. Accounted /\ pumping' \in BOOLEAN
    <3>1. CASE request[r] = "granted"
      BY <1>2, <1>3, <1>5, <3>1 DEF CancelWait, Undelivered
    <3>2. CASE request[r] # "granted"
      BY <1>5, <3>2, SameTokens DEF CancelWait
    <3>3. QED BY <3>1, <3>2
  <2>2. queue' \in Seq(Requester)
    BY <1>1, <1>5, RemoveFirstType DEF CancelWait, GovernorTypeOK
  <2>3. QED BY <1>1, <1>5, <2>1, <2>2 DEF CancelWait, Typed, GovernorTypeOK
<1>6. CASE Proceed(r) \/ SendRequest(r) \/ FailUncertain(r)
  <2>1. UNCHANGED <<level, ceiling>>
    BY <1>6 DEF Proceed, SendRequest, FailUncertain
  <2>2. Typed
    BY <1>1, <1>6 DEF Proceed, SendRequest, FailUncertain, Typed, GovernorTypeOK
  <2>3. QED BY <2>1, <2>2, SameTokens
<1>7. CASE ReleaseUnsent(r)
  <2>1. Accounted /\ pumping' \in BOOLEAN
    BY <1>2, <1>3, <1>7 DEF ReleaseUnsent
  <2>2. QED BY <1>1, <1>7, <2>1 DEF ReleaseUnsent, Typed, GovernorTypeOK
<1>8. CASE SettleUse(r)
  <2>1. PICK actual \in 0 .. Estimate[r] + 1 : Credit(Estimate[r] - actual, Estimate[r] - actual)
    BY <1>8 DEF SettleUse
  <2>2. Estimate[r] - actual \in Int
    BY <1>2
  <2>3. Accounted /\ pumping' \in BOOLEAN
    BY <1>3, <2>1, <2>2
  <2>4. QED BY <1>1, <1>8, <2>3 DEF SettleUse, Typed, GovernorTypeOK
<1>9. CASE Abandoned(r)
  <2>1. Accounted /\ pumping' \in BOOLEAN
    <3>1. CASE Credit(Estimate[r], Estimate[r])
      BY <1>2, <1>3, <3>1
    <3>2. CASE UNCHANGED <<level, pumping, ceiling>>
      BY <1>1, <3>2, SameTokens DEF GovernorTypeOK
    <3>3. QED BY <1>9, <3>1, <3>2 DEF Abandoned
  <2>2. QED BY <1>1, <1>9, <2>1 DEF Abandoned, Typed, GovernorTypeOK
<1>10. CASE Requeue(r) \/ GiveUp(r)
  <2>1. paused' \in 0 .. MaxPause
    BY <1>1, <1>10 DEF Requeue, GiveUp, GovernorTypeOK
  <2>2. Typed
    <3>1. throttles' = throttles + 1 /\ pumping' = TRUE /\ age' = age
          /\ (queue' = Append(queue, r) \/ queue' = queue)
      BY <1>10 DEF Requeue, GiveUp
    <3>2. throttles' \in Nat /\ pumping' \in BOOLEAN /\ age' \in [Requester -> 0 .. MaxAge]
      BY <1>1, <3>1 DEF GovernorTypeOK
    <3>3. queue' \in Seq(Requester)
      <4>1. queue \in Seq(Requester)
        BY <1>1 DEF GovernorTypeOK
      <4>2. Append(queue, r) \in Seq(Requester)
        BY <4>1, AppendProperties
      <4>3. QED BY <3>1, <4>1, <4>2
    <3>4. request' \in [Requester -> {"idle", "queued", "granted", "admitted", "sent", "givenUp"}]
      BY <1>1, <1>10 DEF Requeue, GiveUp, GovernorTypeOK
    <3>5. QED BY <2>1, <3>2, <3>3, <3>4 DEF Typed
  <2>3. Emptied \in Int /\ Emptied =< level /\ Emptied =< 0
    BY <1>1, LeastOfTwo DEF Emptied
  <2>4. CASE Requeue(r)
    <3>1. /\ level' = LeastOf(Capacity, Emptied + Estimate[r])
          /\ ceiling' = LeastOf(level' + Capacity, ceiling - level + Emptied + Estimate[r])
      BY <2>4 DEF Requeue
    <3>2. Accounted
      <4> HIDE DEF Emptied
      <4>1. QED BY <1>1, <1>2, <2>3, <3>1, Parameters DEF LeastOf, Accounted
    <3>3. QED BY <2>2, <3>2
  <2>5. CASE GiveUp(r)
    <3>1. /\ level' = Emptied
          /\ ceiling' = LeastOf(level' + Capacity, ceiling - level + Emptied)
      BY <2>5 DEF GiveUp
    <3>2. Accounted
      BY <1>1, <2>3, <3>1, Parameters DEF LeastOf, Accounted
    <3>3. QED BY <2>2, <3>2
  <2>6. QED BY <1>10, <2>4, <2>5
<1>11. QED BY <1>4, <1>5, <1>6, <1>7, <1>8, <1>9, <1>10 DEF Runs

LEMMA InitGovernor == GovernorInit => GovernorInv
<1> SUFFICES ASSUME GovernorInit PROVE GovernorInv
  OBVIOUS
<1>1. queue \in Seq(Requester) /\ paused \in 0 .. MaxPause /\ throttles \in Nat
  BY Parameters DEF GovernorInit
<1>2. age \in [Requester -> 0 .. MaxAge]
  BY Parameters DEF GovernorInit
<1>3. level \in Int /\ ceiling \in Int /\ level =< Capacity /\ level =< ceiling
  BY Parameters DEF GovernorInit
<1>4. QED
  BY <1>1, <1>2, <1>3 DEF GovernorInit, GovernorInv, GovernorTypeOK, NoTokensFromNowhere

LEMMA GovernorSteps ==
    ASSUME GovernorInv, [GovernorNext]_governorVars
    PROVE  GovernorInv' /\ (ceiling' - level' > ceiling - level => level' = Capacity)
<1>1. ASSUME Accounted, Typed
      PROVE  GovernorInv' /\ (ceiling' - level' > ceiling - level => level' = Capacity)
  BY <1>1 DEF Accounted, Typed, GovernorInv, GovernorTypeOK, NoTokensFromNowhere
<1>2. CASE UNCHANGED governorVars
  BY <1>2 DEF governorVars, GovernorInv, GovernorTypeOK, NoTokensFromNowhere
<1>3. QED
  BY <1>1, <1>2, PumpAccounted, TickAccounted, SessionAccounted DEF GovernorNext

\* The rate limit holds: the bucket never holds more than its capacity, nor more than
\* what time has added and callers have given back (TokenRateGovernor).
THEOREM GovernorSafety == GovernorSpec => []GovernorSound
<1>1. GovernorInv /\ [GovernorNext]_governorVars => GovernorInv'
  BY GovernorSteps
<1>2. GovernorInv => GovernorSound
  BY DEF GovernorInv, GovernorSound
<1>3. QED BY InitGovernor, <1>1, <1>2, PTL DEF GovernorSpec

\* No step loses tokens, except into a full bucket: a wait that is cancelled after its
\* grant, a release and a refund give back all that was not used
\* (TokenRateGovernor.admit, release, settle).
THEOREM TokensKept == GovernorSpec => NoTokensLost
<1>1. GovernorInv /\ [GovernorNext]_governorVars => GovernorInv'
  BY GovernorSteps
<1>2. GovernorInv /\ [GovernorNext]_governorVars
        => [ceiling' - level' > ceiling - level => level' = Capacity]_governorVars
  BY GovernorSteps
<1>3. QED BY InitGovernor, <1>1, <1>2, PTL DEF GovernorSpec, NoTokensLost
-----------------------------------------------------------------------------
(* Checkpoints.  The inductive invariant follows the rows of a save from   *)
(* its chunks' bytes to the commit: what is stored, what each cache may    *)
(* refer to, and that ids still to be committed belong to one save only.   *)

HIDE GovernorAssumption
USE CheckpointAssumption

Refs == UNION {[D -> Row] : D \in SUBSET Chunk}
StoreRecord == [pc : {"off", "open", "saving"}, cache : Refs, warm : BOOLEAN,
                saving : State \cup {NoState}, written : Refs]

LEMMA NothingIsEmpty == DOMAIN Nothing = {} /\ Nothing \in Refs /\ Range(Nothing) = {}
<1>1. Nothing \in Seq(Row) /\ Len(Nothing) = 0
  BY DEF Nothing
<1>2. Nothing \in [1 .. 0 -> Row] /\ 1 .. 0 = {}
  BY <1>1
<1>3. DOMAIN Nothing = {}
  BY <1>2
<1>4. Nothing \in Refs
  BY <1>2 DEF Refs
<1>5. QED BY <1>3, <1>4 DEF Range

LEMMA RefsAreMaps ==
    \A f \in Refs : DOMAIN f \subseteq Chunk /\ \A c \in DOMAIN f : f[c] \in Row
BY DEF Refs

LEMMA OverOfRefs ==
    ASSUME NEW f \in Refs, NEW g \in Refs
    PROVE  /\ Over(f, g) \in Refs
           /\ DOMAIN Over(f, g) = DOMAIN f \cup DOMAIN g
           /\ \A c \in DOMAIN f : Over(f, g)[c] = f[c]
           /\ \A c \in DOMAIN g \ DOMAIN f : Over(f, g)[c] = g[c]
<1> DEFINE D == DOMAIN f \cup DOMAIN g
<1>1. D \in SUBSET Chunk /\ \A c \in D : (IF c \in DOMAIN f THEN f[c] ELSE g[c]) \in Row
  BY RefsAreMaps
<1>2. Over(f, g) \in [D -> Row]
  BY <1>1 DEF Over
<1>3. Over(f, g) \in Refs
  BY <1>1, <1>2 DEF Refs
<1>4. QED BY <1>3 DEF Over

\* What the store knows of the rows is right: their chunks are stored, each cache
\* refers to committed rows, and the rows still to be committed are new ones, of
\* chunks already stored, each of one save only.
RowsStored == \A r \in DOMAIN rows : rows[r] \in stored
CachesResolve == \A e \in Execution : Resolves(store[e].cache)
WrittenFresh ==
    \A e \in Execution : \A c \in DOMAIN store[e].written :
        /\ c \in stored
        /\ store[e].written[c] \notin DOMAIN rows
        /\ \A f \in Execution : \A b \in DOMAIN store[f].written :
              store[f].written[b] = store[e].written[c] => f = e /\ b = c
SavesAState == \A e \in Execution : store[e].pc = "saving" => store[e].saving \in State

CheckpointInv ==
    /\ CheckpointTypeOK
    /\ store \in [Execution -> StoreRecord]
    /\ RowsStored
    /\ CachesResolve
    /\ WrittenFresh
    /\ SavesAState
    /\ PointerResolves

LEMMA StoreTypes ==
    ASSUME NEW s \in [Execution -> StoreRecord]
    PROVE  \A e \in Execution :
        /\ s[e].pc \in {"off", "open", "saving"} /\ s[e].warm \in BOOLEAN
        /\ IsRefs(s[e].cache) /\ IsRefs(s[e].written)
        /\ s[e].saving \in State \cup {NoState}
        /\ s[e].cache \in Refs /\ s[e].written \in Refs
BY RefsAreMaps DEF StoreRecord, IsRefs, Partial

LEMMA OffRecord ==
    /\ Off \in StoreRecord /\ Off.pc = "off"
    /\ DOMAIN Off.cache = {} /\ DOMAIN Off.written = {}
    /\ LET r == [Off EXCEPT !.pc = "open"] IN
       /\ r \in StoreRecord /\ r.pc = "open"
       /\ DOMAIN r.cache = {} /\ DOMAIN r.written = {}
<1>1. NoState \in State \cup {NoState} /\ FALSE \in BOOLEAN
  OBVIOUS
<1>2. QED BY <1>1, NothingIsEmpty DEF Off, StoreRecord

LEMMA InitCheckpoint == CheckpointInit => CheckpointInv
<1> SUFFICES ASSUME CheckpointInit PROVE CheckpointInv
  OBVIOUS
<1>1. Off \in StoreRecord /\ Off.pc = "off" /\ DOMAIN Off.cache = {} /\ DOMAIN Off.written = {}
  BY OffRecord
<1>2. /\ store = [e \in Execution |-> Off] /\ rows = Nothing /\ stored = {}
      /\ pointer = [state |-> NoState, refs |-> Nothing] /\ command = Nothing /\ owner = "none"
  BY DEF CheckpointInit
<1>3. store \in [Execution -> StoreRecord] /\ \A e \in Execution : store[e] = Off
  BY <1>1, <1>2
<1>4. CheckpointTypeOK
  BY <1>2, <1>3, NothingIsEmpty, StoreTypes DEF CheckpointTypeOK, IsRefs, Partial
<1>5. RowsStored /\ CachesResolve /\ WrittenFresh /\ SavesAState /\ PointerResolves
  BY <1>1, <1>2, <1>3, NothingIsEmpty
     DEF RowsStored, CachesResolve, WrittenFresh, SavesAState, PointerResolves, Resolves, NoState
<1>6. QED BY <1>3, <1>4, <1>5 DEF CheckpointInv

\* One store changes, perhaps after it stored the bytes of a chunk; nothing is committed.
LEMMA StoreMoves ==
    ASSUME CheckpointInv, NEW e \in Execution, NEW k \in StoreRecord,
           store' = [store EXCEPT ![e] = k],
           stored \subseteq stored', stored' \subseteq Chunk,
           owner' \in Execution \cup {"none"},
           UNCHANGED <<rows, pointer, command>>,
           Resolves(k.cache),
           \A c \in DOMAIN k.written :
               /\ c \in stored' /\ k.written[c] \notin DOMAIN rows
               /\ \A b \in DOMAIN k.written : k.written[b] = k.written[c] => b = c
               /\ \A f \in Execution \ {e} : \A b \in DOMAIN store[f].written :
                     store[f].written[b] # k.written[c],
           k.pc = "saving" => k.saving \in State
    PROVE  CheckpointInv'
<1>1. CheckpointTypeOK /\ store \in [Execution -> StoreRecord]
  BY DEF CheckpointInv
<1>2. /\ store' \in [Execution -> StoreRecord] /\ store'[e] = k
      /\ \A f \in Execution : f # e => store'[f] = store[f]
  BY <1>1
<1>3. CheckpointTypeOK'
  BY <1>1, <1>2, StoreTypes DEF CheckpointTypeOK
<1>4. RowsStored' /\ PointerResolves'
  BY DEF CheckpointInv, RowsStored, PointerResolves, Resolves
<1>5. CachesResolve'
  <2>1. ASSUME NEW f \in Execution, f # e PROVE Resolves(store[f].cache)'
    BY <1>2, <2>1 DEF CheckpointInv, CachesResolve, Resolves
  <2>2. QED BY <1>2, <2>1 DEF CachesResolve, Resolves
<1>6. WrittenFresh'
  <2>1. ASSUME NEW f \in Execution, NEW c \in DOMAIN store'[f].written
        PROVE  c \in stored' /\ store'[f].written[c] \notin DOMAIN rows
    BY <1>2, <2>1 DEF CheckpointInv, WrittenFresh
  <2>2. ASSUME NEW f \in Execution, NEW c \in DOMAIN store'[f].written,
               NEW g \in Execution, NEW b \in DOMAIN store'[g].written,
               store'[g].written[b] = store'[f].written[c]
        PROVE  g = f /\ b = c
    <3>1. CASE f = e /\ g = e
      BY <1>2, <2>2, <3>1
    <3>2. CASE f = e /\ g # e
      BY <1>2, <2>2, <3>2
    <3>3. CASE f # e /\ g = e
      BY <1>2, <2>2, <3>3
    <3>4. CASE f # e /\ g # e
      BY <1>2, <2>2, <3>4 DEF CheckpointInv, WrittenFresh
    <3>5. QED BY <3>1, <3>2, <3>3, <3>4
  <2>3. QED BY <2>1, <2>2 DEF WrittenFresh
<1>7. SavesAState'
  BY <1>2 DEF CheckpointInv, SavesAState
<1>8. QED BY <1>2, <1>3, <1>4, <1>5, <1>6, <1>7 DEF CheckpointInv

LEMMA OpenOrClose ==
    ASSUME CheckpointInv, NEW e \in Execution, OpenStore(e) \/ CloseStore(e)
    PROVE  CheckpointInv'
<1>1. owner \in Execution \cup {"none"} /\ stored \subseteq Chunk
  BY DEF CheckpointInv, CheckpointTypeOK
<1>2. ASSUME NEW k \in StoreRecord, k.pc # "saving", DOMAIN k.cache = {}, DOMAIN k.written = {},
             store' = [store EXCEPT ![e] = k],
             owner' \in Execution \cup {"none"}, UNCHANGED <<stored, rows, pointer, command>>
      PROVE  CheckpointInv'
  <2>1. Resolves(k.cache)
    BY <1>2 DEF Resolves
  <2>2. QED BY <1>1, <1>2, <2>1, StoreMoves
<1>3. CASE OpenStore(e)
  <2> DEFINE k == [Off EXCEPT !.pc = "open"]
  <2>1. k \in StoreRecord /\ k.pc = "open" /\ DOMAIN k.cache = {} /\ DOMAIN k.written = {}
    BY OffRecord
  <2>2. store' = [store EXCEPT ![e] = k] /\ owner' = e
        /\ UNCHANGED <<stored, rows, pointer, command>>
    BY <1>3 DEF OpenStore
  <2> HIDE DEF k
  <2>3. QED BY <1>2, <2>1, <2>2
<1>4. CASE CloseStore(e)
  <2>1. owner' \in Execution \cup {"none"}
    BY <1>1, <1>4 DEF CloseStore
  <2>2. QED BY <1>2, <1>4, <2>1, OffRecord DEF CloseStore
<1>5. QED BY <1>3, <1>4

LEMMA BeginSaveKeeps ==
    ASSUME CheckpointInv, NEW e \in Execution, NEW s \in State, BeginSave(e, s)
    PROVE  CheckpointInv'
<1> DEFINE w == Warmed(e)
<1> DEFINE k == [store[e] EXCEPT !.pc = "saving", !.cache = w, !.warm = TRUE,
                                !.saving = s, !.written = Nothing]
<1>1. /\ CheckpointTypeOK /\ store \in [Execution -> StoreRecord]
      /\ store[e] \in StoreRecord /\ store[e].cache \in Refs
      /\ UNCHANGED <<stored, rows, pointer, command, owner>>
  BY StoreTypes DEF CheckpointInv, BeginSave
\* The cache is warmed with committed rows.
<1>2. w \in Refs /\ Resolves(w)
  <2>1. Resolves(store[e].cache)
    BY DEF CheckpointInv, CachesResolve
  <2>2. CASE store[e].warm \/ pointer.state = NoState
    BY <1>1, <2>1, <2>2 DEF Warmed
  <2>3. CASE ~(store[e].warm \/ pointer.state = NoState)
    <3> DEFINE rowsOf(c) == {r \in DOMAIN rows : rows[r] = c}
    <3> DEFINE g == [c \in Range(rows) |-> Min(rowsOf(c))]
    <3>1. ASSUME NEW c \in Range(rows)
          PROVE  /\ Min(rowsOf(c)) \in rowsOf(c) /\ c \in stored /\ c \in Chunk
                 /\ rowsOf(c) \subseteq Row
      <4>1. rowsOf(c) # {} /\ rowsOf(c) \in SUBSET Nat /\ rowsOf(c) \subseteq Row
        BY <1>1, <3>1 DEF Range, CheckpointTypeOK, Partial, Row
      <4>2. c \in stored /\ c \in Chunk
        BY <1>1, <3>1 DEF CheckpointInv, RowsStored, Range, CheckpointTypeOK, Partial
      <4> HIDE DEF rowsOf
      <4>3. QED BY <4>1, <4>2, LeastOfNat
    <3>2. g \in [Range(rows) -> Row] /\ Range(rows) \in SUBSET Chunk
      BY <3>1
    <3>3. g \in Refs /\ Resolves(g)
      BY <3>1, <3>2 DEF Refs, Resolves
    <3>4. w = Over(store[e].cache, g)
      BY <2>3 DEF Warmed
    <3> HIDE DEF g
    <3>5. w \in Refs /\ Resolves(w)
      <4>1. /\ Over(store[e].cache, g) \in Refs
            /\ DOMAIN Over(store[e].cache, g) = DOMAIN store[e].cache \cup DOMAIN g
            /\ \A c \in DOMAIN store[e].cache : Over(store[e].cache, g)[c] = store[e].cache[c]
            /\ \A c \in DOMAIN g \ DOMAIN store[e].cache : Over(store[e].cache, g)[c] = g[c]
        BY <1>1, <3>3, OverOfRefs
      <4>2. QED BY <2>1, <3>3, <3>4, <4>1 DEF Resolves
    <3>6. QED BY <3>5
  <2>4. QED BY <2>2, <2>3
<1> HIDE DEF w
<1>3. store' = [store EXCEPT ![e] = k]
  BY <1>1 DEF BeginSave, w
<1>4. k \in StoreRecord /\ k.cache = w /\ k.written = Nothing /\ k.saving = s
  BY <1>1, <1>2, NothingIsEmpty DEF StoreRecord
<1>5. DOMAIN k.written = {}
  BY <1>4, NothingIsEmpty
<1>6. Resolves(k.cache)
  BY <1>2, <1>4
<1> HIDE DEF k
<1>7. stored \subseteq Chunk /\ owner' \in Execution \cup {"none"}
  BY <1>1 DEF CheckpointTypeOK
<1>8. QED BY <1>1, <1>3, <1>4, <1>5, <1>6, <1>7, StoreMoves

LEMMA PutChunkKeeps ==
    ASSUME CheckpointInv, NEW e \in Execution, NEW c \in Chunk, PutChunk(e, c)
    PROVE  CheckpointInv'
<1>1. /\ CheckpointTypeOK /\ store \in [Execution -> StoreRecord]
      /\ store[e] \in StoreRecord /\ store[e].cache \in Refs /\ store[e].written \in Refs
      /\ store[e].pc = "saving" /\ c \in ToWrite(e) /\ stored' = stored \cup {c}
      /\ UNCHANGED <<rows, pointer, command, owner>>
  BY StoreTypes DEF CheckpointInv, PutChunk
<1>2. PICK id \in FreshRows :
        store' = [store EXCEPT ![e].written = Over([x \in {c} |-> id], @)]
  BY DEF PutChunk
<1> DEFINE one == [x \in {c} |-> id]
<1> DEFINE w == Over(one, store[e].written)
<1> DEFINE k == [store[e] EXCEPT !.written = w]
<1>3. /\ id \in Row /\ id \notin DOMAIN rows
      /\ \A f \in Execution : \A b \in DOMAIN store[f].written : store[f].written[b] # id
  BY DEF FreshRows, Range
<1>4. one \in Refs /\ DOMAIN one = {c} /\ one[c] = id
  <2>1. one \in [{c} -> Row] /\ {c} \in SUBSET Chunk
    BY <1>3
  <2>2. one \in Refs
    BY <2>1 DEF Refs
  <2>3. QED BY <2>1, <2>2
<1> HIDE DEF one
<1>5. /\ w \in Refs /\ DOMAIN w = {c} \cup DOMAIN store[e].written /\ w[c] = id
      /\ \A b \in DOMAIN store[e].written \ {c} : w[b] = store[e].written[b]
  <2>1. store[e].written \in Refs /\ one \in Refs /\ c \in DOMAIN one
    BY <1>1, <1>4
  <2>2. /\ w \in Refs /\ DOMAIN w = DOMAIN one \cup DOMAIN store[e].written
        /\ \A b \in DOMAIN one : w[b] = one[b]
        /\ \A b \in DOMAIN store[e].written \ DOMAIN one : w[b] = store[e].written[b]
    BY <2>1, OverOfRefs
  <2> HIDE DEF w
  <2>3. QED BY <1>4, <2>1, <2>2
<1>6. store' = [store EXCEPT ![e] = k]
  BY <1>1, <1>2 DEF one
<1> HIDE DEF w
<1>7. /\ k \in StoreRecord /\ k.written = w /\ k.cache = store[e].cache
      /\ k.saving = store[e].saving
  BY <1>1, <1>5 DEF StoreRecord
<1> HIDE DEF k
<1>8. Resolves(k.cache)
  <2>1. Resolves(store[e].cache)
    BY DEF CheckpointInv, CachesResolve
  <2>2. QED BY <1>1, <1>7, <2>1 DEF Resolves
<1>9. ASSUME NEW b \in DOMAIN w
      PROVE  /\ b \in stored' /\ w[b] \notin DOMAIN rows
             /\ \A a \in DOMAIN w : w[a] = w[b] => a = b
             /\ \A f \in Execution \ {e} : \A a \in DOMAIN store[f].written :
                   store[f].written[a] # w[b]
  <2>1. \A a \in DOMAIN store[e].written :
          /\ a \in stored /\ store[e].written[a] \notin DOMAIN rows
          /\ \A d \in DOMAIN store[e].written :
                store[e].written[d] = store[e].written[a] => d = a
          /\ \A f \in Execution \ {e} : \A d \in DOMAIN store[f].written :
                store[f].written[d] # store[e].written[a]
    BY DEF CheckpointInv, WrittenFresh
  <2>2. CASE b = c
    BY <1>1, <1>3, <1>5, <2>2
  <2>3. CASE b # c
    BY <1>1, <1>3, <1>5, <1>9, <2>1, <2>3
  <2>4. QED BY <2>2, <2>3
<1>10. /\ stored \subseteq stored' /\ stored' \subseteq Chunk
       /\ owner' \in Execution \cup {"none"} /\ k.saving \in State
  BY <1>1, <1>7 DEF CheckpointTypeOK, CheckpointInv, SavesAState
<1>11. \A b \in DOMAIN k.written :
         /\ b \in stored' /\ k.written[b] \notin DOMAIN rows
         /\ \A a \in DOMAIN k.written : k.written[a] = k.written[b] => a = b
         /\ \A f \in Execution \ {e} : \A a \in DOMAIN store[f].written :
               store[f].written[a] # k.written[b]
  BY <1>7, <1>9
<1>12. QED BY <1>1, <1>6, <1>7, <1>8, <1>10, <1>11, StoreMoves

\* A store that gives up its save, or learns only that it is over, keeps its cache.
LEMMA DoneRecord ==
    ASSUME CheckpointInv, NEW e \in Execution, NEW w \in Refs
    PROVE  LET k == [Done(e) EXCEPT !.cache = w] IN
           /\ k \in StoreRecord /\ k.cache = w /\ DOMAIN k.written = {} /\ k.pc = "open"
<1>1. store[e] \in StoreRecord /\ NoState \in State \cup {NoState}
  BY DEF CheckpointInv
<1>2. QED BY <1>1, NothingIsEmpty DEF Done, StoreRecord

LEMMA NothingCommitted ==
    ASSUME CheckpointInv, NEW e \in Execution,
           store' = [store EXCEPT ![e] = [Done(e) EXCEPT !.cache = store[e].cache]],
           UNCHANGED <<stored, rows, pointer, command, owner>>
    PROVE  CheckpointInv'
<1> DEFINE k == [Done(e) EXCEPT !.cache = store[e].cache]
<1>1. store[e].cache \in Refs /\ stored \subseteq Chunk /\ owner \in Execution \cup {"none"}
  BY StoreTypes DEF CheckpointInv, CheckpointTypeOK
<1>2. k \in StoreRecord /\ k.cache = store[e].cache /\ DOMAIN k.written = {} /\ k.pc = "open"
  BY <1>1, DoneRecord
<1> HIDE DEF k
<1>3. Resolves(k.cache)
  BY <1>2 DEF CheckpointInv, CachesResolve, Resolves
<1>4. store' = [store EXCEPT ![e] = k]
  BY DEF k
<1>5. QED BY <1>1, <1>2, <1>3, <1>4, StoreMoves

\* A fresh save: its rows are committed, and they are what its manifest refers to.
LEMMA FreshCommit ==
    ASSUME CheckpointInv, NEW e \in Execution, Commit(e), store[e].saving \notin DOMAIN command
    PROVE  CheckpointInv'
<1> DEFINE s == store[e].saving
<1> DEFINE w == store[e].written
<1> DEFINE n == [r \in Range(w) |-> CHOOSE c \in Chunk : c \in DOMAIN w /\ w[c] = r]
<1>1. /\ CheckpointTypeOK /\ store \in [Execution -> StoreRecord]
      /\ store[e] \in StoreRecord /\ store[e].cache \in Refs /\ w \in Refs
      /\ s \in State
      /\ ToWrite(e) = {}
      /\ rows' = Over(rows, n)
      /\ pointer' = [state |-> s, refs |-> Manifest(e)]
      /\ command' = Over(command, [x \in {s} |-> Manifest(e)])
      /\ UNCHANGED <<stored, owner>>
  BY StoreTypes DEF CheckpointInv, Commit, SavesAState
<1>2. \A c \in DOMAIN w :
        /\ c \in stored /\ c \in Chunk /\ w[c] \notin DOMAIN rows /\ w[c] \in Row
        /\ \A f \in Execution : \A b \in DOMAIN store[f].written :
              store[f].written[b] = w[c] => f = e /\ b = c
  BY <1>1, RefsAreMaps DEF CheckpointInv, WrittenFresh
<1>3. /\ DOMAIN n = {w[c] : c \in DOMAIN w}
      /\ \A c \in DOMAIN w : n[w[c]] = c
  <2>1. ASSUME NEW c \in DOMAIN w PROVE n[w[c]] = c
    <3>1. \A b \in Chunk : b \in DOMAIN w /\ w[b] = w[c] <=> b = c
      BY <1>1, <1>2, <2>1
    <3>2. w[c] \in Range(w)
      BY <2>1 DEF Range
    <3>3. n[w[c]] = CHOOSE b \in Chunk : b \in DOMAIN w /\ w[b] = w[c]
      BY <3>2
    <3> HIDE DEF n
    <3>4. c \in Chunk
      BY <1>2, <2>1
    <3>5. QED BY <3>1, <3>3, <3>4
  <2>2. QED BY <2>1 DEF Range
<1> HIDE DEF n
<1>4. /\ DOMAIN rows' = DOMAIN rows \cup DOMAIN n
      /\ \A r \in DOMAIN rows : rows'[r] = rows[r]
      /\ \A c \in DOMAIN w : w[c] \in DOMAIN rows' /\ rows'[w[c]] = c
  BY <1>1, <1>2, <1>3 DEF Over
<1>5. /\ Known(e) \in Refs /\ DOMAIN Known(e) = DOMAIN store[e].cache \cup DOMAIN w
      /\ \A c \in DOMAIN store[e].cache : Known(e)[c] = store[e].cache[c]
      /\ \A c \in DOMAIN w \ DOMAIN store[e].cache : Known(e)[c] = w[c]
  BY <1>1, OverOfRefs DEF Known
<1>6. \A c \in DOMAIN Known(e) :
        Known(e)[c] \in DOMAIN rows' /\ rows'[Known(e)[c]] = c /\ c \in stored
  <2>1. \A c \in DOMAIN store[e].cache : /\ store[e].cache[c] \in DOMAIN rows
                                         /\ rows[store[e].cache[c]] = c /\ c \in stored
    BY DEF CheckpointInv, CachesResolve, Resolves
  <2>2. QED BY <1>2, <1>4, <1>5, <2>1
<1>7. /\ DOMAIN Manifest(e) = s /\ s \subseteq DOMAIN Known(e)
      /\ \A c \in s : Manifest(e)[c] = Known(e)[c]
  BY <1>1 DEF Manifest, ToWrite
<1>8. IsRefs(Manifest(e))
  BY <1>5, <1>7, RefsAreMaps DEF IsRefs, Partial
<1>9. PICK reply \in BOOLEAN :
        store' = [store EXCEPT ![e] = [Done(e) EXCEPT !.cache = Taught(e, TRUE /\ reply)]]
  BY DEF Commit
<1> DEFINE t == IF reply THEN Known(e) ELSE store[e].cache
<1> DEFINE k == [Done(e) EXCEPT !.cache = t]
<1>10. store' = [store EXCEPT ![e] = k] /\ t \in Refs
  BY <1>1, <1>5, <1>9 DEF Taught
<1>11. \A c \in DOMAIN t : t[c] \in DOMAIN rows' /\ rows'[t[c]] = c /\ c \in stored
  BY <1>5, <1>6
<1> HIDE DEF t
<1>12. k \in StoreRecord /\ k.cache = t /\ DOMAIN k.written = {} /\ k.pc = "open"
  BY <1>10, DoneRecord
<1> HIDE DEF k
<1>13. /\ store' \in [Execution -> StoreRecord] /\ store'[e] = k
       /\ \A f \in Execution : f # e => store'[f] = store[f]
  BY <1>1, <1>10, <1>12
<1>14. \A r \in DOMAIN rows' : rows'[r] \in stored /\ rows'[r] \in Chunk /\ r \in Row
  <2>1. \A r \in DOMAIN rows : rows[r] \in stored /\ rows[r] \in Chunk /\ r \in Row
    BY <1>1 DEF CheckpointInv, RowsStored, CheckpointTypeOK, Partial
  <2>2. QED BY <1>2, <1>3, <1>4, <2>1
<1>15. CheckpointTypeOK'
  <2>1. pointer'.state \in State \cup {NoState} /\ IsRefs(pointer'.refs)
    BY <1>1, <1>8
  <2>2. DOMAIN command' \subseteq State /\ \A x \in DOMAIN command' : IsRefs(command'[x])
    <3>1. DOMAIN command' = DOMAIN command \cup {s}
      BY <1>1 DEF Over
    <3>2. \A x \in DOMAIN command : command'[x] = command[x]
      BY <1>1 DEF Over
    <3>3. s \notin DOMAIN command => command'[s] = Manifest(e)
      BY <1>1 DEF Over
    <3>4. QED BY <1>1, <1>8, <3>1, <3>2, <3>3 DEF CheckpointTypeOK
  <2>3. QED BY <1>1, <1>13, <1>14, <2>1, <2>2, StoreTypes DEF CheckpointTypeOK, Partial
<1>16. RowsStored'
  BY <1>1, <1>14 DEF RowsStored
<1>17. CachesResolve'
  <2>1. ASSUME NEW f \in Execution, f # e PROVE Resolves(store[f].cache)'
    BY <1>1, <1>4, <1>13, <2>1 DEF CheckpointInv, CachesResolve, Resolves
  <2>2. Resolves(store[e].cache)'
    BY <1>1, <1>11, <1>12, <1>13 DEF Resolves
  <2>3. QED BY <2>1, <2>2 DEF CachesResolve
<1>18. WrittenFresh'
  <2>1. DOMAIN store'[e].written = {}
    BY <1>12, <1>13
  <2>2. ASSUME NEW f \in Execution, f # e, NEW c \in DOMAIN store[f].written
        PROVE  store[f].written[c] \notin DOMAIN rows'
    BY <1>2, <1>3, <1>4, <2>2 DEF CheckpointInv, WrittenFresh
  <2>3. QED BY <1>1, <1>13, <2>1, <2>2 DEF CheckpointInv, WrittenFresh
<1>19. SavesAState'
  BY <1>12, <1>13 DEF CheckpointInv, SavesAState
<1>20. PointerResolves'
  BY <1>1, <1>6, <1>7 DEF PointerResolves, Resolves
<1>21. QED BY <1>13, <1>15, <1>16, <1>17, <1>18, <1>19, <1>20 DEF CheckpointInv

LEMMA CommitKeeps ==
    ASSUME CheckpointInv, NEW e \in Execution, Commit(e)
    PROVE  CheckpointInv'
<1>1. CASE store[e].saving \notin DOMAIN command
  BY <1>1, FreshCommit
<1>2. CASE store[e].saving \in DOMAIN command
  BY <1>2, NothingCommitted DEF Commit, Taught
<1>3. QED BY <1>1, <1>2

LEMMA CheckpointKept == CheckpointInv /\ [CheckpointNext]_checkpointVars => CheckpointInv'
<1> SUFFICES ASSUME CheckpointInv, [CheckpointNext]_checkpointVars PROVE CheckpointInv'
  OBVIOUS
<1>1. ASSUME NEW e \in Execution, SaveFails(e) PROVE CheckpointInv'
  BY <1>1, NothingCommitted DEF SaveFails, Taught
<1>2. CASE UNCHANGED checkpointVars
  <2>1. CheckpointTypeOK' /\ (store \in [Execution -> StoreRecord])'
    BY <1>2 DEF CheckpointInv, CheckpointTypeOK, checkpointVars
  <2>2. RowsStored' /\ CachesResolve' /\ SavesAState' /\ PointerResolves'
    BY <1>2 DEF CheckpointInv, RowsStored, CachesResolve, SavesAState, PointerResolves,
                Resolves, checkpointVars
  <2>3. WrittenFresh'
    BY <1>2 DEF CheckpointInv, WrittenFresh, checkpointVars
  <2>4. QED BY <2>1, <2>2, <2>3 DEF CheckpointInv
<1>3. QED
  BY <1>1, <1>2, OpenOrClose, BeginSaveKeeps, PutChunkKeeps, CommitKeeps DEF CheckpointNext

\* A checkpoint that was committed can be read back exactly: every chunk of its state
\* has a committed row and stored bytes, whatever other executions of the task write,
\* crash, lose their lease, or are left not knowing of their commit
\* (CanonicalRuntimeStore.commit_native_checkpoint and load_native_checkpoint).
THEOREM CheckpointSafety == CheckpointSpec => []CheckpointsSound
<1>1. CheckpointInv => CheckpointsSound
  BY DEF CheckpointInv, CheckpointsSound
<1>2. QED BY InitCheckpoint, CheckpointKept, <1>1, PTL DEF CheckpointSpec
-----------------------------------------------------------------------------
(* The inbox.  The inductive invariant adds what the transactions' order   *)
(* gives: the log is used in order, deliveries are its consecutive         *)
(* stretches, the outstanding one covers what is owed up to its end, and   *)
(* the session with the lease holds exactly what is stored.                *)

HIDE CheckpointAssumption
USE InboxAssumption

\* The log: a prefix of the sequence numbers is used, an event that is not committed
\* yet is its last, and what a reader or a subscription remembers of it is committed.
LogInOrder ==
    /\ \A n \in Sequence : event[n].state # "none" =>
        \A k \in Sequence : k < n => event[k].state # "none"
    /\ \A n \in Sequence : event[n].state = "open" =>
        \A k \in Sequence : n < k => event[k].state = "none"
    /\ reader.ack \in Posted \cup {0}
    /\ \A t \in Topic : sub[t].start \in Posted \cup {0}
    /\ \A d \in Id : delivery[d].status # "none" => delivery[d].end \in Posted

\* What the branch is owed, it still follows.
DueFollowed ==
    \A n \in due : /\ n \in Posted
                   /\ event[n].to # Mail => sub[event[n].to].on /\ n > sub[event[n].to].start

\* The cursor stands at the end of the acknowledged deliveries; a delivery that is
\* not acknowledged is the outstanding one.
CursorAtEnd ==
    \A d \in Id : /\ delivery[d].status = "acknowledged" => delivery[d].end =< reader.ack
                  /\ delivery[d].status = "pending" => reader.pending = d
                  /\ delivery[d].status # "none" => d =< delivery[d].end
                                                     /\ delivery[d].start =< delivery[d].end

\* The outstanding delivery has all that is owed up to its end.
PendingCovers ==
    reader.pending # 0 =>
        \A n \in due : reader.ack < n /\ n =< delivery[reader.pending].end =>
            event[n].quiet \/ n \in DOMAIN delivery[reader.pending].items

\* What the session with the lease holds of the outstanding delivery is what is stored;
\* after its save the checkpoint has exactly that.  A new session has no checkpoint.
HeldAsStored ==
    \A x \in Session :
        /\ run[x].phase = "new" => checkpoint[x] = {}
        /\ run[x].phase \in {"fetched", "saved", "checked"} => run[x].id \in Id
        /\ run[x].phase \in {"saved", "checked"} => <<run[x].id, run[x].items>> \in checkpoint[x]
        /\ run[x].phase \in {"fetched", "saved", "checked"} /\ leaseholder = x
              /\ reader.pending = run[x].id =>
            run[x].items = delivery[run[x].id].items

InboxInv ==
    /\ InboxTypeOK
    /\ LogInOrder
    /\ DueFollowed
    /\ CursorAtEnd
    /\ PendingCovers
    /\ HeldAsStored
    /\ NothingPassedOver
    /\ AcknowledgedAsSaved
    /\ ConsecutiveDeliveries

LEMMA InboxBounds == MaxEvents \in Nat /\ Mail \notin Topic /\ NoSession \notin Session
  /\ BatchLimit \in Nat \ {0} /\ ScanLimit \in Nat \ {0} /\ TopicLimit \in Nat
OBVIOUS

LEMMA NoItemsType == NoItems \in Items /\ DOMAIN NoItems = {}
<1>1. NoItems \in [{} -> {"shown", "withdrawn"}] /\ {} \in SUBSET Sequence
  BY DEF NoItems
<1>2. QED BY <1>1 DEF Items

LEMMA ItemsShape ==
    ASSUME NEW f \in Items
    PROVE  /\ DOMAIN f \subseteq Sequence
           /\ f = [n \in DOMAIN f |-> f[n]]
           /\ \A n \in DOMAIN f : f[n] \in {"shown", "withdrawn"}
BY DEF Items

LEMMA SanitizedType ==
    ASSUME NEW f \in Items
    PROVE  Sanitized(f) \in Items /\ DOMAIN Sanitized(f) = DOMAIN f
<1>1. /\ Sanitized(f) \in [DOMAIN f -> {"shown", "withdrawn"}]
      /\ DOMAIN Sanitized(f) = DOMAIN f /\ DOMAIN f \in SUBSET Sequence
  BY ItemsShape DEF Sanitized
<1>2. QED BY <1>1 DEF Items

LEMMA ItemsOfType ==
    ASSUME NEW B \in SUBSET Sequence
    PROVE  ItemsOf(B) \in Items /\ DOMAIN ItemsOf(B) = {n \in B : ~Skipped(n)}
<1> DEFINE S == {n \in B : ~Skipped(n)}
<1>1. ItemsOf(B) \in [S -> {"shown", "withdrawn"}] /\ DOMAIN ItemsOf(B) = S
  BY DEF ItemsOf
<1>2. S \in SUBSET Sequence
  OBVIOUS
<1> HIDE DEF S
<1>3. ItemsOf(B) \in Items
  BY <1>1, <1>2 DEF Items
<1>4. QED BY <1>1, <1>3 DEF S

LEMMA InitInbox == InboxInit => InboxInv
<1> SUFFICES ASSUME InboxInit PROVE InboxInv
  OBVIOUS
<1>1. NoItems \in Items
  BY NoItemsType
<1>2. InboxTypeOK
  <2>1. event \in [Sequence -> Event] /\ reader \in [ack : Nat, pending : Id \cup {0}]
    BY DEF InboxInit, Event
  <2>2. delivery \in [Id -> Delivery] /\ run \in [Session -> Run]
    BY <1>1 DEF InboxInit, Delivery, Run, ReaderPhase
  <2>3. checkpoint \in [Session -> SUBSET (Id \X Items)] /\ leaseholder \in Session \cup {NoSession}
    BY DEF InboxInit
  <2>4. /\ sub \in [Topic -> [on : BOOLEAN, start : Nat]]
        /\ revoked \subseteq Sequence /\ due \subseteq Sequence
    BY DEF InboxInit
  <2>5. QED BY <2>1, <2>2, <2>3, <2>4 DEF InboxTypeOK
<1>3. /\ \A n \in Sequence : event[n].state = "none"
      /\ \A d \in Id : delivery[d].status = "none"
      /\ \A x \in Session : run[x].phase = "new" /\ checkpoint[x] = {}
      /\ \A t \in Topic : sub[t].start = 0
      /\ reader.ack = 0 /\ reader.pending = 0 /\ due = {}
  BY DEF InboxInit
<1>4. LogInOrder /\ DueFollowed /\ CursorAtEnd /\ PendingCovers /\ HeldAsStored
  BY <1>3 DEF LogInOrder, DueFollowed, CursorAtEnd, PendingCovers, HeldAsStored
<1>5. NothingPassedOver /\ AcknowledgedAsSaved /\ ConsecutiveDeliveries
  BY <1>3 DEF NothingPassedOver, AcknowledgedAsSaved, ConsecutiveDeliveries
<1>6. QED BY <1>2, <1>4, <1>5 DEF InboxInv

\* The writers and the readers of access change nothing that was delivered.
LEMMA WritersKeep ==
    ASSUME InboxInv, NEW n \in Sequence, NEW to \in Topic \cup {Mail}, NEW quiet_ \in BOOLEAN,
           \/ InsertEvent(n, to, quiet_) \/ CommitEvent(n) \/ Rollback(n)
    PROVE  InboxInv'
<1>1. InboxTypeOK /\ LogInOrder
  BY DEF InboxInv
<1>2. UNCHANGED <<revoked, sub, reader, delivery, leaseholder, run, checkpoint>>
  BY DEF InsertEvent, CommitEvent, Rollback
<1>3. /\ event' \in [Sequence -> Event]
      /\ \A k \in Sequence : k # n => event'[k] = event[k]
      /\ event[n].state # "posted"
  BY <1>1 DEF InboxTypeOK, Event, InsertEvent, CommitEvent, Rollback
<1>4. \/ /\ event[n].state = "none" /\ event'[n].state = "open" /\ due' = due
         /\ Unlocked /\ \A k \in Sequence : k < n => event[k].state # "none"
      \/ /\ event[n].state = "open" /\ event'[n].state = "undone" /\ due' = due
      \/ /\ event[n].state = "open" /\ event'[n].state = "posted"
         /\ event'[n].to = event[n].to /\ event'[n].quiet = event[n].quiet
         /\ due' = IF Following(event[n].to) THEN due \cup {n} ELSE due
  BY <1>1 DEF InboxTypeOK, Event, InsertEvent, CommitEvent, Rollback
<1>5. /\ due' \subseteq due \cup {n}
      /\ n \in due' \ due => event'[n].state = "posted" /\ Following(event[n].to)
  BY <1>4
<1>6. InboxTypeOK'
  BY <1>1, <1>2, <1>3, <1>5 DEF InboxTypeOK
<1>7. Posted' \subseteq Posted \cup {n} /\ Posted \subseteq Posted' /\ n \notin Posted
      /\ (n \in Posted' => event'[n].state = "posted")
  BY <1>3 DEF Posted
<1>8. LogInOrder'
  <2>1. /\ \A m \in Sequence : event'[m].state # "none" =>
             \A k \in Sequence : k < m => event'[k].state # "none"
        /\ \A m \in Sequence : event'[m].state = "open" =>
             \A k \in Sequence : m < k => event'[k].state = "none"
    BY <1>1, <1>3, <1>4, InboxBounds DEF LogInOrder, Unlocked, Sequence
  <2>2. QED BY <1>1, <1>2, <1>7, <2>1 DEF LogInOrder
\* What is committed now comes after all that is committed.
<1>9. event'[n].state = "posted" => \A k \in Posted \cup {0} : k < n
  BY <1>1, <1>4, InboxBounds DEF LogInOrder, Posted, Sequence
<1>10. DueFollowed'
  <2>1. ASSUME NEW m \in due', m # n
        PROVE  /\ m \in Posted'
               /\ event'[m].to # Mail => sub[event'[m].to].on /\ m > sub[event'[m].to].start
    BY <1>3, <1>5, <1>7, <2>1 DEF InboxInv, DueFollowed, Posted
  <2>2. ASSUME n \in due'
        PROVE  /\ n \in Posted'
               /\ event'[n].to # Mail => sub[event'[n].to].on /\ n > sub[event'[n].to].start
    <3>1. n \notin due
      BY <1>7 DEF InboxInv, DueFollowed
    <3>2. event'[n].state = "posted" /\ Following(event[n].to) /\ event'[n].to = event[n].to
      BY <1>4, <1>5, <2>2, <3>1
    <3>3. n \in Posted'
      BY <3>2 DEF Posted
    <3>4. QED BY <1>1, <1>9, <3>2, <3>3 DEF Following, LogInOrder
  <2>3. QED BY <1>2, <2>1, <2>2 DEF DueFollowed
<1>11. CursorAtEnd'
  BY <1>2 DEF InboxInv, CursorAtEnd
<1>12. PendingCovers'
  <2>1. reader.pending # 0 => delivery[reader.pending].end \in Posted
    BY <1>1 DEF LogInOrder, InboxInv, ConsecutiveDeliveries, InboxTypeOK
  <2>2. \A m \in due : event'[m].quiet = event[m].quiet
    BY <1>3, <1>7 DEF InboxInv, DueFollowed, Posted
  <2>3. reader.pending # 0 /\ n \in due' \ due => delivery[reader.pending].end < n
    BY <1>5, <1>9, <2>1
  <2>4. reader.pending # 0 => delivery[reader.pending].end \in Nat
    BY <2>1, InboxBounds DEF Posted, Sequence
  <2>5. \A m \in due' : m \in due \/ m = n
    BY <1>5
  <2>6. n \in Nat
    BY InboxBounds DEF Sequence
  <2>7. SUFFICES ASSUME reader.pending # 0, NEW m \in due', reader.ack < m,
                        m =< delivery[reader.pending].end
                 PROVE  event'[m].quiet \/ m \in DOMAIN delivery[reader.pending].items
    BY <1>2 DEF PendingCovers
  <2>8. m \in due
    BY <2>3, <2>4, <2>5, <2>6, <2>7
  <2>9. QED BY <2>2, <2>7, <2>8 DEF InboxInv, PendingCovers
<1>13. HeldAsStored' /\ AcknowledgedAsSaved' /\ ConsecutiveDeliveries'
  BY <1>2 DEF InboxInv, HeldAsStored, AcknowledgedAsSaved, ConsecutiveDeliveries
<1>14. NothingPassedOver'
  <2>1. \A m \in due : event'[m].quiet = event[m].quiet
    BY <1>3, <1>7 DEF InboxInv, DueFollowed, Posted
  <2>2. n \in due' \ due => reader.ack < n
    BY <1>1, <1>5, <1>9 DEF LogInOrder
  <2>3. reader.ack \in Nat /\ n \in Nat
    BY <1>1, InboxBounds DEF InboxTypeOK, Sequence
  <2>4. QED BY <1>2, <1>5, <2>1, <2>2, <2>3 DEF InboxInv, NothingPassedOver
<1>15. QED BY <1>6, <1>8, <1>10, <1>11, <1>12, <1>13, <1>14 DEF InboxInv

LEMMA ChangeAccessKeeps ==
    ASSUME InboxInv, NEW n \in Sequence, ChangeAccess(n)
    PROVE  InboxInv'
<1>1. /\ UNCHANGED <<event, sub, reader, delivery, leaseholder, run, checkpoint, due>>
      /\ revoked' \subseteq Sequence
  BY DEF ChangeAccess, InboxInv, InboxTypeOK
<1>2. InboxTypeOK' /\ LogInOrder' /\ DueFollowed'
  BY <1>1 DEF InboxInv, InboxTypeOK, LogInOrder, DueFollowed, Posted
<1>3. CursorAtEnd' /\ PendingCovers' /\ HeldAsStored'
  BY <1>1 DEF InboxInv, CursorAtEnd, PendingCovers, HeldAsStored
<1>4. NothingPassedOver' /\ AcknowledgedAsSaved' /\ ConsecutiveDeliveries'
  BY <1>1 DEF InboxInv, NothingPassedOver, AcknowledgedAsSaved, ConsecutiveDeliveries
<1>5. QED BY <1>2, <1>3, <1>4 DEF InboxInv

LEMMA SetSubscriptionKeeps ==
    ASSUME InboxInv, NEW T \in SUBSET Topic, NEW F \in SUBSET Topic, SetSubscription(T, F),
           \A t \in F : ~sub[t].on
    PROVE  InboxInv'
<1>1. InboxTypeOK /\ LogInOrder /\ DueFollowed
  BY DEF InboxInv
<1>2. UNCHANGED <<event, revoked, reader, delivery, leaseholder, run, checkpoint>>
  BY DEF SetSubscription
<1>3. MaxSequence \in Posted \cup {0}
  <2>1. Posted \cup {0} \in SUBSET (0 .. MaxEvents) /\ Posted \cup {0} # {}
    BY InboxBounds DEF Posted, Sequence
  <2>2. QED BY <2>1, InboxBounds, GreatestBelow DEF MaxSequence
<1>4. MaxSequence \in Nat
  BY <1>3, InboxBounds DEF Posted, Sequence
<1>5. /\ due' = {n \in due : event[n].to \notin T}
      /\ sub' = [t \in Topic |->
                  IF t \in T THEN [sub[t] EXCEPT !.on = FALSE]
                  ELSE IF t \in F /\ ~sub[t].on THEN [on |-> TRUE, start |-> MaxSequence]
                  ELSE sub[t]]
  BY DEF SetSubscription
<1>6. /\ sub' \in [Topic -> [on : BOOLEAN, start : Nat]]
      /\ \A t \in Topic : sub'[t].start \in {sub[t].start, MaxSequence}
      /\ \A t \in Topic : t \notin T /\ sub[t].on => sub'[t] = sub[t]
  <2>1. \A t \in Topic : sub[t] \in [on : BOOLEAN, start : Nat]
    BY <1>1 DEF InboxTypeOK
  <2>2. \A t \in Topic : sub'[t] \in [on : BOOLEAN, start : Nat]
                         /\ sub'[t].start \in {sub[t].start, MaxSequence}
    BY <1>4, <1>5, <2>1
  <2>3. \A t \in Topic : t \notin T /\ sub[t].on => sub'[t] = sub[t]
    BY <1>5
  <2>4. QED BY <1>5, <2>2, <2>3
<1>7. due' \subseteq due
  BY <1>5
<1>8. InboxTypeOK'
  BY <1>1, <1>2, <1>6, <1>7 DEF InboxTypeOK
<1>9. LogInOrder'
  BY <1>1, <1>2, <1>3, <1>6 DEF LogInOrder, Posted
<1>10. DueFollowed'
  <2>1. \A n \in due : event[n].to \in Topic \cup {Mail}
    BY <1>1 DEF InboxTypeOK, Event
  <2>2. QED BY <1>1, <1>2, <1>5, <1>6, <2>1 DEF DueFollowed, Posted
<1>11. CursorAtEnd' /\ PendingCovers' /\ HeldAsStored'
  BY <1>2, <1>7 DEF InboxInv, CursorAtEnd, PendingCovers, HeldAsStored
<1>12. NothingPassedOver' /\ AcknowledgedAsSaved' /\ ConsecutiveDeliveries'
  BY <1>2, <1>7 DEF InboxInv, NothingPassedOver, AcknowledgedAsSaved, ConsecutiveDeliveries
<1>13. QED BY <1>8, <1>9, <1>10, <1>11, <1>12 DEF InboxInv

LEMMA SubscriptionsKeep ==
    ASSUME InboxInv, NEW t \in Topic, Subscribe(t) \/ Unsubscribe(t) \/ AutoSubscribe(t)
    PROVE  InboxInv'
<1>1. CASE Subscribe(t)
  BY <1>1, SetSubscriptionKeeps DEF Subscribe
<1>2. CASE Unsubscribe(t)
  BY <1>2, SetSubscriptionKeeps DEF Unsubscribe
<1>3. CASE AutoSubscribe(t)
  <2>1. \A u \in On : u \in Topic
    BY DEF On
  <2>2. QED BY <1>3, <2>1, SetSubscriptionKeeps DEF AutoSubscribe
<1>4. QED BY <1>1, <1>2, <1>3

\* One session moves: its record, and perhaps its checkpoint.
LEMMA SessionMoves ==
    ASSUME InboxInv, NEW x \in Session, NEW r \in Run, NEW S \in SUBSET (Id \X Items),
           checkpoint[x] \subseteq S, NEW h \in Session \cup {NoSession},
           run' = [run EXCEPT ![x] = r], checkpoint' = [checkpoint EXCEPT ![x] = S],
           leaseholder' = h, h = leaseholder \/ h = x,
           r.phase # "new",
           r.phase \in {"fetched", "saved", "checked"} => r.id \in Id,
           r.phase \in {"saved", "checked"} => <<r.id, r.items>> \in S,
           r.phase \in {"fetched", "saved", "checked"} /\ h = x /\ reader.pending = r.id =>
               r.items = delivery[r.id].items,
           UNCHANGED <<event, revoked, sub, reader, delivery, due>>
    PROVE  InboxInv'
<1>1. InboxTypeOK
  BY DEF InboxInv
<1>2. /\ run' \in [Session -> Run] /\ run'[x] = r
      /\ checkpoint' \in [Session -> SUBSET (Id \X Items)] /\ checkpoint'[x] = S
      /\ \A y \in Session : y # x => run'[y] = run[y] /\ checkpoint'[y] = checkpoint[y]
  BY <1>1 DEF InboxTypeOK
<1>3. \A y \in Session : checkpoint[y] \subseteq checkpoint'[y]
  BY <1>2
<1>4. InboxTypeOK'
  BY <1>1, <1>2 DEF InboxTypeOK
<1>5. LogInOrder' /\ DueFollowed' /\ CursorAtEnd' /\ PendingCovers'
  BY DEF InboxInv, LogInOrder, DueFollowed, CursorAtEnd, PendingCovers, Posted
<1>6. HeldAsStored'
  <2>1. ASSUME NEW y \in Session, y # x
        PROVE  /\ run'[y].phase = "new" => checkpoint'[y] = {}
               /\ run'[y].phase \in {"fetched", "saved", "checked"} => run'[y].id \in Id
               /\ run'[y].phase \in {"saved", "checked"} =>
                     <<run'[y].id, run'[y].items>> \in checkpoint'[y]
               /\ run'[y].phase \in {"fetched", "saved", "checked"} /\ leaseholder' = y
                     /\ reader.pending = run'[y].id => run'[y].items = delivery[run'[y].id].items
    <3>1. /\ run'[y] = run[y] /\ checkpoint'[y] = checkpoint[y]
          /\ leaseholder' = y => leaseholder = y
      BY <1>2, <2>1
    <3>2. QED BY <3>1 DEF InboxInv, HeldAsStored
  <2>2. QED BY <1>2, <2>1 DEF HeldAsStored
<1>7. NothingPassedOver' /\ AcknowledgedAsSaved' /\ ConsecutiveDeliveries'
  BY <1>3 DEF InboxInv, NothingPassedOver, AcknowledgedAsSaved, ConsecutiveDeliveries
<1>8. QED BY <1>4, <1>5, <1>6, <1>7 DEF InboxInv

LEMMA StoppedRun ==
    ASSUME InboxTypeOK, NEW x \in Session
    PROVE  LET r == [run[x] EXCEPT !.phase = "stopped", !.items = NoItems, !.id = 0] IN
           r \in Run /\ r.phase = "stopped"
<1>1. run[x] \in Run
  BY DEF InboxTypeOK
<1>2. NoItems \in Items /\ 0 \in Id \cup {0} /\ "stopped" \in ReaderPhase
  BY NoItemsType DEF ReaderPhase
<1>3. QED BY <1>1, <1>2 DEF Run

LEMMA SessionsKeep ==
    ASSUME InboxInv, NEW x \in Session,
           \/ Save(x) \/ Die(x) \/ \E S \in {{}} \cup {checkpoint[y] : y \in Session} : Start(x, S)
    PROVE  InboxInv'
<1>1. /\ InboxTypeOK /\ run[x] \in Run /\ checkpoint[x] \in SUBSET (Id \X Items)
      /\ checkpoint = [checkpoint EXCEPT ![x] = checkpoint[x]]
      /\ leaseholder \in Session \cup {NoSession}
  BY DEF InboxInv, InboxTypeOK
<1>2. CASE Die(x)
  <2> DEFINE r == [run[x] EXCEPT !.phase = "stopped", !.items = NoItems, !.id = 0]
  <2>1. r \in Run /\ r.phase = "stopped"
    BY <1>1, StoppedRun
  <2>2. run' = [run EXCEPT ![x] = r] /\ UNCHANGED <<event, revoked, sub, reader, delivery,
            leaseholder, checkpoint, due>>
    BY <1>2 DEF Die, Stop
  <2> HIDE DEF r
  <2>3. QED BY <1>1, <2>1, <2>2, SessionMoves
<1>3. CASE Save(x)
  <2> DEFINE r == [run[x] EXCEPT !.phase = "saved"]
  <2> DEFINE S == IF KnownBatch(x) THEN checkpoint[x]
                  ELSE checkpoint[x] \cup {<<run[x].id, run[x].items>>}
  <2>1. r \in Run /\ r.phase = "saved" /\ r.id = run[x].id /\ r.items = run[x].items
    BY <1>1 DEF Run, ReaderPhase
  <2>2. run[x].phase = "fetched" /\ run[x].id \in Id /\ run[x].items \in Items
    BY <1>1, <1>3 DEF Save, InboxInv, HeldAsStored, Run
  <2>3. S \in SUBSET (Id \X Items) /\ checkpoint[x] \subseteq S /\ <<run[x].id, run[x].items>> \in S
    BY <1>1, <2>2 DEF KnownBatch
  <2>4. /\ run' = [run EXCEPT ![x] = r] /\ checkpoint' = [checkpoint EXCEPT ![x] = S]
        /\ UNCHANGED <<event, revoked, sub, reader, delivery, leaseholder, due>>
    BY <1>3 DEF Save, ReaderStep
  <2>5. leaseholder = x /\ reader.pending = run[x].id => run[x].items = delivery[run[x].id].items
    BY <2>2 DEF InboxInv, HeldAsStored
  <2> HIDE DEF r, S
  <2>6. QED BY <1>1, <2>1, <2>2, <2>3, <2>4, <2>5, SessionMoves
<1>4. ASSUME NEW S \in {{}} \cup {checkpoint[y] : y \in Session}, Start(x, S) PROVE InboxInv'
  <2> DEFINE r == [run[x] EXCEPT !.phase = "idle"]
  <2>1. r \in Run /\ r.phase = "idle"
    BY <1>1 DEF Run, ReaderPhase
  <2>2. S \in SUBSET (Id \X Items)
    BY <1>1 DEF InboxTypeOK
  <2>3. checkpoint[x] = {}
    BY <1>4 DEF Start, InboxInv, HeldAsStored
  <2>4. /\ run' = [run EXCEPT ![x] = r] /\ checkpoint' = [checkpoint EXCEPT ![x] = S]
        /\ leaseholder' = x /\ UNCHANGED <<event, revoked, sub, reader, delivery, due>>
    BY <1>4 DEF Start, ReaderStep
  <2> HIDE DEF r
  <2>5. QED BY <1>1, <2>1, <2>2, <2>3, <2>4, SessionMoves
<1>5. QED BY <1>2, <1>3, <1>4

\* The withdrawal notices of the outstanding delivery are kept, and the session that
\* holds the lease goes on with the record r.
LEMMA NoticesKept ==
    ASSUME InboxInv, NEW x \in Session, NEW d \in Id, NEW r \in Run,
           reader.pending = d, leaseholder = x, r.phase \in {"idle", "stopped", "fetched"},
           r.phase = "fetched" => r.id = d /\ r.items = Sanitized(delivery[d].items),
           delivery' = [delivery EXCEPT ![d].items = Sanitized(delivery[d].items)],
           run' = [run EXCEPT ![x] = r],
           UNCHANGED <<event, revoked, sub, reader, leaseholder, checkpoint, due>>
    PROVE  InboxInv'
<1>1. InboxTypeOK /\ delivery[d].status = "pending"
  BY DEF InboxInv, ConsecutiveDeliveries, InboxTypeOK, Id
<1>2. /\ delivery[d].items \in Items
      /\ Sanitized(delivery[d].items) \in Items
      /\ DOMAIN Sanitized(delivery[d].items) = DOMAIN delivery[d].items
  <2>1. delivery[d].items \in Items
    BY <1>1 DEF InboxTypeOK, Delivery
  <2>2. QED BY <2>1, SanitizedType
<1> DEFINE new == Sanitized(delivery[d].items)
<1>3. /\ delivery' \in [Id -> Delivery] /\ delivery'[d].items = new
      /\ \A c \in Id : /\ delivery'[c].status = delivery[c].status
                       /\ delivery'[c].start = delivery[c].start
                       /\ delivery'[c].end = delivery[c].end
                       /\ c # d => delivery'[c] = delivery[c]
  BY <1>1, <1>2 DEF InboxTypeOK, Delivery
<1>4. \A c \in Id : DOMAIN delivery'[c].items = DOMAIN delivery[c].items
  BY <1>2, <1>3
<1>5. /\ run' \in [Session -> Run] /\ run'[x] = r
      /\ \A y \in Session : y # x => run'[y] = run[y]
  BY <1>1 DEF InboxTypeOK
<1> HIDE DEF new
<1>6. InboxTypeOK'
  BY <1>1, <1>3, <1>5 DEF InboxTypeOK
<1>7. LogInOrder' /\ DueFollowed'
  BY <1>3 DEF InboxInv, LogInOrder, DueFollowed, Posted
<1>8. CursorAtEnd' /\ PendingCovers'
  BY <1>3, <1>4 DEF InboxInv, CursorAtEnd, PendingCovers
<1>9. HeldAsStored'
  <2>1. ASSUME NEW y \in Session, y # x
        PROVE  /\ run'[y].phase = "new" => checkpoint'[y] = {}
               /\ run'[y].phase \in {"fetched", "saved", "checked"} => run'[y].id \in Id
               /\ run'[y].phase \in {"saved", "checked"} =>
                     <<run'[y].id, run'[y].items>> \in checkpoint'[y]
               /\ leaseholder' # y
    BY <1>5, <2>1 DEF InboxInv, HeldAsStored
  <2>2. r.phase = "fetched" => r.id \in Id /\ r.items = delivery'[r.id].items
    BY <1>3 DEF new
  <2>3. QED BY <1>5, <2>1, <2>2 DEF HeldAsStored
<1>10. NothingPassedOver'
  BY DEF InboxInv, NothingPassedOver
<1>11. AcknowledgedAsSaved'
  BY <1>1, <1>3 DEF InboxInv, AcknowledgedAsSaved
<1>12. ConsecutiveDeliveries'
  BY <1>3, <1>4 DEF InboxInv, ConsecutiveDeliveries
<1>13. QED BY <1>6, <1>7, <1>8, <1>9, <1>10, <1>11, <1>12 DEF InboxInv

\* A session that reads again, or gives up, holds no delivery.
LEMMA RereadRun ==
    ASSUME InboxTypeOK, NEW x \in Session, Reread(x)
    PROVE  \E r \in Run : run' = [run EXCEPT ![x] = r] /\ r.phase \in {"idle", "stopped"}
<1>1. CASE run[x].again
  <2> DEFINE r == [run[x] EXCEPT !.phase = "stopped", !.items = NoItems, !.id = 0]
  <2>1. r \in Run /\ r.phase = "stopped"
    BY StoppedRun
  <2>2. run' = [run EXCEPT ![x] = r]
    BY <1>1 DEF Reread, Stop
  <2> HIDE DEF r
  <2>3. QED BY <2>1, <2>2
<1>2. CASE ~run[x].again
  <2> DEFINE r == [phase |-> "idle", id |-> 0, items |-> NoItems, again |-> TRUE]
  <2>1. r \in Run /\ r.phase = "idle"
    BY NoItemsType DEF Run, ReaderPhase
  <2>2. run' = [run EXCEPT ![x] = r]
    BY <1>2 DEF Reread
  <2> HIDE DEF r
  <2>3. QED BY <2>1, <2>2
<1>3. QED BY <1>1, <1>2

LEMMA RedeliverKeeps ==
    ASSUME InboxInv, NEW x \in Session, Redeliver(x)
    PROVE  InboxInv'
<1> DEFINE d == reader.pending
<1> DEFINE new == Sanitized(delivery[d].items)
<1> DEFINE r == [run[x] EXCEPT !.phase = "fetched", !.id = d, !.items = new]
<1>1. InboxTypeOK /\ d \in Id
  BY DEF InboxInv, InboxTypeOK, Redeliver
<1>2. new \in Items
  <2>1. delivery[d].items \in Items
    BY <1>1 DEF InboxTypeOK, Delivery
  <2>2. QED BY <2>1, SanitizedType
<1>3. r \in Run /\ r.phase = "fetched" /\ r.id = d /\ r.items = new
  <2>1. run[x] \in Run /\ "fetched" \in ReaderPhase
    BY <1>1 DEF InboxTypeOK, ReaderPhase
  <2> HIDE DEF new, d
  <2>2. QED BY <1>1, <1>2, <2>1 DEF Run
<1>4. run' = [run EXCEPT ![x] = r]
  <2>1. run' = [run EXCEPT ![x].phase = "fetched", ![x].id = d, ![x].items = new]
    BY DEF Redeliver, Receives
  <2>2. run \in [Session -> Run]
    BY <1>1 DEF InboxTypeOK
  <2> HIDE DEF new, d
  <2>3. QED BY <2>1, <2>2 DEF Run
<1>5. /\ leaseholder = x /\ delivery' = [delivery EXCEPT ![d].items = new]
      /\ UNCHANGED <<event, revoked, sub, reader, leaseholder, checkpoint, due>>
  BY DEF Redeliver
<1> HIDE DEF r
<1>6. QED BY <1>1, <1>3, <1>4, <1>5, NoticesKept

LEMMA CheckAckKeeps ==
    ASSUME InboxInv, NEW x \in Session, CheckAck(x)
    PROVE  InboxInv'
<1> DEFINE d == run[x].id
<1>1. /\ InboxTypeOK /\ run[x] \in Run /\ checkpoint[x] \in SUBSET (Id \X Items)
      /\ checkpoint = [checkpoint EXCEPT ![x] = checkpoint[x]]
      /\ leaseholder = x /\ run[x].phase = "saved"
      /\ UNCHANGED <<event, revoked, sub, reader, leaseholder, checkpoint, due>>
  BY DEF InboxInv, InboxTypeOK, CheckAck
<1>2. d \in Id /\ <<d, run[x].items>> \in checkpoint[x]
      /\ (reader.pending = d => run[x].items = delivery[d].items)
  BY <1>1 DEF InboxInv, HeldAsStored
<1>3. CASE reader.pending = d /\ Changed(d)
  <2>1. Reread(x)
    BY <1>3 DEF CheckAck
  <2>2. delivery' = [delivery EXCEPT ![d].items = Sanitized(delivery[d].items)]
    BY <1>1, <1>2, <1>3 DEF CheckAck, InboxTypeOK, Delivery
  <2>3. PICK r \in Run : run' = [run EXCEPT ![x] = r] /\ r.phase \in {"idle", "stopped"}
    BY <1>1, <2>1, RereadRun
  <2> HIDE DEF d
  <2>4. QED BY <1>1, <1>2, <1>3, <2>2, <2>3, NoticesKept
<1>4. CASE ~(reader.pending = d /\ Changed(d))
  <2> DEFINE r == [run[x] EXCEPT !.phase = "checked"]
  <2>1. r \in Run /\ r.phase = "checked" /\ r.id = d /\ r.items = run[x].items
    BY <1>1 DEF Run, ReaderPhase
  <2>2. run' = [run EXCEPT ![x] = r] /\ UNCHANGED delivery
    BY <1>4 DEF CheckAck, ReaderStep
  <2> HIDE DEF r, d
  <2>3. QED BY <1>1, <1>2, <2>1, <2>2, SessionMoves
<1>5. QED BY <1>3, <1>4

\* The second transaction succeeds: what it acknowledges is what the session saved.
LEMMA AcknowledgedKeeps ==
    ASSUME InboxInv, NEW x \in Session, Acknowledge(x), reader.pending = run[x].id,
           ~Changed(run[x].id)
    PROVE  InboxInv'
<1> DEFINE d == run[x].id
<1> DEFINE r == [phase |-> "idle", id |-> 0, items |-> NoItems, again |-> FALSE]
<1>1. /\ InboxTypeOK /\ leaseholder = x /\ run[x].phase = "checked"
      /\ UNCHANGED <<event, revoked, sub, leaseholder, checkpoint, due>>
      /\ delivery' = [delivery EXCEPT ![d].status = "acknowledged"]
      /\ reader' = [ack |-> delivery[d].end, pending |-> 0]
      /\ run' = [run EXCEPT ![x] = r]
  BY DEF InboxInv, Acknowledge
<1>2. /\ d \in Id /\ <<d, run[x].items>> \in checkpoint[x]
      /\ run[x].items = delivery[d].items
  BY <1>1 DEF InboxInv, HeldAsStored
<1>3. r \in Run /\ r.phase = "idle"
  BY NoItemsType DEF Run, ReaderPhase
<1> HIDE DEF r
<1>4. /\ run' \in [Session -> Run] /\ run'[x].phase = "idle"
      /\ \A y \in Session : y # x => run'[y] = run[y]
  BY <1>1, <1>3 DEF InboxTypeOK
<1>5. /\ delivery' \in [Id -> Delivery] /\ delivery'[d].status = "acknowledged"
      /\ \A c \in Id : /\ delivery'[c].items = delivery[c].items
                       /\ delivery'[c].start = delivery[c].start
                       /\ delivery'[c].end = delivery[c].end
                       /\ c # d => delivery'[c] = delivery[c]
  BY <1>1, <1>2 DEF InboxTypeOK, Delivery
<1>6. /\ reader.pending = d /\ reader.pending # 0
      /\ delivery[d].status = "pending" /\ delivery[d].start = reader.ack
      /\ reader.ack =< delivery[d].end /\ delivery[d].end \in Posted
  BY <1>1, <1>2 DEF InboxInv, ConsecutiveDeliveries, CursorAtEnd, LogInOrder, Id
<1>7. /\ reader'.ack = delivery[d].end /\ reader'.pending = 0
      /\ delivery[d].end \in Nat /\ reader.ack \in Nat
  BY <1>1, <1>2 DEF InboxTypeOK, Delivery
<1> HIDE DEF d
<1>8. InboxTypeOK'
  <2>1. reader' \in [ack : Nat, pending : Id \cup {0}]
    BY <1>1, <1>7
  <2>2. QED BY <1>1, <1>4, <1>5, <2>1 DEF InboxTypeOK
<1>9. LogInOrder' /\ DueFollowed'
  BY <1>1, <1>5, <1>6, <1>7 DEF InboxInv, LogInOrder, DueFollowed, Posted
<1>10. CursorAtEnd'
  <2>1. \A c \in Id : c # d => delivery[c].status # "pending"
    BY <1>6 DEF InboxInv, CursorAtEnd
  <2>2. \A c \in Id : delivery[c].end \in Nat
    BY <1>1 DEF InboxTypeOK, Delivery
  <2>3. \A c \in Id : delivery[c].status = "acknowledged" => delivery[c].end =< delivery[d].end
    BY <1>6, <1>7, <2>2 DEF InboxInv, CursorAtEnd
  <2>4. \A c \in Id : delivery'[c].status # "none" => delivery[c].status # "none"
    BY <1>5, <1>6
  <2>5. QED BY <1>5, <1>7, <2>1, <2>3, <2>4 DEF InboxInv, CursorAtEnd
<1>11. PendingCovers'
  BY <1>7 DEF PendingCovers
<1>12. HeldAsStored'
  <2>1. \A y \in Session : y # x => leaseholder' # y
    BY <1>1
  <2>2. QED BY <1>1, <1>4, <2>1 DEF InboxInv, HeldAsStored
<1>13. NothingPassedOver'
  <2>1. SUFFICES ASSUME NEW n \in due, n =< delivery[d].end
                 PROVE  \/ event[n].quiet
                        \/ \E y \in Session : \E v \in checkpoint[y] : n \in DOMAIN v[2]
    BY <1>1, <1>7 DEF NothingPassedOver
  <2>2. n \in Nat
    BY <1>1, InboxBounds DEF InboxTypeOK, Sequence
  <2>3. CASE n =< reader.ack
    BY <2>3 DEF InboxInv, NothingPassedOver
  <2>4. CASE reader.ack < n
    <3>1. event[n].quiet \/ n \in DOMAIN delivery[d].items
      BY <1>6, <2>1, <2>4 DEF InboxInv, PendingCovers
    <3>2. /\ <<d, delivery[d].items>> \in checkpoint[x]
          /\ <<d, delivery[d].items>>[2] = delivery[d].items
      BY <1>2
    <3>3. QED BY <3>1, <3>2
  <2>5. QED BY <1>7, <2>2, <2>3, <2>4
<1>14. AcknowledgedAsSaved'
  BY <1>1, <1>2, <1>5 DEF InboxInv, AcknowledgedAsSaved
<1>15. ConsecutiveDeliveries'
  <2>1. \A c \in Id : delivery'[c].status # "none" => delivery[c].status # "none"
    BY <1>5, <1>6
  <2>2. \A c \in Id : delivery[c].status = "acknowledged" => delivery'[c].status = "acknowledged"
    BY <1>5
  <2>3. QED BY <1>5, <1>7, <2>1, <2>2 DEF InboxInv, ConsecutiveDeliveries
<1>16. QED BY <1>8, <1>9, <1>10, <1>11, <1>12, <1>13, <1>14, <1>15 DEF InboxInv

LEMMA AcknowledgeKeeps ==
    ASSUME InboxInv, NEW x \in Session, Acknowledge(x)
    PROVE  InboxInv'
<1>1. /\ InboxTypeOK /\ run[x] \in Run /\ checkpoint[x] \in SUBSET (Id \X Items)
      /\ checkpoint = [checkpoint EXCEPT ![x] = checkpoint[x]]
      /\ leaseholder \in Session \cup {NoSession}
      /\ UNCHANGED <<event, revoked, sub, leaseholder, checkpoint, due>>
  BY DEF InboxInv, InboxTypeOK, Acknowledge
<1>2. CASE reader.pending # run[x].id
  <2> DEFINE r == [run[x] EXCEPT !.phase = "stopped", !.items = NoItems, !.id = 0]
  <2>1. r \in Run /\ r.phase = "stopped"
    BY <1>1, StoppedRun
  <2>2. run' = [run EXCEPT ![x] = r] /\ UNCHANGED <<reader, delivery>>
    BY <1>2 DEF Acknowledge, Stop
  <2> HIDE DEF r
  <2>3. QED BY <1>1, <2>1, <2>2, SessionMoves
<1>3. CASE reader.pending = run[x].id /\ Changed(run[x].id)
  <2>1. Reread(x) /\ UNCHANGED <<reader, delivery>>
    BY <1>3 DEF Acknowledge
  <2>2. PICK r \in Run : run' = [run EXCEPT ![x] = r] /\ r.phase \in {"idle", "stopped"}
    BY <1>1, <2>1, RereadRun
  <2>3. QED BY <1>1, <2>1, <2>2, SessionMoves
<1>4. CASE reader.pending = run[x].id /\ ~Changed(run[x].id)
  BY <1>4, AcknowledgedKeeps
<1>5. QED BY <1>2, <1>3, <1>4

\* Every eligible event before a scanned one is scanned.
LEMMA ScannedClosed ==
    ASSUME InboxTypeOK, NEW m \in Scanned, NEW n \in Eligible, n =< m
    PROVE  n \in Scanned
<1> DEFINE before(k) == {j \in Eligible : j < k}
<1>1. Eligible \subseteq 1 .. MaxEvents
  BY DEF Eligible, Posted, Sequence
<1>2. m \in Eligible /\ m \in Nat /\ n \in Nat
  BY <1>1, InboxBounds DEF Scanned
<1>3. IsFiniteSet(before(m)) /\ before(n) \subseteq before(m)
  <2>1. IsFiniteSet(1 .. MaxEvents)
    BY InboxBounds, FS_Interval
  <2>2. before(m) \subseteq 1 .. MaxEvents
    BY <1>1
  <2>3. \A j \in Eligible : j < n => j < m
    BY <1>1, <1>2, InboxBounds
  <2>4. before(n) \subseteq before(m)
    BY <2>3
  <2>5. QED BY <2>1, <2>2, <2>4, FS_Subset
<1>4. Cardinality(before(n)) =< Cardinality(before(m)) /\ Cardinality(before(n)) \in Nat
      /\ Cardinality(before(m)) \in Nat
  <2> HIDE DEF before
  <2>1. IsFiniteSet(before(n)) /\ Cardinality(before(n)) =< Cardinality(before(m))
    BY <1>3, FS_Subset
  <2>2. QED BY <1>3, <2>1, FS_CardinalityType
<1>5. Cardinality(before(m)) < ScanLimit
  BY DEF Scanned
<1>6. Cardinality(before(n)) < ScanLimit
  <2> HIDE DEF before
  <2>1. QED BY <1>4, <1>5, InboxBounds
<1>7. QED BY <1>6 DEF Scanned

\* What a batch covers: the events up to the last one looked at.
LEMMA BatchCovers ==
    ASSUME InboxInv, NEW B \in SUBSET Scanned, Batch(B)
    PROVE  /\ B \subseteq Sequence
           /\ Processed(B) \in B \cup {reader.ack}
           /\ Processed(B) \in Posted \cup {0}
           /\ Processed(B) \in Nat
           /\ reader.ack =< Processed(B)
           /\ \A n \in B : reader.ack < n /\ n =< Processed(B)
           /\ \A n \in due : reader.ack < n /\ n =< Processed(B) => n \in B
<1>1. InboxTypeOK /\ LogInOrder /\ DueFollowed
  BY DEF InboxInv
<1>2. /\ B \subseteq Eligible /\ B \subseteq Posted /\ B \subseteq Sequence
      /\ \A n \in B : reader.ack < n
  BY DEF Scanned, Eligible, Posted
<1>3. reader.ack \in Nat /\ reader.ack \in Posted \cup {0} /\ Posted \subseteq 1 .. MaxEvents
      /\ Posted \cup {0} \subseteq 0 .. MaxEvents /\ Posted \cup {0} \subseteq Nat
  <2>1. reader.ack \in Nat /\ reader.ack \in Posted \cup {0}
    BY <1>1 DEF InboxTypeOK, LogInOrder
  <2>2. Posted \subseteq 1 .. MaxEvents
    BY DEF Posted, Sequence
  <2>3. Posted \cup {0} \subseteq 0 .. MaxEvents /\ Posted \cup {0} \subseteq Nat
    BY <2>2, InboxBounds
  <2>4. QED BY <2>1, <2>2, <2>3
<1>4. /\ Processed(B) \in B \cup {reader.ack}
      /\ \A n \in B \cup {reader.ack} : n =< Processed(B)
  <2>1. B \cup {reader.ack} \in SUBSET (0 .. MaxEvents) /\ B \cup {reader.ack} # {}
    BY <1>2, <1>3
  <2>2. QED BY <2>1, InboxBounds, GreatestBelow DEF Processed
<1>5. Processed(B) \in Posted \cup {0} /\ Processed(B) \in Nat
  BY <1>2, <1>3, <1>4
<1>6. ASSUME NEW n \in due, reader.ack < n, n =< Processed(B)
      PROVE  n \in B
  <2>1. n \in Eligible /\ n \in Nat
    BY <1>1, <1>6, InboxBounds DEF DueFollowed, Eligible, InboxTypeOK, Sequence
  <2>2. Processed(B) \in B
    BY <1>3, <1>4, <1>5, <1>6, <2>1
  <2>3. n \in Scanned
    BY <1>1, <1>6, <2>1, <2>2, ScannedClosed
  <2>4. n \notin B => Processed(B) < n
    BY <2>2, <2>3 DEF Batch
  <2>5. QED BY <1>5, <1>6, <2>1, <2>4
<1>7. QED BY <1>2, <1>4, <1>5, <1>6

\* Every event was skipped: the cursor moves past them.
LEMMA SkippedKeeps ==
    ASSUME InboxInv, NEW B \in SUBSET Scanned, Batch(B), DOMAIN ItemsOf(B) = {},
           reader.pending = 0, reader' = [reader EXCEPT !.ack = Processed(B)],
           UNCHANGED <<event, revoked, sub, delivery, leaseholder, run, checkpoint, due>>
    PROVE  InboxInv'
<1>1. InboxTypeOK
  BY DEF InboxInv
<1> DEFINE P == Processed(B)
<1>2. /\ B \subseteq Sequence /\ P \in Posted \cup {0} /\ P \in Nat /\ reader.ack =< P
      /\ \A n \in due : reader.ack < n /\ n =< P => n \in B
  BY BatchCovers
<1>3. \A n \in B : event[n].quiet
  BY <1>2, ItemsOfType DEF Skipped
<1>4. reader'.ack = P /\ reader'.pending = 0 /\ reader' \in [ack : Nat, pending : Id \cup {0}]
  BY <1>1, <1>2 DEF InboxTypeOK
<1> HIDE DEF P
<1>5. reader.ack \in Nat
  BY <1>1 DEF InboxTypeOK
<1>6. InboxTypeOK'
  BY <1>1, <1>4 DEF InboxTypeOK
<1>7. LogInOrder' /\ DueFollowed'
  BY <1>2, <1>4 DEF InboxInv, LogInOrder, DueFollowed, Posted
<1>8. CursorAtEnd'
  <2>1. \A d \in Id : delivery[d].end \in Nat
    BY <1>1 DEF InboxTypeOK, Delivery
  <2>2. \A d \in Id : delivery[d].status = "acknowledged" => delivery[d].end =< P
    BY <1>2, <1>5, <2>1 DEF InboxInv, CursorAtEnd
  <2>3. QED BY <1>4, <2>2 DEF InboxInv, CursorAtEnd
<1>9. PendingCovers' /\ HeldAsStored'
  BY <1>4 DEF InboxInv, PendingCovers, HeldAsStored
<1>10. AcknowledgedAsSaved' /\ ConsecutiveDeliveries'
  BY <1>4 DEF InboxInv, AcknowledgedAsSaved, ConsecutiveDeliveries
<1>11. NothingPassedOver'
  <2>1. SUFFICES ASSUME NEW n \in due, n =< P
                 PROVE  \/ event[n].quiet
                        \/ \E y \in Session : \E v \in checkpoint[y] : n \in DOMAIN v[2]
    BY <1>4 DEF NothingPassedOver
  <2>2. n \in Nat
    BY <1>1, InboxBounds DEF InboxTypeOK, Sequence
  <2>3. n =< reader.ack \/ n \in B
    BY <1>2, <1>5, <2>1, <2>2
  <2>4. QED BY <1>3, <2>3 DEF InboxInv, NothingPassedOver
<1>12. QED BY <1>6, <1>7, <1>8, <1>9, <1>10, <1>11 DEF InboxInv

\* There is an identifier for a delivery of something, and those before the first
\* free one are used.
LEMMA FreshDelivery ==
    ASSUME InboxInv, reader.pending = 0, NEW n \in Sequence, reader.ack < n
    PROVE  LET d == Min({i \in Id : delivery[i].status = "none"}) IN
           /\ d \in Id /\ delivery[d].status = "none" /\ d =< n
           /\ \A c \in Id : c < d => delivery[c].status = "acknowledged"
                                     /\ delivery[c].end =< reader.ack
<1> DEFINE free == {i \in Id : delivery[i].status = "none"}
<1> DEFINE d == Min(free)
<1>1. /\ InboxTypeOK /\ reader.ack \in Nat /\ Id \subseteq Nat \ {0} /\ n \in Nat
      /\ \A i \in Id : delivery[i].end \in Nat
      /\ \A i \in Id : delivery[i].status \in {"none", "pending", "acknowledged"}
  <2>1. InboxTypeOK /\ reader.ack \in Nat
    BY DEF InboxInv, InboxTypeOK
  <2>2. Id \subseteq Nat \ {0} /\ n \in Nat
    BY InboxBounds DEF Id, Sequence
  <2>3. \A i \in Id : delivery[i] \in Delivery
    BY <2>1 DEF InboxTypeOK
  <2>4. QED BY <2>1, <2>2, <2>3 DEF Delivery
<1>2. \A i \in Id : delivery[i].status # "none" =>
          /\ delivery[i].status = "acknowledged" /\ delivery[i].end =< reader.ack
          /\ i =< delivery[i].end
  BY <1>1 DEF InboxInv, CursorAtEnd
<1>3. n \in Id /\ n \in free
  <2>1. n \in Id
    BY DEF Id, Sequence
  <2>2. ~ (n =< delivery[n].end /\ delivery[n].end =< reader.ack)
    BY <1>1, <2>1
  <2>3. QED BY <1>2, <2>1, <2>2
<1>4. free \in SUBSET Nat /\ free # {}
  BY <1>1, <1>3
<1>5. d \in free /\ \A i \in free : d =< i
  <2> HIDE DEF free
  <2>1. QED BY <1>4, LeastOfNat
<1>6. d \in Id /\ delivery[d].status = "none" /\ d =< n
  BY <1>3, <1>5
<1>7. \A c \in Id : c < d => delivery[c].status # "none"
  <2>1. d \in Nat
    BY <1>1, <1>6
  <2> HIDE DEF d
  <2>2. ASSUME NEW c \in Id, c < d PROVE delivery[c].status # "none"
    <3>1. c \in Nat /\ ~ (d =< c)
      BY <1>1, <2>1, <2>2
    <3>2. c \notin free
      BY <1>5, <3>1
    <3>3. QED BY <3>2
  <2>3. QED BY <2>2
<1>8. QED BY <1>2, <1>6, <1>7

\* A new delivery is the next stretch of the log and misses nothing that is owed in it.
LEMMA DeliveredKeeps ==
    ASSUME InboxInv, NEW x \in Session, NEW B \in SUBSET Scanned, Batch(B),
           DOMAIN ItemsOf(B) # {}, reader.pending = 0, leaseholder = x,
           NEW d, d = Min({i \in Id : delivery[i].status = "none"}),
           delivery' = [delivery EXCEPT ![d] =
                [status |-> "pending", start |-> reader.ack,
                 end |-> Processed(B), items |-> ItemsOf(B)]],
           reader' = [reader EXCEPT !.pending = d],
           Receives(x, d, ItemsOf(B)),
           UNCHANGED <<event, revoked, sub, leaseholder, checkpoint, due>>
    PROVE  InboxInv'
<1> DEFINE P == Processed(B)
<1> DEFINE I == ItemsOf(B)
<1> DEFINE rec == [status |-> "pending", start |-> reader.ack, end |-> P, items |-> I]
<1> DEFINE r == [run[x] EXCEPT !.phase = "fetched", !.id = d, !.items = I]
<1>1. InboxTypeOK /\ reader.ack \in Nat
  BY DEF InboxInv, InboxTypeOK
<1>2. /\ B \subseteq Sequence /\ P \in B \cup {reader.ack} /\ P \in Posted \cup {0}
      /\ P \in Nat /\ reader.ack =< P
      /\ \A n \in B : reader.ack < n /\ n =< P
      /\ \A n \in due : reader.ack < n /\ n =< P => n \in B
  BY BatchCovers
<1>3. I \in Items /\ DOMAIN I = {n \in B : ~Skipped(n)}
  BY <1>2, ItemsOfType
<1> HIDE DEF I
<1>4. P \in Sequence /\ P \in Posted /\ reader.ack < P
  <2>1. PICK n \in B : TRUE
    BY <1>3 DEF I
  <2>2. n \in Nat
    BY <1>2, <2>1, InboxBounds DEF Sequence
  <2>3. P # reader.ack
    BY <1>1, <1>2, <2>1, <2>2
  <2>4. P \in B
    BY <1>2, <2>3
  <2>5. QED BY <1>2, <2>4 DEF Scanned, Eligible
<1> HIDE DEF P
<1>5. /\ d \in Id /\ delivery[d].status = "none" /\ d =< P
      /\ \A c \in Id : c < d => delivery[c].status = "acknowledged"
                                /\ delivery[c].end =< reader.ack
  BY <1>4, FreshDelivery
<1>6. d # 0 /\ Id \subseteq Nat /\ d \in Nat
  BY <1>5, InboxBounds DEF Id
<1>7. rec \in Delivery
  BY <1>1, <1>2, <1>3 DEF Delivery
<1>8. delivery' = [delivery EXCEPT ![d] = rec]
  BY DEF P, I
<1>9. /\ delivery' \in [Id -> Delivery] /\ delivery'[d] = rec
      /\ \A c \in Id : c # d => delivery'[c] = delivery[c]
  <2> HIDE DEF rec
  <2>1. QED BY <1>1, <1>5, <1>7, <1>8 DEF InboxTypeOK
<1>10. /\ delivery'[d].status = "pending" /\ delivery'[d].start = reader.ack
       /\ delivery'[d].end = P /\ delivery'[d].items = I
  BY <1>9
<1> HIDE DEF rec
<1>11. /\ reader'.ack = reader.ack /\ reader'.pending = d
       /\ reader' \in [ack : Nat, pending : Id \cup {0}]
  BY <1>1, <1>5 DEF InboxTypeOK
<1>12. r \in Run /\ r.phase = "fetched" /\ r.id = d /\ r.items = I
  <2>1. run[x] \in Run /\ "fetched" \in ReaderPhase
    BY <1>1 DEF InboxTypeOK, ReaderPhase
  <2>2. QED BY <1>3, <1>5, <2>1 DEF Run
<1>13. run' = [run EXCEPT ![x] = r]
  <2>1. run' = [run EXCEPT ![x].phase = "fetched", ![x].id = d, ![x].items = I]
    BY DEF Receives, I
  <2>2. run \in [Session -> Run]
    BY <1>1 DEF InboxTypeOK
  <2>3. QED BY <2>1, <2>2 DEF Run
<1> HIDE DEF r
<1>14. /\ run' \in [Session -> Run] /\ run'[x] = r
       /\ \A y \in Session : y # x => run'[y] = run[y]
  BY <1>1, <1>12, <1>13 DEF InboxTypeOK
<1>15. InboxTypeOK'
  BY <1>1, <1>9, <1>11, <1>14 DEF InboxTypeOK
<1>16. LogInOrder' /\ DueFollowed'
  BY <1>4, <1>9, <1>10, <1>11 DEF InboxInv, LogInOrder, DueFollowed, Posted
<1>17. CursorAtEnd'
  <2>1. \A c \in Id : delivery[c].status # "pending"
    BY <1>6 DEF InboxInv, CursorAtEnd, Id
  <2>2. ASSUME NEW c \in Id, c # d
        PROVE  /\ delivery'[c].status = "acknowledged" => delivery'[c].end =< reader'.ack
               /\ delivery'[c].status = "pending" => reader'.pending = c
               /\ delivery'[c].status # "none" => c =< delivery'[c].end
                                                   /\ delivery'[c].start =< delivery'[c].end
    BY <1>9, <1>11, <2>1, <2>2 DEF InboxInv, CursorAtEnd
  <2>3. QED BY <1>2, <1>5, <1>10, <1>11, <2>2 DEF CursorAtEnd
<1>18. PendingCovers'
  <2>1. \A n \in due : reader.ack < n /\ n =< P => event[n].quiet \/ n \in DOMAIN I
    BY <1>2, <1>3 DEF Skipped
  <2>2. QED BY <1>10, <1>11, <2>1 DEF PendingCovers
<1>19. HeldAsStored'
  <2>1. ASSUME NEW y \in Session, y # x
        PROVE  /\ run'[y].phase = "new" => checkpoint'[y] = {}
               /\ run'[y].phase \in {"fetched", "saved", "checked"} => run'[y].id \in Id
               /\ run'[y].phase \in {"saved", "checked"} =>
                     <<run'[y].id, run'[y].items>> \in checkpoint'[y]
               /\ leaseholder' # y
    BY <1>14, <2>1 DEF InboxInv, HeldAsStored
  <2>2. QED BY <1>5, <1>10, <1>12, <1>14, <2>1 DEF HeldAsStored
<1>20. NothingPassedOver'
  BY <1>11 DEF InboxInv, NothingPassedOver
<1>21. AcknowledgedAsSaved'
  BY <1>9, <1>10 DEF InboxInv, AcknowledgedAsSaved
<1>22. ConsecutiveDeliveries'
  <2>1. ASSUME NEW c \in Id, delivery'[c].status # "none", NEW n \in DOMAIN delivery'[c].items
        PROVE  delivery'[c].start < n /\ n =< delivery'[c].end
    <3>1. CASE c = d
      BY <1>2, <1>3, <1>10, <2>1, <3>1
    <3>2. CASE c # d
      BY <1>9, <2>1, <3>2 DEF InboxInv, ConsecutiveDeliveries
    <3>3. QED BY <3>1, <3>2
  <2>2. ASSUME NEW c \in Id, NEW e \in Id, c < e, delivery'[e].status # "none"
        PROVE  delivery'[c].status = "acknowledged" /\ delivery'[c].end =< delivery'[e].start
    <3>1. CASE e = d
      <4>1. c # d
        BY <1>6, <2>2, <3>1
      <4>2. QED BY <1>5, <1>9, <1>10, <2>2, <3>1, <4>1
    <3>2. CASE e # d
      <4>1. delivery[c].status = "acknowledged" /\ delivery[c].end =< delivery[e].start
        BY <1>9, <2>2, <3>2 DEF InboxInv, ConsecutiveDeliveries
      <4>2. QED BY <1>5, <1>9, <3>2, <4>1
    <3>3. QED BY <3>1, <3>2
  <2>3. QED BY <1>10, <1>11, <2>1, <2>2 DEF ConsecutiveDeliveries
<1>23. QED BY <1>15, <1>16, <1>17, <1>18, <1>19, <1>20, <1>21, <1>22 DEF InboxInv

LEMMA DeliverKeeps ==
    ASSUME InboxInv, NEW x \in Session, Deliver(x)
    PROVE  InboxInv'
<1>1. /\ reader.pending = 0 /\ leaseholder = x
      /\ UNCHANGED <<event, revoked, sub, leaseholder, checkpoint, due>>
  BY DEF Deliver
<1>2. PICK B \in SUBSET Scanned :
        /\ Batch(B)
        /\ IF DOMAIN ItemsOf(B) = {}
           THEN /\ reader' = [reader EXCEPT !.ack = Processed(B)]
                /\ UNCHANGED <<delivery, run>>
           ELSE LET d == Min({i \in Id : delivery[i].status = "none"}) IN
                /\ delivery' = [delivery EXCEPT ![d] =
                        [status |-> "pending", start |-> reader.ack,
                         end |-> Processed(B), items |-> ItemsOf(B)]]
                /\ reader' = [reader EXCEPT !.pending = d]
                /\ Receives(x, d, ItemsOf(B))
  BY DEF Deliver
<1>3. CASE DOMAIN ItemsOf(B) = {}
  BY <1>1, <1>2, <1>3, SkippedKeeps
<1>4. CASE DOMAIN ItemsOf(B) # {}
  BY <1>1, <1>2, <1>4, DeliveredKeeps
<1>5. QED BY <1>3, <1>4

LEMMA InboxKept == InboxInv /\ [InboxNext]_inboxVars => InboxInv'
<1> SUFFICES ASSUME InboxInv, [InboxNext]_inboxVars PROVE InboxInv'
  OBVIOUS
<1>1. CASE \E n \in Sequence, to \in Topic \cup {Mail}, q \in BOOLEAN : InsertEvent(n, to, q)
  BY <1>1, WritersKeep
<1>2. CASE \E n \in Sequence : CommitEvent(n) \/ Rollback(n) \/ ChangeAccess(n)
  <2>1. Mail \in Topic \cup {Mail} /\ TRUE \in BOOLEAN
    OBVIOUS
  <2>2. QED BY <1>2, <2>1, WritersKeep, ChangeAccessKeeps
<1>3. CASE \E t \in Topic : Subscribe(t) \/ Unsubscribe(t) \/ AutoSubscribe(t)
  BY <1>3, SubscriptionsKeep
<1>4. CASE \E x \in Session : Receive(x) \/ Die(x)
  BY <1>4, RedeliverKeeps, DeliverKeeps, CheckAckKeeps, AcknowledgeKeeps, SessionsKeep
     DEF Receive
<1>5. CASE \E x \in Session, S \in {{}} \cup {checkpoint[y] : y \in Session} : Start(x, S)
  BY <1>5, SessionsKeep
<1>6. CASE UNCHANGED inboxVars
  <2>1. InboxTypeOK' /\ LogInOrder' /\ DueFollowed'
    BY <1>6 DEF InboxInv, InboxTypeOK, LogInOrder, DueFollowed, Posted, inboxVars
  <2>2. CursorAtEnd' /\ PendingCovers' /\ HeldAsStored'
    BY <1>6 DEF InboxInv, CursorAtEnd, PendingCovers, HeldAsStored, inboxVars
  <2>3. NothingPassedOver' /\ AcknowledgedAsSaved' /\ ConsecutiveDeliveries'
    BY <1>6 DEF InboxInv, NothingPassedOver, AcknowledgedAsSaved, ConsecutiveDeliveries, inboxVars
  <2>4. QED BY <2>1, <2>2, <2>3 DEF InboxInv
<1>7. QED BY <1>1, <1>2, <1>3, <1>4, <1>5, <1>6 DEF InboxNext

\* An acknowledged delivery was saved as it stands by a session, and the cursor has
\* passed over nothing the branch is owed: whatever sessions die, resume each other's
\* checkpoints or lose the lease, and whenever access to a source is withdrawn
\* (DiscussionMixin.acknowledge_discussion_updates, ResponsesRuntime._receive_updates).
THEOREM InboxSafety == InboxSpec => []InboxSound
<1>1. InboxInv => InboxSound
  BY DEF InboxInv, InboxSound
<1>2. QED BY InitInbox, InboxKept, <1>1, PTL DEF InboxSpec

HIDE InboxAssumption
-----------------------------------------------------------------------------
(* The Lean server of a workspace's verification: a report says what ran.    *)

SourceType == [errors : Seq(Statements \cup {0}), sorry : BOOLEAN, sorryAx : BOOLEAN,
               exits : BOOLEAN]
ReportType == [errors : Seq(Statements \cup {0}), sorry : BOOLEAN, sorryAx : BOOLEAN,
               phase : BOOLEAN, failure : BOOLEAN]
CallType == [pc : {"new", "probe", "write", "run", "read", "scratch", "axioms", "done"},
             source : Sources, attempt : 0 .. 1, report : ReportType, cut : BOOLEAN]

\* What a report that is no failure says is what Lean found, or a first part of it if the
\* output was cut, never nothing where Lean found errors; the sorry axiom may be missing
\* from it only if the axioms were not read, or the source is not clean.
Faithful(x) ==
    LET s == x.source
        r == x.report
    IN  ~r.failure =>
            /\ r.errors = <<>> => s.errors = <<>>
            /\ x.cut
                \/ /\ r.errors = Shown(s.errors) /\ r.sorry = s.sorry
                   /\ x.pc = "read" /\ s.errors = <<>> /\ ~s.sorry /\ ~r.phase =>
                        r.sorryAx = s.sorryAx

CallStage(x) ==
    /\ x.pc \in {"read", "axioms"} => Faithful(x)
    /\ x.pc = "axioms" => /\ ~x.report.failure /\ x.source.errors = <<>>
                          /\ x.cut \/ ~x.source.sorry

\* An answer is honest about a source of which it was made.
Honest(v, s, cut) ==
    /\ v.ok \/ v.complete => s.errors = <<>>
    /\ cut \/ /\ v.complete => ~s.sorry /\ ~s.sorryAx
              /\ \A i \in v.passed : i \notin Range(s.errors) /\ 0 \notin Range(s.errors)

LeanHostInv ==
    /\ LeanHostTypeOK
    /\ leanCall \in [LeanCheck -> CallType]
    /\ DOMAIN verdict = LeanCheck
    /\ \A c \in LeanCheck : CallStage(leanCall[c])
    /\ HonestLeanResult

\* Cutting a list keeps it if it is short, and leaves nothing only of nothing.
LEMMA ShownOf ==
    ASSUME NEW T, NEW e \in Seq(T)
    PROVE  /\ Shown(e) \in Seq(T)
           /\ Len(Shown(e)) < MaxMessages => Shown(e) = e
           /\ Shown(e) = <<>> <=> e = <<>>
<1> DEFINE n == IF Len(e) < MaxMessages THEN Len(e) ELSE MaxMessages
<1>1. Len(e) \in Nat /\ MaxMessages \in Nat /\ MaxMessages > 0
  BY LeanHostAssumption
<1>2. n \in Nat /\ n =< Len(e) /\ (n = 0 <=> Len(e) = 0) /\ (n < MaxMessages => n = Len(e))
  BY <1>1
<1>3. Shown(e) = SubSeq(e, 1, n)
  BY DEF Shown
<1> HIDE DEF n
<1>4. /\ Shown(e) \in Seq(T) /\ Len(Shown(e)) = n
      /\ \A i \in 1 .. n : Shown(e)[i] = e[i]
  BY <1>1, <1>2, <1>3
<1>5. n = Len(e) => Shown(e) = e
  BY <1>1, <1>2, <1>4, SeqEqual
<1>6. Shown(e) = <<>> <=> e = <<>>
  BY <1>1, <1>2, <1>4, EmptySeq
<1>7. QED BY <1>1, <1>2, <1>4, <1>5, <1>6

LEMMA CutErrors ==
    ASSUME NEW s \in Sources
    PROVE  /\ s \in SourceType /\ Shown(s.errors) \in Seq(Statements \cup {0})
           /\ Len(Shown(s.errors)) < MaxMessages => Shown(s.errors) = s.errors
           /\ Shown(s.errors) = <<>> <=> s.errors = <<>>
           /\ Report(s) \in ReportType
<1>1. s \in SourceType /\ s.errors \in Seq(Statements \cup {0})
  BY LeanHostAssumption DEF SourceType
<1>2. /\ Shown(s.errors) \in Seq(Statements \cup {0})
      /\ Len(Shown(s.errors)) < MaxMessages => Shown(s.errors) = s.errors
      /\ Shown(s.errors) = <<>> <=> s.errors = <<>>
  BY <1>1, ShownOf
<1>3. Report(s) \in ReportType
  BY <1>1, <1>2 DEF Report, ReportType, SourceType
<1>4. QED BY <1>1, <1>2, <1>3

\* The first n of a list of errors, as they are shown.
LEMMA FirstErrors ==
    ASSUME NEW T, NEW e \in Seq(T), NEW n \in 0 .. Len(e)
    PROVE  /\ Shown(SubSeq(e, 1, n)) \in Seq(T)
           /\ Shown(SubSeq(e, 1, n)) = <<>> => n = 0
           /\ n = Len(e) => Shown(SubSeq(e, 1, n)) = Shown(e)
           /\ n = 0 /\ n = Len(e) => e = <<>>
<1>1. Len(e) \in Nat /\ n \in Nat /\ n =< Len(e)
  OBVIOUS
<1>2. PICK q \in Seq(T) : q = SubSeq(e, 1, n)
  <2>1. SubSeq(e, 1, n) \in Seq(T)
    BY <1>1
  <2>2. QED BY <2>1, Zenon
<1>3. Len(q) = n /\ \A i \in 1 .. n : q[i] = e[i]
  BY <1>1, <1>2
<1>4. n = Len(e) => q = e
  BY <1>1, <1>3, SeqEqual
<1>5. q = <<>> => n = 0
  BY <1>3
<1>6. n = 0 /\ n = Len(e) => e = <<>>
  BY EmptySeq
<1>7. Shown(q) \in Seq(T) /\ (Shown(q) = <<>> <=> q = <<>>)
  BY ShownOf
<1>8. QED BY <1>2, <1>4, <1>5, <1>6, <1>7

\* An answer made from a faithful report is honest.
LEMMA HonestAnswer ==
    ASSUME NEW s \in Sources, NEW r \in ReportType, NEW axiomsOk \in BOOLEAN,
           NEW cut \in BOOLEAN,
           ~r.failure /\ r.errors = <<>> => s.errors = <<>>,
           ~cut /\ ~r.failure => r.errors = Shown(s.errors) /\ r.sorry = s.sorry,
           ~cut /\ ~r.failure /\ s.errors = <<>> /\ ~s.sorry /\ ~r.phase /\ axiomsOk =>
              r.sorryAx = s.sorryAx
    PROVE  LET v == Answer(r, axiomsOk) IN v.passed \subseteq Statements /\ Honest(v, s, cut)
<1> DEFINE v == Answer(r, axiomsOk)
<1>1. /\ v.passed = Passed(r) /\ v.ok = (~r.failure /\ r.errors = <<>>)
      /\ v.complete = (~r.failure /\ r.errors = <<>> /\ ~r.sorry /\ ~r.phase /\ axiomsOk
                          /\ ~r.sorryAx)
  BY DEF Answer
<1>2. v.ok \/ v.complete => s.errors = <<>>
  BY <1>1
<1>3. ~cut /\ v.complete => ~s.sorry /\ ~s.sorryAx
  BY <1>1
<1>4. Passed(r) \subseteq Statements
  BY DEF Passed
<1>5. ASSUME ~cut, NEW i \in Passed(r) PROVE i \notin Range(s.errors) /\ 0 \notin Range(s.errors)
  <2>1. ~JudgesNothing(r) /\ i \notin Range(r.errors) /\ 0 \notin Range(r.errors)
    BY <1>5 DEF Passed
  <2>2. ~r.failure /\ ~(Len(r.errors) >= MaxMessages)
    BY <2>1 DEF JudgesNothing
  <2>3. Len(r.errors) \in Nat /\ MaxMessages \in Nat
    BY LeanHostAssumption DEF ReportType
  <2>4. r.errors = s.errors
    BY <1>5, <2>2, <2>3, CutErrors
  <2>5. QED BY <2>1, <2>4
<1> HIDE DEF v
<1>6. Honest(v, s, cut)
  BY <1>1, <1>2, <1>3, <1>5 DEF Honest
<1>7. QED BY <1>1, <1>4, <1>6 DEF v

\* A step of one call that answers nothing.
LEMMA CallMoves ==
    ASSUME LeanHostInv, NEW c \in LeanCheck, NEW x \in CallType,
           leanCall' = [leanCall EXCEPT ![c] = x], verdict' = verdict,
           x.source = leanCall[c].source, CallStage(x), leanCall[c].cut => x.cut,
           leanBackend' \in {"unknown", "repl", "repl_inline", "one_shot"},
           daemonThere' \in BOOLEAN, losses' \in 0 .. MaxLosses
    PROVE  LeanHostInv'
<1>1. \A d \in LeanCheck : leanCall'[d] = IF d = c THEN x ELSE leanCall[d]
  BY DEF LeanHostInv
<1>2. leanCall' \in [LeanCheck -> CallType] /\ DOMAIN verdict' = LeanCheck
  BY DEF LeanHostInv
<1>3. LeanHostTypeOK'
  BY <1>2 DEF LeanHostInv, LeanHostTypeOK, CallType
<1>4. (\A d \in LeanCheck : CallStage(leanCall[d]))'
  BY <1>1 DEF LeanHostInv, CallStage, Faithful
<1>5. HonestLeanResult'
  BY <1>1 DEF LeanHostInv, HonestLeanResult
<1>6. QED BY <1>2, <1>3, <1>4, <1>5 DEF LeanHostInv

\* A step of one call to a place where it has no report to give yet.
LEMMA CallGoes ==
    ASSUME LeanHostInv, NEW c \in LeanCheck, NEW pc \in {"probe", "write", "run", "scratch"},
           leanCall' = [leanCall EXCEPT ![c].pc = pc], verdict' = verdict,
           leanBackend' \in {"unknown", "repl", "repl_inline", "one_shot"},
           daemonThere' \in BOOLEAN, losses' \in 0 .. MaxLosses
    PROVE  LeanHostInv'
<1>1. leanCall[c] \in CallType
  BY DEF LeanHostInv
<1> DEFINE x == [leanCall[c] EXCEPT !.pc = pc]
<1>2. leanCall' = [leanCall EXCEPT ![c] = x]
  OBVIOUS
<1>3. x \in CallType /\ x.source = leanCall[c].source /\ x.pc = pc /\ x.cut = leanCall[c].cut
  BY <1>1 DEF CallType
<1> HIDE DEF x
<1>4. CallStage(x)
  BY <1>3 DEF CallStage
<1>5. QED BY <1>2, <1>3, <1>4, CallMoves

\* A call gets a report.
LEMMA CallReported ==
    ASSUME LeanHostInv, NEW c \in LeanCheck, NEW r \in ReportType,
           leanCall' = [leanCall EXCEPT ![c].pc = "read", ![c].report = r],
           ~r.failure => LET s == leanCall[c].source IN
              /\ r.errors = Shown(s.errors) /\ r.sorry = s.sorry
              /\ s.errors = <<>> /\ ~s.sorry /\ ~r.phase => r.sorryAx = s.sorryAx,
           losses' \in 0 .. MaxLosses, UNCHANGED <<leanBackend, daemonThere, verdict>>
    PROVE  LeanHostInv'
<1> DEFINE x == [leanCall[c] EXCEPT !.pc = "read", !.report = r]
<1>1. leanCall[c] \in CallType
  BY DEF LeanHostInv
<1>2. /\ x \in CallType /\ x.source = leanCall[c].source /\ x.pc = "read" /\ x.report = r
      /\ x.cut = leanCall[c].cut
  BY <1>1 DEF CallType
<1>3. leanCall' = [leanCall EXCEPT ![c] = x]
  OBVIOUS
<1> HIDE DEF x
<1>4. x.source \in Sources
  BY <1>2 DEF CallType
<1>5. CallStage(x)
  BY <1>2, <1>4, CutErrors DEF CallStage, Faithful
<1>6. QED BY <1>2, <1>3, <1>5, CallMoves DEF LeanHostInv, LeanHostTypeOK

\* A call answers and is done.
LEMMA CallAnswers ==
    ASSUME LeanHostInv, NEW c \in LeanCheck, NEW v, NEW x \in CallType,
           v.passed \subseteq Statements, Honest(v, leanCall[c].source, x.cut),
           verdict' = [verdict EXCEPT ![c] = v], leanCall' = [leanCall EXCEPT ![c] = x],
           x.pc = "done", x.source = leanCall[c].source,
           losses' \in 0 .. MaxLosses, UNCHANGED <<leanBackend, daemonThere>>
    PROVE  LeanHostInv'
<1>1. /\ \A d \in LeanCheck : leanCall'[d] = IF d = c THEN x ELSE leanCall[d]
      /\ \A d \in LeanCheck : verdict'[d] = IF d = c THEN v ELSE verdict[d]
      /\ leanCall' \in [LeanCheck -> CallType] /\ DOMAIN verdict' = LeanCheck
  BY DEF LeanHostInv
<1>2. LeanHostTypeOK'
  BY <1>1 DEF LeanHostInv, LeanHostTypeOK, CallType
<1>3. (\A d \in LeanCheck : CallStage(leanCall[d]))'
  BY <1>1 DEF LeanHostInv, CallStage, Faithful
<1>4. HonestLeanResult'
  BY <1>1 DEF LeanHostInv, HonestLeanResult, Honest
<1>5. QED BY <1>1, <1>2, <1>3, <1>4 DEF LeanHostInv

\* A report that says nothing, and one of a failure.
LEMMA EmptyReports ==
    NoReportYet \in ReportType /\ [NoReportYet EXCEPT !.failure = TRUE] \in ReportType
<1>1. NoReportYet \in ReportType
  BY DEF NoReportYet, ReportType
<1>2. QED BY <1>1 DEF ReportType

LEMMA InitLeanHost == LeanHostInit => LeanHostInv
<1> SUFFICES ASSUME LeanHostInit PROVE LeanHostInv
  OBVIOUS
<1>1. NoReportYet \in ReportType
  BY EmptyReports
<1>2. leanCall \in [LeanCheck -> CallType] /\ \A c \in LeanCheck : leanCall[c].pc = "new"
  <2> DEFINE New == [pc : {"new"}, source : Sources, attempt : {0}, report : {NoReportYet},
                     cut : {FALSE}]
  <2>1. leanCall \in [LeanCheck -> New]
    BY DEF LeanHostInit
  <2>2. ASSUME NEW x \in New PROVE x \in CallType /\ x.pc = "new"
    <3>1. /\ x = [pc |-> "new", source |-> x.source, attempt |-> 0, report |-> NoReportYet,
                  cut |-> FALSE]
          /\ x.source \in Sources /\ x.pc = "new"
      OBVIOUS
    <3>2. 0 \in 0 .. 1
      OBVIOUS
    <3>3. x \in CallType
      BY <1>1, <3>1, <3>2, Zenon DEF CallType
    <3>4. QED BY <3>1, <3>3
  <2> HIDE DEF New
  <2>3. QED BY <2>1, <2>2
<1>3. \A c \in LeanCheck : verdict[c] = Unknown
  BY DEF LeanHostInit
<1>4. LeanHostTypeOK
  <2>1. \A c \in LeanCheck : verdict[c].passed \subseteq Statements
    BY <1>3 DEF Unknown
  <2>2. \A c \in LeanCheck : leanCall[c] \in CallType
    BY <1>2
  <2>3. losses \in 0 .. MaxLosses
    BY LeanHostAssumption DEF LeanHostInit
  <2>4. QED BY <2>1, <2>2, <2>3 DEF LeanHostInit, LeanHostTypeOK, CallType
<1>5. \A c \in LeanCheck : CallStage(leanCall[c])
  BY <1>2 DEF CallStage
<1>6. HonestLeanResult
  BY <1>3 DEF HonestLeanResult, Unknown
<1>7. QED BY <1>2, <1>4, <1>5, <1>6 DEF LeanHostInv, LeanHostInit

LEMMA CheckRuns ==
    ASSUME LeanHostInv, NEW c \in LeanCheck, RunCheck(c) \/ RunFails(c)
    PROVE  LeanHostInv'
<1> DEFINE s == leanCall[c].source
<1>1. s \in Sources /\ losses \in 0 .. MaxLosses /\ MaxLosses \in Nat
  BY LeanHostAssumption DEF LeanHostInv, CallType, LeanHostTypeOK
<1>2. /\ Report(s) \in ReportType /\ Report(s).errors = Shown(s.errors)
      /\ Report(s).sorry = s.sorry /\ Report(s).sorryAx = s.sorryAx
      /\ Report(s).failure = FALSE
  BY <1>1, CutErrors DEF Report
<1>3. CASE RunCheck(c)
  BY <1>1, <1>2, <1>3, CallReported DEF RunCheck
<1>4. CASE RunFails(c)
  <2> DEFINE lost == [NoReportYet EXCEPT !.failure = TRUE]
             part == [Report(s) EXCEPT !.phase = TRUE, !.sorryAx = FALSE]
  <2>1. losses' \in 0 .. MaxLosses
    BY <1>1, <1>4 DEF RunFails
  <2>2. lost \in ReportType /\ lost.failure
    BY EmptyReports DEF NoReportYet
  <2>3. /\ part \in ReportType /\ part.errors = Shown(s.errors) /\ part.sorry = s.sorry
        /\ part.phase
    BY <1>2 DEF ReportType
  <2> HIDE DEF lost, part
  <2>4. PICK r \in {lost, part} :
           leanCall' = [leanCall EXCEPT ![c].pc = "read", ![c].report = r]
    BY <1>4 DEF RunFails, lost, part
  <2>5. r \in ReportType /\ (~r.failure => r.errors = Shown(s.errors) /\ r.sorry = s.sorry
                                            /\ r.phase)
    BY <2>2, <2>3, <2>4
  <2>6. QED BY <1>4, <2>1, <2>4, <2>5, CallReported DEF RunFails
<1>5. QED BY <1>3, <1>4

LEMMA AnswerRead ==
    ASSUME LeanHostInv, NEW c \in LeanCheck, ReadAnswer(c)
    PROVE  LeanHostInv'
<1> DEFINE x == leanCall[c]
           v == Answer(x.report, TRUE)
<1>1. x \in CallType /\ CallStage(x) /\ x.pc = "read"
  BY DEF LeanHostInv, ReadAnswer, At
<1>2. x.source \in Sources /\ x.report \in ReportType /\ Faithful(x)
  BY <1>1 DEF CallType, CallStage
<1>3. v.passed \subseteq Statements /\ Honest(v, x.source, x.cut)
  <2>1. x.cut \in BOOLEAN
    BY <1>1 DEF CallType
  <2>2. QED BY <1>1, <1>2, <2>1, HonestAnswer DEF Faithful
<1> DEFINE y == [x EXCEPT !.pc = "done"]
<1>4. /\ verdict' = [verdict EXCEPT ![c] = v] /\ leanCall' = [leanCall EXCEPT ![c] = y]
      /\ losses' \in 0 .. MaxLosses /\ UNCHANGED <<leanBackend, daemonThere>>
  BY DEF ReadAnswer, Step, LeanHostInv, LeanHostTypeOK
<1>5. y \in CallType /\ y.pc = "done" /\ y.source = x.source /\ y.cut = x.cut
  BY <1>1 DEF CallType
<1> HIDE DEF v, y
<1>6. QED BY <1>3, <1>4, <1>5, CallAnswers

LEMMA OneShotRuns ==
    ASSUME LeanHostInv, NEW c \in LeanCheck, OneShot(c)
    PROVE  LeanHostInv'
<1> DEFINE s == leanCall[c].source
<1>1. /\ s \in Sources /\ losses \in 0 .. MaxLosses /\ MaxLosses \in Nat
      /\ leanCall[c] \in CallType
  BY LeanHostAssumption DEF LeanHostInv, CallType, LeanHostTypeOK
<1>2. s.errors \in Seq(Statements \cup {0}) /\ s.sorry \in BOOLEAN
  BY <1>1, CutErrors DEF SourceType
<1>3. PICK cut \in BOOLEAN, killed \in BOOLEAN, n \in 0 .. Len(s.errors),
           sorry \in {s.sorry, FALSE} :
        LET exit == killed \/ s.errors # <<>>
            r == [errors |-> Shown(SubSeq(s.errors, 1, n)), sorry |-> sorry, sorryAx |-> FALSE,
                  phase |-> FALSE, failure |-> exit /\ n = 0]
        IN  /\ killed => cut
            /\ ~cut => n = Len(s.errors) /\ sorry = s.sorry
            /\ cut => losses < MaxLosses
            /\ losses' = IF cut THEN losses + 1 ELSE losses
            /\ leanCall' = [leanCall EXCEPT
                    ![c].pc = IF n = 0 /\ ~exit /\ ~sorry THEN "axioms" ELSE "read",
                    ![c].report = r, ![c].cut = @ \/ cut]
  BY DEF OneShot
<1> DEFINE e == Shown(SubSeq(s.errors, 1, n))
           exit == killed \/ s.errors # <<>>
           r == [errors |-> e, sorry |-> sorry, sorryAx |-> FALSE,
                 phase |-> FALSE, failure |-> exit /\ n = 0]
           pc == IF n = 0 /\ ~exit /\ ~sorry THEN "axioms" ELSE "read"
           off == leanCall[c].cut \/ cut
           x == [leanCall[c] EXCEPT !.pc = pc, !.report = r, !.cut = off]
<1>4. /\ e \in Seq(Statements \cup {0}) /\ (e = <<>> => n = 0)
      /\ n = Len(s.errors) => e = Shown(s.errors)
      /\ n = 0 /\ n = Len(s.errors) => s.errors = <<>>
  BY <1>2, FirstErrors
<1>5. exit \in BOOLEAN /\ sorry \in BOOLEAN /\ (~exit => s.errors = <<>>)
      /\ (~cut => (exit <=> s.errors # <<>>))
  BY <1>2, <1>3
<1> HIDE DEF e, exit
<1>6. /\ r \in ReportType /\ r.errors = e /\ r.sorry = sorry /\ r.phase = FALSE
      /\ (~r.failure => ~exit \/ n # 0) /\ (~exit => ~r.failure)
  BY <1>4, <1>5 DEF ReportType
<1> HIDE DEF r
<1>7. /\ leanCall' = [leanCall EXCEPT ![c] = x] /\ losses' \in 0 .. MaxLosses
  <2>1. leanCall' = [leanCall EXCEPT ![c].pc = pc, ![c].report = r, ![c].cut = @ \/ cut]
    BY <1>3 DEF exit, r, e
  <2>2. losses' \in 0 .. MaxLosses
    BY <1>1, <1>3
  <2>3. QED BY <2>1, <2>2
<1>8. pc \in {"read", "axioms"} /\ (pc = "axioms" <=> n = 0 /\ ~exit /\ ~sorry)
  OBVIOUS
<1> HIDE DEF pc
<1>9. /\ x \in CallType /\ x.source = s /\ x.pc = pc /\ x.report = r
      /\ (leanCall[c].cut => x.cut) /\ (cut => x.cut)
  <2>1. off \in BOOLEAN
    BY <1>1 DEF CallType
  <2>2. QED BY <1>1, <1>6, <1>8, <2>1 DEF CallType
<1> HIDE DEF x
<1>10. r.errors = <<>> /\ ~r.failure => s.errors = <<>>
  BY <1>4, <1>5, <1>6
<1>11. ~cut => r.errors = Shown(s.errors) /\ r.sorry = s.sorry
  BY <1>3, <1>4, <1>6
<1>12. ~cut /\ s.errors = <<>> /\ ~s.sorry => pc = "axioms"
  <2>1. s.errors = <<>> => Len(s.errors) = 0
    OBVIOUS
  <2>2. QED BY <1>3, <1>5, <1>8, <2>1
<1>13. pc = "axioms" => ~r.failure /\ s.errors = <<>> /\ (cut \/ ~s.sorry)
  BY <1>3, <1>5, <1>6, <1>8
<1>14. Faithful(x)
  BY <1>9, <1>10, <1>11, <1>12 DEF Faithful
<1>15. CallStage(x)
  BY <1>9, <1>13, <1>14 DEF CallStage
<1>16. QED BY <1>7, <1>9, <1>15, CallMoves DEF OneShot, LeanHostInv, LeanHostTypeOK

LEMMA AxiomsReported ==
    ASSUME LeanHostInv, NEW c \in LeanCheck, OneShotAxioms(c)
    PROVE  LeanHostInv'
<1> DEFINE x == leanCall[c]
           s == x.source
<1>1. x \in CallType /\ CallStage(x) /\ x.pc = "axioms"
  BY DEF LeanHostInv, OneShotAxioms, At
<1>2. /\ s \in Sources /\ s \in SourceType /\ x.report \in ReportType /\ Faithful(x)
      /\ ~x.report.failure /\ s.errors = <<>> /\ (x.cut \/ ~s.sorry) /\ x.cut \in BOOLEAN
  BY <1>1, CutErrors DEF CallType, CallStage
<1>3. losses \in 0 .. MaxLosses /\ MaxLosses \in Nat
  BY LeanHostAssumption DEF LeanHostInv, LeanHostTypeOK
<1>4. PICK ran \in BOOLEAN, cut \in BOOLEAN, sorryAx \in {s.sorryAx, FALSE} :
        /\ ~cut => sorryAx = s.sorryAx
        /\ (ran /\ ~cut) \/ losses < MaxLosses
        /\ losses' = IF ran /\ ~cut THEN losses ELSE losses + 1
        /\ verdict' = [verdict EXCEPT ![c] =
             Answer([x.report EXCEPT !.sorryAx = ran /\ ~s.exits /\ sorryAx], ran /\ ~s.exits)]
        /\ leanCall' = [leanCall EXCEPT ![c].pc = "done", ![c].cut = @ \/ cut]
  BY DEF OneShotAxioms
<1> DEFINE ax == ran /\ ~s.exits /\ sorryAx
           r == [x.report EXCEPT !.sorryAx = ax]
           ok == ran /\ ~s.exits
           v == Answer(r, ok)
           off == x.cut \/ cut
           y == [x EXCEPT !.pc = "done", !.cut = off]
<1>5. ok \in BOOLEAN /\ ax \in BOOLEAN /\ off \in BOOLEAN /\ (ok => (ax <=> sorryAx))
      /\ (~off => ~x.cut /\ ~cut)
  BY <1>2, <1>4 DEF SourceType
<1>6. verdict' = [verdict EXCEPT ![c] = v] /\ leanCall' = [leanCall EXCEPT ![c] = y]
  BY <1>4
<1> HIDE DEF ax, ok, off
<1>7. /\ r \in ReportType /\ r.errors = x.report.errors /\ r.sorry = x.report.sorry
      /\ r.sorryAx = ax /\ r.failure = x.report.failure
  BY <1>2, <1>5 DEF ReportType
<1>8. y \in CallType /\ y.pc = "done" /\ y.source = s /\ y.cut = off
  BY <1>1, <1>5 DEF CallType
<1> HIDE DEF r, y
<1>9. ~off => r.errors = Shown(s.errors) /\ r.sorry = s.sorry
  BY <1>2, <1>5, <1>7 DEF Faithful
<1>10. ~off /\ ok => r.sorryAx = s.sorryAx
  <2>1. s.sorryAx \in BOOLEAN
    BY <1>2 DEF SourceType
  <2>2. QED BY <1>4, <1>5, <1>7, <2>1
<1>11. v.passed \subseteq Statements /\ Honest(v, s, off)
  BY <1>2, <1>5, <1>7, <1>9, <1>10, HonestAnswer
<1>12. losses' \in 0 .. MaxLosses
  BY <1>3, <1>4
<1> HIDE DEF v
<1>13. QED BY <1>6, <1>8, <1>11, <1>12, CallAnswers DEF OneShotAxioms

\* Every step keeps the invariant.
LEMMA LeanHostStep == LeanHostInv /\ [LeanHostNext]_leanHostVars => LeanHostInv'
<1> SUFFICES ASSUME LeanHostInv, [LeanHostNext]_leanHostVars PROVE LeanHostInv'
  OBVIOUS
<1>1. /\ losses \in 0 .. MaxLosses /\ MaxLosses \in Nat /\ daemonThere \in BOOLEAN
      /\ leanBackend \in {"unknown", "repl", "repl_inline", "one_shot"}
  BY LeanHostAssumption DEF LeanHostInv, LeanHostTypeOK
<1>2. losses < MaxLosses => losses + 1 \in 0 .. MaxLosses
  BY <1>1
<1>3. CASE UNCHANGED leanHostVars \/ LoseDaemon
  <2>1. /\ leanCall' = leanCall /\ verdict' = verdict /\ leanBackend' = leanBackend
        /\ daemonThere' \in BOOLEAN /\ losses' \in 0 .. MaxLosses
    BY <1>1, <1>2, <1>3 DEF leanHostVars, LoseDaemon
  <2>2. QED
    BY <2>1 DEF LeanHostInv, LeanHostTypeOK, CallStage, Faithful, HonestLeanResult
<1>4. ASSUME NEW c \in LeanCheck, BeginCheck(c) PROVE LeanHostInv'
  <2>1. PICK pc \in {"probe", "write", "scratch"} : leanCall' = [leanCall EXCEPT ![c].pc = pc]
    BY <1>4 DEF BeginCheck, Step
  <2>2. QED BY <1>1, <1>4, <2>1, CallGoes DEF BeginCheck
<1>5. ASSUME NEW c \in LeanCheck, SelectBackend(c) PROVE LeanHostInv'
  <2>1. PICK pc \in {"write", "scratch"} : leanCall' = [leanCall EXCEPT ![c].pc = pc]
    BY <1>5 DEF SelectBackend, Step
  <2>2. losses' \in 0 .. MaxLosses
    BY <1>1, <1>2, <1>5 DEF SelectBackend
  <2>3. QED BY <1>1, <1>5, <2>1, <2>2, CallGoes DEF SelectBackend
<1>6. ASSUME NEW c \in LeanCheck, WriteRequest(c) PROVE LeanHostInv'
  BY <1>1, <1>6, CallGoes DEF WriteRequest, Step
<1>7. ASSUME NEW c \in LeanCheck, DaemonMissing(c) PROVE LeanHostInv'
  <2>1. CASE leanCall[c].attempt = 0
    <3> DEFINE x == [leanCall[c] EXCEPT !.pc = "write", !.attempt = 1]
    <3>1. leanCall[c] \in CallType
      BY DEF LeanHostInv
    <3>2. x.source = leanCall[c].source /\ x.pc = "write" /\ x.cut = leanCall[c].cut
      BY <3>1 DEF CallType
    <3>3. x \in CallType
      <4>1. 1 \in 0 .. 1
        OBVIOUS
      <4>2. QED BY <3>1, <4>1, Zenon DEF CallType
    <3>4. leanCall' = [leanCall EXCEPT ![c] = x]
      <4>1. leanCall' = [leanCall EXCEPT ![c].pc = "write", ![c].attempt = 1]
        BY <1>7, <2>1 DEF DaemonMissing
      <4>2. QED BY <4>1
    <3> HIDE DEF x
    <3>5. CallStage(x)
      BY <3>2 DEF CallStage
    <3>6. QED BY <1>1, <1>7, <2>1, <3>2, <3>3, <3>4, <3>5, CallMoves DEF DaemonMissing
  <2>2. CASE leanCall[c].attempt # 0
    BY <1>1, <1>7, <2>2, CallGoes DEF DaemonMissing, Step
  <2>3. QED BY <2>1, <2>2
<1>8. ASSUME NEW c \in LeanCheck, ReplCannotStart(c) PROVE LeanHostInv'
  BY <1>1, <1>2, <1>8, CallGoes DEF ReplCannotStart, Step
<1>9. QED
  BY <1>3, <1>4, <1>5, <1>6, <1>7, <1>8, CheckRuns, AnswerRead, OneShotRuns, AxiomsReported
  DEF LeanHostNext

\* What the run `sessions' checks of LeanSession on the host, for any calls, sources, images,
\* losses and limits on messages.
THEOREM LeanHostSafety == LeanHostSpec => []LeanHostSound
<1>1. LeanHostInv => LeanHostSound
  BY DEF LeanHostInv, LeanHostSound
<1>2. QED BY <1>1, InitLeanHost, LeanHostStep, PTL DEF LeanHostSpec
-----------------------------------------------------------------------------
(* The Lean session: at most one command is outstanding, and while it is,    *)
(* the daemon, the pipe and the REPL's table agree on what it asks for.      *)

\* What the REPL can be asked to elaborate for a client.
HeaderText(c) == <<Header[c]>>
BodyText(c) == <<Header[c], c>>
ReportText(c) == <<Header[c], c, "axioms">>
Text == {HeaderText(c) : c \in Client} \cup {BodyText(c) : c \in Client}
            \cup {ReportText(c) : c \in Client}

Silent == todo = <<>> /\ pipe = <<>>

\* One command is outstanding: it waits, or its reply, a refusal or the new environment, does.
Outstanding(cmd, text) ==
    \/ todo = <<cmd>> /\ pipe = <<>>
    \/ todo = <<>> /\ pipe = <<[env |-> 0, of |-> <<>>]>>
    \/ /\ todo = <<>>
       /\ \E e \in 1 .. Len(table) : table[e] = text /\ pipe = <<[env |-> e, of |-> text]>>

\* Where the daemon is with client c.
ServingOK(c) ==
    /\ current.step \in {"start", "report"} => Silent
    /\ current.step = "header" => Outstanding([what |-> Header[c], env |-> 0], HeaderText(c))
    /\ current.step = "body" =>
          /\ Header[c] \in DOMAIN cache
          /\ Outstanding([what |-> c, env |-> cache[Header[c]]], BodyText(c))
    /\ current.step \in {"report", "reporting"} =>
          /\ current.of = BodyText(c) /\ current.env \in 1 .. Len(table)
          /\ table[current.env] = BodyText(c)
    /\ current.step = "reporting" =>
          Outstanding([what |-> "axioms", env |-> current.env], ReportText(c))

CurrentShape ==
    current \in {DaemonIdle} \cup [client : Client, step : {"start", "header", "body"}]
        \cup [client : Client, step : {"report", "reporting"}, env : Nat \ {0},
              of : {BodyText(c) : c \in Client}]

AnswersTo(c) ==
    {NoAnswer, CheckFailed}
        \cup {Told("verdict", BodyText(c), a) : a \in {NoReport, ReportText(c)}}

AnswersOK == DOMAIN answer = Client /\ \A c \in Client : answer[c] \in AnswersTo(c)

\* The process that runs now: what it elaborated and what the daemon kept of that.
SessionOK ==
    /\ table \in Seq(Text)
    /\ commands \in Nat
    /\ DOMAIN cache \subseteq {Header[c] : c \in Client}
    /\ CacheIsCurrent

DaemonOK ==
    /\ CurrentShape
    /\ current = DaemonIdle => Silent
    /\ \A c \in Client : current.client = c => ServingOK(c)

LeanInv ==
    /\ waiting \subseteq Client
    /\ failures \in 0 .. MaxFailures
    /\ AnswersOK
    /\ SessionOK
    /\ DaemonOK

LEMMA Appended ==
    ASSUME NEW S, NEW s \in Seq(S), NEW b \in S, NEW t \in Seq(S),
           Len(t) = Len(s) + 1, t[Len(s) + 1] = b, \A i \in 1 .. Len(s) : t[i] = s[i]
    PROVE  Append(s, b) = t
<1> DEFINE r == Append(s, b)
<1>1. /\ r \in Seq(S) /\ Len(r) = Len(s) + 1
      /\ \A i \in 1 .. Len(s) : r[i] = s[i]
      /\ r[Len(s) + 1] = b
  BY AppendProperties
<1>2. Len(s) \in Nat
  OBVIOUS
<1> HIDE DEF r
<1>3. \A i \in 1 .. Len(r) : r[i] = t[i]
  BY <1>1, <1>2
<1>4. r = t
  BY <1>1, <1>3, SeqEqual
<1>5. QED BY <1>4 DEF r

LEMMA AppendOne ==
    ASSUME NEW a, NEW b, NEW s, NEW t, s = <<a>>, t = <<a, b>>
    PROVE  Append(s, b) = t
<1>1. PICK S : S = {a, b}
  OBVIOUS
<1>2. s \in Seq(S) /\ b \in S /\ t \in Seq(S)
  BY <1>1
<1>3. Len(s) = 1 /\ Len(t) = 2 /\ t[1] = s[1] /\ t[2] = b
  OBVIOUS
<1>4. Len(t) = Len(s) + 1 /\ t[Len(s) + 1] = b /\ \A i \in 1 .. Len(s) : t[i] = s[i]
  BY <1>3
<1>5. QED BY <1>2, <1>4, Appended

LEMMA AppendTwo ==
    ASSUME NEW a, NEW b, NEW d, NEW s, NEW t, s = <<a, b>>, t = <<a, b, d>>
    PROVE  Append(s, d) = t
<1>1. PICK S : S = {a, b, d}
  OBVIOUS
<1>2. s \in Seq(S) /\ d \in S /\ t \in Seq(S)
  BY <1>1
<1>3. Len(s) = 2 /\ Len(t) = 3 /\ t[1] = s[1] /\ t[2] = s[2] /\ t[3] = d
  OBVIOUS
<1>4. Len(t) = Len(s) + 1 /\ t[Len(s) + 1] = d /\ \A i \in 1 .. Len(s) : t[i] = s[i]
  BY <1>3
<1>5. QED BY <1>2, <1>4, Appended

LEMMA HeadTail ==
    ASSUME NEW a
    PROVE  Head(<<a>>) = a /\ Tail(<<a>>) = <<>>
OBVIOUS

LEMMA Texts ==
    ASSUME NEW c \in Client
    PROVE  /\ HeaderText(c) \in Text /\ BodyText(c) \in Text /\ ReportText(c) \in Text
           /\ Append(HeaderText(c), c) = BodyText(c)
           /\ Append(BodyText(c), "axioms") = ReportText(c)
<1>1. HeaderText(c) \in Text /\ BodyText(c) \in Text /\ ReportText(c) \in Text
  BY DEF Text
<1>2. Append(HeaderText(c), c) = BodyText(c)
  BY AppendOne DEF HeaderText, BodyText
<1>3. Append(BodyText(c), "axioms") = ReportText(c)
  BY AppendTwo DEF BodyText, ReportText
<1>4. QED BY <1>1, <1>2, <1>3

LEMMA AnswersTyped ==
    ASSUME AnswersOK
    PROVE  /\ AnswersMatch
           /\ \A c \in Client : answer[c].status \in {"none", "verdict", "error"}
<1>1. ASSUME NEW c \in Client
      PROVE  /\ answer[c].status \in {"none", "verdict", "error"}
             /\ Judged(c) => /\ answer[c].of = <<Header[c], c>>
                             /\ answer[c].axioms \in {NoReport, <<Header[c], c, "axioms">>}
  <2>1. CASE answer[c] \in {NoAnswer, CheckFailed}
    BY <2>1 DEF NoAnswer, CheckFailed, Told, Judged
  <2>2. CASE answer[c] \notin {NoAnswer, CheckFailed}
    <3>1. PICK a \in {NoReport, ReportText(c)} : answer[c] = Told("verdict", BodyText(c), a)
      BY <2>2 DEF AnswersOK, AnswersTo
    <3>2. QED BY <3>1 DEF Told, BodyText, ReportText
  <2>3. QED BY <2>1, <2>2
<1>2. QED BY <1>1 DEF AnswersMatch

LEMMA LeanInvSound == LeanInv => LeanSessionSound
<1> SUFFICES ASSUME LeanInv PROVE LeanSessionSound
  OBVIOUS
<1>1. current.client \in Client \cup {NoClient}
  BY DEF LeanInv, DaemonOK, CurrentShape, DaemonIdle
<1>2. \A h \in DOMAIN cache : h \in {Header[c] : c \in Client} /\ cache[h] \in Nat \ {0}
  BY DEF LeanInv, SessionOK, CacheIsCurrent
<1>3. QED
  BY <1>1, <1>2, AnswersTyped
  DEF LeanInv, SessionOK, LeanSessionSound, LeanSessionTypeOK

LEMMA InitLean == LeanInit => LeanInv
<1> SUFFICES ASSUME LeanInit PROVE LeanInv
  OBVIOUS
<1>1. AnswersOK
  BY DEF LeanInit, AnswersOK, AnswersTo
<1>2. SessionOK
  BY DEF LeanInit, SessionOK, CacheIsCurrent
<1>3. DaemonOK
  BY LeanSessionAssumption DEF LeanInit, DaemonOK, CurrentShape, DaemonIdle, Silent
<1>4. QED BY <1>1, <1>2, <1>3, LeanSessionAssumption DEF LeanInit, LeanInv

\* A client is told something that answers it; it keeps what it was told before.
LEMMA Replied ==
    ASSUME AnswersOK, NEW c \in Client, NEW told \in AnswersTo(c),
           answer' = [answer EXCEPT ![c] = IF @ = NoAnswer THEN told ELSE @]
    PROVE  AnswersOK'
BY DEF AnswersOK, AnswersTo

\* What is idle has nothing outstanding; a new process has elaborated nothing.
LEMMA ResetSession ==
    ASSUME Reset
    PROVE  SessionOK' /\ Silent'
BY DEF Reset, SessionOK, CacheIsCurrent, Silent

LEMMA IdleDaemon ==
    ASSUME current' = DaemonIdle, Silent'
    PROVE  DaemonOK'
BY LeanSessionAssumption DEF DaemonOK, CurrentShape, DaemonIdle

LEMMA KeptSession ==
    ASSUME SessionOK, UNCHANGED <<commands, cache, table>>
    PROVE  SessionOK'
BY DEF SessionOK, CacheIsCurrent

\* The client that is served, and where.
LEMMA ServedClient ==
    ASSUME LeanInv, current.client # NoClient
    PROVE  /\ current.client \in Client /\ ServingOK(current.client)
           /\ current.step \in {"start", "header", "body"} =>
                 current = [client |-> current.client, step |-> current.step]
           /\ current.step \in {"start", "header", "body", "report", "reporting"}
<1>1. CurrentShape /\ current # DaemonIdle
  BY DEF LeanInv, DaemonOK, DaemonIdle
<1>2. current.client \in Client
  BY <1>1 DEF CurrentShape
<1>3. QED BY <1>1, <1>2 DEF CurrentShape, LeanInv, DaemonOK

LEMMA Accepted ==
    ASSUME LeanInv, NEW c \in Client, Accept(c)
    PROVE  LeanInv'
<1>1. current = DaemonIdle /\ Silent
  BY DEF Accept, LeanInv, DaemonOK
<1>2. Silent' /\ SessionOK'
  BY <1>1, ResetSession, KeptSession DEF Accept, KeepSession, Silent, LeanInv
<1>3. current' = [client |-> c, step |-> "start"]
  BY DEF Accept
<1>4. DaemonOK'
  BY <1>2, <1>3 DEF DaemonOK, CurrentShape, DaemonIdle, ServingOK
<1>5. QED BY <1>2, <1>4 DEF LeanInv, AnswersOK, Accept

LEMMA Sent ==
    ASSUME LeanInv, Send
    PROVE  LeanInv'
<1> DEFINE c == current.client
<1>1. /\ c \in Client /\ ServingOK(c) /\ Silent
      /\ current.step \in {"start", "report"}
  BY ServedClient DEF Send, ServingOK
<1>2. todo' = <<Command>> /\ pipe' = <<>>
  BY <1>1 DEF Send, Silent
<1>3. SessionOK' /\ UNCHANGED <<waiting, commands, cache, table, pipe, answer, failures>>
  BY KeptSession DEF Send, LeanInv
<1>4. CASE current.step = "start"
  <2> DEFINE step == IF Cached(Header[c]) THEN "body" ELSE "header"
  <2>1. current' = [client |-> c, step |-> step]
    BY <1>4 DEF Send
  <2>2. current'.client = c /\ current'.step = step
    BY <2>1
  <2>3. CASE Cached(Header[c])
    <3>1. Command = [what |-> c, env |-> cache[Header[c]]]
      BY <1>4, <2>3 DEF Command
    <3>2. ServingOK(c)'
      BY <1>2, <1>3, <2>2, <2>3, <3>1 DEF ServingOK, Outstanding, Cached
    <3>3. QED
      BY <1>1, <1>3, <2>1, <2>2, <3>2
      DEF LeanInv, DaemonOK, CurrentShape, DaemonIdle, AnswersOK
  <2>4. CASE ~Cached(Header[c])
    <3>1. Command = [what |-> Header[c], env |-> 0]
      BY <1>4, <2>4 DEF Command
    <3>2. ServingOK(c)'
      BY <1>2, <1>3, <2>2, <2>4, <3>1 DEF ServingOK, Outstanding
    <3>3. QED
      BY <1>1, <1>3, <2>1, <2>2, <3>2
      DEF LeanInv, DaemonOK, CurrentShape, DaemonIdle, AnswersOK
  <2>5. QED BY <2>3, <2>4
<1>5. CASE current.step = "report"
  <2>1. /\ current \in [client : Client, step : {"report", "reporting"}, env : Nat \ {0},
                        of : {BodyText(k) : k \in Client}]
        /\ current' = [current EXCEPT !.step = "reporting"]
    BY <1>1, <1>5 DEF LeanInv, DaemonOK, CurrentShape, DaemonIdle, Send
  <2>2. /\ current' \in [client : Client, step : {"report", "reporting"}, env : Nat \ {0},
                         of : {BodyText(k) : k \in Client}]
        /\ current'.client = c /\ current'.step = "reporting"
        /\ current'.env = current.env /\ current'.of = current.of
    BY <2>1
  <2>3. Command = [what |-> "axioms", env |-> current.env]
    BY <1>5 DEF Command
  <2>4. ServingOK(c)'
    BY <1>1, <1>2, <1>3, <1>5, <2>2, <2>3 DEF ServingOK, Outstanding
  <2>5. CurrentShape' /\ current' # DaemonIdle
    BY <2>2 DEF CurrentShape, DaemonIdle
  <2>6. QED BY <1>3, <2>2, <2>4, <2>5 DEF LeanInv, DaemonOK, AnswersOK
<1>6. QED BY <1>1, <1>4, <1>5

\* The reply that is outstanding, read.
LEMMA ReplyRead ==
    ASSUME NEW cmd, NEW text, Outstanding(cmd, text), pipe # <<>>
    PROVE  /\ todo = <<>> /\ Tail(pipe) = <<>>
           /\ Head(pipe).env = 0 => Head(pipe).of = <<>>
           /\ Head(pipe).env # 0 => Head(pipe).of = text
           /\ Head(pipe).env # 0 => /\ Head(pipe).env \in 1 .. Len(table)
                                    /\ table[Head(pipe).env] = text
<1>1. todo = <<>>
  BY DEF Outstanding
<1>2. PICK r : pipe = <<r>> /\ (\/ r = [env |-> 0, of |-> <<>>]
                                \/ \E e \in 1 .. Len(table) :
                                      table[e] = text /\ r = [env |-> e, of |-> text])
  BY DEF Outstanding
<1>3. Head(pipe) = r /\ Tail(pipe) = <<>>
  BY <1>2
<1>4. QED BY <1>1, <1>2, <1>3

LEMMA HeaderRead ==
    ASSUME LeanInv, ReadHeader
    PROVE  LeanInv'
<1> DEFINE c == current.client
           h == Header[c]
           e == Head(pipe).env
<1>1. c \in Client /\ ServingOK(c) /\ current.step = "header"
  BY ServedClient DEF ReadHeader, Serving
<1>2. Outstanding([what |-> h, env |-> 0], HeaderText(c))
  BY <1>1 DEF ServingOK
<1>3. e > 0 /\ pipe # <<>>
  BY DEF ReadHeader
<1>4. todo = <<>> /\ Tail(pipe) = <<>> /\ e \in 1 .. Len(table) /\ table[e] = <<h>>
  BY <1>2, <1>3, ReplyRead DEF HeaderText
<1>5. /\ cache' = [k \in DOMAIN cache \cup {h} |-> IF k = h THEN e ELSE cache[k]]
      /\ UNCHANGED <<waiting, table, todo, answer, failures>>
      /\ pipe' = Tail(pipe) /\ commands' = commands + 1
      /\ current' = [client |-> c, step |-> "start"]
  BY DEF ReadHeader
<1> HIDE DEF e
<1>6. SessionOK'
  <2>1. CacheIsCurrent'
    BY <1>4, <1>5 DEF LeanInv, SessionOK, CacheIsCurrent
  <2>2. DOMAIN cache' \subseteq {Header[k] : k \in Client}
    BY <1>1, <1>5 DEF LeanInv, SessionOK
  <2>3. QED BY <1>5, <2>1, <2>2 DEF LeanInv, SessionOK
<1>7. Silent'
  BY <1>4, <1>5 DEF Silent
<1>8. DaemonOK'
  BY <1>1, <1>5, <1>7 DEF DaemonOK, CurrentShape, DaemonIdle, ServingOK
<1>9. QED BY <1>5, <1>6, <1>8 DEF LeanInv, AnswersOK

LEMMA BodyRead ==
    ASSUME LeanInv, ReadBody
    PROVE  LeanInv'
<1> DEFINE c == current.client
           e == Head(pipe).env
           text == Head(pipe).of
<1>1. c \in Client /\ ServingOK(c) /\ current.step = "body"
  BY ServedClient DEF ReadBody, Serving
<1>2. Outstanding([what |-> c, env |-> cache[Header[c]]], BodyText(c))
  BY <1>1 DEF ServingOK
<1>3. e > 0 /\ pipe # <<>>
  BY DEF ReadBody
<1>4. /\ todo = <<>> /\ Tail(pipe) = <<>>
      /\ e \in 1 .. Len(table) /\ table[e] = BodyText(c) /\ text = BodyText(c)
  BY <1>2, <1>3, ReplyRead
<1>5. /\ UNCHANGED <<waiting, cache, table, todo, answer, failures>>
      /\ pipe' = Tail(pipe) /\ commands' = commands + 1
      /\ current' = [client |-> c, step |-> "report", env |-> e, of |-> text]
  BY DEF ReadBody
<1> HIDE DEF e, text
<1>6. SessionOK' /\ Silent'
  BY <1>4, <1>5 DEF LeanInv, SessionOK, CacheIsCurrent, Silent
<1>7. /\ current'.client = c /\ current'.step = "report" /\ current'.env = e
      /\ current'.of = BodyText(c) /\ current' # DaemonIdle
  BY <1>4, <1>5 DEF DaemonIdle
<1>8. CurrentShape'
  BY <1>1, <1>4, <1>5 DEF CurrentShape
<1>9. DaemonOK'
  BY <1>4, <1>5, <1>6, <1>7, <1>8 DEF DaemonOK, ServingOK
<1>10. QED BY <1>5, <1>6, <1>9 DEF LeanInv, AnswersOK

\* The client is told what the report says, or that there is none.
LEMMA ReportRead ==
    ASSUME LeanInv, ReadReport
    PROVE  LeanInv'
<1> DEFINE c == current.client
           told == Told("verdict", current.of, Head(pipe).of)
<1>1. c \in Client /\ ServingOK(c) /\ current.step = "reporting" /\ pipe # <<>>
  BY ServedClient DEF ReadReport, Serving
<1>2. /\ Outstanding([what |-> "axioms", env |-> current.env], ReportText(c))
      /\ current.of = BodyText(c)
  BY <1>1 DEF ServingOK
<1>3. /\ todo = <<>> /\ Tail(pipe) = <<>>
      /\ Head(pipe).of \in {<<>>, ReportText(c)}
  BY <1>1, <1>2, ReplyRead
<1>4. told \in AnswersTo(c)
  BY <1>2, <1>3 DEF AnswersTo, NoReport
<1>5. /\ UNCHANGED <<waiting, cache, table, todo, failures>>
      /\ pipe' = Tail(pipe) /\ commands' = commands + 1 /\ current' = DaemonIdle
      /\ answer' = [answer EXCEPT ![c] = IF @ = NoAnswer THEN told ELSE @]
  BY DEF ReadReport, Reply
<1> HIDE DEF told
<1>6. AnswersOK'
  BY <1>1, <1>4, <1>5, Replied DEF LeanInv
<1>7. SessionOK' /\ Silent'
  BY <1>3, <1>5 DEF LeanInv, SessionOK, CacheIsCurrent, Silent
<1>8. QED BY <1>5, <1>6, <1>7, IdleDaemon DEF LeanInv

LEMMA RefusalRead ==
    ASSUME LeanInv, ReadRefusal
    PROVE  LeanInv'
<1> DEFINE c == current.client
<1>1. c \in Client /\ ServingOK(c) /\ current.step \in {"header", "body"} /\ pipe # <<>>
  BY ServedClient DEF ReadRefusal, Serving
<1>2. \E cmd, text : Outstanding(cmd, text)
  BY <1>1 DEF ServingOK
<1>3. todo = <<>> /\ Tail(pipe) = <<>>
  BY <1>1, <1>2, ReplyRead
<1>4. CheckFailed \in AnswersTo(c)
  BY DEF AnswersTo
<1>5. /\ UNCHANGED <<waiting, cache, table, todo, failures>>
      /\ pipe' = Tail(pipe) /\ commands' = commands + 1 /\ current' = DaemonIdle
      /\ answer' = [answer EXCEPT ![c] = IF @ = NoAnswer THEN CheckFailed ELSE @]
  BY DEF ReadRefusal, Reply
<1>6. AnswersOK'
  BY <1>1, <1>4, <1>5, Replied DEF LeanInv
<1>7. SessionOK' /\ Silent'
  BY <1>3, <1>5 DEF LeanInv, SessionOK, CacheIsCurrent, Silent
<1>8. QED BY <1>5, <1>6, <1>7, IdleDaemon DEF LeanInv

\* A deadline or a crash: what may still be answered is gone with the process.
LEMMA ServiceFails ==
    ASSUME LeanInv, OutOfTime \/ CallFails \/ ReportFails
    PROVE  LeanInv'
<1> DEFINE c == current.client
           told == Told("verdict", current.of, NoReport)
<1>1. c \in Client /\ ServingOK(c)
  BY ServedClient DEF OutOfTime, CallFails, ReportFails, Serving
<1>2. Silent' /\ SessionOK'
  <2>1. CASE Reset
    BY <2>1, ResetSession
  <2>2. CASE KeepSession
    <3>1. current.step \in {"start", "report"} \/ Reset
      BY DEF OutOfTime, CallFails, ReportFails, Serving, ResetOnError
    <3>2. CASE Reset
      BY <3>2, ResetSession
    <3>3. CASE current.step \in {"start", "report"}
      <4>1. Silent
        BY <1>1, <3>3 DEF ServingOK
      <4>2. QED BY <2>2, <4>1, KeptSession DEF KeepSession, Silent, LeanInv
    <3>4. QED BY <3>1, <3>2, <3>3
  <2>3. QED BY <2>1, <2>2 DEF OutOfTime, CallFails, ReportFails, ResetOnError
<1>3. PICK t \in {CheckFailed, told} :
        /\ current' = DaemonIdle
        /\ answer' = [answer EXCEPT ![c] = IF @ = NoAnswer THEN t ELSE @]
        /\ t = told => current.step \in {"report", "reporting"}
  <2>1. CASE OutOfTime \/ CallFails
    <3>1. CheckFailed # told
      BY DEF CheckFailed, Told
    <3>2. QED BY <2>1, <3>1 DEF OutOfTime, CallFails, Reply
  <2>2. CASE ReportFails
    BY <2>2 DEF ReportFails, Reply
  <2>3. QED BY <2>1, <2>2
<1>4. t \in AnswersTo(c)
  BY <1>1, <1>3 DEF AnswersTo, ServingOK
<1>5. AnswersOK'
  BY <1>1, <1>3, <1>4, Replied DEF LeanInv
<1>6. waiting' = waiting /\ failures' \in 0 .. MaxFailures
  BY LeanSessionAssumption
  DEF OutOfTime, CallFails, ReportFails, LeanFailure, LeanInv
<1>7. QED BY <1>2, <1>3, <1>5, <1>6, IdleDaemon DEF LeanInv

LEMMA ClientGone ==
    ASSUME LeanInv, NEW c \in Client, ClientLeaves(c)
    PROVE  LeanInv'
<1>1. failures' \in 0 .. MaxFailures
  BY LeanSessionAssumption DEF ClientLeaves, LeanFailure, LeanInv
<1>2. AnswersOK'
  BY DEF ClientLeaves, LeanInv, AnswersOK, AnswersTo
<1>3. SessionOK'
  BY KeptSession DEF ClientLeaves, LeanInv
<1>4. DaemonOK'
  BY DEF ClientLeaves, LeanInv, DaemonOK, CurrentShape, Silent, ServingOK, Outstanding
<1>5. QED BY <1>1, <1>2, <1>3, <1>4 DEF ClientLeaves, LeanInv

LEMMA DaemonGone ==
    ASSUME LeanInv, DaemonDies
    PROVE  LeanInv'
<1>1. failures' \in 0 .. MaxFailures
  BY LeanSessionAssumption DEF DaemonDies, LeanFailure, LeanInv
<1>2. SessionOK' /\ Silent'
  BY ResetSession DEF DaemonDies, Reset
<1>3. AnswersOK'
  <2>1. current.client # NoClient => current.client \in Client
    BY ServedClient
  <2>2. QED BY <2>1 DEF DaemonDies, LeanInv, AnswersOK, AnswersTo
<1>4. QED BY <1>1, <1>2, <1>3, IdleDaemon DEF DaemonDies, LeanInv

\* A command that waits is the one that is outstanding.
LEMMA Waits ==
    ASSUME LeanInv, todo # <<>>
    PROVE  /\ current.client \in Client /\ pipe = <<>> /\ Tail(todo) = <<>>
           /\ current.step \in {"header", "body", "reporting"}
           /\ current.step = "header" =>
                 Head(todo) = [what |-> Header[current.client], env |-> 0]
           /\ current.step = "body" =>
                 Head(todo) = [what |-> current.client, env |-> cache[Header[current.client]]]
           /\ current.step = "reporting" =>
                 Head(todo) = [what |-> "axioms", env |-> current.env]
<1>1. current # DaemonIdle
  BY DEF LeanInv, DaemonOK, Silent
<1>2. current.client \in Client
  BY <1>1 DEF LeanInv, DaemonOK, CurrentShape
<1>3. current.client # NoClient
  BY <1>2, LeanSessionAssumption
<1>4. ServingOK(current.client)
      /\ current.step \in {"start", "header", "body", "report", "reporting"}
  BY <1>3, ServedClient
<1>5. \A cmd, text : Outstanding(cmd, text) =>
        pipe = <<>> /\ Head(todo) = cmd /\ Tail(todo) = <<>>
  <2> TAKE cmd, text
  <2> HAVE Outstanding(cmd, text)
  <2>1. todo = <<cmd>> /\ pipe = <<>>
    BY DEF Outstanding
  <2>2. QED BY <2>1, HeadTail
<1>6. QED BY <1>2, <1>4, <1>5 DEF ServingOK, Silent

\* The REPL answers: what it elaborated is what the command that is outstanding asks for.
LEMMA Executed ==
    ASSUME LeanInv, ReplExecutes
    PROVE  LeanInv'
<1> DEFINE c == current.client
           n == Len(table) + 1
<1> PICK cmd : cmd = Head(todo)
  OBVIOUS
<1> PICK text : text = Content(cmd)
  OBVIOUS
<1>1. /\ c \in Client /\ pipe = <<>> /\ ServingOK(c)
      /\ current.step \in {"header", "body", "reporting"}
  <2>1. c \in Client /\ pipe = <<>> /\ current.step \in {"header", "body", "reporting"}
    BY Waits DEF ReplExecutes
  <2>2. QED BY <2>1 DEF LeanInv, DaemonOK
<1>2. /\ current.step = "header" => text = HeaderText(c)
      /\ current.step = "body" => text = BodyText(c)
      /\ current.step = "reporting" => text = ReportText(c)
  <2>1. CASE current.step = "header"
    <3>1. cmd.what = Header[c] /\ cmd.env = 0
      BY <2>1, Waits DEF ReplExecutes
    <3>2. QED BY <2>1, <3>1 DEF Content, HeaderText
  <2>2. CASE current.step = "body"
    <3>1. cmd.what = c /\ cmd.env = cache[Header[c]]
      BY <2>2, Waits DEF ReplExecutes
    <3>2. Header[c] \in DOMAIN cache
      BY <1>1, <2>2 DEF ServingOK
    <3>3. /\ cache[Header[c]] \in 1 .. Len(table)
          /\ table[cache[Header[c]]] = HeaderText(c)
      BY <3>2 DEF LeanInv, SessionOK, CacheIsCurrent, HeaderText
    <3>4. cache[Header[c]] # 0
      BY <3>3
    <3>5. text = Append(HeaderText(c), c)
      BY <3>1, <3>3, <3>4 DEF Content
    <3>6. QED BY <1>1, <2>2, <3>5, Texts
  <2>3. CASE current.step = "reporting"
    <3>1. cmd.what = "axioms" /\ cmd.env = current.env
      BY <2>3, Waits DEF ReplExecutes
    <3>2. current.env \in 1 .. Len(table) /\ table[current.env] = BodyText(c)
      BY <1>1, <2>3 DEF ServingOK
    <3>3. current.env # 0
      BY <3>2
    <3>4. text = Append(BodyText(c), "axioms")
      BY <3>1, <3>2, <3>3 DEF Content
    <3>5. QED BY <1>1, <2>3, <3>4, Texts
  <2>4. QED BY <1>1, <2>1, <2>2, <2>3
<1>3. text \in Text /\ table \in Seq(Text) /\ Len(table) \in Nat
  BY <1>1, <1>2, Texts DEF LeanInv, SessionOK
<1>4. /\ table' = Append(table, text) /\ pipe' = Append(pipe, [env |-> n, of |-> text])
      /\ todo' = Tail(todo)
      /\ UNCHANGED <<waiting, current, commands, cache, answer, failures>>
  BY DEF ReplExecutes
<1>5. todo' = <<>>
  BY <1>1, <1>4, Waits DEF ReplExecutes
<1>6. pipe' = <<[env |-> n, of |-> text]>>
  BY <1>1, <1>4
<1>7. /\ table' \in Seq(Text) /\ Len(table') = n /\ n \in 1 .. n /\ table'[n] = text
      /\ \A i \in 1 .. Len(table) : i \in 1 .. n /\ table'[i] = table[i]
  BY <1>3, <1>4, AppendProperties
<1> HIDE DEF n
<1>8. SessionOK'
  <2>1. commands' \in Nat /\ DOMAIN cache' \subseteq {Header[x] : x \in Client}
    BY <1>4 DEF LeanInv, SessionOK
  <2>2. \A h \in DOMAIN cache : cache[h] \in 1 .. Len(table) /\ table[cache[h]] = <<h>>
    BY DEF LeanInv, SessionOK, CacheIsCurrent
  <2>3. \A h \in DOMAIN cache : cache[h] \in 1 .. n /\ table'[cache[h]] = <<h>>
    BY <1>7, <2>2
  <2>4. CacheIsCurrent'
    BY <1>4, <1>7, <2>3 DEF CacheIsCurrent
  <2>5. QED BY <1>7, <2>1, <2>4 DEF SessionOK
<1>9. /\ todo' = <<>>
      /\ \E e \in 1 .. Len(table') : table'[e] = text /\ pipe' = <<[env |-> e, of |-> text]>>
  <2>1. PICK e : e = n
    OBVIOUS
  <2>2. e \in 1 .. Len(table') /\ table'[e] = text /\ pipe' = <<[env |-> e, of |-> text]>>
    BY <1>6, <1>7, <2>1
  <2>3. QED BY <1>5, <2>2
<1>10. ServingOK(c)'
  <2>1. current' = current /\ cache' = cache
    BY <1>4
  <2>2. current.step = "body" => Header[c] \in DOMAIN cache
    BY <1>1 DEF ServingOK
  <2>3. current.step = "reporting" =>
          /\ current.of = BodyText(c) /\ current.env \in 1 .. Len(table')
          /\ table'[current.env] = BodyText(c)
    BY <1>1, <1>7 DEF ServingOK
  <2>4. current.step = "header" => Outstanding([what |-> Header[c], env |-> 0], HeaderText(c))'
    BY <1>2, <1>9, <2>1 DEF Outstanding
  <2>5. current.step = "body" =>
          Outstanding([what |-> c, env |-> cache[Header[c]]], BodyText(c))'
    BY <1>2, <1>9, <2>1 DEF Outstanding
  <2>6. current.step = "reporting" =>
          Outstanding([what |-> "axioms", env |-> current.env], ReportText(c))'
    BY <1>2, <1>9, <2>1 DEF Outstanding
  <2>7. QED BY <1>1, <2>1, <2>2, <2>3, <2>4, <2>5, <2>6 DEF ServingOK
<1>11. DaemonOK'
  BY <1>1, <1>4, <1>10, LeanSessionAssumption DEF LeanInv, DaemonOK, CurrentShape, DaemonIdle
<1>12. QED BY <1>4, <1>8, <1>11 DEF LeanInv, AnswersOK

LEMMA Refused ==
    ASSUME LeanInv, ReplRefuses
    PROVE  LeanInv'
<1> DEFINE c == current.client
<1>1. /\ c \in Client /\ pipe = <<>> /\ ServingOK(c)
      /\ current.step \in {"header", "body", "reporting"}
  <2>1. c \in Client /\ pipe = <<>> /\ current.step \in {"header", "body", "reporting"}
    BY Waits DEF ReplRefuses
  <2>2. QED BY <2>1 DEF LeanInv, DaemonOK
<1>2. UNCHANGED <<waiting, current, commands, cache, table, answer>>
  BY DEF ReplRefuses
<1>3. todo' = <<>> /\ pipe' = <<[env |-> 0, of |-> <<>>]>>
  BY <1>1, Waits DEF ReplRefuses
<1>4. \A cmd, text : Outstanding(cmd, text)'
  BY <1>3 DEF Outstanding
<1>5. ServingOK(c)'
  BY <1>1, <1>2, <1>4 DEF ServingOK
<1>6. DaemonOK'
  BY <1>1, <1>2, <1>5, LeanSessionAssumption DEF LeanInv, DaemonOK, CurrentShape, DaemonIdle
<1>7. failures' \in 0 .. MaxFailures
  BY LeanSessionAssumption DEF ReplRefuses, LeanFailure, LeanInv
<1>8. QED BY <1>2, <1>6, <1>7, KeptSession DEF LeanInv, AnswersOK

\* Every step keeps the invariant.
LEMMA LeanStep == LeanInv /\ [LeanNext]_leanVars => LeanInv'
<1> SUFFICES ASSUME LeanInv, [LeanNext]_leanVars PROVE LeanInv'
  OBVIOUS
<1>1. CASE UNCHANGED leanVars
  BY <1>1
  DEF leanVars, LeanInv, AnswersOK, SessionOK, CacheIsCurrent, DaemonOK, CurrentShape, Silent,
      ServingOK, Outstanding
<1>2. QED
  BY <1>1, Accepted, Sent, HeaderRead, BodyRead, ReportRead, RefusalRead, ServiceFails,
     ClientGone, DaemonGone, Executed, Refused
  DEF LeanNext

\* What the run `sessions' checks of the Lean session daemon, for any clients, headers,
\* limits, deadlines and crashes.
THEOREM LeanSessionSafety == LeanSpec => []LeanSessionSound
BY InitLean, LeanStep, LeanInvSound, PTL DEF LeanSpec
-----------------------------------------------------------------------------
(***************************************************************************)
(* Portable memory                                                         *)
(*                                                                         *)
(* A draft and a checkpoint hold the obligations and the open records of   *)
(* one moment, under a fence no later than the task's; and a walk still    *)
(* owes only records that are open and come after its cursor.              *)
(***************************************************************************)

\* The greatest of a finite set of numbers.
LEMMA LargestOfFinite ==
    ASSUME NEW S \in SUBSET Nat, S # {}, IsFiniteSet(S)
    PROVE  Max(S) \in S /\ \A y \in S : y =< Max(S)
<1> DEFINE Above(i) == {j \in S : j > i}
           C == {Cardinality(Above(i)) : i \in S}
<1>1. \A i \in S : IsFiniteSet(Above(i)) /\ Cardinality(Above(i)) \in Nat
  BY FS_Subset, FS_CardinalityType
<1>2. C \in SUBSET Nat /\ C # {}
  BY <1>1
<1>3. PICK n \in C : \A c \in C : n =< c
  BY <1>2, LeastOfNat
<1>4. PICK m \in S : n = Cardinality(Above(m))
  OBVIOUS
<1>5. ASSUME NEW j \in S, j > m PROVE FALSE
  <2>1. m \in Nat /\ j \in Nat /\ \A k \in S : k \in Nat /\ (k > j => k > m) /\ ~(j > j)
    BY <1>5
  <2>2. Above(j) \in SUBSET Above(m) /\ j \in Above(m) /\ j \notin Above(j)
    BY <1>5, <2>1
  <2>3. Cardinality(Above(j)) =< Cardinality(Above(m)) /\ Above(j) # Above(m)
    BY <1>1, <2>2, FS_Subset
  <2>4. Cardinality(Above(j)) # Cardinality(Above(m))
    BY <1>1, <2>2, <2>3, FS_Subset
  <2>5. Cardinality(Above(j)) \in C
    OBVIOUS
  <2>6. n =< Cardinality(Above(j))
    BY <1>3, <2>5
  <2>7. Cardinality(Above(j)) \in Nat /\ n \in Nat
    BY <1>1, <1>4
  <2>8. QED BY <1>4, <2>3, <2>4, <2>6, <2>7
<1>6. \A j \in S : m >= j
  BY <1>5
<1>7. Max(S) \in S /\ \A y \in S : Max(S) >= y
  BY <1>6 DEF Max
<1>8. QED BY <1>7

DraftType ==
    [pc : {"drafted"}, fence : Nat, kind : {"notes", "full"}, previous : Nat,
     generation : 0 .. MaxLineage, obligations : SUBSET (Rec \X Nat),
     open : SUBSET (Rec \X Nat), evidence : SUBSET (Rec \X Nat)]

\* What is written was read at one moment, under a fence that was the task's.
ReadAtOnce(d) == d.open = d.obligations /\ d.fence =< holderFence

RevisionsOK ==
    /\ record \in [Rec -> Version] /\ changes \in 0 .. MaxChanges
    /\ \A r \in Rec : record[r].rev =< changes

NotesOK ==
    /\ holderFence \in Nat /\ checkpoints \in Seq(DraftType)
    /\ \A i \in 1 .. Len(checkpoints) :
          checkpoints[i].previous < i /\ ReadAtOnce(checkpoints[i])
    /\ NotesInFenceOrder

DraftOK(d) ==
    /\ d.pc \in {"off", "open", "drafted"} /\ d.fence \in Nat /\ d.fence =< holderFence
    /\ d.pc = "drafted" =>
          d \in DraftType /\ d.previous =< Len(checkpoints) /\ ReadAtOnce(d)

DraftsOK == DOMAIN draft = Writer /\ \A w \in Writer : DraftOK(draft[w])

WalkOK ==
    /\ walk \in [on : BOOLEAN, cursor : Nat, due : SUBSET Rec]
    /\ walk.on => \A r \in walk.due : record[r].open /\ r > walk.cursor
    /\ ~walk.on => walk.due = {}

MemoryInv == RevisionsOK /\ NotesOK /\ DraftsOK /\ WalkOK

LEMMA MemoryInvSound == MemoryInv => MemorySound
<1> SUFFICES ASSUME MemoryInv PROVE MemorySound
  OBVIOUS
<1>1. \A i \in DOMAIN checkpoints :
        /\ i \in 1 .. Len(checkpoints) /\ checkpoints[i] \in DraftType
        /\ checkpoints[i].previous < i /\ ReadAtOnce(checkpoints[i])
  BY DEF MemoryInv, NotesOK
<1>2. MemoryTypeOK
  <2>1. \A i \in DOMAIN checkpoints :
          /\ checkpoints[i].kind \in {"notes", "full"}
          /\ checkpoints[i].generation \in 0 .. MaxLineage
          /\ checkpoints[i].previous \in 0 .. i - 1
    BY <1>1 DEF DraftType
  <2>2. QED
    BY <2>1
    DEF MemoryInv, RevisionsOK, NotesOK, DraftsOK, DraftOK, WalkOK, MemoryTypeOK
<1>3. CurrentNotesAreCurrent
  <2> SUFFICES ASSUME checkpoints # <<>>, HandoffLabel = "current"
               PROVE  /\ HandoffCheckpoint.open = References(OpenRecs)
                      /\ \A x \in HandoffCheckpoint.evidence : record[x[1]].rev = x[2]
    BY DEF CurrentNotesAreCurrent
  <2>1. Len(checkpoints) \in DOMAIN checkpoints
    BY DEF MemoryInv, NotesOK
  <2>2. HandoffCheckpoint.open = HandoffCheckpoint.obligations
    BY <1>1, <2>1 DEF ReadAtOnce, HandoffCheckpoint
  <2>3. Unchanged(HandoffCheckpoint)
    BY DEF HandoffLabel
  <2>4. QED BY <2>2, <2>3 DEF Unchanged, Obligations, References
<1>4. QED
  BY <1>2, <1>3 DEF MemoryInv, NotesOK, WalkOK, PagesShowSteady, MemorySound

LEMMA InitMemory == MemoryInit => MemoryInv
<1> SUFFICES ASSUME MemoryInit PROVE MemoryInv
  OBVIOUS
<1>1. RevisionsOK
  BY MemoryAssumption DEF MemoryInit, RevisionsOK, Version, Revision
<1>2. NotesOK
  BY DEF MemoryInit, NotesOK, NotesInFenceOrder
<1>3. DraftsOK
  BY DEF MemoryInit, DraftsOK, DraftOK, NoDraft
<1>4. WalkOK
  BY DEF MemoryInit, WalkOK, NoWalk
<1>5. QED BY <1>1, <1>2, <1>3, <1>4 DEF MemoryInv

\* A record changes; one that is settled is owed to no walk.
LEMMA RecordChanged ==
    ASSUME MemoryInv, NEW r \in Rec, Change(r)
    PROVE  MemoryInv'
<1>1. PICK b \in BOOLEAN :
        /\ record' = [record EXCEPT ![r] = [open |-> b, rev |-> @.rev + 1]]
        /\ walk' = [walk EXCEPT !.due = IF b THEN @ ELSE @ \ {r}]
  BY DEF Change
<1> DEFINE new == [open |-> b, rev |-> record[r].rev + 1]
<1>2. /\ record[r].rev \in Nat /\ record[r].rev =< changes
      /\ changes \in Nat /\ changes < MaxChanges /\ changes' = changes + 1
      /\ MaxChanges \in Nat
  BY MemoryAssumption DEF MemoryInv, RevisionsOK, Version, Revision, Change
<1>3. new \in Version /\ new.rev =< changes' /\ new.open = b
  BY <1>2 DEF Version, Revision
<1>4. record' = [record EXCEPT ![r] = new]
  BY <1>1
<1> HIDE DEF new
<1>5. RevisionsOK'
  <2>1. record' \in [Rec -> Version] /\ changes' \in 0 .. MaxChanges
    BY <1>2, <1>3, <1>4 DEF MemoryInv, RevisionsOK
  <2>2. ASSUME NEW s \in Rec PROVE record'[s].rev =< changes'
    <3>1. record[s].rev \in Nat /\ record[s].rev =< changes
      BY DEF MemoryInv, RevisionsOK, Version, Revision
    <3>2. QED BY <1>2, <1>3, <1>4, <3>1 DEF MemoryInv, RevisionsOK
  <2>3. QED BY <2>1, <2>2 DEF RevisionsOK
<1>6. WalkOK'
  <2>1. walk \in [on : BOOLEAN, cursor : Nat, due : SUBSET Rec]
    BY DEF MemoryInv, WalkOK
  <2>2. /\ walk' \in [on : BOOLEAN, cursor : Nat, due : SUBSET Rec]
        /\ walk'.on = walk.on /\ walk'.cursor = walk.cursor
        /\ \A s \in walk'.due : s \in walk.due /\ (~b => s # r)
    BY <1>1, <2>1
  <2>3. \A s \in walk'.due : record'[s].open = record[s].open \/ record'[s].open = TRUE
    BY <1>3, <1>4, <2>1, <2>2 DEF MemoryInv, RevisionsOK
  <2>4. walk'.on => \A s \in walk'.due : record'[s].open /\ s > walk'.cursor
    BY <2>2, <2>3 DEF MemoryInv, WalkOK
  <2>5. ~walk'.on => walk'.due = {}
    BY <2>2 DEF MemoryInv, WalkOK
  <2>6. QED BY <2>2, <2>4, <2>5 DEF WalkOK
<1>7. NotesOK' /\ DraftsOK'
  BY DEF Change, MemoryInv, NotesOK, NotesInFenceOrder, ReadAtOnce, DraftsOK, DraftOK
<1>8. QED BY <1>5, <1>6, <1>7 DEF MemoryInv

LEMMA IssuedTypes ==
    ASSUME MemoryInv
    PROVE  \A i \in 1 .. Len(checkpoints) : checkpoints[i] \in DraftType
BY ElementOfSeq DEF MemoryInv, NotesOK

\* One writer's draft changes; fences only grow.
LEMMA DraftMoves ==
    ASSUME MemoryInv, NEW w \in Writer, NEW d, draft' = [draft EXCEPT ![w] = d],
           UNCHANGED <<record, checkpoints, walk, changes>>, holderFence' \in Nat,
           holderFence =< holderFence', DraftOK(d)'
    PROVE  MemoryInv'
<1>1. RevisionsOK' /\ WalkOK'
  BY DEF MemoryInv, RevisionsOK, WalkOK
<1>2. NotesOK'
  <2>1. \A i \in 1 .. Len(checkpoints) : checkpoints[i].fence \in Nat
    BY IssuedTypes DEF DraftType
  <2>2. QED BY <2>1 DEF MemoryInv, NotesOK, NotesInFenceOrder, ReadAtOnce
<1>3. \A x : DraftOK(x) => DraftOK(x)'
  BY DEF MemoryInv, NotesOK, DraftOK, ReadAtOnce
<1>4. DraftsOK'
  BY <1>3 DEF MemoryInv, DraftsOK
<1>5. QED BY <1>1, <1>2, <1>4 DEF MemoryInv

LEMMA TakenOver ==
    ASSUME MemoryInv, NEW w \in Writer, TakeOver(w)
    PROVE  MemoryInv'
<1>1. PICK d : d = [pc |-> "open", fence |-> holderFence + 1]
  OBVIOUS
<1>2. holderFence \in Nat /\ holderFence' = holderFence + 1
  BY DEF TakeOver, MemoryInv, NotesOK
<1>3. DraftOK(d)'
  BY <1>1, <1>2 DEF DraftOK
<1>4. /\ draft' = [draft EXCEPT ![w] = d] /\ UNCHANGED <<record, checkpoints, walk, changes>>
      /\ holderFence' \in Nat /\ holderFence =< holderFence'
  BY <1>1, <1>2 DEF TakeOver
<1>5. QED BY <1>3, <1>4, DraftMoves

\* What a writer drafts it reads at one moment.
LEMMA Drafted ==
    ASSUME MemoryInv, NEW w \in Writer, NEW kind \in {"notes", "full"},
           NEW p \in 0 .. Len(checkpoints), NEW cited \in SUBSET Rec, Draft(w, kind, p, cited)
    PROVE  MemoryInv'
<1>1. PICK d :
        /\ d = [pc |-> "drafted", fence |-> draft[w].fence, kind |-> kind, previous |-> p,
                generation |-> IF kind = "notes" THEN 0
                               ELSE IF p = 0 THEN 1 ELSE checkpoints[p].generation + 1,
                obligations |-> Obligations, open |-> References(OpenRecs),
                evidence |-> References(cited)]
        /\ draft' = [draft EXCEPT ![w] = d]
        /\ UNCHANGED <<record, checkpoints, holderFence, walk, changes>>
  BY DEF Draft
<1>2. \A S \in SUBSET Rec : References(S) \in SUBSET (Rec \X Nat)
  BY DEF References, MemoryInv, RevisionsOK, Version, Revision
<1>3. OpenRecs \in SUBSET Rec /\ Obligations = References(OpenRecs)
  BY DEF OpenRecs, Obligations, References
<1>4. d.generation \in 0 .. MaxLineage
  <2>1. p # 0 => checkpoints[p].generation \in Nat /\ checkpoints[p].generation < MaxLineage
    <3> SUFFICES ASSUME p # 0
                 PROVE  checkpoints[p].generation \in Nat /\ checkpoints[p].generation < MaxLineage
      OBVIOUS
    <3>1. Len(checkpoints) \in Nat
      BY DEF MemoryInv, NotesOK
    <3>2. p \in 1 .. Len(checkpoints)
      BY <3>1
    <3>3. checkpoints[p].generation \in 0 .. MaxLineage
      BY <3>2, IssuedTypes DEF DraftType
    <3>4. QED BY <3>3 DEF Draft, Continues
  <2>2. QED BY <1>1, <2>1, MemoryAssumption
<1>5. draft[w].fence \in Nat /\ draft[w].fence =< holderFence /\ holderFence \in Nat
  BY DEF MemoryInv, NotesOK, DraftsOK, DraftOK
<1>6. d \in DraftType
  <2>1. p \in Nat
    OBVIOUS
  <2>2. Obligations \in SUBSET (Rec \X Nat) /\ References(cited) \in SUBSET (Rec \X Nat)
        /\ References(OpenRecs) \in SUBSET (Rec \X Nat)
    BY <1>2, <1>3
  <2>3. QED BY <1>1, <1>4, <1>5, <2>1, <2>2 DEF DraftType
<1>7. d.pc = "drafted" /\ d.fence = draft[w].fence /\ d.previous = p /\ d.open = d.obligations
  BY <1>1, <1>3
<1>8. DraftOK(d)'
  BY <1>1, <1>5, <1>6, <1>7 DEF DraftOK, ReadAtOnce
<1>9. holderFence' \in Nat /\ holderFence =< holderFence'
  BY <1>1, <1>5
<1>10. QED BY <1>1, <1>8, <1>9, DraftMoves

LEMMA DraftDropped ==
    ASSUME MemoryInv, NEW w \in Writer, DropDraft(w)
    PROVE  MemoryInv'
<1>1. PICK d : d = [pc |-> "open", fence |-> draft[w].fence]
  OBVIOUS
<1>2. /\ draft[w].fence \in Nat /\ draft[w].fence =< holderFence /\ holderFence \in Nat
      /\ holderFence' = holderFence
  BY DEF MemoryInv, NotesOK, DraftsOK, DraftOK, DropDraft
<1>3. DraftOK(d)'
  BY <1>1, <1>2 DEF DraftOK
<1>4. /\ draft' = [draft EXCEPT ![w] = d] /\ UNCHANGED <<record, checkpoints, walk, changes>>
      /\ holderFence' \in Nat /\ holderFence =< holderFence'
  BY <1>1, <1>2 DEF DropDraft
<1>5. QED BY <1>3, <1>4, DraftMoves

\* A checkpoint comes after all that were issued, and its fence is the task's.
LEMMA Inserted ==
    ASSUME MemoryInv, NEW w \in Writer, Insert(w)
    PROVE  MemoryInv'
<1>1. PICK c : c = draft[w]
  OBVIOUS
<1>2. PICK d : d = [pc |-> "open", fence |-> c.fence]
  OBVIOUS
<1>3. PICK n : n = Len(checkpoints)
  OBVIOUS
<1>4. /\ checkpoints' = Append(checkpoints, c) /\ draft' = [draft EXCEPT ![w] = d]
      /\ UNCHANGED <<record, holderFence, walk, changes>> /\ c.fence = holderFence
  BY <1>1, <1>2 DEF Insert, StillFenced
<1>5. /\ c \in DraftType /\ c.previous =< n /\ ReadAtOnce(c)
      /\ c.fence \in Nat /\ c.fence =< holderFence
  BY <1>1, <1>3 DEF Insert, MemoryInv, DraftsOK, DraftOK
<1>6. holderFence \in Nat /\ n \in Nat
  BY <1>3 DEF MemoryInv, NotesOK
<1>7. /\ checkpoints' \in Seq(DraftType) /\ Len(checkpoints') = n + 1 /\ checkpoints'[n + 1] = c
      /\ \A i \in 1 .. n : checkpoints'[i] = checkpoints[i]
  <2>1. checkpoints \in Seq(DraftType)
    BY DEF MemoryInv, NotesOK
  <2>2. QED BY <1>3, <1>4, <1>5, <2>1, AppendProperties
<1>8. ASSUME NEW i \in 1 .. n + 1
      PROVE  /\ checkpoints'[i].previous < i
             /\ checkpoints'[i].open = checkpoints'[i].obligations
             /\ checkpoints'[i].fence =< holderFence
             /\ i = n + 1 \/ (i \in 1 .. n /\ checkpoints'[i] = checkpoints[i])
             /\ i = n + 1 => checkpoints'[i].fence = holderFence
  <2>1. CASE i = n + 1
    <3>1. c.previous \in Nat /\ c.previous < n + 1
      BY <1>5, <1>6 DEF DraftType
    <3>2. QED BY <1>4, <1>5, <1>7, <2>1, <3>1 DEF ReadAtOnce
  <2>2. CASE i # n + 1
    <3>1. i \in 1 .. n
      BY <1>6, <2>2
    <3>2. checkpoints[i].previous < i /\ ReadAtOnce(checkpoints[i])
      BY <1>3, <3>1 DEF MemoryInv, NotesOK
    <3>3. QED BY <1>4, <1>7, <2>2, <3>1, <3>2 DEF ReadAtOnce
  <2>3. QED BY <2>1, <2>2
<1>9. NotesOK'
  <2>1. DOMAIN checkpoints = 1 .. n /\ DOMAIN checkpoints' = 1 .. n + 1
    BY <1>3, <1>7 DEF MemoryInv, NotesOK
  <2>2. NotesInFenceOrder'
    <3> SUFFICES ASSUME NEW i \in 1 .. n + 1, NEW j \in 1 .. n + 1, i < j
                 PROVE  checkpoints'[i].fence =< checkpoints'[j].fence
      BY <2>1 DEF NotesInFenceOrder
    <3>1. CASE j = n + 1
      BY <1>8, <3>1
    <3>2. CASE j # n + 1
      <4>1. i \in 1 .. n /\ j \in 1 .. n
        BY <1>6, <3>2
      <4>2. checkpoints[i].fence =< checkpoints[j].fence
        BY <2>1, <4>1 DEF MemoryInv, NotesOK, NotesInFenceOrder
      <4>3. QED BY <1>7, <4>1, <4>2
    <3>3. QED BY <3>1, <3>2
  <2>3. (\A i \in 1 .. Len(checkpoints) :
            checkpoints[i].previous < i /\ ReadAtOnce(checkpoints[i]))'
    BY <1>4, <1>7, <1>8 DEF ReadAtOnce
  <2>4. QED BY <1>4, <1>6, <1>7, <2>2, <2>3 DEF NotesOK
<1>10. DraftsOK'
  <2>1. \A x : DraftOK(x) => DraftOK(x)'
    <3>1. \A x \in DraftType : x.previous =< n => x.previous =< n + 1
      BY <1>6 DEF DraftType
    <3>2. QED BY <1>3, <1>4, <1>7, <3>1 DEF DraftOK, ReadAtOnce
  <2>2. DraftOK(d)'
    BY <1>2, <1>4, <1>5 DEF DraftOK
  <2>3. QED BY <1>4, <2>1, <2>2 DEF MemoryInv, DraftsOK
<1>11. QED BY <1>4, <1>9, <1>10 DEF MemoryInv, RevisionsOK, WalkOK

LEMMA WalkStarts ==
    ASSUME MemoryInv, StartWalk
    PROVE  MemoryInv'
<1>1. WalkOK'
  <2>1. \A r \in Rec : r \in Nat \ {0}
    BY MemoryAssumption
  <2>2. \A n \in Nat \ {0} : n > 0
    OBVIOUS
  <2>3. \A r \in OpenRecs : r \in Rec /\ record[r].open
    BY DEF OpenRecs
  <2>4. \A r \in OpenRecs : r \in Rec /\ record[r].open /\ r > 0
    BY <2>1, <2>2, <2>3
  <2>5. OpenRecs \in SUBSET Rec
    BY DEF OpenRecs
  <2>6. QED BY <2>4, <2>5 DEF StartWalk, WalkOK
<1>2. QED
  BY <1>1
  DEF StartWalk, MemoryInv, RevisionsOK, NotesOK, NotesInFenceOrder, ReadAtOnce, DraftsOK, DraftOK

\* A page shows the first of the records that come later.
LEMMA PageShows ==
    ASSUME NEW S \in SUBSET Rec, NEW n \in Nat, n > 0
    PROVE  /\ FirstOf(S, n) \in SUBSET S
           /\ Cardinality(S) =< n => FirstOf(S, n) = S
           /\ S # {} => FirstOf(S, n) # {}
           /\ \A r \in S \ FirstOf(S, n) : \A s \in FirstOf(S, n) : s < r
<1> DEFINE Below(r) == {q \in S : q < r}
<1>1. IsFiniteSet(S) /\ S \in SUBSET Nat
  BY MemoryAssumption, FS_Subset
<1>2. \A r \in S : /\ IsFiniteSet(Below(r)) /\ Cardinality(Below(r)) \in Nat
                   /\ Below(r) \in SUBSET S /\ r \notin Below(r)
  BY <1>1, FS_Subset, FS_CardinalityType
<1>3. FirstOf(S, n) = {r \in S : Cardinality(Below(r)) < n}
  BY DEF FirstOf
<1>4. ASSUME NEW r \in S, Cardinality(S) =< n PROVE Cardinality(Below(r)) < n
  <2>1. Below(r) # S
    BY <1>2
  <2>2. Cardinality(Below(r)) =< Cardinality(S) /\ Cardinality(Below(r)) # Cardinality(S)
    BY <1>1, <1>2, <2>1, FS_Subset
  <2>3. Cardinality(S) \in Nat /\ Cardinality(Below(r)) \in Nat
    BY <1>1, <1>2, FS_CardinalityType
  <2>4. QED BY <1>4, <2>2, <2>3
<1>5. ASSUME S # {} PROVE \E r \in S : Cardinality(Below(r)) < n
  <2>1. Min(S) \in S /\ \A y \in S : Min(S) =< y
    BY <1>1, <1>5, LeastOfNat
  <2>2. PICK m \in S : m = Min(S)
    BY <2>1
  <2>3. \A q \in S : q \in Nat /\ m \in Nat /\ m =< q
    BY <1>1, <2>1, <2>2
  <2>4. Below(m) = {}
    BY <2>3
  <2>5. QED BY <2>4, FS_EmptySet
<1>6. ASSUME NEW r \in S, NEW s \in S, ~(Cardinality(Below(r)) < n), Cardinality(Below(s)) < n
      PROVE  s < r
  <2>1. SUFFICES ASSUME ~(s < r) PROVE FALSE
    OBVIOUS
  <2>2. \A q \in S : q < r => q < s
    BY <1>1, <2>1
  <2>3. Below(r) \in SUBSET Below(s)
    BY <2>2
  <2>4. Cardinality(Below(r)) =< Cardinality(Below(s))
    BY <1>2, <2>3, FS_Subset
  <2>5. Cardinality(Below(r)) \in Nat /\ Cardinality(Below(s)) \in Nat
    BY <1>2
  <2>6. QED BY <1>6, <2>4, <2>5
<1>7. QED BY <1>3, <1>4, <1>5, <1>6

\* A page that is not the last one leaves what comes after its last record.
LEMMA PageShown ==
    ASSUME MemoryInv, ReadPage
    PROVE  MemoryInv'
<1> DEFINE rest == LaterOf(walk.cursor)
           shown == FirstOf(rest, PageSize)
<1>1. /\ walk \in [on : BOOLEAN, cursor : Nat, due : SUBSET Rec] /\ walk.on
      /\ \A r \in walk.due : record[r].open /\ r > walk.cursor
  BY DEF ReadPage, MemoryInv, WalkOK
<1>2. rest \in SUBSET Rec /\ walk.due \in SUBSET rest
  BY <1>1 DEF LaterOf, OpenRecs
<1>3. PageSize \in Nat /\ PageSize > 0 /\ IsFiniteSet(Rec) /\ Rec \in SUBSET Nat
  BY MemoryAssumption
<1>4. /\ shown \in SUBSET rest
      /\ Cardinality(rest) =< PageSize => shown = rest
      /\ rest # {} => shown # {}
      /\ \A r \in rest \ shown : \A s \in shown : s < r
  BY <1>2, <1>3, PageShows
<1>5. WalkOK'
  <2>1. CASE Cardinality(rest) =< PageSize
    <3>1. walk' = [NoWalk EXCEPT !.due = walk.due \ shown]
      BY <2>1 DEF ReadPage
    <3>2. walk.due \ shown = {}
      BY <1>2, <1>4, <2>1
    <3>3. walk' = NoWalk
      BY <3>1, <3>2 DEF NoWalk
    <3>4. QED BY <3>3 DEF NoWalk, WalkOK
  <2>2. CASE ~(Cardinality(rest) =< PageSize)
    <3>1. PICK owing : owing = walk.due \ shown
      OBVIOUS
    <3>2. PICK cursor : cursor = Max(shown)
      OBVIOUS
    <3>3. walk' = [walk EXCEPT !.due = owing, !.cursor = cursor]
      BY <2>2, <3>1, <3>2 DEF ReadPage, NextCursor
    <3>4. IsFiniteSet(shown) /\ shown \in SUBSET Nat /\ shown # {}
      <4>1. rest # {}
        BY <1>3, <2>2, FS_EmptySet
      <4>2. IsFiniteSet(shown)
        BY <1>2, <1>3, <1>4, FS_Subset
      <4>3. QED BY <1>2, <1>3, <1>4, <4>1, <4>2
    <3>5. cursor \in shown
      BY <3>2, <3>4, LargestOfFinite
    <3>6. cursor \in Nat /\ owing \in SUBSET Rec
      BY <1>1, <3>1, <3>4, <3>5
    <3>7. \A r \in owing : record[r].open /\ r > cursor
      <4>1. ASSUME NEW r \in owing PROVE r > cursor
        <5>1. r \in rest \ shown /\ cursor < r
          BY <1>2, <1>4, <3>1, <3>5
        <5>2. r \in Nat
          BY <1>3, <3>6
        <5>3. QED BY <3>6, <5>1, <5>2
      <4>2. QED BY <1>1, <3>1, <4>1
    <3>8. walk' = [on |-> walk.on, cursor |-> cursor, due |-> owing]
      BY <1>1, <3>3
    <3>9. record' = record
      BY DEF ReadPage
    <3>10. QED BY <1>1, <3>6, <3>7, <3>8, <3>9 DEF WalkOK
  <2>3. QED BY <2>1, <2>2
<1>6. QED
  BY <1>5
  DEF ReadPage, MemoryInv, RevisionsOK, NotesOK, NotesInFenceOrder, ReadAtOnce, DraftsOK, DraftOK

\* Every step keeps the invariant.
LEMMA MemoryStep == MemoryInv /\ [MemoryNext]_memoryVars => MemoryInv'
<1> SUFFICES ASSUME MemoryInv, [MemoryNext]_memoryVars PROVE MemoryInv'
  OBVIOUS
<1>1. ASSUME NEW r \in Rec, Change(r) PROVE MemoryInv'
  BY <1>1, RecordChanged
<1>2. ASSUME NEW w \in Writer, TakeOver(w) PROVE MemoryInv'
  BY <1>2, TakenOver
<1>3. ASSUME NEW w \in Writer, Insert(w) PROVE MemoryInv'
  BY <1>3, Inserted
<1>4. ASSUME NEW w \in Writer, DropDraft(w) PROVE MemoryInv'
  BY <1>4, DraftDropped
<1>5. ASSUME NEW w \in Writer, NEW kind \in {"notes", "full"}, NEW p \in 0 .. Len(checkpoints),
             NEW cited \in {{}} \cup {{r} : r \in Rec}, Draft(w, kind, p, cited)
      PROVE  MemoryInv'
  <2>1. cited \in SUBSET Rec
    OBVIOUS
  <2>2. QED BY <1>5, <2>1, Drafted
<1>6. CASE StartWalk
  BY <1>6, WalkStarts
<1>7. CASE ReadPage
  BY <1>7, PageShown
<1>8. CASE UNCHANGED memoryVars
  BY <1>8
  DEF memoryVars, MemoryInv, RevisionsOK, NotesOK, NotesInFenceOrder, ReadAtOnce, DraftsOK,
      DraftOK, WalkOK
<1>9. QED BY <1>1, <1>2, <1>3, <1>4, <1>5, <1>6, <1>7, <1>8 DEF MemoryNext

\* Notes handed on as current are what the memory says now, checkpoints come in the order
\* of the fences they were written under, and a walk over the pages shows every record that
\* was open throughout (write_checkpoint, handoff_notes, index_page).
THEOREM MemorySafety == MemorySpec => []MemorySound
BY InitMemory, MemoryStep, MemoryInvSound, PTL DEF MemorySpec

-----------------------------------------------------------------------------
(* The transcript that is sent. *)

ItemSet ==
    [kind : {"anchor", "compaction", "call", "recall", "full", "head", "page", "stub"},
     id : CallId \cup {Nil}, of : CallId \cup {Nil}]

Entries == CallId \X (0 .. MaxResponses)

Chat ==
    [input : Seq(ItemSet), response : Seq(ItemSet), results : SUBSET Entries,
     pages : SUBSET Entries, archives : SUBSET CallId, refs : SUBSET CallId,
     seq : 0 .. MaxResponses, lastBlock : 0 .. MaxResponses,
     pending : BOOLEAN, settled : BOOLEAN, marker : BOOLEAN, pruned : BOOLEAN]

\* What the provider answers: compaction items, and calls with ids of their own.
WellFormed(r) ==
    /\ \A i \in DOMAIN r : \/ r[i] = Compaction
                           \/ IsCall(r[i]) /\ {r[i].id, r[i].of} \subseteq CallId
    /\ \A i \in CallsOf(r), j \in CallsOf(r) : i # j => r[i].id # r[j].id

\* Among the first m items every output follows its call and every call has its output.
Balanced(s, m) ==
    /\ \A i \in 1 .. m : IsOutput(s[i]) =>
          \E j \in 1 .. i - 1 : IsCall(s[j]) /\ s[j].id = s[i].id
    /\ \A i \in 1 .. m : IsCall(s[i]) =>
          \E j \in i + 1 .. m : IsOutput(s[j]) /\ s[j].id = s[i].id

\* The input s is one that was balanced, of length m, the response r behind it, and an
\* output for each of the calls of r that are done.  The ids of r are new to it.
GrownFrom(s, r, done, m) ==
    /\ done \subseteq CallsOf(r)
    /\ Len(s) = m + Len(r) + Cardinality(done)
    /\ Balanced(s, m)
    /\ \A i \in 1 .. Len(r) : s[m + i] = r[i]
    /\ \A i \in 1 .. m, j \in CallsOf(r) : s[i].id # r[j].id
    /\ \A o \in m + Len(r) + 1 .. Len(s) : IsOutput(s[o]) /\ \E i \in done : r[i].id = s[o].id
    /\ \A i \in done : \E o \in m + Len(r) + 1 .. Len(s) : s[o].id = r[i].id

Grown(s, r, done) == \E m \in Nat : GrownFrom(s, r, done, m)

\* What stands for a result leads to one that is stored.
Recallable(c) ==
    \A i \in DOMAIN c.input :
        /\ c.input[i].kind \in {"stub", "head", "page"} => c.input[i].of \in Findable(c)
        /\ c.input[i].kind = "full" => /\ c.input[i].of = c.input[i].id
                                       /\ c.input[i].id \notin Ids(c.pages)

\* What the process finds when it starts again.
Restorable(c) ==
    ~c.pending =>
        /\ c.settled => Balanced(c.input, Len(c.input))
        /\ ~c.settled /\ c.marker /\ CompactionOnly(c.response) =>
              IF c.pruned THEN Balanced(c.input, Len(c.input)) ELSE Grown(c.input, c.response, {})

\* The open calls are new to the pages and, but for the one that runs, to the tools.
OpenCalls ==
    \A i \in unanswered :
        /\ chat.response[i].id \notin Ids(chat.pages)
        /\ phase = "calls" \/ i # Present => dispatches[chat.response[i].id] = 0

\* What is known in each phase of a turn.
InPhase ==
    /\ phase \notin {"calls", "running"} => unanswered = {}
    /\ phase \in {"boundary", "sent", "settle"} => Balanced(chat.input, Len(chat.input))
    /\ phase \in {"sent", "received", "calls", "running"} => ~chat.settled
    /\ phase \in {"sent", "received"} => chat.pending /\ ~chat.pruned
    /\ phase = "sent" => chat.seq < MaxResponses
    /\ phase \in {"received", "calls", "running", "advance"} => WellFormed(chat.response)
    /\ phase = "received" =>
          /\ Grown(chat.input, chat.response, {})
          /\ \A i \in CallsOf(chat.response) : /\ chat.response[i].id \notin Ids(chat.pages)
                                               /\ dispatches[chat.response[i].id] = 0
    /\ phase \in {"calls", "running"} =>
          /\ unanswered \subseteq CallsOf(chat.response)
          /\ Grown(chat.input, chat.response, CallsOf(chat.response) \ unanswered)
          /\ OpenCalls
    /\ phase = "running" => unanswered # {}
    /\ phase = "advance" => Grown(chat.input, chat.response, CallsOf(chat.response))
    /\ phase = "lost" => chat = savedChat

TranscriptInv ==
    /\ chat \in Chat /\ savedChat \in Chat
    /\ phase \in {"boundary", "sent", "received", "calls", "running", "advance", "settle",
                  "lost", "ended"}
    /\ unanswered \subseteq DOMAIN chat.response
    /\ dispatches \in [CallId -> Nat] /\ deaths \in 0 .. MaxDeaths
    /\ \A id \in CallId : dispatches[id] <= 1
    /\ Recallable(chat) /\ Recallable(savedChat)
    /\ Restorable(savedChat)
    /\ InPhase

\* Items are told apart by their kind.
LEMMA Kinds ==
    /\ Anchor \in ItemSet /\ Compaction \in ItemSet
    /\ ~IsCall(Anchor) /\ ~IsOutput(Anchor) /\ ~IsCall(Compaction) /\ ~IsOutput(Compaction)
    /\ Anchor.kind = "anchor"
    /\ \A x : ~(IsCall(x) /\ IsOutput(x))
<1>1. Anchor = [kind |-> "anchor", id |-> Nil, of |-> Nil]
      /\ Compaction = [kind |-> "compaction", id |-> Nil, of |-> Nil]
  BY DEF Anchor, Compaction, Item
<1>2. QED BY <1>1 DEF ItemSet, IsCall, IsOutput

\* What happens to a sequence at its ends.
LEMMA AppendedItem ==
    ASSUME NEW s \in Seq(ItemSet), NEW x \in ItemSet
    PROVE  /\ Append(s, x) \in Seq(ItemSet) /\ Len(Append(s, x)) = Len(s) + 1 /\ Len(s) \in Nat
           /\ \A i \in 1 .. Len(s) : Append(s, x)[i] = s[i]
           /\ Append(s, x)[Len(s) + 1] = x
BY AppendProperties

\* A longer input is as balanced as it was.
LEMMA BalancedKept ==
    ASSUME NEW s, NEW t, NEW m \in Nat, Balanced(s, m),
           \A i \in 1 .. m : /\ t[i].id = s[i].id
                             /\ IsCall(t[i]) <=> IsCall(s[i])
                             /\ IsOutput(t[i]) <=> IsOutput(s[i])
    PROVE  Balanced(t, m)
<1>1. ASSUME NEW i \in 1 .. m, IsOutput(t[i])
      PROVE  \E j \in 1 .. i - 1 : IsCall(t[j]) /\ t[j].id = t[i].id
  <2>1. PICK j \in 1 .. i - 1 : IsCall(s[j]) /\ s[j].id = s[i].id
    BY <1>1 DEF Balanced
  <2>2. j \in 1 .. m
    OBVIOUS
  <2>3. QED BY <2>1, <2>2
<1>2. ASSUME NEW i \in 1 .. m, IsCall(t[i])
      PROVE  \E j \in i + 1 .. m : IsOutput(t[j]) /\ t[j].id = t[i].id
  <2>1. PICK j \in i + 1 .. m : IsOutput(s[j]) /\ s[j].id = s[i].id
    BY <1>2 DEF Balanced
  <2>2. j \in 1 .. m
    OBVIOUS
  <2>3. QED BY <2>1, <2>2
<1>3. QED BY <1>1, <1>2 DEF Balanced

\* An item that is neither a call nor an output leaves an input balanced.
LEMMA BalancedAppend ==
    ASSUME NEW s \in Seq(ItemSet), NEW x \in ItemSet, Balanced(s, Len(s)),
           ~IsCall(x), ~IsOutput(x)
    PROVE  Balanced(Append(s, x), Len(Append(s, x)))
<1> DEFINE t == Append(s, x)
           n == Len(s)
<1>1. /\ t \in Seq(ItemSet) /\ Len(t) = n + 1 /\ n \in Nat
      /\ \A i \in 1 .. n : t[i] = s[i]
      /\ t[n + 1] = x
  BY AppendedItem
<1> HIDE DEF t, n
<1>2. Balanced(t, n)
  BY <1>1, BalancedKept DEF n
<1>3. \A i \in 1 .. n + 1 : IsOutput(t[i]) \/ IsCall(t[i]) => i \in 1 .. n
  BY <1>1
<1>4. QED
  <2>1. ASSUME NEW i \in 1 .. n + 1, IsOutput(t[i])
        PROVE  \E j \in 1 .. i - 1 : IsCall(t[j]) /\ t[j].id = t[i].id
    BY <1>2, <1>3, <2>1 DEF Balanced
  <2>2. ASSUME NEW i \in 1 .. n + 1, IsCall(t[i])
        PROVE  \E j \in i + 1 .. n + 1 : IsOutput(t[j]) /\ t[j].id = t[i].id
    <3>1. PICK j \in i + 1 .. n : IsOutput(t[j]) /\ t[j].id = t[i].id
      BY <1>2, <1>3, <2>2 DEF Balanced
    <3>2. j \in i + 1 .. n + 1
      BY <1>1
    <3>3. QED BY <3>1, <3>2
  <2>3. QED BY <1>1, <2>1, <2>2 DEF Balanced, t

\* The places of the calls of a response are finitely many.
LEMMA CallPlaces ==
    ASSUME NEW r \in Seq(ItemSet), NEW D \in SUBSET CallsOf(r)
    PROVE  /\ D \subseteq 1 .. Len(r) /\ Len(r) \in Nat /\ DOMAIN r = 1 .. Len(r)
           /\ IsFiniteSet(D) /\ Cardinality(D) \in Nat
           /\ \A i \in D : IsCall(r[i]) /\ i \in Nat
<1>1. Len(r) \in Nat /\ DOMAIN r = 1 .. Len(r)
  OBVIOUS
<1>2. D \subseteq 1 .. Len(r) /\ \A i \in D : IsCall(r[i]) /\ i \in Nat
  BY <1>1 DEF CallsOf
<1>3. IsFiniteSet(1 .. Len(r))
  <2>1. 1 \in Int /\ Len(r) \in Int
    BY <1>1
  <2>2. QED BY ONLY <2>1, FS_Interval
<1>4. IsFiniteSet(D)
  BY <1>2, <1>3, FS_Subset
<1>5. Cardinality(D) \in Nat
  BY <1>4, FS_CardinalityType
<1>6. QED BY <1>1, <1>2, <1>4, <1>5

\* The output of a call joins the input.
LEMMA GrownAppend ==
    ASSUME NEW s \in Seq(ItemSet), NEW r \in Seq(ItemSet), NEW D, Grown(s, r, D),
           NEW i \in CallsOf(r), i \notin D,
           NEW x \in ItemSet, IsOutput(x), x.id = r[i].id
    PROVE  Grown(Append(s, x), r, D \cup {i})
<1> DEFINE t == Append(s, x)
           E == D \cup {i}
<1>1. PICK m \in Nat : GrownFrom(s, r, D, m)
  BY DEF Grown
<1>2. /\ t \in Seq(ItemSet) /\ Len(t) = Len(s) + 1 /\ Len(s) \in Nat
      /\ \A k \in 1 .. Len(s) : t[k] = s[k]
      /\ t[Len(s) + 1] = x
  BY AppendedItem
<1>3. D \subseteq CallsOf(r)
  BY <1>1 DEF GrownFrom
<1>4. /\ Len(r) \in Nat /\ IsFiniteSet(D) /\ Cardinality(D) \in Nat
  BY <1>3, CallPlaces
<1>5. Cardinality(E) = Cardinality(D) + 1
  BY <1>4, FS_AddElement
<1> HIDE DEF t, E
<1>6. Len(s) = m + Len(r) + Cardinality(D)
  BY <1>1 DEF GrownFrom
<1>7. m + Len(r) <= Len(s) /\ m \in Nat
  BY <1>4, <1>6
<1>8. Balanced(t, m)
  <2>1. \A k \in 1 .. m : t[k] = s[k]
    BY <1>2, <1>4, <1>7
  <2>2. QED BY <1>1, <2>1, BalancedKept DEF GrownFrom
<1>9. \A k \in 1 .. Len(r) : t[m + k] = r[k]
  <2>1. \A k \in 1 .. Len(r) : m + k \in 1 .. Len(s)
    BY <1>2, <1>4, <1>7
  <2>2. QED BY <1>1, <1>2, <2>1 DEF GrownFrom
<1>10. \A k \in 1 .. m, j \in CallsOf(r) : t[k].id # r[j].id
  <2>1. \A k \in 1 .. m : t[k] = s[k]
    BY <1>2, <1>4, <1>7
  <2>2. QED BY <1>1, <2>1 DEF GrownFrom
<1>11. ASSUME NEW o \in m + Len(r) + 1 .. Len(t)
       PROVE  IsOutput(t[o]) /\ \E k \in E : r[k].id = t[o].id
  <2>1. CASE o = Len(s) + 1
    BY <1>2, <2>1 DEF E
  <2>2. CASE o # Len(s) + 1
    <3>1. o \in m + Len(r) + 1 .. Len(s) /\ o \in 1 .. Len(s)
      BY <1>2, <1>4, <1>7, <2>2
    <3>2. IsOutput(s[o]) /\ \E k \in D : r[k].id = s[o].id
      BY <1>1, <3>1 DEF GrownFrom
    <3>3. QED BY <1>2, <3>1, <3>2 DEF E
  <2>3. QED BY <2>1, <2>2
<1>12. ASSUME NEW k \in E
       PROVE  \E o \in m + Len(r) + 1 .. Len(t) : t[o].id = r[k].id
  <2>1. CASE k = i
    <3>1. Len(s) + 1 \in m + Len(r) + 1 .. Len(t)
      BY <1>2, <1>4, <1>7
    <3>2. QED BY <1>2, <2>1, <3>1
  <2>2. CASE k \in D
    <3>1. PICK o \in m + Len(r) + 1 .. Len(s) : s[o].id = r[k].id
      BY <1>1, <2>2 DEF GrownFrom
    <3>2. o \in m + Len(r) + 1 .. Len(t) /\ o \in 1 .. Len(s)
      BY <1>2, <1>4, <1>7
    <3>3. QED BY <1>2, <3>1, <3>2
  <2>3. QED BY <2>1, <2>2 DEF E
<1>13. E \subseteq CallsOf(r) /\ Len(t) = m + Len(r) + Cardinality(E)
  BY <1>2, <1>3, <1>4, <1>5, <1>6 DEF E
<1>14. GrownFrom(t, r, E, m)
  BY <1>8, <1>9, <1>10, <1>11, <1>12, <1>13 DEF GrownFrom
<1>15. QED BY <1>14 DEF Grown, t, E

\* A response joins a balanced input that does not know its ids.
LEMMA GrownByResponse ==
    ASSUME NEW s \in Seq(ItemSet), NEW r \in Seq(ItemSet), Balanced(s, Len(s)),
           \A k \in DOMAIN s, j \in CallsOf(r) : s[k].id # r[j].id
    PROVE  Grown(s \o r, r, {})
<1> DEFINE t == s \o r
           m == Len(s)
<1>1. /\ t \in Seq(ItemSet) /\ Len(t) = m + Len(r) /\ m \in Nat /\ Len(r) \in Nat
      /\ \A k \in 1 .. m : t[k] = s[k]
      /\ \A k \in 1 .. Len(r) : t[m + k] = r[k]
  BY ConcatProperties
<1>2. Cardinality({}) = 0
  BY FS_EmptySet
<1> HIDE DEF t
<1>3. Balanced(t, m)
  BY <1>1, BalancedKept
<1>4. \A o \in m + Len(r) + 1 .. Len(t) : FALSE
  BY <1>1
<1>5. \A k \in 1 .. m, j \in CallsOf(r) : t[k].id # r[j].id
  BY <1>1
<1>6. GrownFrom(t, r, {}, m)
  BY <1>1, <1>2, <1>3, <1>4, <1>5 DEF GrownFrom
<1>7. QED BY <1>1, <1>6 DEF Grown, t

\* Where an item of the input is: in what was there before the response, in the response,
\* or among the outputs.
LEMMA Places ==
    ASSUME NEW s \in Seq(ItemSet), NEW r \in Seq(ItemSet), WellFormed(r), NEW D,
           NEW m \in Nat, GrownFrom(s, r, D, m), NEW o \in 1 .. Len(s)
    PROVE  \/ o \in 1 .. m
           \/ /\ o - m \in 1 .. Len(r) /\ s[o] = r[o - m] /\ ~IsOutput(s[o])
              /\ IsCall(s[o]) => o - m \in CallsOf(r)
           \/ /\ o \in m + Len(r) + 1 .. Len(s) /\ IsOutput(s[o]) /\ ~IsCall(s[o])
              /\ \E i \in D : r[i].id = s[o].id
<1>1. Len(r) \in Nat /\ Len(s) \in Nat /\ DOMAIN r = 1 .. Len(r)
  OBVIOUS
<1>2. CASE o <= m
  BY <1>2
<1>3. CASE o > m /\ o <= m + Len(r)
  <2>1. PICK k \in 1 .. Len(r) : k = o - m
    BY <1>1, <1>3
  <2>2. s[o] = r[k]
    <3>1. s[m + k] = r[k] /\ m + k = o
      BY <2>1 DEF GrownFrom
    <3>2. QED BY <3>1
  <2>3. ~IsOutput(r[k]) /\ (IsCall(r[k]) => k \in CallsOf(r))
    BY <1>1, Kinds DEF WellFormed, CallsOf
  <2>4. QED BY <2>1, <2>2, <2>3
<1>4. CASE o > m + Len(r)
  <2>1. o \in m + Len(r) + 1 .. Len(s)
    BY <1>1, <1>4
  <2>2. QED BY <2>1, Kinds DEF GrownFrom
<1>5. QED BY <1>1, <1>2, <1>3, <1>4

\* Once all its calls have their outputs, the part of the input from any place of the
\* response that no call comes before is balanced by itself.
LEMMA BalancedFrom ==
    ASSUME NEW s \in Seq(ItemSet), NEW r \in Seq(ItemSet), WellFormed(r),
           NEW m \in Nat, GrownFrom(s, r, CallsOf(r), m),
           NEW k \in m + 1 .. m + Len(r), \A i \in CallsOf(r) : m + i >= k
    PROVE  /\ \A o \in k .. Len(s) : IsOutput(s[o]) =>
                 \E j \in k .. o - 1 : IsCall(s[j]) /\ s[j].id = s[o].id
           /\ \A o \in k .. Len(s) : IsCall(s[o]) =>
                 \E j \in o + 1 .. Len(s) : IsOutput(s[j]) /\ s[j].id = s[o].id
<1>1. Len(r) \in Nat /\ Len(s) \in Nat /\ DOMAIN r = 1 .. Len(r)
      /\ m + Len(r) <= Len(s)
  <2>1. Cardinality(CallsOf(r)) \in Nat
    BY CallPlaces
  <2>2. QED BY <2>1 DEF GrownFrom
<1>2. ASSUME NEW o \in k .. Len(s), IsOutput(s[o])
      PROVE  \E j \in k .. o - 1 : IsCall(s[j]) /\ s[j].id = s[o].id
  <2>1. o \in 1 .. Len(s) /\ o \notin 1 .. m
    BY <1>1
  <2>2. o \in m + Len(r) + 1 .. Len(s) /\ \E i \in CallsOf(r) : r[i].id = s[o].id
    BY <1>2, <2>1, Places
  <2>3. PICK i \in CallsOf(r) : r[i].id = s[o].id
    BY <2>2
  <2>4. i \in 1 .. Len(r) /\ IsCall(r[i])
    BY CallPlaces
  <2>5. s[m + i] = r[i]
    BY <2>4 DEF GrownFrom
  <2>6. m + i \in k .. o - 1
    BY <1>1, <2>2, <2>4
  <2>7. QED BY <2>3, <2>4, <2>5, <2>6
<1>3. ASSUME NEW o \in k .. Len(s), IsCall(s[o])
      PROVE  \E j \in o + 1 .. Len(s) : IsOutput(s[j]) /\ s[j].id = s[o].id
  <2>1. o \in 1 .. Len(s) /\ o \notin 1 .. m
    BY <1>1
  <2>2. o - m \in CallsOf(r) /\ s[o] = r[o - m]
    BY <1>3, <2>1, Places
  <2>3. PICK j \in m + Len(r) + 1 .. Len(s) : s[j].id = r[o - m].id
    BY <2>2 DEF GrownFrom
  <2>4. IsOutput(s[j])
    BY DEF GrownFrom
  <2>5. o - m \in 1 .. Len(r)
    BY <2>2, CallPlaces
  <2>6. j \in o + 1 .. Len(s)
    BY <1>1, <2>5
  <2>7. QED BY <2>2, <2>3, <2>4, <2>6
<1>4. QED BY <1>2, <1>3

\* With all calls answered the whole input is balanced.
LEMMA GrownBalanced ==
    ASSUME NEW s \in Seq(ItemSet), NEW r \in Seq(ItemSet), WellFormed(r),
           Grown(s, r, CallsOf(r))
    PROVE  Balanced(s, Len(s))
<1>1. PICK m \in Nat : GrownFrom(s, r, CallsOf(r), m)
  BY DEF Grown
<1>2. Len(r) \in Nat /\ Len(s) \in Nat /\ m + Len(r) <= Len(s) /\ Balanced(s, m)
      /\ (Len(r) = 0 => CallsOf(r) = {})
  <2>1. Cardinality(CallsOf(r)) \in Nat /\ CallsOf(r) \subseteq 1 .. Len(r)
    BY CallPlaces
  <2>2. QED BY <1>1, <2>1 DEF GrownFrom
<1>3. CASE Len(r) = 0
  <2>1. Len(s) = m
    <3>1. Cardinality(CallsOf(r)) = 0
      BY <1>2, <1>3, FS_EmptySet
    <3>2. QED BY <1>1, <1>3, <3>1 DEF GrownFrom
  <2>2. QED BY <1>2, <2>1
<1>4. CASE Len(r) # 0
  <2>1. m + 1 \in m + 1 .. m + Len(r) /\ \A i \in CallsOf(r) : m + i >= m + 1
    <3>1. \A i \in CallsOf(r) : i \in 1 .. Len(r)
      BY CallPlaces
    <3>2. QED BY <1>2, <1>4, <3>1
  <2>2. /\ \A o \in m + 1 .. Len(s) : IsOutput(s[o]) =>
              \E j \in m + 1 .. o - 1 : IsCall(s[j]) /\ s[j].id = s[o].id
        /\ \A o \in m + 1 .. Len(s) : IsCall(s[o]) =>
              \E j \in o + 1 .. Len(s) : IsOutput(s[j]) /\ s[j].id = s[o].id
    BY <1>1, <2>1, BalancedFrom
  <2>3. ASSUME NEW o \in 1 .. Len(s), IsOutput(s[o])
        PROVE  \E j \in 1 .. o - 1 : IsCall(s[j]) /\ s[j].id = s[o].id
    <3>1. CASE o <= m
      <4>1. o \in 1 .. m
        BY <3>1
      <4>2. QED BY <1>2, <2>3, <4>1 DEF Balanced
    <3>2. CASE o > m
      <4>1. o \in m + 1 .. Len(s)
        BY <3>2
      <4>2. PICK j \in m + 1 .. o - 1 : IsCall(s[j]) /\ s[j].id = s[o].id
        BY <2>2, <2>3, <4>1
      <4>3. j \in 1 .. o - 1
        BY <3>2
      <4>4. QED BY <4>2, <4>3
    <3>3. QED BY <3>1, <3>2
  <2>4. ASSUME NEW o \in 1 .. Len(s), IsCall(s[o])
        PROVE  \E j \in o + 1 .. Len(s) : IsOutput(s[j]) /\ s[j].id = s[o].id
    <3>1. CASE o <= m
      <4>1. o \in 1 .. m
        BY <3>1
      <4>2. PICK j \in o + 1 .. m : IsOutput(s[j]) /\ s[j].id = s[o].id
        BY <1>2, <2>4, <4>1 DEF Balanced
      <4>3. j \in o + 1 .. Len(s)
        BY <1>2
      <4>4. QED BY <4>2, <4>3
    <3>2. CASE o > m
      <4>1. o \in m + 1 .. Len(s)
        BY <3>2
      <4>2. QED BY <2>2, <2>4, <4>1
    <3>3. QED BY <3>1, <3>2
  <2>5. QED BY <2>3, <2>4 DEF Balanced
<1>5. QED BY <1>3, <1>4

\* The last compaction item of an input that has one.
LEMMA LastIs ==
    ASSUME NEW s \in Seq(ItemSet), NEW i \in DOMAIN s, s[i] = Compaction
    PROVE  /\ LastCompaction(s) \in i .. Len(s) /\ s[LastCompaction(s)] = Compaction
           /\ \A j \in LastCompaction(s) + 1 .. Len(s) : s[j] # Compaction
<1> DEFINE n == Len(s)
           T == {x \in 0 .. n : n - x \in DOMAIN s /\ s[n - x] = Compaction}
<1>1. n \in Nat /\ DOMAIN s = 1 .. n
  OBVIOUS
<1>2. T \in SUBSET Nat /\ n - i \in T
  <2>1. n - i \in 0 .. n /\ n - (n - i) = i
    BY <1>1
  <2>2. QED BY <2>1
<1> HIDE DEF T, n
<1>3. T # {}
  BY <1>2
<1>4. PICK x \in T : \A y \in T : x <= y
  BY <1>2, <1>3, LeastOfNat
<1>5. x \in 0 .. n /\ n - x \in 1 .. n /\ s[n - x] = Compaction
  BY <1>1, <1>4 DEF T
<1>6. \A j \in n - x + 1 .. n : s[j] # Compaction
  <2>1. ASSUME NEW j \in n - x + 1 .. n, s[j] = Compaction PROVE FALSE
    <3>1. n - j \in 0 .. n /\ n - (n - j) = j /\ j \in 1 .. n /\ n - j < x
      BY <1>1, <1>5
    <3>2. n - j \in T
      BY <1>1, <2>1, <3>1 DEF T
    <3>3. QED BY <1>1, <1>4, <1>5, <3>1, <3>2
  <2>2. QED BY <2>1
<1>7. \E k \in DOMAIN s : s[k] = Compaction /\ \A j \in k + 1 .. Len(s) : s[j] # Compaction
  BY <1>1, <1>5, <1>6 DEF n
<1>8. /\ LastCompaction(s) \in DOMAIN s /\ s[LastCompaction(s)] = Compaction
      /\ \A j \in LastCompaction(s) + 1 .. Len(s) : s[j] # Compaction
  BY <1>7 DEF LastCompaction
<1>9. LastCompaction(s) >= i
  <2>1. ~(i \in LastCompaction(s) + 1 .. Len(s))
    BY <1>8
  <2>2. QED BY <1>1, <1>8, <2>1 DEF n
<1>10. QED BY <1>1, <1>8, <1>9 DEF n

\* Pruning keeps a part of the input that begins in the response and before its calls.
LEMMA KeepsTheCalls ==
    ASSUME NEW c \in Chat, WellFormed(c.response), HasCompaction(c.response),
           NEW m \in Nat, GrownFrom(c.input, c.response, CallsOf(c.response), m)
    PROVE  /\ KeepFrom(c) \in m + 1 .. m + Len(c.response)
           /\ \A i \in CallsOf(c.response) : m + i >= KeepFrom(c)
<1> DEFINE s == c.input
           r == c.response
           last == LastCompaction(s)
           after == {s[i].id : i \in {i \in last + 1 .. Len(s) : IsOutput(s[i])}}
           crossing == {i \in 1 .. last - 1 : IsCall(s[i]) /\ s[i].id \in after}
           start == Len(s) - Len(r) - Cardinality(CallsOf(r)) + 1
<1>1. /\ s \in Seq(ItemSet) /\ r \in Seq(ItemSet)
      /\ Len(s) \in Nat /\ Len(r) \in Nat /\ DOMAIN r = 1 .. Len(r) /\ DOMAIN s = 1 .. Len(s)
      /\ Cardinality(CallsOf(r)) \in Nat
  <2>1. s \in Seq(ItemSet) /\ r \in Seq(ItemSet)
    BY DEF Chat
  <2>2. Cardinality(CallsOf(r)) \in Nat
    BY <2>1, CallPlaces
  <2>3. QED BY <2>1, <2>2
<1>2. /\ GrownFrom(s, r, CallsOf(r), m) /\ WellFormed(r)
      /\ Len(s) = m + Len(r) + Cardinality(CallsOf(r))
  BY DEF GrownFrom
<1>13. ASSUME NEW o \in 1 .. Len(s)
       PROVE  \/ o \in 1 .. m
              \/ o - m \in 1 .. Len(r) /\ ~IsOutput(s[o])
              \/ IsOutput(s[o]) /\ \E i \in CallsOf(r) : r[i].id = s[o].id
  <2>1. s \in Seq(ItemSet) /\ r \in Seq(ItemSet) /\ GrownFrom(s, r, CallsOf(r), m) /\ WellFormed(r)
    BY <1>1, <1>2
  <2> HIDE DEF s, r
  <2>2. QED BY ONLY <2>1, m \in Nat, o \in 1 .. Len(s), Places
<1>3. KeepFrom(c) =
          IF crossing = {} THEN last
          ELSE CHOOSE i \in crossing \cup {start} : \A j \in crossing \cup {start} : i <= j
  BY DEF KeepFrom
<1>4. start = m + 1
  BY <1>1, <1>2
<1>5. PICK k \in 1 .. Len(r) : r[k] = Compaction
  BY <1>1 DEF HasCompaction, Range
<1>6. /\ last \in m + k .. Len(s) /\ s[last] = Compaction
  <2>1. m + k \in DOMAIN s /\ s[m + k] = Compaction
    BY <1>1, <1>2, <1>5 DEF GrownFrom
  <2>2. QED BY <1>1, <2>1, LastIs
<1> HIDE DEF s, r, last, after, crossing, start
<1>7. last \in m + 1 .. m + Len(r)
  <2>1. last \in 1 .. Len(s) /\ last > m
    BY <1>1, <1>5, <1>6
  <2>2. ~IsOutput(s[last])
    BY <1>6, Kinds
  <2>3. last - m \in 1 .. Len(r)
    BY <1>13, <2>1, <2>2
  <2>4. QED BY <1>1, <2>1, <2>3
<1>8. ASSUME NEW i \in CallsOf(r), m + i < last
      PROVE  m + i \in crossing
  <2>1. i \in 1 .. Len(r) /\ IsCall(r[i]) /\ i \in Nat
    BY <1>1, CallPlaces
  <2>2. s[m + i] = r[i]
    BY <1>2, <2>1 DEF GrownFrom
  <2>3. PICK o \in m + Len(r) + 1 .. Len(s) : s[o].id = r[i].id
    BY <1>2 DEF GrownFrom
  <2>4. IsOutput(s[o]) /\ o \in last + 1 .. Len(s)
    BY <1>1, <1>2, <1>7, <2>3 DEF GrownFrom
  <2>5. r[i].id \in after
    BY <2>3, <2>4 DEF after
  <2>6. QED BY <1>7, <1>8, <2>1, <2>2, <2>5 DEF crossing
<1>9. ASSUME NEW i \in crossing
      PROVE  i \in Nat /\ i >= m + 1
  <2>1. /\ i \in 1 .. last - 1 /\ IsCall(s[i]) /\ s[i].id \in after
    BY DEF crossing
  <2>2. PICK o \in last + 1 .. Len(s) : IsOutput(s[o]) /\ s[o].id = s[i].id
    BY <2>1 DEF after
  <2>3. o \in 1 .. Len(s) /\ o \notin 1 .. m
    BY <1>1, <1>7
  <2>4. PICK j \in CallsOf(r) : r[j].id = s[o].id
    BY <1>13, <2>2, <2>3
  <2>5. i \notin 1 .. m
    BY <1>2, <2>2, <2>4 DEF GrownFrom
  <2>6. QED BY <1>7, <2>1, <2>5
<1>10. CASE crossing = {}
  <2>1. KeepFrom(c) = last
    BY <1>3, <1>10
  <2>2. ASSUME NEW i \in CallsOf(r)
        PROVE  m + i >= last
    <3>1. i \in Nat
      BY <1>1, CallPlaces
    <3>2. QED BY <1>7, <1>8, <1>10, <3>1
  <2>3. QED BY <1>7, <2>1, <2>2 DEF r
<1>11. CASE crossing # {}
  <2> DEFINE P(i) == \A j \in crossing \cup {start} : i <= j
  <2>1. start \in crossing \cup {start} /\ P(start)
    BY <1>4, <1>9
  <2>2. \A i \in crossing \cup {start} : P(i) => i = start
    <3>1. ASSUME NEW i \in crossing \cup {start}, P(i)
          PROVE  i = start
      <4>1. i <= start /\ i \in Nat /\ i >= m + 1
        BY <1>4, <1>9, <3>1
      <4>2. QED BY <1>4, <4>1
    <3>2. QED BY <3>1
  <2>3. KeepFrom(c) = CHOOSE i \in crossing \cup {start} : P(i)
    BY <1>3, <1>11
  <2> HIDE DEF P
  <2>4. KeepFrom(c) = m + 1
    BY <1>4, <2>1, <2>2, <2>3
  <2>5. ASSUME NEW i \in CallsOf(r)
        PROVE  m + i >= m + 1
    BY <1>1, CallPlaces
  <2>6. m + 1 \in m + 1 .. m + Len(r)
    BY <1>1, <1>5
  <2>7. QED BY <2>4, <2>5, <2>6 DEF r
<1>12. QED BY <1>10, <1>11

\* What pruning keeps is an input whose calls and outputs are paired.
LEMMA PrunedBalanced ==
    ASSUME NEW c \in Chat, WellFormed(c.response), HasCompaction(c.response),
           Grown(c.input, c.response, CallsOf(c.response))
    PROVE  LET kept == SubSeq(c.input, KeepFrom(c), Len(c.input)) IN
           /\ kept \in Seq(ItemSet) /\ Balanced(kept, Len(kept))
           /\ \A i \in DOMAIN kept : \E j \in DOMAIN c.input : kept[i] = c.input[j]
<1> DEFINE s == c.input
           r == c.response
           K == KeepFrom(c)
           t == SubSeq(s, K, Len(s))
           n == Len(s)
<1>1. PICK m \in Nat : GrownFrom(s, r, CallsOf(r), m)
  BY DEF Grown
<1>2. /\ s \in Seq(ItemSet) /\ r \in Seq(ItemSet) /\ n \in Nat /\ Len(r) \in Nat
  <2>1. s \in Seq(ItemSet) /\ r \in Seq(ItemSet)
    BY DEF Chat
  <2>2. QED BY <2>1
<1>3. n = m + Len(r) + Cardinality(CallsOf(r)) /\ Cardinality(CallsOf(r)) \in Nat
  BY <1>1, <1>2, CallPlaces DEF GrownFrom
<1>4. K \in m + 1 .. m + Len(r) /\ \A i \in CallsOf(r) : m + i >= K
  BY <1>1, KeepsTheCalls
<1> HIDE DEF K
<1>5. K \in 1 .. n
  BY <1>2, <1>3, <1>4
<1>6. /\ t \in Seq(ItemSet) /\ Len(t) = n - K + 1
      /\ \A i \in 1 .. n - K + 1 : t[i] = s[K + i - 1]
  <2>1. \A i \in K .. n : s[i] \in ItemSet
    BY <1>2, <1>5
  <2>2. /\ t \in Seq(ItemSet) /\ Len(t) = IF K <= n THEN n - K + 1 ELSE 0
        /\ \A i \in 1 .. n - K + 1 : t[i] = s[K + i - 1]
    BY <1>2, <1>5, SubSeqProperties
  <2>3. QED BY <1>5, <2>2
<1>7. /\ \A o \in K .. n : IsOutput(s[o]) =>
            \E j \in K .. o - 1 : IsCall(s[j]) /\ s[j].id = s[o].id
      /\ \A o \in K .. n : IsCall(s[o]) =>
            \E j \in o + 1 .. n : IsOutput(s[j]) /\ s[j].id = s[o].id
  BY <1>1, <1>2, <1>4, BalancedFrom DEF r
<1> HIDE DEF s, t, n
<1>8. \A i \in 1 .. Len(t) : K + i - 1 \in K .. n
  BY <1>2, <1>5, <1>6
<1>9. \A j \in K .. n : j - K + 1 \in 1 .. Len(t) /\ t[j - K + 1] = s[j]
  <2>1. \A j \in K .. n : j - K + 1 \in 1 .. n - K + 1 /\ K + (j - K + 1) - 1 = j
    BY <1>2, <1>5
  <2>2. QED BY <1>6, <2>1
<1>10. ASSUME NEW i \in 1 .. Len(t), IsOutput(t[i])
       PROVE  \E j \in 1 .. i - 1 : IsCall(t[j]) /\ t[j].id = t[i].id
  <2>1. PICK o \in K .. n : o = K + i - 1 /\ t[i] = s[o]
    BY <1>6, <1>8
  <2>2. PICK j \in K .. o - 1 : IsCall(s[j]) /\ s[j].id = t[i].id
    BY <1>7, <1>10, <2>1
  <2>3. j \in K .. n /\ j - K + 1 \in 1 .. i - 1
    BY <1>2, <1>5, <1>6, <2>1, <2>2
  <2>4. QED BY <1>9, <2>2, <2>3
<1>11. ASSUME NEW i \in 1 .. Len(t), IsCall(t[i])
       PROVE  \E j \in i + 1 .. Len(t) : IsOutput(t[j]) /\ t[j].id = t[i].id
  <2>1. PICK o \in K .. n : o = K + i - 1 /\ t[i] = s[o]
    BY <1>6, <1>8
  <2>2. PICK j \in o + 1 .. n : IsOutput(s[j]) /\ s[j].id = t[i].id
    BY <1>7, <1>11, <2>1
  <2>3. j \in K .. n /\ j - K + 1 \in i + 1 .. Len(t)
    BY <1>2, <1>5, <1>6, <2>1, <2>2
  <2>4. QED BY <1>9, <2>2, <2>3
<1>12. Balanced(t, Len(t))
  BY <1>10, <1>11 DEF Balanced
<1>13. \A i \in DOMAIN t : \E j \in DOMAIN s : t[i] = s[j]
  <2>1. DOMAIN t = 1 .. Len(t) /\ DOMAIN s = 1 .. n
    BY <1>2, <1>6 DEF n
  <2>2. \A i \in 1 .. Len(t) : t[i] = s[K + i - 1] /\ K + i - 1 \in 1 .. n
    BY <1>2, <1>5, <1>6, <1>8
  <2>3. QED BY <2>1, <2>2
<1>14. QED BY <1>6, <1>12, <1>13 DEF s, t, n, K

-----------------------------------------------------------------------------
(* What can be recalled. *)

\* An input that lost items, or gained some that stand for no result, or whose results
\* moved, is as recallable as it was.
LEMMA RecallableKept ==
    ASSUME NEW c, NEW d, Recallable(c), Findable(c) \subseteq Findable(d), d.pages = c.pages,
           \A i \in DOMAIN d.input :
               \/ \E j \in DOMAIN c.input : d.input[i] = c.input[j]
               \/ d.input[i].kind \notin {"stub", "head", "page", "full"}
    PROVE  Recallable(d)
<1>1. ASSUME NEW i \in DOMAIN d.input
      PROVE  /\ d.input[i].kind \in {"stub", "head", "page"} => d.input[i].of \in Findable(d)
             /\ d.input[i].kind = "full" => /\ d.input[i].of = d.input[i].id
                                            /\ d.input[i].id \notin Ids(d.pages)
  <2>1. CASE \E j \in DOMAIN c.input : d.input[i] = c.input[j]
    <3>1. PICK j \in DOMAIN c.input : d.input[i] = c.input[j]
      BY <2>1
    <3>2. /\ c.input[j].kind \in {"stub", "head", "page"} => c.input[j].of \in Findable(c)
          /\ c.input[j].kind = "full" => /\ c.input[j].of = c.input[j].id
                                         /\ c.input[j].id \notin Ids(c.pages)
      BY DEF Recallable
    <3>3. QED BY <3>1, <3>2
  <2>2. CASE d.input[i].kind \notin {"stub", "head", "page", "full"}
    BY <2>2
  <2>3. QED BY <2>1, <2>2
<1>2. QED BY <1>1 DEF Recallable

\* A step that moves only flags of the session keeps what can be recalled.
LEMMA RecallableSame ==
    ASSUME NEW c, NEW d, Recallable(c), d.input = c.input, d.pages = c.pages,
           d.results = c.results, d.archives = c.archives, d.refs = c.refs
    PROVE  Recallable(d)
BY DEF Recallable, Findable

\* Elision: an output becomes a stub in its place, and the stub leads to what the output
\* stood for.
LEMMA ElidedKeeps ==
    ASSUME NEW c \in Chat
    PROVE  /\ Elided(c) \in Chat
           /\ Len(Elided(c).input) = Len(c.input)
           /\ \A i \in 1 .. Len(c.input) :
                 /\ Elided(c).input[i].id = c.input[i].id
                 /\ IsCall(Elided(c).input[i]) <=> IsCall(c.input[i])
                 /\ IsOutput(Elided(c).input[i]) <=> IsOutput(c.input[i])
           /\ Elided(c).seq = c.seq
           /\ Recallable(c) => Recallable(Elided(c))
<1> DEFINE e == Elided(c)
           Old(id) == \E entry \in c.results \cup c.pages :
                         entry[1] = id /\ entry[2] + ElideAfter <= c.seq
           Stub(item) == IF IsOutput(item) /\ item.kind # "stub" /\ Old(item.id)
                         THEN Item("stub", item.id, item.of) ELSE item
           s == c.input
           n == Len(s)
           t == [i \in DOMAIN s |-> Stub(s[i])]
<1>1. s \in Seq(ItemSet) /\ n \in Nat /\ DOMAIN s = 1 .. n /\ \A i \in 1 .. n : s[i] \in ItemSet
  <2>1. s \in Seq(ItemSet)
    BY DEF Chat
  <2>2. QED BY <2>1
<1>2. e = c \/ e = [c EXCEPT !.input = t, !.lastBlock = c.seq]
  BY DEF Elided
<1>3. CASE e = c
  BY <1>3
<1>4. CASE e = [c EXCEPT !.input = t, !.lastBlock = c.seq]
  <2>1. ASSUME NEW i \in 1 .. n
        PROVE  /\ t[i] \in ItemSet /\ t[i].id = s[i].id /\ t[i].of = s[i].of
               /\ IsCall(t[i]) <=> IsCall(s[i])
               /\ IsOutput(t[i]) <=> IsOutput(s[i])
               /\ t[i] = s[i] \/ (t[i].kind = "stub" /\ Old(s[i].id)
                                  /\ s[i].kind \in {"full", "head", "page"})
    <3>1. t[i] = Stub(s[i]) /\ s[i] \in ItemSet
      BY <1>1
    <3> HIDE DEF t, s, Old
    <3>2. CASE IsOutput(s[i]) /\ s[i].kind # "stub" /\ Old(s[i].id)
      <4>1. t[i] = [kind |-> "stub", id |-> s[i].id, of |-> s[i].of]
        BY <3>1, <3>2 DEF Item
      <4>2. t[i] \in ItemSet /\ t[i].kind = "stub" /\ t[i].id = s[i].id /\ t[i].of = s[i].of
        BY <3>1, <4>1 DEF ItemSet
      <4>3. QED BY <3>2, <4>2 DEF IsCall, IsOutput
    <3>3. CASE ~(IsOutput(s[i]) /\ s[i].kind # "stub" /\ Old(s[i].id))
      BY <3>1, <3>3
    <3>4. QED BY <3>2, <3>3
  <2>2. t \in Seq(ItemSet) /\ Len(t) = n /\ DOMAIN t = 1 .. n
    <3>1. t \in [1 .. n -> ItemSet]
      BY <1>1, <2>1
    <3> HIDE DEF t
    <3>2. QED BY <1>1, <3>1, SeqDef
  <2> HIDE DEF t, s, n, Old
  <2>3. /\ e \in Chat /\ e.input = t /\ e.seq = c.seq /\ e.results = c.results
        /\ e.pages = c.pages /\ e.archives = c.archives /\ e.refs = c.refs
    BY <1>4, <2>2 DEF Chat
  <2> HIDE DEF e
  <2>4. ASSUME Recallable(c) PROVE Recallable(e)
    <3>1. Findable(e) = Findable(c)
      BY <2>3 DEF Findable
    <3>2. ASSUME NEW i \in 1 .. n
          PROVE  /\ t[i].kind \in {"stub", "head", "page"} => t[i].of \in Findable(c)
                 /\ t[i].kind = "full" => t[i].of = t[i].id /\ t[i].id \notin Ids(c.pages)
      <4>1. /\ s[i].kind \in {"stub", "head", "page"} => s[i].of \in Findable(c)
            /\ s[i].kind = "full" => s[i].of = s[i].id /\ s[i].id \notin Ids(c.pages)
        BY <1>1, <2>4 DEF Recallable, s
      <4>2. CASE t[i] = s[i]
        BY <4>1, <4>2
      <4>3. CASE t[i].kind = "stub" /\ Old(s[i].id) /\ s[i].kind = "full"
        <5>1. s[i].id \in Ids(c.results)
          BY <4>1, <4>3 DEF Old, Ids
        <5>2. s[i].of \in Findable(c)
          BY <4>1, <4>3, <5>1 DEF Findable
        <5>3. QED BY <2>1, <4>3, <5>2
      <4>4. CASE t[i].kind = "stub" /\ s[i].kind \in {"head", "page"}
        BY <2>1, <4>1, <4>4
      <4>5. QED BY <2>1, <4>2, <4>3, <4>4
    <3>3. QED BY <2>2, <2>3, <3>1, <3>2 DEF Recallable
  <2>5. QED BY <2>1, <2>2, <2>3, <2>4 DEF e, s, n
<1>5. QED BY <1>2, <1>3, <1>4

\* An open call has no output in the input yet.
LEMMA OpenHasNoOutput ==
    ASSUME NEW s \in Seq(ItemSet), NEW r \in Seq(ItemSet), WellFormed(r), NEW D, Grown(s, r, D),
           NEW i \in CallsOf(r), i \notin D, NEW o \in DOMAIN s, IsOutput(s[o])
    PROVE  s[o].id # r[i].id
<1>1. PICK m \in Nat : GrownFrom(s, r, D, m)
  BY DEF Grown
<1>2. o \in 1 .. Len(s)
  OBVIOUS
<1>3. o \in 1 .. m \/ \E k \in D : r[k].id = s[o].id
  BY <1>1, <1>2, Places
<1>4. CASE o \in 1 .. m
  BY <1>1, <1>4 DEF GrownFrom
<1>5. ASSUME NEW k \in D, r[k].id = s[o].id
      PROVE  s[o].id # r[i].id
  <2>1. k \in CallsOf(r) /\ k # i
    BY <1>1 DEF GrownFrom
  <2>2. QED BY <1>5, <2>1 DEF WellFormed
<1>6. QED BY <1>3, <1>4, <1>5

-----------------------------------------------------------------------------
(* The steps of a turn. *)

\* What the invariant says of the types, for the steps that follow.
LEMMA TranscriptFacts ==
    ASSUME TranscriptInv
    PROVE  /\ chat \in Chat /\ savedChat \in Chat
           /\ chat.input \in Seq(ItemSet) /\ chat.response \in Seq(ItemSet)
           /\ chat.seq \in 0 .. MaxResponses /\ MaxResponses \in Nat
           /\ DOMAIN chat.input = 1 .. Len(chat.input) /\ Len(chat.input) \in Nat
           /\ dispatches \in [CallId -> Nat] /\ deaths \in 0 .. MaxDeaths /\ MaxDeaths \in Nat
           /\ Recallable(chat) /\ Recallable(savedChat) /\ Restorable(savedChat) /\ InPhase
BY TranscriptAssumption DEF TranscriptInv, Chat

\* The call that is answered next is one of the open ones.
LEMMA PresentIsOpen ==
    ASSUME TranscriptInv, phase \in {"calls", "running"}, unanswered # {}
    PROVE  /\ Present \in unanswered /\ Present \in CallsOf(chat.response)
           /\ Called.id \in CallId /\ Called.of \in CallId
           /\ \A i \in unanswered : i # Present => chat.response[i].id # Called.id
<1>1. unanswered \subseteq CallsOf(chat.response) /\ WellFormed(chat.response)
      /\ chat.response \in Seq(ItemSet)
  BY TranscriptFacts DEF InPhase
<1>2. unanswered \in SUBSET Nat
  BY <1>1, CallPlaces
<1>3. Present \in unanswered
  BY <1>2, LeastOfNat DEF Present
<1>4. Present \in DOMAIN chat.response /\ IsCall(chat.response[Present])
  BY <1>1, <1>3 DEF CallsOf
<1>5. {Called.id, Called.of} \subseteq CallId
  BY <1>1, <1>4, Kinds DEF WellFormed, Called
<1>6. QED BY <1>1, <1>3, <1>5 DEF WellFormed, Called

\* The responses of the provider are well formed.
LEMMA ResponsesWellFormed ==
    ASSUME NEW items \in Responses
    PROVE  /\ items \in Seq(ItemSet) /\ WellFormed(items)
           /\ \A i \in DOMAIN items : items[i].kind \in {"compaction", "call", "recall"}
<1> DEFINE one == {Compaction} \cup {Item("call", id, id) : id \in CallId}
                   \cup {Item("recall", p[1], p[2]) : p \in {p \in CallId \X CallId : p[1] # p[2]}}
<1>1. PICK n \in 0 .. MaxItems : items \in [1 .. n -> one]
  BY DEF Responses
<1>2. \A i, j \in DOMAIN items : i # j /\ IsCall(items[i]) => items[i].id # items[j].id
  BY DEF Responses
<1>3. ASSUME NEW x \in one
      PROVE  /\ x \in ItemSet /\ x.kind \in {"compaction", "call", "recall"}
             /\ x = Compaction \/ (IsCall(x) /\ {x.id, x.of} \subseteq CallId)
  <2>1. CASE x = Compaction
    BY <2>1, Kinds DEF Compaction, Item
  <2>2. CASE \E id \in CallId : x = Item("call", id, id)
    BY <2>2 DEF Item, ItemSet, IsCall
  <2>3. CASE \E p \in CallId \X CallId : x = Item("recall", p[1], p[2])
    BY <2>3 DEF Item, ItemSet, IsCall
  <2>4. QED BY <2>1, <2>2, <2>3
<1> HIDE DEF one
<1>4. items \in Seq(ItemSet)
  <2>1. items \in [1 .. n -> ItemSet] /\ n \in Nat
    BY <1>1, <1>3, TranscriptAssumption
  <2>2. QED BY <2>1, SeqDef
<1>5. DOMAIN items = 1 .. n /\ \A i \in 1 .. n : items[i] \in one
  BY <1>1
<1>6. WellFormed(items)
  <2>1. \A i \in DOMAIN items :
            \/ items[i] = Compaction
            \/ IsCall(items[i]) /\ {items[i].id, items[i].of} \subseteq CallId
    BY <1>3, <1>5
  <2>2. \A i \in CallsOf(items), j \in CallsOf(items) : i # j => items[i].id # items[j].id
    BY <1>2 DEF CallsOf
  <2>3. QED BY <2>1, <2>2 DEF WellFormed
<1>7. QED BY <1>3, <1>4, <1>5, <1>6

LEMMA SendTurnStep ==
    ASSUME TranscriptInv, SendTurn
    PROVE  TranscriptInv'
<1> DEFINE e == Elided(chat)
           d == [e EXCEPT !.pending = TRUE, !.settled = FALSE, !.marker = FALSE, !.pruned = FALSE]
<1>1. /\ chat' = d /\ savedChat' = d /\ phase = "boundary" /\ phase' = "sent"
      /\ chat.seq < MaxResponses
      /\ unanswered' = unanswered /\ dispatches' = dispatches /\ deaths' = deaths
  BY DEF SendTurn, Saves
<1>2. /\ e \in Chat /\ Len(e.input) = Len(chat.input) /\ e.seq = chat.seq /\ Recallable(e)
      /\ \A i \in 1 .. Len(chat.input) : /\ e.input[i].id = chat.input[i].id
                                         /\ IsCall(e.input[i]) <=> IsCall(chat.input[i])
                                         /\ IsOutput(e.input[i]) <=> IsOutput(chat.input[i])
  BY TranscriptFacts, ElidedKeeps
<1> HIDE DEF e
<1>3. /\ d \in Chat /\ d.input = e.input /\ d.pages = e.pages /\ d.results = e.results
      /\ d.archives = e.archives /\ d.refs = e.refs /\ d.seq = e.seq
      /\ d.pending /\ ~d.settled /\ ~d.pruned
  BY <1>2 DEF Chat
<1> HIDE DEF d
<1>4. Recallable(d)
  BY <1>2, <1>3, RecallableSame
<1>5. Balanced(d.input, Len(d.input))
  <2>1. Balanced(chat.input, Len(chat.input)) /\ Len(chat.input) \in Nat
    BY <1>1, TranscriptFacts DEF InPhase
  <2>2. QED BY <1>2, <1>3, <2>1, BalancedKept
<1>6. Restorable(d)
  BY <1>3 DEF Restorable
<1>7. unanswered = {}
  BY <1>1, TranscriptFacts DEF InPhase
<1>8. InPhase'
  BY <1>1, <1>2, <1>3, <1>5, <1>7 DEF InPhase
<1>9. QED
  BY <1>1, <1>3, <1>4, <1>6, <1>7, <1>8 DEF TranscriptInv

LEMMA ReceiveResponseStep ==
    ASSUME TranscriptInv, NEW items \in Responses, ReceiveResponse(items)
    PROVE  TranscriptInv'
<1> DEFINE d == [chat EXCEPT !.input = @ \o items, !.response = items, !.seq = @ + 1]
<1>1. /\ chat' = d /\ savedChat' = d /\ phase = "sent" /\ phase' = "received"
      /\ unanswered' = unanswered /\ dispatches' = dispatches /\ deaths' = deaths
      /\ \A i \in DOMAIN items : IsCall(items[i]) =>
            /\ dispatches[items[i].id] = 0
            /\ items[i].id \notin Ids(chat.pages)
            /\ ~\E j \in DOMAIN chat.input : chat.input[j].id = items[i].id
  BY DEF ReceiveResponse, Saves
<1>2. /\ items \in Seq(ItemSet) /\ WellFormed(items)
      /\ \A i \in DOMAIN items : items[i].kind \in {"compaction", "call", "recall"}
  BY ResponsesWellFormed
<1>3. /\ chat \in Chat /\ chat.input \in Seq(ItemSet) /\ InPhase
  BY TranscriptFacts
<1>4. chat.pending /\ ~chat.pruned /\ ~chat.settled /\ unanswered = {}
      /\ chat.seq < MaxResponses /\ Balanced(chat.input, Len(chat.input))
  BY <1>1, <1>3 DEF InPhase
<1> DEFINE t == chat.input \o items
<1>5. /\ t \in Seq(ItemSet)
      /\ \A i \in DOMAIN t : \/ \E j \in DOMAIN chat.input : t[i] = chat.input[j]
                             \/ \E j \in DOMAIN items : t[i] = items[j]
  <2>1. /\ t \in Seq(ItemSet) /\ Len(t) = Len(chat.input) + Len(items)
        /\ \A i \in 1 .. Len(chat.input) : t[i] = chat.input[i]
        /\ \A i \in 1 .. Len(items) : t[Len(chat.input) + i] = items[i]
    BY <1>2, <1>3, ConcatProperties
  <2>2. /\ DOMAIN t = 1 .. Len(t) /\ DOMAIN items = 1 .. Len(items)
        /\ DOMAIN chat.input = 1 .. Len(chat.input)
        /\ Len(items) \in Nat /\ Len(chat.input) \in Nat
    BY <1>2, <1>3, <2>1, LenProperties
  <2> HIDE DEF t
  <2>3. ASSUME NEW i \in DOMAIN t
        PROVE  \/ \E j \in DOMAIN chat.input : t[i] = chat.input[j]
               \/ \E j \in DOMAIN items : t[i] = items[j]
    <3>1. CASE i <= Len(chat.input)
      <4>1. i \in 1 .. Len(chat.input)
        BY <2>1, <2>2, <3>1
      <4>2. QED BY <2>1, <2>2, <4>1
    <3>2. CASE i > Len(chat.input)
      <4>1. i - Len(chat.input) \in 1 .. Len(items)
            /\ Len(chat.input) + (i - Len(chat.input)) = i
        BY <2>1, <2>2, <3>2
      <4>2. QED BY <2>1, <2>2, <4>1
    <3>3. QED BY <2>1, <2>2, <3>1, <3>2
  <2>4. QED BY <2>1, <2>3
<1>6. Grown(t, items, {})
  <2>1. \A k \in DOMAIN chat.input, j \in CallsOf(items) : chat.input[k].id # items[j].id
    BY <1>1 DEF CallsOf
  <2>2. QED BY <1>2, <1>3, <1>4, <2>1, GrownByResponse
<1> HIDE DEF t
<1>7. /\ d \in Chat /\ d.input = t /\ d.response = items /\ d.pages = chat.pages
      /\ d.results = chat.results /\ d.archives = chat.archives /\ d.refs = chat.refs
      /\ d.pending /\ ~d.pruned /\ ~d.settled
  <2>1. chat.seq + 1 \in 0 .. MaxResponses
    BY <1>4, TranscriptFacts
  <2>2. d = [chat EXCEPT !.input = t, !.response = items, !.seq = chat.seq + 1]
    BY DEF t
  <2> HIDE DEF d
  <2>3. QED BY <1>2, <1>3, <1>4, <1>5, <2>1, <2>2 DEF Chat
<1> HIDE DEF d
<1>8. Recallable(d)
  <2>1. Recallable(chat) /\ Findable(chat) \subseteq Findable(d)
    BY <1>7, TranscriptFacts DEF Findable
  <2>2. \A i \in DOMAIN d.input : \/ \E j \in DOMAIN chat.input : d.input[i] = chat.input[j]
                                  \/ d.input[i].kind \notin {"stub", "head", "page", "full"}
    BY <1>2, <1>5, <1>7
  <2>3. QED BY <1>7, <2>1, <2>2, RecallableKept
<1>9. Restorable(d)
  BY <1>7 DEF Restorable
<1>10. InPhase'
  BY <1>1, <1>2, <1>4, <1>6, <1>7 DEF InPhase, CallsOf
<1>11. QED
  BY <1>1, <1>4, <1>7, <1>8, <1>9, <1>10, TranscriptFacts DEF TranscriptInv

LEMMA SettleResponseStep ==
    ASSUME TranscriptInv, SettleResponse
    PROVE  TranscriptInv'
<1> DEFINE d == [chat EXCEPT !.pending = FALSE, !.marker = HasCompaction(chat.response)]
           calls == CallsOf(chat.response)
<1>1. /\ chat' = d /\ savedChat' = (IF d.marker THEN d ELSE savedChat)
      /\ phase = "received" /\ phase' = "calls" /\ unanswered' = calls
      /\ dispatches' = dispatches /\ deaths' = deaths
  BY DEF SettleResponse
<1>2. chat \in Chat /\ savedChat \in Chat /\ InPhase
  BY TranscriptFacts
<1>3. /\ ~chat.settled /\ ~chat.pruned /\ WellFormed(chat.response)
      /\ Grown(chat.input, chat.response, {})
      /\ \A i \in calls : /\ chat.response[i].id \notin Ids(chat.pages)
                          /\ dispatches[chat.response[i].id] = 0
  BY <1>1, <1>2 DEF InPhase
<1>4. /\ d \in Chat /\ d.input = chat.input /\ d.response = chat.response
      /\ d.pages = chat.pages /\ d.results = chat.results /\ d.archives = chat.archives
      /\ d.refs = chat.refs /\ ~d.pending /\ ~d.settled /\ ~d.pruned
  <2>1. PICK b \in BOOLEAN : b = HasCompaction(chat.response)
    <3>1. HasCompaction(chat.response) = TRUE \/ HasCompaction(chat.response) = FALSE
      BY DEF HasCompaction
    <3>2. QED BY <3>1
  <2>2. d = [chat EXCEPT !.pending = FALSE, !.marker = b]
    BY <2>1
  <2> HIDE DEF d
  <2>3. QED BY <1>2, <1>3, <2>2 DEF Chat
<1> HIDE DEF d
<1>5. Recallable(d)
  BY <1>4, TranscriptFacts, RecallableSame
<1>6. Restorable(d)
  BY <1>3, <1>4 DEF Restorable
<1>7. savedChat' \in Chat /\ Recallable(savedChat') /\ Restorable(savedChat')
  BY <1>1, <1>2, <1>4, <1>5, <1>6, TranscriptFacts
<1>8. calls \subseteq DOMAIN d.response /\ calls \ calls = {}
  BY <1>4 DEF CallsOf
<1>9. OpenCalls'
  BY <1>1, <1>3, <1>4 DEF OpenCalls
<1>10. InPhase'
  BY <1>1, <1>3, <1>4, <1>8, <1>9 DEF InPhase
<1>11. QED
  BY <1>1, <1>4, <1>5, <1>7, <1>8, <1>10, TranscriptFacts DEF TranscriptInv

\* What answering the present call does to the calls that stay open.
LEMMA Answered ==
    ASSUME TranscriptInv, phase \in {"calls", "running"}, unanswered # {},
           NEW x \in ItemSet, IsOutput(x), x.id = Called.id
    PROVE  LET calls == CallsOf(chat.response)
               rest == unanswered \ {Present}
           IN  /\ rest \subseteq calls /\ rest \subseteq DOMAIN chat.response
               /\ Append(chat.input, x) \in Seq(ItemSet)
               /\ Grown(Append(chat.input, x), chat.response, calls \ rest)
               /\ \A i \in DOMAIN Append(chat.input, x) :
                     \/ \E j \in DOMAIN chat.input : Append(chat.input, x)[i] = chat.input[j]
                     \/ Append(chat.input, x)[i] = x
               /\ \A i \in rest : /\ chat.response[i].id # Called.id
                                  /\ chat.response[i].id \notin Ids(chat.pages)
                                  /\ dispatches[chat.response[i].id] = 0
<1> DEFINE calls == CallsOf(chat.response)
           rest == unanswered \ {Present}
           t == Append(chat.input, x)
<1>1. /\ chat.input \in Seq(ItemSet) /\ chat.response \in Seq(ItemSet) /\ InPhase
  BY TranscriptFacts
<1>2. /\ unanswered \subseteq calls /\ OpenCalls
      /\ Grown(chat.input, chat.response, calls \ unanswered)
  BY <1>1 DEF InPhase
<1>3. /\ Present \in unanswered /\ Present \in calls
      /\ \A i \in rest : chat.response[i].id # Called.id
  BY PresentIsOpen
<1>4. (calls \ unanswered) \cup {Present} = calls \ rest
  BY <1>2, <1>3
<1>5. Grown(t, chat.response, (calls \ unanswered) \cup {Present})
  <2>1. Present \notin calls \ unanswered /\ x.id = chat.response[Present].id
    BY <1>3 DEF Called
  <2>2. QED BY <1>1, <1>2, <1>3, <2>1, GrownAppend
<1>6. /\ t \in Seq(ItemSet)
      /\ \A i \in DOMAIN t : (\E j \in DOMAIN chat.input : t[i] = chat.input[j]) \/ t[i] = x
  <2>1. /\ t \in Seq(ItemSet) /\ Len(t) = Len(chat.input) + 1 /\ Len(chat.input) \in Nat
        /\ \A i \in 1 .. Len(chat.input) : t[i] = chat.input[i]
        /\ t[Len(chat.input) + 1] = x
    BY <1>1, AppendedItem
  <2>2. DOMAIN t = 1 .. Len(t) /\ DOMAIN chat.input = 1 .. Len(chat.input)
    BY <1>1, <2>1, LenProperties
  <2> HIDE DEF t
  <2>3. QED BY <2>1, <2>2
<1>7. rest \subseteq calls /\ rest \subseteq DOMAIN chat.response
  BY <1>2 DEF CallsOf
<1>8. \A i \in rest : /\ chat.response[i].id \notin Ids(chat.pages)
                      /\ dispatches[chat.response[i].id] = 0
  BY <1>2, <1>3 DEF OpenCalls
<1>9. QED BY <1>3, <1>4, <1>5, <1>6, <1>7, <1>8

LEMMA RecallStep ==
    ASSUME TranscriptInv, Recall
    PROVE  TranscriptInv'
<1> DEFINE found == Called.of \in Findable(chat)
           out == Item(IF found THEN "page" ELSE "full", Called.id,
                       IF found THEN Called.of ELSE Called.id)
           t == Append(chat.input, out)
           pages == IF found THEN chat.pages \cup {<<Called.id, chat.seq>>} ELSE chat.pages
           d == [chat EXCEPT !.input = t, !.pages = pages]
           calls == CallsOf(chat.response)
           rest == unanswered \ {Present}
<1>1. /\ chat' = d /\ savedChat' = savedChat /\ phase = "calls" /\ phase' = phase
      /\ unanswered # {} /\ unanswered' = rest /\ dispatches' = dispatches /\ deaths' = deaths
  BY DEF Recall
<1>2. /\ chat \in Chat /\ savedChat \in Chat /\ InPhase /\ chat.seq \in 0 .. MaxResponses
      /\ chat.input \in Seq(ItemSet) /\ chat.response \in Seq(ItemSet)
  BY TranscriptFacts
<1>3. /\ Present \in unanswered /\ Present \in calls /\ Called.id \in CallId /\ Called.of \in CallId
  BY <1>1, PresentIsOpen
<1>4. /\ out \in ItemSet /\ IsOutput(out) /\ out.id = Called.id
      /\ IF found THEN out.kind = "page" /\ out.of = Called.of
                  ELSE out.kind = "full" /\ out.of = Called.id
  BY <1>3 DEF ItemSet, Item, IsOutput
<1>5. /\ ~chat.settled /\ WellFormed(chat.response) /\ unanswered \subseteq calls
      /\ Grown(chat.input, chat.response, calls \ unanswered) /\ OpenCalls
  BY <1>1, <1>2 DEF InPhase
<1> HIDE DEF out, found
<1>6. /\ rest \subseteq calls /\ rest \subseteq DOMAIN chat.response /\ t \in Seq(ItemSet)
      /\ Grown(t, chat.response, calls \ rest)
      /\ \A i \in DOMAIN t : (\E j \in DOMAIN chat.input : t[i] = chat.input[j]) \/ t[i] = out
      /\ \A i \in rest : /\ chat.response[i].id # Called.id
                         /\ chat.response[i].id \notin Ids(chat.pages)
                         /\ dispatches[chat.response[i].id] = 0
  BY <1>1, <1>4, Answered
<1>7. /\ pages \subseteq Entries /\ Ids(pages) \subseteq Ids(chat.pages) \cup {Called.id}
      /\ ~found => Ids(pages) = Ids(chat.pages)
  BY <1>2, <1>3 DEF Chat, Entries, Ids
<1> HIDE DEF t, pages
<1>8. /\ d \in Chat /\ d.input = t /\ d.response = chat.response /\ d.pages = pages
      /\ d.results = chat.results /\ d.archives = chat.archives /\ d.refs = chat.refs
      /\ ~d.settled
  BY <1>2, <1>5, <1>6, <1>7 DEF Chat
<1> HIDE DEF d
<1>9. Recallable(d)
  <2>1. Findable(d) = Findable(chat)
    BY <1>8 DEF Findable
  <2>2. ASSUME NEW i \in DOMAIN d.input
        PROVE  /\ d.input[i].kind \in {"stub", "head", "page"} => d.input[i].of \in Findable(d)
               /\ d.input[i].kind = "full" => /\ d.input[i].of = d.input[i].id
                                              /\ d.input[i].id \notin Ids(d.pages)
    <3>1. CASE d.input[i] = out
      <4>1. CASE found
        BY <1>4, <2>1, <3>1, <4>1 DEF found
      <4>2. CASE ~found
        <5>1. Called.id \notin Ids(chat.pages)
          BY <1>3, <1>5 DEF OpenCalls, Called
        <5>2. QED BY <1>4, <1>7, <1>8, <3>1, <4>2, <5>1
      <4>3. QED BY <4>1, <4>2
    <3>2. ASSUME NEW j \in DOMAIN chat.input, d.input[i] = chat.input[j]
          PROVE  /\ d.input[i].kind \in {"stub", "head", "page"} => d.input[i].of \in Findable(d)
                 /\ d.input[i].kind = "full" => /\ d.input[i].of = d.input[i].id
                                                /\ d.input[i].id \notin Ids(d.pages)
      <4>1. /\ chat.input[j].kind \in {"stub", "head", "page"} =>
                   chat.input[j].of \in Findable(chat)
            /\ chat.input[j].kind = "full" => /\ chat.input[j].of = chat.input[j].id
                                              /\ chat.input[j].id \notin Ids(chat.pages)
        BY TranscriptFacts DEF Recallable
      <4>2. IsOutput(chat.input[j]) => chat.input[j].id # Called.id
        <5>1. Present \notin calls \ unanswered
          BY <1>3
        <5>2. QED BY <1>2, <1>3, <1>5, <5>1, OpenHasNoOutput DEF Called
      <4>3. chat.input[j].kind = "full" => IsOutput(chat.input[j])
        BY DEF IsOutput
      <4>4. QED BY <1>7, <1>8, <2>1, <3>2, <4>1, <4>2, <4>3
    <3>3. QED BY <1>6, <1>8, <3>1, <3>2
  <2>3. QED BY <2>2 DEF Recallable
<1>10. OpenCalls'
  <2>1. \A i \in rest : d.response[i].id \notin Ids(d.pages)
    BY <1>6, <1>7, <1>8
  <2>2. QED BY <1>1, <1>6, <1>8, <2>1 DEF OpenCalls
<1>11. InPhase'
  BY <1>1, <1>5, <1>6, <1>8, <1>10 DEF InPhase
<1>12. QED
  BY <1>1, <1>6, <1>8, <1>9, <1>11, TranscriptFacts DEF TranscriptInv

LEMMA MarkCallStep ==
    ASSUME TranscriptInv, MarkCall
    PROVE  TranscriptInv'
<1> DEFINE d == [chat EXCEPT !.pending = TRUE]
<1>1. /\ chat' = d /\ savedChat' = d /\ phase = "calls" /\ phase' = "running"
      /\ unanswered # {} /\ unanswered' = unanswered /\ deaths' = deaths
      /\ dispatches' = [dispatches EXCEPT ![Called.id] = @ + 1]
  BY DEF MarkCall, Saves
<1>2. /\ chat \in Chat /\ InPhase /\ dispatches \in [CallId -> Nat]
      /\ chat.response \in Seq(ItemSet)
  BY TranscriptFacts
<1>3. /\ Present \in unanswered /\ Called.id \in CallId
      /\ \A i \in unanswered : i # Present => chat.response[i].id # Called.id
  BY <1>1, PresentIsOpen
<1>4. /\ ~chat.settled /\ WellFormed(chat.response) /\ unanswered \subseteq CallsOf(chat.response)
      /\ Grown(chat.input, chat.response, CallsOf(chat.response) \ unanswered) /\ OpenCalls
  BY <1>1, <1>2 DEF InPhase
<1>5. /\ d \in Chat /\ d.input = chat.input /\ d.response = chat.response
      /\ d.pages = chat.pages /\ d.results = chat.results /\ d.archives = chat.archives
      /\ d.refs = chat.refs /\ d.pending /\ ~d.settled
  BY <1>2, <1>4 DEF Chat
<1> HIDE DEF d
<1>6. Recallable(d)
  BY <1>5, TranscriptFacts, RecallableSame
<1>7. Restorable(d)
  BY <1>5 DEF Restorable
<1>8. dispatches[Called.id] = 0
  BY <1>1, <1>3, <1>4 DEF OpenCalls, Called
<1>9. /\ dispatches' \in [CallId -> Nat] /\ \A id \in CallId : dispatches'[id] <= 1
      /\ \A id : id # Called.id => dispatches'[id] = dispatches[id]
  <2>1. \A id \in CallId : dispatches[id] <= 1
    BY DEF TranscriptInv
  <2>2. QED BY <1>1, <1>2, <1>3, <1>8, <2>1
<1>10. unanswered \subseteq DOMAIN d.response
  BY <1>5 DEF TranscriptInv
<1>11. OpenCalls'
  <2>1. Present' = Present
    BY <1>1 DEF Present
  <2>2. \A i \in unanswered : /\ chat.response[i].id \notin Ids(chat.pages)
                              /\ i # Present => dispatches'[chat.response[i].id] = 0
    BY <1>1, <1>3, <1>4, <1>9 DEF OpenCalls
  <2>3. QED BY <1>1, <1>5, <2>1, <2>2 DEF OpenCalls
<1>12. InPhase'
  BY <1>1, <1>4, <1>5, <1>11 DEF InPhase
<1>13. QED
  BY <1>1, <1>5, <1>6, <1>7, <1>9, <1>10, <1>12, TranscriptFacts DEF TranscriptInv

LEMMA AnswerCallStep ==
    ASSUME TranscriptInv, AnswerCall
    PROVE  TranscriptInv'
<1> DEFINE id == Called.id
           out == Item(IF id \in Long THEN "head" ELSE "full", id, id)
           t == Append(chat.input, out)
           results == chat.results \cup {<<id, chat.seq>>}
           d == [chat EXCEPT !.pending = FALSE, !.results = results, !.input = t]
           calls == CallsOf(chat.response)
           rest == unanswered \ {Present}
<1>1. /\ chat' = d /\ savedChat' = savedChat /\ phase = "running" /\ phase' = "calls"
      /\ unanswered' = rest /\ dispatches' = dispatches /\ deaths' = deaths
  BY DEF AnswerCall
<1>2. /\ chat \in Chat /\ savedChat \in Chat /\ InPhase /\ chat.seq \in 0 .. MaxResponses
      /\ chat.input \in Seq(ItemSet) /\ chat.response \in Seq(ItemSet)
  BY TranscriptFacts
<1>3. unanswered # {}
  BY <1>1, <1>2 DEF InPhase
<1>4. Present \in unanswered /\ id \in CallId
  BY <1>1, <1>3, PresentIsOpen
<1>5. /\ out \in ItemSet /\ IsOutput(out) /\ out.id = id /\ out.of = id
      /\ out.kind \in {"head", "full"}
  BY <1>4 DEF ItemSet, Item, IsOutput
<1>6. ~chat.settled /\ WellFormed(chat.response) /\ OpenCalls
  BY <1>1, <1>2 DEF InPhase
<1> HIDE DEF out
<1>7. /\ rest \subseteq calls /\ rest \subseteq DOMAIN chat.response /\ t \in Seq(ItemSet)
      /\ Grown(t, chat.response, calls \ rest)
      /\ \A i \in DOMAIN t : (\E j \in DOMAIN chat.input : t[i] = chat.input[j]) \/ t[i] = out
      /\ \A i \in rest : /\ chat.response[i].id \notin Ids(chat.pages)
                         /\ dispatches[chat.response[i].id] = 0
  BY <1>1, <1>3, <1>5, Answered
<1>8. results \subseteq Entries /\ Ids(results) = Ids(chat.results) \cup {id}
  <2>1. chat.results \subseteq Entries
    BY <1>2 DEF Chat
  <2> HIDE DEF id
  <2>2. results \subseteq Entries /\ <<id, chat.seq>>[1] = id
    BY <1>2, <1>4, <2>1 DEF Entries
  <2>3. \A x : x \in Ids(results) <=> x \in Ids(chat.results) \/ x = id
    BY <2>2 DEF Ids
  <2>4. QED BY <2>2, <2>3
<1> HIDE DEF t, results, id
<1>9. /\ d \in Chat /\ d.input = t /\ d.response = chat.response /\ d.pages = chat.pages
      /\ d.results = results /\ d.archives = chat.archives /\ d.refs = chat.refs /\ ~d.settled
  BY <1>2, <1>6, <1>7, <1>8 DEF Chat
<1> HIDE DEF d
<1>10. Recallable(d)
  <2>1. Findable(d) = Findable(chat) \cup {id}
    BY <1>8, <1>9 DEF Findable
  <2>2. id \notin Ids(chat.pages)
    BY <1>4, <1>6 DEF OpenCalls, Called, id
  <2>3. ASSUME NEW i \in DOMAIN d.input
        PROVE  /\ d.input[i].kind \in {"stub", "head", "page"} => d.input[i].of \in Findable(d)
               /\ d.input[i].kind = "full" => /\ d.input[i].of = d.input[i].id
                                              /\ d.input[i].id \notin Ids(d.pages)
    <3>1. CASE d.input[i] = out
      BY <1>5, <1>9, <2>1, <2>2, <3>1
    <3>2. ASSUME NEW j \in DOMAIN chat.input, d.input[i] = chat.input[j]
          PROVE  /\ d.input[i].kind \in {"stub", "head", "page"} => d.input[i].of \in Findable(d)
                 /\ d.input[i].kind = "full" => /\ d.input[i].of = d.input[i].id
                                                /\ d.input[i].id \notin Ids(d.pages)
      <4>1. /\ chat.input[j].kind \in {"stub", "head", "page"} =>
                   chat.input[j].of \in Findable(chat)
            /\ chat.input[j].kind = "full" => /\ chat.input[j].of = chat.input[j].id
                                              /\ chat.input[j].id \notin Ids(chat.pages)
        BY TranscriptFacts DEF Recallable
      <4>2. QED BY <1>9, <2>1, <3>2, <4>1
    <3>3. QED BY <1>7, <1>9, <3>1, <3>2
  <2>4. QED BY <2>3 DEF Recallable
<1>11. OpenCalls'
  BY <1>1, <1>7, <1>9 DEF OpenCalls
<1>12. InPhase'
  BY <1>1, <1>6, <1>7, <1>9, <1>11 DEF InPhase
<1>13. QED
  BY <1>1, <1>7, <1>9, <1>10, <1>12, TranscriptFacts DEF TranscriptInv

LEMMA CallsDoneStep ==
    ASSUME TranscriptInv, CallsDone
    PROVE  TranscriptInv'
<1>1. /\ chat' = chat /\ savedChat' = savedChat
      /\ phase = "calls" /\ phase' \in {"ended", "advance"}
      /\ unanswered = {} /\ unanswered' = {} /\ dispatches' = dispatches /\ deaths' = deaths
  BY DEF CallsDone
<1>2. InPhase
  BY TranscriptFacts
<1>3. /\ WellFormed(chat.response)
      /\ Grown(chat.input, chat.response, CallsOf(chat.response) \ unanswered)
  BY <1>1, <1>2 DEF InPhase
<1>4. CallsOf(chat.response) \ unanswered = CallsOf(chat.response)
  BY <1>1
<1>5. InPhase'
  BY <1>1, <1>3, <1>4 DEF InPhase
<1>6. QED
  BY <1>1, <1>5, TranscriptFacts DEF TranscriptInv

LEMMA AdvanceStep ==
    ASSUME TranscriptInv, Advance
    PROVE  TranscriptInv'
<1>1. /\ phase = "advance" /\ phase' = "settle"
      /\ unanswered' = unanswered /\ dispatches' = dispatches /\ deaths' = deaths
  BY DEF Advance
<1>2. /\ chat \in Chat /\ savedChat \in Chat /\ InPhase
      /\ chat.input \in Seq(ItemSet) /\ chat.response \in Seq(ItemSet)
  BY TranscriptFacts
<1>3. /\ WellFormed(chat.response) /\ unanswered = {}
      /\ Grown(chat.input, chat.response, CallsOf(chat.response))
  BY <1>1, <1>2 DEF InPhase
<1>4. CASE ~HasCompaction(chat.response)
  <2>1. chat' = chat /\ savedChat' = savedChat
    BY <1>4 DEF Advance
  <2>2. Balanced(chat.input, Len(chat.input))
    BY <1>2, <1>3, GrownBalanced
  <2>3. InPhase'
    BY <1>1, <1>3, <2>1, <2>2 DEF InPhase
  <2>4. QED
    BY <1>1, <1>3, <2>1, <2>3, TranscriptFacts DEF TranscriptInv
<1>5. CASE HasCompaction(chat.response)
  <2> DEFINE kept == SubSeq(chat.input, KeepFrom(chat), Len(chat.input))
             t == Append(kept, Anchor)
             d == [chat EXCEPT !.archives = @ \cup Ids(chat.results), !.results = {},
                               !.pruned = TRUE, !.input = t]
  <2>1. chat' = d /\ savedChat' = d
    BY <1>5 DEF Advance, Saves
  <2>2. /\ kept \in Seq(ItemSet) /\ Balanced(kept, Len(kept))
        /\ \A i \in DOMAIN kept : \E j \in DOMAIN chat.input : kept[i] = chat.input[j]
    BY <1>2, <1>3, <1>5, PrunedBalanced
  <2> HIDE DEF kept
  <2>3. /\ t \in Seq(ItemSet) /\ Balanced(t, Len(t))
        /\ \A i \in DOMAIN t : \/ \E j \in DOMAIN chat.input : t[i] = chat.input[j]
                               \/ t[i].kind = "anchor"
    <3>1. Balanced(t, Len(t))
      BY <2>2, Kinds, BalancedAppend
    <3>2. /\ t \in Seq(ItemSet) /\ Len(t) = Len(kept) + 1 /\ Len(kept) \in Nat
          /\ \A i \in 1 .. Len(kept) : t[i] = kept[i]
          /\ t[Len(kept) + 1] = Anchor
      BY <2>2, Kinds, AppendedItem
    <3>3. DOMAIN t = 1 .. Len(t) /\ DOMAIN kept = 1 .. Len(kept)
      BY <2>2, <3>2, LenProperties
    <3> HIDE DEF t
    <3>4. ASSUME NEW i \in DOMAIN t
          PROVE  \/ \E j \in DOMAIN chat.input : t[i] = chat.input[j]
                 \/ t[i].kind = "anchor"
      <4>1. CASE i = Len(kept) + 1
        BY <3>2, <4>1, Kinds
      <4>2. CASE i \in 1 .. Len(kept)
        BY <2>2, <3>2, <3>3, <4>2
      <4>3. QED BY <3>2, <3>3, <4>1, <4>2
    <3>5. QED BY <3>1, <3>2, <3>4
  <2>4. Ids(chat.results) \subseteq CallId /\ Ids({}) = {}
    BY <1>2 DEF Chat, Entries, Ids
  <2> HIDE DEF t
  <2>5. /\ d \in Chat /\ d.input = t /\ d.pages = chat.pages /\ d.results = {}
        /\ d.archives = chat.archives \cup Ids(chat.results) /\ d.refs = chat.refs /\ d.pruned
    BY <1>2, <2>3, <2>4 DEF Chat
  <2> HIDE DEF d
  <2>6. Recallable(d)
    <3>1. Findable(chat) \subseteq Findable(d)
      BY <2>4, <2>5 DEF Findable
    <3>2. \A i \in DOMAIN d.input : \/ \E j \in DOMAIN chat.input : d.input[i] = chat.input[j]
                                    \/ d.input[i].kind \notin {"stub", "head", "page", "full"}
      BY <2>3, <2>5
    <3>3. QED BY <2>5, <3>1, <3>2, TranscriptFacts, RecallableKept
  <2>7. Restorable(d)
    BY <2>3, <2>5 DEF Restorable
  <2>8. InPhase'
    BY <1>1, <1>3, <2>1, <2>3, <2>5 DEF InPhase
  <2>9. QED
    BY <1>1, <1>3, <2>1, <2>5, <2>6, <2>7, <2>8, TranscriptFacts DEF TranscriptInv
<1>6. QED BY <1>4, <1>5

LEMMA SettleBoundaryStep ==
    ASSUME TranscriptInv, SettleBoundary
    PROVE  TranscriptInv'
<1> DEFINE d == [chat EXCEPT !.settled = TRUE]
<1>1. /\ chat' = d /\ savedChat' = d /\ phase = "settle" /\ phase' = "boundary"
      /\ unanswered' = unanswered /\ dispatches' = dispatches /\ deaths' = deaths
  BY DEF SettleBoundary, Saves
<1>2. chat \in Chat /\ InPhase
  BY TranscriptFacts
<1>3. Balanced(chat.input, Len(chat.input)) /\ unanswered = {}
  BY <1>1, <1>2 DEF InPhase
<1>4. /\ d \in Chat /\ d.input = chat.input /\ d.pages = chat.pages /\ d.results = chat.results
      /\ d.archives = chat.archives /\ d.refs = chat.refs /\ d.settled
  BY <1>2 DEF Chat
<1> HIDE DEF d
<1>5. Recallable(d)
  BY <1>4, TranscriptFacts, RecallableSame
<1>6. Restorable(d)
  BY <1>3, <1>4 DEF Restorable
<1>7. InPhase'
  BY <1>1, <1>3, <1>4 DEF InPhase
<1>8. QED
  BY <1>1, <1>3, <1>4, <1>5, <1>6, <1>7, TranscriptFacts DEF TranscriptInv

LEMMA HandoffStep ==
    ASSUME TranscriptInv, Handoff
    PROVE  TranscriptInv'
<1> DEFINE d == [chat EXCEPT !.refs = ArchiveRefs(chat), !.archives = {},
                             !.marker = FALSE, !.pruned = FALSE]
<1>1. /\ chat' = d /\ savedChat' = d /\ phase = "boundary" /\ phase' = phase
      /\ unanswered' = unanswered /\ dispatches' = dispatches
      /\ deaths < MaxDeaths /\ deaths' = deaths + 1
  BY DEF Handoff, Saves
<1>2. chat \in Chat /\ InPhase /\ deaths \in 0 .. MaxDeaths /\ MaxDeaths \in Nat
  BY TranscriptFacts
<1>3. Balanced(chat.input, Len(chat.input)) /\ unanswered = {}
  BY <1>1, <1>2 DEF InPhase
<1>4. /\ d \in Chat /\ d.input = chat.input /\ d.pages = chat.pages /\ d.results = chat.results
      /\ d.archives = {} /\ d.refs = chat.refs \cup chat.archives /\ ~d.marker
  BY <1>2 DEF Chat, ArchiveRefs
<1> HIDE DEF d
<1>5. Recallable(d)
  <2>1. Findable(chat) \subseteq Findable(d)
    BY <1>4 DEF Findable
  <2>2. \A i \in DOMAIN d.input : \E j \in DOMAIN chat.input : d.input[i] = chat.input[j]
    BY <1>4
  <2>3. QED BY <1>4, <2>1, <2>2, TranscriptFacts, RecallableKept
<1>6. Restorable(d)
  BY <1>3, <1>4 DEF Restorable
<1>7. InPhase'
  BY <1>1, <1>3, <1>4 DEF InPhase
<1>8. deaths' \in 0 .. MaxDeaths
  BY <1>1, <1>2
<1>9. QED
  BY <1>1, <1>3, <1>4, <1>5, <1>6, <1>7, <1>8, TranscriptFacts DEF TranscriptInv

LEMMA DiesStep ==
    ASSUME TranscriptInv, Dies
    PROVE  TranscriptInv'
<1>1. /\ chat' = savedChat /\ savedChat' = savedChat /\ phase' = "lost" /\ unanswered' = {}
      /\ dispatches' = dispatches /\ deaths < MaxDeaths /\ deaths' = deaths + 1
  BY DEF Dies
<1>2. deaths' \in 0 .. MaxDeaths
  BY <1>1, TranscriptFacts
<1>3. InPhase'
  BY <1>1 DEF InPhase
<1>4. QED
  BY <1>1, <1>2, <1>3, TranscriptFacts DEF TranscriptInv

LEMMA ResumeTranscriptStep ==
    ASSUME TranscriptInv, ResumeTranscript
    PROVE  TranscriptInv'
<1>1. /\ phase = "lost" /\ chat' = chat /\ savedChat' = savedChat /\ unanswered' = unanswered
      /\ dispatches' = dispatches /\ deaths' = deaths
      /\ phase' = IF chat.pending THEN "ended"
                  ELSE IF chat.settled THEN "boundary"
                  ELSE IF chat.marker /\ CompactionOnly(chat.response)
                  THEN IF chat.pruned THEN "settle" ELSE "advance"
                  ELSE "ended"
  BY DEF ResumeTranscript
<1>2. InPhase /\ Restorable(savedChat) /\ chat.response \in Seq(ItemSet)
  BY TranscriptFacts
<1>3. chat = savedChat /\ unanswered = {}
  BY <1>1, <1>2 DEF InPhase
<1>4. phase' \in {"boundary", "settle"} => Balanced(chat.input, Len(chat.input))
  BY <1>1, <1>2, <1>3 DEF Restorable
<1>5. ASSUME phase' = "advance"
      PROVE  WellFormed(chat.response) /\ Grown(chat.input, chat.response, CallsOf(chat.response))
  <2>1. CompactionOnly(chat.response) /\ Grown(chat.input, chat.response, {})
    BY <1>1, <1>2, <1>3, <1>5 DEF Restorable
  <2>2. \A i \in DOMAIN chat.response : chat.response[i] = Compaction
    BY <2>1 DEF CompactionOnly, Range
  <2>3. CallsOf(chat.response) = {}
    BY <2>2, Kinds DEF CallsOf
  <2>4. QED BY <2>1, <2>2, <2>3 DEF WellFormed
<1>6. phase' \in {"ended", "boundary", "settle", "advance"}
  BY <1>1
<1>7. InPhase'
  BY <1>1, <1>3, <1>4, <1>5, <1>6 DEF InPhase
<1>8. QED
  BY <1>1, <1>3, <1>6, <1>7, TranscriptFacts DEF TranscriptInv

LEMMA TranscriptInitial ==
    TranscriptInit => TranscriptInv
<1> SUFFICES ASSUME TranscriptInit PROVE TranscriptInv
  OBVIOUS
<1>1. /\ chat = NewChat /\ savedChat = NewChat /\ phase = "boundary" /\ unanswered = {}
      /\ dispatches = [id \in CallId |-> 0] /\ deaths = 0
  BY DEF TranscriptInit
<1>2. /\ <<Anchor>> \in Seq(ItemSet) /\ Len(<<Anchor>>) = 1 /\ DOMAIN <<Anchor>> = 1 .. 1
      /\ <<Anchor>>[1] = Anchor
  BY Kinds
<1>3. /\ NewChat.input = <<Anchor>> /\ NewChat.settled /\ NewChat.pages = {} /\ NewChat \in Chat
  <2>1. <<>> \in Seq(ItemSet) /\ 0 \in 0 .. MaxResponses
    BY TranscriptAssumption
  <2>2. QED BY <1>2, <2>1 DEF NewChat, Chat
<1>4. Recallable(NewChat)
  <2>1. \A i \in DOMAIN <<Anchor>> : <<Anchor>>[i].kind = "anchor"
    BY <1>2, Kinds
  <2>2. QED BY <1>3, <2>1 DEF Recallable
<1>5. Balanced(<<Anchor>>, Len(<<Anchor>>))
  <2>1. \A i \in 1 .. 1 : ~IsCall(<<Anchor>>[i]) /\ ~IsOutput(<<Anchor>>[i])
    BY <1>2, Kinds
  <2>2. QED BY <1>2, <2>1 DEF Balanced
<1>6. Restorable(NewChat)
  BY <1>3, <1>5 DEF Restorable
<1>7. InPhase
  BY <1>1, <1>3, <1>5 DEF InPhase
<1>8. deaths \in 0 .. MaxDeaths /\ dispatches \in [CallId -> Nat]
      /\ \A id \in CallId : dispatches[id] <= 1
  BY <1>1, TranscriptAssumption
<1>9. QED
  BY <1>1, <1>3, <1>4, <1>6, <1>7, <1>8 DEF TranscriptInv

LEMMA TranscriptStep ==
    TranscriptInv /\ [TranscriptNext]_transcriptVars => TranscriptInv'
<1> SUFFICES ASSUME TranscriptInv, [TranscriptNext]_transcriptVars
             PROVE  TranscriptInv'
  OBVIOUS
<1>1. CASE SendTurn
  BY <1>1, SendTurnStep
<1>2. CASE SettleResponse
  BY <1>2, SettleResponseStep
<1>3. CASE Recall
  BY <1>3, RecallStep
<1>4. CASE MarkCall
  BY <1>4, MarkCallStep
<1>5. CASE AnswerCall
  BY <1>5, AnswerCallStep
<1>6. CASE CallsDone
  BY <1>6, CallsDoneStep
<1>7. CASE Advance
  BY <1>7, AdvanceStep
<1>8. CASE SettleBoundary
  BY <1>8, SettleBoundaryStep
<1>9. CASE Handoff
  BY <1>9, HandoffStep
<1>10. CASE Dies
  BY <1>10, DiesStep
<1>11. CASE ResumeTranscript
  BY <1>11, ResumeTranscriptStep
<1>12. CASE \E items \in Responses : ReceiveResponse(items)
  BY <1>12, ReceiveResponseStep
<1>13. CASE UNCHANGED transcriptVars
  <2>1. Present' = Present
    BY <1>13 DEF transcriptVars, Present
  <2>2. QED
    BY <1>13, <2>1 DEF transcriptVars, TranscriptInv, InPhase, OpenCalls
<1>14. QED
  BY <1>1, <1>2, <1>3, <1>4, <1>5, <1>6, <1>7, <1>8, <1>9, <1>10, <1>11, <1>12, <1>13
     DEF TranscriptNext

\* The invariant says what the run checks: a stub leads to a stored result, a boundary
\* finds calls and outputs paired.
LEMMA TranscriptImplies ==
    TranscriptInv => TranscriptWhole
<1> SUFFICES ASSUME TranscriptInv PROVE TranscriptWhole
  OBVIOUS
<1>1. TranscriptTypeOK
  <2>1. ASSUME NEW c \in {chat, savedChat}
        PROVE  /\ \A i \in DOMAIN c.input : /\ c.input[i].id \in CallId \cup {Nil}
                                            /\ c.input[i].of \in CallId \cup {Nil}
               /\ c.results \cup c.pages \subseteq CallId \X (0 .. MaxResponses)
               /\ c.archives \subseteq CallId /\ c.refs \subseteq CallId
    <3>1. c \in Chat
      BY TranscriptFacts
    <3>2. c.input \in Seq(ItemSet)
      BY <3>1 DEF Chat
    <3>3. \A i \in DOMAIN c.input : c.input[i] \in ItemSet
      BY <3>2
    <3>4. QED BY <3>1, <3>3 DEF Chat, Entries, ItemSet
  <2>2. QED BY <2>1 DEF TranscriptTypeOK, TranscriptInv
<1>2. StubsRecallable
  BY TranscriptFacts DEF Recallable, StubsRecallable
<1>3. CallsPaired
  <2>1. SUFFICES ASSUME phase = "boundary"
                 PROVE  /\ \A i \in DOMAIN chat.input : IsOutput(chat.input[i]) =>
                              \E j \in 1 .. i - 1 : /\ IsCall(chat.input[j])
                                                    /\ chat.input[j].id = chat.input[i].id
                        /\ \A i \in DOMAIN chat.input : IsCall(chat.input[i]) =>
                              \E j \in DOMAIN chat.input : /\ j > i /\ IsOutput(chat.input[j])
                                                           /\ chat.input[j].id = chat.input[i].id
    BY DEF CallsPaired
  <2>2. Balanced(chat.input, Len(chat.input)) /\ DOMAIN chat.input = 1 .. Len(chat.input)
        /\ Len(chat.input) \in Nat
    BY <2>1, TranscriptFacts DEF InPhase
  <2>3. ASSUME NEW i \in DOMAIN chat.input, IsCall(chat.input[i])
        PROVE  \E j \in DOMAIN chat.input : /\ j > i /\ IsOutput(chat.input[j])
                                            /\ chat.input[j].id = chat.input[i].id
    <3>1. PICK j \in i + 1 .. Len(chat.input) : /\ IsOutput(chat.input[j])
                                                /\ chat.input[j].id = chat.input[i].id
      BY <2>2, <2>3 DEF Balanced
    <3>2. j \in DOMAIN chat.input /\ j > i
      BY <2>2
    <3>3. QED BY <3>1, <3>2
  <2>4. QED BY <2>2, <2>3 DEF Balanced
<1>4. \A id \in CallId : dispatches[id] <= 1
  BY DEF TranscriptInv
<1>5. QED BY <1>1, <1>2, <1>3, <1>4 DEF TranscriptWhole

\* The transcript that is sent is whole, whatever the responses, the crashes and the
\* handoffs: what elision, truncation or pruning took out of the input of _prepare_request
\* can be recalled, no output stands without its call, and no tool runs twice for one call.
THEOREM TranscriptSafety ==
    TranscriptSpec => []TranscriptWhole
<1>1. TranscriptInit => TranscriptInv
  BY TranscriptInitial
<1>2. TranscriptInv /\ [TranscriptNext]_transcriptVars => TranscriptInv'
  BY TranscriptStep
<1>3. TranscriptInv => TranscriptWhole
  BY TranscriptImplies
<1>4. QED BY <1>1, <1>2, <1>3, PTL DEF TranscriptSpec
=============================================================================
