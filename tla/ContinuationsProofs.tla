-------------------------- MODULE ContinuationsProofs --------------------------
(***************************************************************************)
(* Proof that the sessions of a task stay one chain and that no model      *)
(* request is sent twice, for any number of executors, deaths and leases   *)
(* that expire under a working executor.                                   *)
(*                                                                         *)
(* Neither half of ChainSound is inductive.  That a turn is sent once      *)
(* rests on what is saved, on what each executor has in memory and on      *)
(* their fences: Current says that only the holder of the newest fence     *)
(* agrees with the saved session, AboutToSend what a stale executor that   *)
(* is past its last check may still do, and SentOnce which turns a         *)
(* recovery can find unsent.                                               *)
(*                                                                         *)
(* A second part, for one executor at a time, shows that a completed task  *)
(* has a complete chain: what was read before the lease still holds under  *)
(* it (Knows).                                                             *)
(***************************************************************************)
EXTENDS Continuations, FiniteSetTheorems, TLAPS

USE ContinuationsAssumption
-----------------------------------------------------------------------------
(* The inductive invariant. *)

\* Steps whose operation is marked as pending.
Marked == {"marked", "reserved", "sent", "refused", "received", "paid", "tool"}

\* The turns after the first n of session k have not been sent.
Unsent(k, n) == \A t \in Turn : t > n => sent[<<k, t>>] = 0

\* Recovery never takes up a session again whose request may have been sent and whose
\* answer is not saved.
Spoilt(k) ==
    \/ session[k].pending
    \/ session[k].status = "uncertain"
    \/ session[k].status = "failed" /\ ~session[k].terminal

\* Fences: no two executors have the same, and none is newer than the lease's.
Fences ==
    /\ lease.live => lease.fence # 0
    /\ \A e \in Executor : exec[e].fence =< lease.fence
    /\ \A e, f \in Executor : exec[e].fence = exec[f].fence /\ e # f => exec[e].fence = 0

\* Sessions are created in order, and what is not created is as new.
InOrder ==
    \E n \in 0 .. MaxSessions : \A k \in Ordinal :
        /\ session[k].status # "none" <=> k =< n
        /\ session[k].status = "none" => session[k] = Unopened

\* What the place of an executor says of its own record.
Stands(r) ==
    /\ r.pc \in InSession \cup AfterSession \cup {"failed"} <=> r.fence # 0
    /\ r.pc \in InSession \cup {"handed", "reissue"} => r.s \in 1 .. Sessions
    /\ r.mode = "recover" /\ r.pc \in {"planned", "held"} => r.s \in 1 .. Sessions
    /\ r.mode = "ticket" /\ r.pc \in {"restore", "planned", "held"} => r.s \in Ordinal
    /\ r.pc \in InSession =>
        /\ r.mem.pending <=> r.pc \in Marked
        /\ r.mem.status \in {"ready", "running", "interrupted", "failed", "completed"}
        /\ r.mem.terminal => r.pc \in {"boundary", "asked"}
    /\ r.pc \in {"marked", "reserved"} => r.mem.turns < MaxTurns

\* The executor whose fence is the lease's has in memory what is saved; only the mark
\* of an answer is cleared there first.  It sends a turn at most once.
Current(r) ==
    r.fence = lease.fence /\ r.pc \in InSession =>
        /\ session[r.s] = IF r.pc = "answered" THEN [r.mem EXCEPT !.pending = TRUE] ELSE r.mem
        /\ r.pc \notin {"sent", "refused"} => Unsent(r.s, r.mem.turns)

\* An executor that is about to send may be stale.  The session is as it was saved,
\* with the mark, and whoever else has it in memory is staler.
AboutToSend(e) ==
    exec[e].pc = "reserved" =>
        /\ session[exec[e].s].pending /\ session[exec[e].s].turns = exec[e].mem.turns
        /\ Unsent(exec[e].s, exec[e].mem.turns)
        /\ \A f \in Executor : f # e /\ exec[f].pc \in InSession /\ exec[f].s = exec[e].s =>
              exec[f].fence < exec[e].fence

SentOnce ==
    \A k \in Ordinal : /\ \A t \in Turn : sent[<<k, t>>] =< 1
                       /\ Unsent(k, session[k].turns + 1)
                       /\ ~Spoilt(k) => Unsent(k, session[k].turns)

\* The tickets: all but the last are started, and the last leads to the last session.
LinksInOrder ==
    /\ task.count =< MaxSessions /\ task.consumed =< task.count
    /\ task.ready \in {0, task.count}
    /\ task.ready # 0 => link[task.ready].status = "issued"
    /\ \A k \in Ordinal :
        /\ link[k].status # "none" <=> k =< task.count
        /\ k =< task.count => link[k].source = k /\ session[k].status = "handed_off"
        /\ link[k].successor = IF link[k].status = "started" THEN k + 1 ELSE 0
        /\ k < task.count => link[k].status = "started"
    /\ IF task.count = 0 THEN Sessions =< 1
       ELSE Sessions = IF link[task.count].status = "started" THEN task.count + 1
                       ELSE task.count

ChainInv ==
    /\ ChainTypeOK
    /\ Fences
    /\ InOrder
    /\ \A e \in Executor : Stands(exec[e])
    /\ \A e \in Executor : Current(exec[e])
    /\ \A e \in Executor : AboutToSend(e)
    /\ SentOnce
    /\ LinksInOrder

-----------------------------------------------------------------------------
(* Lemmas: bounds, counting, and one step of one executor. *)

LEMMA ChainBounds ==
    /\ MaxSessions \in Nat /\ MaxSessions > 0 /\ MaxTurns \in Nat /\ MaxTurns > 0
    /\ MaxRecoveries \in Nat /\ MaxChainFaults \in Nat
    /\ Ordinal \subseteq Nat \ {0} /\ Turn \subseteq Nat \ {0}
BY DEF Ordinal, Turn

LEMMA StartTypes ==
    /\ Unopened \in Checkpoint /\ Idle \in RunType
    /\ Idle.pc = "off" /\ Idle.fence = 0
    /\ Unopened.status = "none" /\ Unopened.turns = 0 /\ ~Unopened.pending
<1>1. Unopened \in Checkpoint /\ Unopened.status = "none" /\ Unopened.turns = 0 /\ ~Unopened.pending
  BY DEF Unopened, Checkpoint
<1>2. Idle \in RunType /\ Idle.pc = "off" /\ Idle.fence = 0
  BY <1>1 DEF Idle, RunType, ChainStep
<1>3. QED BY <1>1, <1>2

\* How many sessions there are when they are created in order.
LEMMA CountInOrder ==
    ASSUME NEW f, NEW n \in 0 .. MaxSessions,
           \A k \in Ordinal : f[k].status # "none" <=> k =< n
    PROVE  Cardinality({k \in Ordinal : f[k].status # "none"}) = n
<1>1. n \in Nat /\ n =< MaxSessions /\ n \in Int /\ 1 \in Int
  BY ChainBounds
<1>2. {k \in Ordinal : f[k].status # "none"} = 1 .. n
  BY <1>1, ChainBounds DEF Ordinal
<1>3. Cardinality(1 .. n) = IF 1 > n THEN 0 ELSE n - 1 + 1
  <2>1. 1 \in Int /\ n \in Int
    BY <1>1
  <2>2. QED BY ONLY <2>1, FS_Interval
<1>4. (IF 1 > n THEN 0 ELSE n - 1 + 1) = n
  BY <1>1
<1>5. Cardinality(1 .. n) = n
  BY ONLY <1>3, <1>4
<1>6. QED BY ONLY <1>2, <1>5

LEMMA SessionCount ==
    ASSUME InOrder
    PROVE  /\ Sessions \in 0 .. MaxSessions /\ Sessions \in Nat
           /\ \A k \in Ordinal : session[k].status # "none" <=> k =< Sessions
           /\ \A k \in Ordinal : session[k].status = "none" => session[k] = Unopened
<1>1. PICK n \in 0 .. MaxSessions : \A k \in Ordinal :
        /\ session[k].status # "none" <=> k =< n
        /\ session[k].status = "none" => session[k] = Unopened
  BY DEF InOrder
<1>2. Sessions = n
  BY <1>1, CountInOrder DEF Sessions
<1>3. QED BY <1>1, <1>2, ChainBounds

LEMMA SessionCountNext ==
    ASSUME InOrder'
    PROVE  /\ Sessions' \in 0 .. MaxSessions /\ Sessions' \in Nat
           /\ \A k \in Ordinal : session'[k].status # "none" <=> k =< Sessions'
<1>1. PICK n \in 0 .. MaxSessions : \A k \in Ordinal : session'[k].status # "none" <=> k =< n
  BY DEF InOrder
<1>2. Sessions' = n
  BY <1>1, CountInOrder DEF Sessions
<1>3. QED BY <1>1, <1>2, ChainBounds

\* Who holds the lease's fence is alone with it.
LEMMA Alone ==
    ASSUME ChainTypeOK, Fences, NEW e \in Executor, exec[e].fence = lease.fence, lease.fence # 0,
           NEW f \in Executor, f # e
    PROVE  exec[f].fence < lease.fence
<1>1. exec[f].fence \in Nat /\ exec[e].fence \in Nat /\ lease.fence \in Nat
  BY DEF ChainTypeOK, RunType
<1>2. exec[f].fence =< lease.fence /\ exec[f].fence # lease.fence
  BY DEF Fences
<1>3. QED BY <1>1, <1>2

\* One executor takes a step to the record r, and session k is perhaps saved, by the
\* executor with the lease's fence and while no other is about to send a turn of it.
MovesTo(e, r, k) ==
    /\ exec' = [exec EXCEPT ![e] = r] /\ r.fence \in {0, exec[e].fence}
    /\ lease' \in [fence : Nat, live : BOOLEAN] /\ lease'.fence = lease.fence
    /\ lease'.live => lease.live
    /\ task' \in Task /\ link' \in [Ordinal -> Link] /\ bill' \in {"none", "open", "paid"}
    /\ chainFaults' \in Nat /\ sent' = sent
    /\ session' \in [Ordinal -> Checkpoint]
    /\ \A j \in Ordinal : j # k => session'[j] = session[j]
    /\ \/ session'[k] = session[k]
       \/ /\ exec[e].fence = lease.fence /\ lease.fence # 0
          /\ \A f \in Executor : f # e /\ exec[f].pc = "reserved" => exec[f].s # k
    /\ InOrder' /\ Sessions =< Sessions' /\ LinksInOrder'
    /\ Stands(r)' /\ Current(r)'
    /\ r.pc = "reserved" =>
        /\ session'[r.s].pending /\ session'[r.s].turns = r.mem.turns
        /\ Unsent(r.s, r.mem.turns)
        /\ \A f \in Executor : f # e /\ exec[f].pc \in InSession /\ exec[f].s = r.s =>
              exec[f].fence < r.fence
    /\ \A f \in Executor : f # e /\ exec[f].pc = "reserved" /\ r.pc \in InSession
          /\ r.s = exec[f].s => r.fence < exec[f].fence
    /\ Unsent(k, session'[k].turns + 1)
    /\ Spoilt(k)' \/ Unsent(k, session'[k].turns)

LEMMA Moves ==
    ASSUME ChainInv, NEW e \in Executor, NEW r \in RunType, NEW k \in Ordinal,
           MovesTo(e, r, k)
    PROVE  ChainInv'
<1> USE DEF MovesTo
<1>1. ChainTypeOK /\ Fences /\ InOrder /\ SentOnce
  BY DEF ChainInv
<1>2. /\ exec' \in [Executor -> RunType] /\ exec'[e] = r
      /\ \A f \in Executor : f # e => exec'[f] = exec[f]
  BY <1>1 DEF ChainTypeOK
<1>3. ChainTypeOK'
  BY <1>1, <1>2 DEF ChainTypeOK
<1>4. Fences'
  <2>1. r.fence =< lease.fence
    <3>1. exec[e].fence =< lease.fence /\ 0 =< lease.fence
      BY <1>1 DEF Fences, ChainTypeOK
    <3>2. QED BY <3>1
  <2>2. \A f, g \in Executor : exec'[f].fence = exec'[g].fence /\ f # g => exec'[f].fence = 0
    <3>1. \A f \in Executor : exec'[f].fence \in {0, exec[f].fence}
      BY <1>2
    <3>2. QED BY <1>1, <3>1 DEF Fences
  <2>3. QED BY <1>1, <1>2, <2>1, <2>2 DEF Fences
<1>5. Sessions \in Nat /\ Sessions' \in Nat
  <2>1. Sessions \in 0 .. MaxSessions
    BY <1>1, SessionCount
  <2>2. Sessions' \in 0 .. MaxSessions
    BY SessionCountNext
  <2>3. QED BY <2>1, <2>2, ChainBounds
<1>6. \A f \in Executor : Stands(exec[f])'
  <2>1. ASSUME NEW f \in Executor, f # e PROVE Stands(exec[f])'
    <3>1. exec'[f] = exec[f] /\ Stands(exec[f]) /\ exec[f].s \in Nat
      BY <1>1, <1>2, <2>1 DEF ChainInv, ChainTypeOK, RunType
    <3>2. exec[f].s \in 1 .. Sessions => exec[f].s \in 1 .. Sessions'
      BY <1>5, <3>1
    <3>3. QED BY <3>1, <3>2 DEF Stands
  <2>2. QED BY <1>2, <2>1
<1>7. \A f \in Executor : Current(exec[f])'
  <2>1. ASSUME NEW f \in Executor, f # e PROVE Current(exec[f])'
    <3>1. exec'[f] = exec[f] /\ Current(exec[f]) /\ Stands(exec[f])
      BY <1>2, <2>1 DEF ChainInv
    <3>2. SUFFICES ASSUME exec[f].fence = lease.fence, exec[f].pc \in InSession
                   PROVE  session'[exec[f].s] = session[exec[f].s]
      <4>1. Unsent(exec[f].s, exec[f].mem.turns) => Unsent(exec[f].s, exec[f].mem.turns)'
        BY <3>1 DEF Unsent
      <4>2. QED BY <3>1, <4>1 DEF Current
    <3>3. lease.fence # 0 /\ exec[f].s \in Ordinal
      <4>1. Sessions =< MaxSessions /\ exec[f].s \in 1 .. Sessions
        BY <1>1, <3>1, <3>2, SessionCount DEF Stands
      <4>2. QED BY <1>5, <3>1, <3>2, <4>1, ChainBounds DEF Stands, Ordinal
    <3>4. exec[e].fence # lease.fence
      BY <1>1, <2>1, <3>2, <3>3 DEF Fences
    <3>5. QED BY <3>3, <3>4
  <2>2. QED BY <1>2, <2>1
<1>8. \A f \in Executor : AboutToSend(f)'
  <2>1. ASSUME NEW f \in Executor, f # e, exec[f].pc = "reserved"
        PROVE  AboutToSend(f)'
    <3>1. exec'[f] = exec[f] /\ AboutToSend(f)
      BY <1>2, <2>1 DEF ChainInv
    <3>2. exec[f].s \in Ordinal
      <4>1. Sessions =< MaxSessions /\ exec[f].s \in 1 .. Sessions
        BY <1>1, <2>1, SessionCount DEF ChainInv, Stands, InSession
      <4>2. QED BY <1>5, <4>1, ChainBounds DEF Ordinal
    <3>3. session'[exec[f].s] = session[exec[f].s]
      BY <2>1, <3>2
    <3>4. \A g \in Executor : g # f /\ exec'[g].pc \in InSession /\ exec'[g].s = exec[f].s =>
              exec'[g].fence < exec[f].fence
      BY <1>2, <2>1, <3>1 DEF AboutToSend
    <3>5. QED BY <2>1, <3>1, <3>3, <3>4 DEF AboutToSend, Unsent
  <2>2. ASSUME r.pc = "reserved" PROVE AboutToSend(e)'
    BY <1>2, <2>2 DEF AboutToSend, Unsent
  <2>3. \A f \in Executor : exec'[f].pc # "reserved" => AboutToSend(f)'
    BY DEF AboutToSend
  <2>4. QED BY <1>2, <2>1, <2>2, <2>3
<1>9. SentOnce'
  <2>1. ASSUME NEW j \in Ordinal
        PROVE  /\ \A t \in Turn : sent'[<<j, t>>] =< 1
               /\ Unsent(j, session[j].turns + 1)'
               /\ ~Spoilt(j)' => Unsent(j, session[j].turns)'
    <3>1. CASE j = k
      BY <1>1, <3>1 DEF SentOnce, Unsent
    <3>2. CASE j # k
      <4>1. session'[j] = session[j] /\ (Spoilt(j)' <=> Spoilt(j))
        BY <3>2 DEF Spoilt
      <4>2. QED BY <1>1, <4>1 DEF SentOnce, Unsent
    <3>3. QED BY <3>1, <3>2
  <2>2. QED BY <2>1 DEF SentOnce
<1>10. QED BY <1>3, <1>4, <1>6, <1>7, <1>8, <1>9 DEF ChainInv

\* What the invariant says of one executor.
LEMMA RunFacts ==
    ASSUME ChainInv, NEW e \in Executor
    PROVE  /\ exec[e] \in RunType /\ exec[e].mem \in Checkpoint
           /\ exec[e].s \in Nat /\ exec[e].fence \in Nat /\ exec[e].mem.turns \in Nat
           /\ lease.fence \in Nat /\ exec[e].fence =< lease.fence
           /\ Stands(exec[e]) /\ Current(exec[e])
           /\ exec[e].pc \in InSession \cup {"handed", "reissue"} =>
                 exec[e].s \in Ordinal /\ exec[e].s =< Sessions
<1>1. exec[e] \in RunType /\ lease.fence \in Nat
  BY DEF ChainInv, ChainTypeOK
<1>2. exec[e].mem \in Checkpoint /\ exec[e].s \in Nat /\ exec[e].fence \in Nat
  BY <1>1 DEF RunType
<1>3. exec[e].mem.turns \in Nat
  BY <1>2 DEF Checkpoint
<1>4. exec[e].fence =< lease.fence /\ Stands(exec[e]) /\ Current(exec[e])
  BY DEF ChainInv, Fences
<1>5. Sessions \in 0 .. MaxSessions
  BY SessionCount DEF ChainInv
<1>6. ASSUME exec[e].pc \in InSession \cup {"handed", "reissue"}
      PROVE  exec[e].s \in Ordinal /\ exec[e].s =< Sessions
  <2>1. exec[e].s \in 1 .. Sessions
    BY <1>4, <1>6 DEF Stands
  <2>2. QED BY <1>2, <1>5, <2>1, ChainBounds DEF Ordinal
<1>7. QED BY <1>1, <1>2, <1>3, <1>4, <1>6

LEMMA SessionFacts ==
    ASSUME ChainInv
    PROVE  /\ session \in [Ordinal -> Checkpoint] /\ link \in [Ordinal -> Link]
           /\ task \in Task /\ lease \in [fence : Nat, live : BOOLEAN]
           /\ bill \in {"none", "open", "paid"} /\ chainFaults \in Nat
           /\ exec \in [Executor -> RunType] /\ sent \in [Ordinal \X Turn -> Nat]
           /\ Sessions \in Nat /\ Sessions =< MaxSessions
           /\ \A k \in Ordinal : session[k].status # "none" <=> k =< Sessions
           /\ \A k \in Ordinal : session[k].status = "none" => session[k] = Unopened
           /\ \A k \in Ordinal : session[k].turns \in Nat
           /\ Fences /\ InOrder /\ SentOnce /\ LinksInOrder
<1>1. ChainTypeOK /\ Fences /\ InOrder /\ SentOnce /\ LinksInOrder
  BY DEF ChainInv
<1>2. Sessions \in 0 .. MaxSessions /\ Sessions \in Nat
  BY <1>1, SessionCount
<1>3. Sessions =< MaxSessions
  BY <1>2, ChainBounds
<1>4. \A k \in Ordinal : session[k].turns \in Nat
  BY <1>1 DEF ChainTypeOK, Checkpoint
<1>5. QED BY <1>1, <1>2, <1>3, <1>4, SessionCount DEF ChainTypeOK

\* An executor goes to a place outside a session, and no session is touched.
LEMMA OutOfSession ==
    ASSUME ChainInv, NEW e \in Executor, NEW r \in RunType,
           exec' = [exec EXCEPT ![e] = r], r.fence \in {0, exec[e].fence},
           r.pc \notin InSession, Stands(r),
           lease' \in [fence : Nat, live : BOOLEAN], lease'.fence = lease.fence,
           lease'.live => lease.live,
           task' \in Task, link' \in [Ordinal -> Link], bill' \in {"none", "open", "paid"},
           chainFaults' \in Nat, sent' = sent, session' = session, LinksInOrder'
    PROVE  ChainInv'
<1>1. 1 \in Ordinal
  BY ChainBounds DEF Ordinal
<1>2. InOrder' /\ Sessions' = Sessions
  BY SessionFacts DEF InOrder, Sessions
<1>3. Stands(r)' /\ Current(r)'
  BY <1>2 DEF Stands, Current
<1>4. Sessions =< Sessions' /\ session' \in [Ordinal -> Checkpoint]
  BY <1>2, SessionFacts
<1>5. Unsent(1, session'[1].turns + 1) /\ (Spoilt(1)' \/ Unsent(1, session'[1].turns))
  BY <1>1, SessionFacts DEF SentOnce, Spoilt
<1>6. r.pc # "reserved"
  BY DEF InSession
<1>7. MovesTo(e, r, 1)
  BY <1>2, <1>3, <1>4, <1>5, <1>6 DEF MovesTo
<1>8. QED BY <1>1, <1>7, Moves

\* An executor leaves, and the tickets stay as they are.
LEMMA Leaves ==
    ASSUME ChainInv, NEW e \in Executor, Leave(e),
           lease' \in [fence : Nat, live : BOOLEAN], lease'.fence = lease.fence,
           lease'.live => lease.live,
           task' \in Task, link' \in [Ordinal -> Link], bill' \in {"none", "open", "paid"},
           chainFaults' \in Nat, sent' = sent, session' = session, LinksInOrder'
    PROVE  ChainInv'
<1>1. exec' = [exec EXCEPT ![e] = Idle]
  BY DEF Leave
<1>2. Idle \in RunType /\ Idle.fence \in {0, exec[e].fence} /\ Idle.pc \notin InSession
  BY StartTypes DEF InSession
<1>3. Stands(Idle)
  BY StartTypes DEF Stands, Idle, InSession, AfterSession
<1>4. QED BY <1>1, <1>2, <1>3, OutOfSession

\* The tickets are in order as long as nothing of theirs changes.
LEMMA LinksStay ==
    ASSUME ChainInv, link' = link, session' = session,
           task'.count = task.count, task'.consumed = task.consumed, task'.ready = task.ready
    PROVE  LinksInOrder'
<1>1. Sessions' = Sessions
  BY DEF Sessions
<1>2. QED BY <1>1, SessionFacts DEF LinksInOrder

\* An executor goes on in its session, and no session is saved.
LEMMA StaysInSession ==
    ASSUME ChainInv, NEW e \in Executor, NEW r \in RunType,
           exec' = [exec EXCEPT ![e] = r],
           exec[e].pc \in InSession, r.fence = exec[e].fence, r.s = exec[e].s,
           Stands(r), Current(r),
           r.pc = "reserved" => exec[e].pc = "marked" /\ r.mem = exec[e].mem /\ Owns(e),
           lease' = lease, chainFaults' = chainFaults, link' = link,
           task' \in Task, bill' \in {"none", "open", "paid"},
           task'.count = task.count, task'.consumed = task.consumed, task'.ready = task.ready,
           sent' = sent, session' = session
    PROVE  ChainInv'
<1>1. PICK k \in Ordinal : k = exec[e].s
  BY RunFacts
<1>2. InOrder' /\ Sessions' = Sessions /\ LinksInOrder'
  BY SessionFacts, LinksStay DEF InOrder, Sessions
<1>3. Stands(r)' /\ Current(r)'
  BY <1>2 DEF Stands, Current, Unsent
<1>4. Unsent(k, session'[k].turns + 1) /\ (Spoilt(k)' \/ Unsent(k, session'[k].turns))
  BY <1>1, SessionFacts DEF SentOnce, Spoilt
<1>5. ASSUME r.pc = "reserved"
      PROVE  /\ session'[r.s].pending /\ session'[r.s].turns = r.mem.turns
             /\ Unsent(r.s, r.mem.turns)
             /\ \A f \in Executor : f # e /\ exec[f].pc \in InSession /\ exec[f].s = r.s =>
                   exec[f].fence < r.fence
  <2>1. exec[e].fence = lease.fence /\ lease.fence # 0 /\ exec[e].pc = "marked"
    BY <1>5, SessionFacts DEF Owns, Fences
  <2>2. session[k] = exec[e].mem /\ exec[e].mem.pending /\ Unsent(exec[e].s, exec[e].mem.turns)
    BY <1>1, <2>1, RunFacts DEF Stands, Current, InSession, Marked
  <2>3. \A f \in Executor : f # e => exec[f].fence < exec[e].fence
    BY <2>1, Alone DEF ChainInv
  <2>4. QED BY <1>1, <1>5, <2>2, <2>3
<1>6. ASSUME NEW f \in Executor, f # e, exec[f].pc = "reserved", r.s = exec[f].s
      PROVE  r.fence < exec[f].fence
  BY <1>6 DEF ChainInv, AboutToSend
<1>7. Sessions =< Sessions' /\ session' \in [Ordinal -> Checkpoint]
      /\ lease' \in [fence : Nat, live : BOOLEAN] /\ link' \in [Ordinal -> Link]
      /\ chainFaults' \in Nat
  BY <1>2, SessionFacts
<1>8. MovesTo(e, r, k)
  BY <1>2, <1>3, <1>4, <1>5, <1>6, <1>7 DEF MovesTo
<1>9. QED BY <1>8, Moves

\* Under the lease an executor saves the session it has in memory.
LEMMA Saves ==
    ASSUME ChainInv, NEW e \in Executor, NEW c \in Checkpoint, NEW pc \in ChainStep,
           exec[e].pc \in InSession, SaveSession(e, c, pc), c.status # "none",
           Stands([exec[e] EXCEPT !.pc = pc, !.mem = c]),
           pc \notin {"reserved", "sent", "refused", "answered"},
           \/ Unsent(exec[e].s, c.turns)
           \/ /\ pc \notin InSession /\ Unsent(exec[e].s, c.turns + 1)
              /\ \/ c.status = "uncertain"
                 \/ c.status = "failed" /\ ~c.terminal,
           bill' \in {"none", "open", "paid"},
           UNCHANGED <<task, lease, link, sent, chainFaults>>
    PROVE  ChainInv'
<1>1. PICK k \in Ordinal : k = exec[e].s /\ k =< Sessions /\ exec[e] \in RunType
  BY RunFacts
<1>2. PICK r \in RunType : /\ r = [exec[e] EXCEPT !.pc = pc, !.mem = c] /\ r.pc = pc
                           /\ r.mem = c /\ r.s = k /\ r.fence = exec[e].fence
  <2> DEFINE x == [exec[e] EXCEPT !.pc = pc, !.mem = c]
  <2>1. x \in RunType
    BY <1>1 DEF RunType
  <2>2. x.pc = pc /\ x.mem = c /\ x.s = exec[e].s /\ x.fence = exec[e].fence
    BY <1>1 DEF RunType
  <2> HIDE DEF x
  <2>3. QED BY <1>1, <2>1, <2>2 DEF x
<1>3. session' = [session EXCEPT ![k] = c] /\ exec' = [exec EXCEPT ![e] = r]
      /\ exec[e].fence = lease.fence /\ lease.fence # 0
  BY <1>1, <1>2, SessionFacts DEF SaveSession, Owns, Fences
<1>4. /\ session' \in [Ordinal -> Checkpoint] /\ session'[k] = c
      /\ \A j \in Ordinal : j # k => session'[j] = session[j]
  BY <1>1, <1>3, SessionFacts
<1>5. session[k].status # "handed_off" /\ session[k].status # "none"
  <2>1. session[k].status = exec[e].mem.status
    <3>1. exec[e].mem \in Checkpoint /\ session[k] \in Checkpoint
      BY <1>1, RunFacts, SessionFacts
    <3>2. [exec[e].mem EXCEPT !.pending = TRUE].status = exec[e].mem.status
      BY <3>1 DEF Checkpoint
    <3>3. QED BY <1>1, <1>3, <3>2, RunFacts DEF Current
  <2>2. QED BY <2>1, RunFacts DEF Stands
<1>6. InOrder' /\ Sessions' = Sessions
  <2>1. \A j \in Ordinal : session'[j].status # "none" <=> session[j].status # "none"
    BY <1>4, <1>5
  <2>2. \A j \in Ordinal : session'[j].status = "none" => session'[j] = Unopened
    BY <1>4, SessionFacts
  <2>3. Sessions' = Sessions
    BY <2>1 DEF Sessions
  <2>4. Sessions \in 0 .. MaxSessions
    BY SessionFacts, ChainBounds
  <2>5. QED BY <2>1, <2>2, <2>3, <2>4, SessionFacts DEF InOrder
<1>7. LinksInOrder'
  <2>1. task.count < k
    <3>1. ~(k =< task.count)
      BY <1>1, <1>5, SessionFacts DEF LinksInOrder
    <3>2. k \in Nat /\ task.count \in Nat
      BY <1>1, SessionFacts, ChainBounds DEF Task
    <3>3. QED BY <3>1, <3>2
  <2>2. \A j \in Ordinal : j =< task.count => session'[j] = session[j]
    BY <1>4, <1>5, SessionFacts DEF LinksInOrder
  <2>3. QED BY <1>6, <2>2, SessionFacts DEF LinksInOrder
<1>8. Stands(r)'
  BY <1>2, <1>6 DEF Stands
<1>9. Unsent(k, session'[k].turns + 1) /\ (Spoilt(k)' \/ Unsent(k, session'[k].turns))
  <2>1. c.turns \in Nat
    BY DEF Checkpoint
  <2>2. Unsent(k, c.turns) => Unsent(k, c.turns + 1)
    BY <2>1, ChainBounds DEF Unsent
  <2>3. QED BY <1>1, <1>4, <2>2 DEF Spoilt
<1>10. Current(r)'
  <2>1. pc \in InSession => Unsent(k, c.turns)'
    BY <1>1 DEF Unsent
  <2>2. QED BY <1>2, <1>4, <2>1 DEF Current
<1>11. \A f \in Executor : f # e /\ exec[f].pc = "reserved" => exec[f].s # k
  <2>1. ASSUME NEW f \in Executor, f # e, exec[f].pc = "reserved", exec[f].s = k
        PROVE  FALSE
    <3>1. exec[e].fence < exec[f].fence
      BY <1>1, <2>1 DEF ChainInv, AboutToSend
    <3>2. QED BY <1>3, <2>1, <3>1, RunFacts
  <2>2. QED BY <2>1
<1>12. Sessions =< Sessions'
  BY <1>6, SessionFacts
<1>13. QED
  <2>1. /\ lease' \in [fence : Nat, live : BOOLEAN] /\ lease'.fence = lease.fence
        /\ (lease'.live => lease.live) /\ task' \in Task /\ link' \in [Ordinal -> Link]
        /\ chainFaults' \in Nat /\ sent' = sent
    BY SessionFacts
  <2>2. r.fence \in {0, exec[e].fence} /\ r.pc # "reserved"
    BY <1>2
  <2>3. \A f \in Executor : f # e /\ exec[f].pc = "reserved" /\ r.pc \in InSession
            /\ r.s = exec[f].s => r.fence < exec[f].fence
    BY <1>2, <1>11
  <2>4. \/ session'[k] = session[k]
        \/ /\ exec[e].fence = lease.fence /\ lease.fence # 0
           /\ \A f \in Executor : f # e /\ exec[f].pc = "reserved" => exec[f].s # k
    BY <1>3, <1>11
  <2>5. r.pc = "reserved" =>
               /\ session'[r.s].pending /\ session'[r.s].turns = r.mem.turns
               /\ Unsent(r.s, r.mem.turns)
               /\ \A f \in Executor : f # e /\ exec[f].pc \in InSession /\ exec[f].s = r.s =>
                     exec[f].fence < r.fence
    BY <2>2
  <2>6. bill' \in {"none", "open", "paid"}
    OBVIOUS
  <2>7. MovesTo(e, r, k)
    BY ONLY <1>3, <1>4, <1>6, <1>7, <1>8, <1>9, <1>10, <1>12, <2>1, <2>2, <2>3, <2>4,
            <2>5, <2>6 DEF MovesTo
  <2>8. QED BY <2>7, Moves

\* An executor takes up session k, whose last turn nobody can still send.
LEMMA Enters ==
    ASSUME ChainInv, NEW e \in Executor, NEW r \in RunType, NEW k \in Ordinal,
           exec' = [exec EXCEPT ![e] = r], r.fence = exec[e].fence, Owns(e),
           r.pc \in {"begun", "boundary"}, r.s = k, r.mem = session'[k],
           session' \in [Ordinal -> Checkpoint],
           \A j \in Ordinal : j # k => session'[j] = session[j],
           ~session[k].pending, Unsent(k, session'[k].turns),
           Stands(r)', InOrder', Sessions =< Sessions', LinksInOrder',
           link' \in [Ordinal -> Link], UNCHANGED <<task, lease, bill, sent, chainFaults>>
    PROVE  ChainInv'
<1>1. exec[e].fence = lease.fence /\ lease.fence # 0
  BY SessionFacts DEF Owns, Fences
<1>2. \A f \in Executor : f # e /\ exec[f].pc = "reserved" => exec[f].s # k
  BY DEF ChainInv, AboutToSend
<1>3. Current(r)'
  <2>1. Unsent(k, r.mem.turns)'
    BY DEF Unsent
  <2>2. QED BY <2>1 DEF Current
<1>4. Unsent(k, session'[k].turns + 1)
  <2>1. session'[k].turns \in Nat
    BY DEF Checkpoint
  <2>2. QED BY <2>1, ChainBounds DEF Unsent
<1>5. /\ task' \in Task /\ bill' \in {"none", "open", "paid"} /\ chainFaults' \in Nat
      /\ lease' \in [fence : Nat, live : BOOLEAN] /\ lease'.fence = lease.fence
      /\ (lease'.live => lease.live) /\ sent' = sent
  BY SessionFacts
<1>6. MovesTo(e, r, k)
  BY <1>1, <1>2, <1>3, <1>4, <1>5 DEF MovesTo
<1>7. QED BY <1>6, Moves

\* No executor moves, and no session is touched.
LEMMA Outside ==
    ASSUME ChainInv, exec' = exec, session' = session, sent' = sent,
           lease' \in [fence : Nat, live : BOOLEAN], lease'.fence = lease.fence,
           lease'.live => lease.live,
           task' \in Task, link' \in [Ordinal -> Link], bill' \in {"none", "open", "paid"},
           chainFaults' \in Nat, LinksInOrder'
    PROVE  ChainInv'
<1>1. ChainTypeOK'
  BY DEF ChainInv, ChainTypeOK
<1>2. Fences' /\ InOrder' /\ SentOnce'
  BY SessionFacts DEF Fences, InOrder, SentOnce, Unsent, Spoilt
<1>3. Sessions' = Sessions
  BY DEF Sessions
<1>4. \A e \in Executor : Stands(exec[e])' /\ Current(exec[e])' /\ AboutToSend(e)'
  <2>1. ASSUME NEW e \in Executor
        PROVE  Stands(exec[e])' /\ Current(exec[e])' /\ AboutToSend(e)'
    <3>1. Stands(exec[e]) /\ Current(exec[e]) /\ AboutToSend(e)
      BY DEF ChainInv
    <3>2. Stands(exec[e])'
      BY <1>3, <3>1 DEF Stands
    <3>3. Current(exec[e])'
      BY <3>1 DEF Current, Unsent
    <3>4. AboutToSend(e)'
      BY <3>1 DEF AboutToSend, Unsent
    <3>5. QED BY <3>2, <3>3, <3>4
  <2>2. QED BY <2>1
<1>5. QED BY <1>1, <1>2, <1>4 DEF ChainInv

LEMMA ToStep ==
    ASSUME ChainInv, NEW e \in Executor, NEW pc \in ChainStep, To(e, pc)
    PROVE  \E r \in RunType :
              /\ exec' = [exec EXCEPT ![e] = r] /\ r.pc = pc /\ r.mode = exec[e].mode
              /\ r.fence = exec[e].fence /\ r.s = exec[e].s /\ r.mem = exec[e].mem
<1> DEFINE r == [exec[e] EXCEPT !.pc = pc]
<1>1. exec[e] \in RunType /\ exec' = [exec EXCEPT ![e] = r]
  BY RunFacts DEF To
<1>2. r \in RunType
  BY <1>1 DEF RunType
<1>3. /\ r.pc = pc /\ r.mode = exec[e].mode /\ r.fence = exec[e].fence /\ r.s = exec[e].s
      /\ r.mem = exec[e].mem
  BY <1>1 DEF RunType
<1> HIDE DEF r
<1>4. QED BY <1>1, <1>2, <1>3

\* Under its lease, an executor takes a step outside a session.
LEMMA StepsOutside ==
    ASSUME ChainInv, NEW e \in Executor, NEW pc \in {"consumed", "done", "failed"}, To(e, pc),
           exec[e].fence # 0,
           task' \in Task, link' \in [Ordinal -> Link], LinksInOrder',
           UNCHANGED <<lease, session, bill, sent, chainFaults>>
    PROVE  ChainInv'
<1>1. pc \in ChainStep /\ pc \notin InSession
  BY DEF ChainStep, InSession
<1>2. PICK r \in RunType :
        /\ exec' = [exec EXCEPT ![e] = r] /\ r.pc = pc /\ r.mode = exec[e].mode
        /\ r.fence = exec[e].fence /\ r.s = exec[e].s /\ r.mem = exec[e].mem
  BY <1>1, ToStep
<1>3. Stands(r)
  BY <1>2 DEF Stands, InSession, AfterSession
<1>4. /\ lease' \in [fence : Nat, live : BOOLEAN] /\ lease'.fence = lease.fence
      /\ (lease'.live => lease.live) /\ bill' \in {"none", "open", "paid"}
      /\ chainFaults' \in Nat /\ sent' = sent /\ session' = session
  BY SessionFacts
<1>5. r.fence \in {0, exec[e].fence} /\ r.pc \notin InSession
  BY <1>1, <1>2
<1>6. QED BY <1>2, <1>3, <1>4, <1>5, OutOfSession

\* It takes a step in its session that saves nothing.
LEMMA StepsInside ==
    ASSUME ChainInv, NEW e \in Executor, NEW pc \in InSession, To(e, pc),
           exec[e].pc \in InSession, pc \in Marked <=> exec[e].pc \in Marked,
           "answered" \notin {pc, exec[e].pc},
           exec[e].pc \in {"sent", "refused"} => pc \in {"sent", "refused"},
           exec[e].mem.terminal => pc \in {"boundary", "asked"},
           pc # "marked", pc = "reserved" => exec[e].pc = "marked" /\ Owns(e),
           task' \in Task, task'.count = task.count, task'.consumed = task.consumed,
           task'.ready = task.ready, bill' \in {"none", "open", "paid"},
           UNCHANGED <<lease, link, session, sent, chainFaults>>
    PROVE  ChainInv'
<1>1. pc \in ChainStep
  BY DEF ChainStep, InSession
<1>2. PICK r \in RunType :
        /\ exec' = [exec EXCEPT ![e] = r] /\ r.pc = pc /\ r.mode = exec[e].mode
        /\ r.fence = exec[e].fence /\ r.s = exec[e].s /\ r.mem = exec[e].mem
  BY <1>1, ToStep
<1>3. Stands(exec[e]) /\ Current(exec[e])
  BY RunFacts
<1>4. Stands(r)
  BY <1>2, <1>3 DEF Stands, InSession, AfterSession
<1>5. Current(r)
  BY <1>2, <1>3 DEF Current
<1>6. r.pc = "reserved" => exec[e].pc = "marked" /\ r.mem = exec[e].mem /\ Owns(e)
  BY <1>2
<1>7. QED BY <1>2, <1>4, <1>5, <1>6, StaysInSession

\* What the owner of the lease has not sent.
LEMMA UnsentNow ==
    ASSUME ChainInv, NEW e \in Executor, exec[e].pc \in InSession, Owns(e)
    PROVE  /\ Unsent(exec[e].s, exec[e].mem.turns + 1)
           /\ exec[e].pc \notin {"sent", "refused"} => Unsent(exec[e].s, exec[e].mem.turns)
<1>1. exec[e].s \in Ordinal /\ Current(exec[e]) /\ exec[e].mem \in Checkpoint
  BY RunFacts
<1>2. session[exec[e].s].turns = exec[e].mem.turns
  <2>1. [exec[e].mem EXCEPT !.pending = TRUE].turns = exec[e].mem.turns
    BY <1>1 DEF Checkpoint
  <2>2. QED BY <1>1, <2>1 DEF Current, Owns
<1>3. QED BY <1>1, <1>2, SessionFacts DEF SentOnce, Current, Owns

\* What a saved checkpoint has to say for the place its executor goes to.
LEMMA SaveStands ==
    ASSUME ChainInv, NEW e \in Executor, NEW c \in Checkpoint, NEW pc \in ChainStep,
           exec[e].pc \in InSession,
           \/ pc \in {"done", "failed", "handed"}
           \/ /\ pc \in InSession /\ pc # "reserved"
              /\ c.pending <=> pc \in Marked
              /\ c.status \in {"ready", "running", "interrupted", "failed", "completed"}
              /\ c.terminal => pc \in {"boundary", "asked"}
              /\ pc = "marked" => c.turns < MaxTurns
    PROVE  Stands([exec[e] EXCEPT !.pc = pc, !.mem = c])
<1> DEFINE x == [exec[e] EXCEPT !.pc = pc, !.mem = c]
<1>1. exec[e] \in RunType /\ Stands(exec[e]) /\ exec[e].s \in 1 .. Sessions
  BY RunFacts DEF Stands
<1>2. /\ x.pc = pc /\ x.mem = c /\ x.s = exec[e].s /\ x.fence = exec[e].fence
      /\ x.mode = exec[e].mode
  BY <1>1 DEF RunType
<1> HIDE DEF x
<1>3. Stands(x)
  BY <1>1, <1>2 DEF Stands, InSession, AfterSession
<1>4. QED BY <1>3 DEF x

-----------------------------------------------------------------------------
(* The turns of a session. *)

LEMMA TurnSteps ==
    ASSUME ChainInv, NEW e \in Executor,
           \/ Reserve(e) \/ Refuse(e) \/ Pay(e) \/ NextTurn(e) \/ AskHandoff(e)
    PROVE  ChainInv'
<1>1. Stands(exec[e]) /\ task \in Task /\ bill \in {"none", "open", "paid"}
  BY RunFacts, SessionFacts
<1>2. CASE Reserve(e)
  <2>1. "reserved" \in InSession /\ bill' \in {"none", "open", "paid"}
    BY <1>2 DEF Reserve, InSession
  <2>2. QED BY <1>1, <1>2, <2>1, StepsInside DEF Reserve, AtStep, Marked, InSession, Stands
<1>3. CASE Refuse(e)
  <2>1. "refused" \in InSession /\ bill' \in {"none", "open", "paid"}
    BY <1>3 DEF Refuse, InSession
  <2>2. QED BY <1>1, <1>3, <2>1, StepsInside DEF Refuse, AtStep, Marked, InSession, Stands
<1>4. CASE Pay(e)
  <2>1. "paid" \in InSession /\ bill' \in {"none", "open", "paid"}
    BY <1>4 DEF Pay, InSession
  <2>2. QED BY <1>1, <1>4, <2>1, StepsInside DEF Pay, AtStep, Marked, InSession, Stands
<1>5. CASE NextTurn(e)
  <2>1. "turn" \in InSession /\ bill' \in {"none", "open", "paid"}
    BY <1>1, <1>5 DEF NextTurn, InSession
  <2>2. QED BY <1>1, <1>5, <2>1, StepsInside DEF NextTurn, AtStep, Marked, InSession, Stands
<1>6. CASE AskHandoff(e)
  <2>1. "asked" \in InSession /\ bill' \in {"none", "open", "paid"}
    BY <1>1, <1>6 DEF AskHandoff, InSession
  <2>2. task' \in Task /\ task'.count = task.count /\ task'.consumed = task.consumed
        /\ task'.ready = task.ready
    BY <1>1, <1>6, RunFacts DEF AskHandoff, Task
  <2>3. QED BY <1>1, <1>6, <2>1, <2>2, StepsInside
            DEF AskHandoff, AtStep, Marked, InSession, Stands
<1>7. QED BY <1>2, <1>3, <1>4, <1>5, <1>6

LEMMA SaveSteps ==
    ASSUME ChainInv, NEW e \in Executor,
           \/ StartRun(e) \/ CompleteVerified(e) \/ Mark(e) \/ ReserveRefused(e)
           \/ CallTool(e) \/ ToolDone(e) \/ AnswerRequest(e) \/ Complete(e) \/ HandOff(e)
    PROVE  ChainInv'
<1> DEFINE m == exec[e].mem
<1>1. /\ m \in Checkpoint /\ Stands(exec[e]) /\ m.turns \in Nat
      /\ bill \in {"none", "open", "paid"}
  BY RunFacts, SessionFacts
\* What these actions save: as many turns as there are in memory.
<1>2. ASSUME NEW c \in Checkpoint, NEW pc \in ChainStep, SaveSession(e, c, pc),
             exec[e].pc \in InSession, exec[e].pc \notin {"sent", "refused"},
             c.turns = m.turns, c.status # "none",
             UNCHANGED <<task, lease, link, bill, sent, chainFaults>>,
             \/ pc \in {"done", "failed", "handed"}
             \/ /\ pc \in {"turn", "marked", "tool", "boundary"}
                /\ c.pending <=> pc \in Marked
                /\ c.status \in {"ready", "running", "interrupted", "failed", "completed"}
                /\ c.terminal => pc = "boundary"
                /\ pc = "marked" => c.turns < MaxTurns
      PROVE  ChainInv'
  <2>1. Unsent(exec[e].s, c.turns)
    BY <1>2, UnsentNow DEF SaveSession
  <2>2. Stands([exec[e] EXCEPT !.pc = pc, !.mem = c])
    <3>1. pc \in {"turn", "marked", "tool", "boundary"} => pc \in InSession /\ pc # "reserved"
      BY DEF InSession
    <3>2. QED BY <1>2, <3>1, SaveStands
  <2>3. pc \notin {"reserved", "sent", "refused", "answered"}
    BY <1>2
  <2>4. bill' \in {"none", "open", "paid"}
    BY <1>1, <1>2
  <2>5. QED BY <1>2, <2>1, <2>2, <2>3, <2>4, Saves
<1>3. CASE StartRun(e)
  <2> DEFINE c == [m EXCEPT !.status = "running"]
  <2>1. /\ c \in Checkpoint /\ c.turns = m.turns /\ c.status = "running"
        /\ c.pending = m.pending /\ c.terminal = m.terminal
    BY <1>1 DEF Checkpoint
  <2>2. SaveSession(e, c, "turn") /\ exec[e].pc = "begun" /\ "turn" \in ChainStep
    BY <1>3 DEF StartRun, AtStep, ChainStep
  <2> HIDE DEF c
  <2>3. QED BY <1>1, <1>2, <1>3, <2>1, <2>2 DEF StartRun, Stands, InSession, Marked
<1>4. CASE CompleteVerified(e)
  <2> DEFINE c == [m EXCEPT !.status = "completed"]
  <2>1. c \in Checkpoint /\ c.turns = m.turns /\ c.status = "completed"
    BY <1>1 DEF Checkpoint
  <2>2. SaveSession(e, c, "done") /\ exec[e].pc = "turn" /\ "done" \in ChainStep
    BY <1>4 DEF CompleteVerified, AtStep, ChainStep
  <2> HIDE DEF c
  <2>3. QED BY <1>2, <1>4, <2>1, <2>2 DEF CompleteVerified, InSession
<1>5. CASE Mark(e)
  <2> DEFINE c == [m EXCEPT !.pending = TRUE]
  <2>1. /\ c \in Checkpoint /\ c.turns = m.turns /\ c.status = m.status
        /\ c.pending /\ c.terminal = m.terminal
    BY <1>1 DEF Checkpoint
  <2>2. SaveSession(e, c, "marked") /\ exec[e].pc = "turn" /\ "marked" \in ChainStep
        /\ m.turns < MaxTurns
    BY <1>5 DEF Mark, AtStep, ChainStep
  <2> HIDE DEF c
  <2>3. QED BY <1>1, <1>2, <1>5, <2>1, <2>2 DEF Mark, Stands, InSession, Marked
<1>6. CASE ReserveRefused(e)
  <2> DEFINE c == [m EXCEPT !.pending = FALSE, !.status = "failed"]
  <2>1. c \in Checkpoint /\ c.turns = m.turns /\ c.status = "failed"
    BY <1>1 DEF Checkpoint
  <2>2. SaveSession(e, c, "failed") /\ exec[e].pc = "marked" /\ "failed" \in ChainStep
    BY <1>6 DEF ReserveRefused, AtStep, ChainStep
  <2> HIDE DEF c
  <2>3. QED BY <1>2, <1>6, <2>1, <2>2 DEF ReserveRefused, InSession
<1>7. CASE CallTool(e)
  <2> DEFINE c == [m EXCEPT !.pending = TRUE]
  <2>1. /\ c \in Checkpoint /\ c.turns = m.turns /\ c.status = m.status
        /\ c.pending /\ c.terminal = m.terminal
    BY <1>1 DEF Checkpoint
  <2>2. SaveSession(e, c, "tool") /\ exec[e].pc = "answered" /\ "tool" \in ChainStep
    BY <1>7 DEF CallTool, AtStep, ChainStep
  <2> HIDE DEF c
  <2>3. QED BY <1>1, <1>2, <1>7, <2>1, <2>2 DEF CallTool, Stands, InSession, Marked
<1>8. CASE ToolDone(e)
  <2>1. PICK b \in BOOLEAN :
          SaveSession(e, [m EXCEPT !.pending = FALSE, !.settled = TRUE, !.asks = b], "boundary")
    BY <1>8 DEF ToolDone
  <2> DEFINE c == [m EXCEPT !.pending = FALSE, !.settled = TRUE, !.asks = b]
  <2>2. /\ c \in Checkpoint /\ c.turns = m.turns /\ c.status = m.status /\ ~c.pending
    BY <1>1 DEF Checkpoint
  <2>3. SaveSession(e, c, "boundary") /\ exec[e].pc = "tool" /\ "boundary" \in ChainStep
    BY <1>8, <2>1 DEF ToolDone, AtStep, ChainStep
  <2> HIDE DEF c
  <2>4. QED BY <1>1, <1>2, <1>8, <2>2, <2>3 DEF ToolDone, Stands, InSession, Marked
<1>9. CASE AnswerRequest(e)
  <2>1. PICK b \in BOOLEAN :
          SaveSession(e, [m EXCEPT !.settled = TRUE, !.terminal = TRUE, !.asks = b], "boundary")
    BY <1>9 DEF AnswerRequest
  <2> DEFINE c == [m EXCEPT !.settled = TRUE, !.terminal = TRUE, !.asks = b]
  <2>2. /\ c \in Checkpoint /\ c.turns = m.turns /\ c.status = m.status
        /\ c.pending = m.pending
    BY <1>1 DEF Checkpoint
  <2>3. SaveSession(e, c, "boundary") /\ exec[e].pc = "answered" /\ "boundary" \in ChainStep
    BY <1>9, <2>1 DEF AnswerRequest, AtStep, ChainStep
  <2> HIDE DEF c
  <2>4. QED BY <1>1, <1>2, <1>9, <2>2, <2>3 DEF AnswerRequest, Stands, InSession, Marked
<1>10. CASE Complete(e)
  <2> DEFINE c == [m EXCEPT !.status = "completed", !.terminal = FALSE]
  <2>1. c \in Checkpoint /\ c.turns = m.turns /\ c.status = "completed"
    BY <1>1 DEF Checkpoint
  <2>2. SaveSession(e, c, "done") /\ exec[e].pc = "boundary" /\ "done" \in ChainStep
    BY <1>10 DEF Complete, AtStep, ChainStep
  <2> HIDE DEF c
  <2>3. QED BY <1>2, <1>10, <2>1, <2>2 DEF Complete, InSession
<1>11. CASE HandOff(e)
  <2> DEFINE c == [m EXCEPT !.status = "handed_off"]
  <2>1. c \in Checkpoint /\ c.turns = m.turns /\ c.status = "handed_off"
    BY <1>1 DEF Checkpoint
  <2>2. SaveSession(e, c, "handed") /\ exec[e].pc \in {"boundary", "asked"}
        /\ "handed" \in ChainStep
    BY <1>11 DEF HandOff, ChainStep
  <2> HIDE DEF c
  <2>3. QED BY <1>2, <1>11, <2>1, <2>2 DEF HandOff, InSession
<1>12. QED BY <1>3, <1>4, <1>5, <1>6, <1>7, <1>8, <1>9, <1>10, <1>11

\* The answer is saved as one turn more, which is the one that was sent.
LEMMA ReceiveStep ==
    ASSUME ChainInv, NEW e \in Executor, ReceiveAnswer(e)
    PROVE  ChainInv'
<1>1. PICK m \in Checkpoint : m = exec[e].mem /\ Stands(exec[e]) /\ m.turns \in Nat
  BY RunFacts
<1> DEFINE c == [m EXCEPT !.settled = FALSE, !.turns = @ + 1]
<1>2. /\ c \in Checkpoint /\ c.turns = m.turns + 1 /\ c.status = m.status
      /\ c.pending = m.pending /\ c.terminal = m.terminal
  <2>1. m.turns + 1 \in Nat
    BY <1>1
  <2>2. c \in Checkpoint
    BY <1>1, <2>1 DEF Checkpoint
  <2>3. c.turns = m.turns + 1
    BY DEF Checkpoint
  <2>4. c.status = m.status /\ c.pending = m.pending /\ c.terminal = m.terminal
    BY DEF Checkpoint
  <2>5. QED BY <2>2, <2>3, <2>4
<1>3. /\ SaveSession(e, c, "received") /\ exec[e].pc = "sent" /\ exec[e].pc \in InSession
      /\ "received" \in ChainStep /\ "received" \in InSession /\ "received" \in Marked
  BY <1>1 DEF ReceiveAnswer, AtStep, ChainStep, InSession, Marked
<1> HIDE DEF c
<1>4. Unsent(exec[e].s, c.turns)
  BY <1>1, <1>2, <1>3, UnsentNow DEF SaveSession
<1>5. Stands([exec[e] EXCEPT !.pc = "received", !.mem = c])
  <2>1. m.pending /\ ~m.terminal
    BY <1>1, <1>3 DEF Stands, Marked
  <2>2. m.status \in {"ready", "running", "interrupted", "failed", "completed"}
    BY <1>1, <1>3 DEF Stands
  <2>3. QED BY <1>2, <1>3, <2>1, <2>2, SaveStands
<1>6. c.status # "none" /\ bill' \in {"none", "open", "paid"}
  BY <1>1, <1>2, <1>3, SessionFacts DEF Stands, ReceiveAnswer
<1>7. QED BY <1>2, <1>3, <1>4, <1>5, <1>6, Saves DEF ReceiveAnswer

\* A session that fails is saved with what is known of its last request.
LEMMA FailSteps ==
    ASSUME ChainInv, NEW e \in Executor, Abandon(e) \/ FailTurn(e)
    PROVE  ChainInv'
<1> DEFINE m == exec[e].mem
<1>1. m \in Checkpoint /\ Stands(exec[e]) /\ m.turns \in Nat
      /\ bill \in {"none", "open", "paid"}
  BY RunFacts, SessionFacts
<1>2. "failed" \in ChainStep /\ "failed" \notin InSession
  BY DEF ChainStep, InSession
<1>3. CASE Abandon(e)
  <2> DEFINE c == [m EXCEPT !.pending = FALSE, !.status = "failed"]
  <2>1. c \in Checkpoint /\ c.turns = m.turns /\ c.status = "failed" /\ c.terminal = m.terminal
    BY <1>1 DEF Checkpoint
  <2>2. SaveSession(e, c, "failed") /\ exec[e].pc = "refused" /\ exec[e].pc \in InSession
    BY <1>3 DEF Abandon, AtStep, InSession
  <2> HIDE DEF c
  <2>3. ~m.terminal
    BY <1>1, <2>2 DEF Stands
  <2>4. Unsent(exec[e].s, c.turns + 1)
    BY <2>1, <2>2, UnsentNow DEF SaveSession
  <2>5. Stands([exec[e] EXCEPT !.pc = "failed", !.mem = c])
    BY <1>2, <2>1, <2>2, SaveStands
  <2>6. QED BY <1>2, <1>3, <2>1, <2>2, <2>3, <2>4, <2>5, Saves DEF Abandon
<1>4. CASE FailTurn(e)
  <2>1. PICK status \in IF m.pending THEN {"uncertain"} ELSE {"failed", "interrupted"} :
          SaveSession(e, [m EXCEPT !.status = status], "failed")
    BY <1>4 DEF FailTurn
  <2> DEFINE c == [m EXCEPT !.status = status]
  <2>2. c \in Checkpoint /\ c.turns = m.turns /\ c.status = status
    BY <1>1, <2>1 DEF Checkpoint
  <2>3. SaveSession(e, c, "failed") /\ exec[e].pc \in InSession
    BY <1>4, <2>1 DEF FailTurn
  <2> HIDE DEF c
  <2>4. /\ Unsent(exec[e].s, c.turns + 1)
        /\ exec[e].pc \notin {"sent", "refused"} => Unsent(exec[e].s, c.turns)
    BY <2>2, <2>3, UnsentNow DEF SaveSession
  <2>5. exec[e].pc \in {"sent", "refused"} => status = "uncertain"
    BY <1>1, <2>1, <2>3 DEF Stands, Marked
  <2>6. Stands([exec[e] EXCEPT !.pc = "failed", !.mem = c])
    BY <1>2, <2>2, <2>3, SaveStands
  <2>7. c.status # "none" /\ bill' \in {"none", "open", "paid"}
    BY <1>1, <1>4, <2>1, <2>2 DEF FailTurn
  <2>8. UNCHANGED <<task, lease, link, sent, chainFaults>>
    BY <1>4 DEF FailTurn
  <2>9. QED BY <1>2, <2>2, <2>3, <2>4, <2>5, <2>6, <2>7, <2>8, Saves
<1>5. QED BY <1>3, <1>4

\* The mark of the answer is cleared in memory only.
LEMMA UntrackStep ==
    ASSUME ChainInv, NEW e \in Executor, Untrack(e)
    PROVE  ChainInv'
<1>1. PICK m \in Checkpoint : m = exec[e].mem
  BY RunFacts
<1> DEFINE c == [m EXCEPT !.pending = FALSE]
<1>2. /\ c \in Checkpoint /\ c.turns = m.turns /\ c.status = m.status /\ ~c.pending
      /\ c.terminal = m.terminal
      /\ m.pending => [c EXCEPT !.pending = TRUE] = m
  BY DEF Checkpoint
<1>3. PICK r \in RunType :
        /\ r = [exec[e] EXCEPT !.pc = "answered", !.mem = c]
        /\ r.pc = "answered" /\ r.mem = c /\ r.s = exec[e].s /\ r.fence = exec[e].fence
  <2>1. exec[e] \in RunType /\ "answered" \in ChainStep
    BY RunFacts DEF ChainStep
  <2> HIDE DEF c
  <2> DEFINE x == [exec[e] EXCEPT !.pc = "answered", !.mem = c]
  <2>2. x \in RunType
    BY <1>2, <2>1 DEF RunType
  <2>3. x.pc = "answered" /\ x.mem = c /\ x.s = exec[e].s /\ x.fence = exec[e].fence
    BY <2>1 DEF RunType
  <2> HIDE DEF x
  <2>4. QED BY <2>2, <2>3 DEF x
<1>4. exec' = [exec EXCEPT ![e] = r] /\ session' = session /\ exec[e].pc = "paid"
  <2>1. exec' = [exec EXCEPT ![e].pc = "answered", ![e].mem = c]
    BY <1>1 DEF Untrack, Keep
  <2>2. exec \in [Executor -> RunType]
    BY SessionFacts
  <2> HIDE DEF c
  <2>3. exec' = [exec EXCEPT ![e] = [exec[e] EXCEPT !.pc = "answered", !.mem = c]]
    BY <2>1, <2>2
  <2>4. QED BY <1>3, <2>3 DEF Untrack, Keep, AtStep
<1> HIDE DEF c
<1>5. Stands(exec[e]) /\ Current(exec[e])
  BY RunFacts
<1>6. exec[e].pc \in InSession /\ exec[e].pc \in Marked /\ r.pc \in InSession /\ r.pc \notin Marked
      /\ r.pc \notin {"marked", "reserved", "sent", "refused"}
      /\ exec[e].pc \notin {"sent", "refused"}
  BY <1>3, <1>4 DEF InSession, Marked
<1>7. /\ m.pending /\ ~m.terminal /\ exec[e].fence # 0 /\ exec[e].s \in 1 .. Sessions
      /\ m.status \in {"ready", "running", "interrupted", "failed", "completed"}
  BY <1>1, <1>4, <1>5, <1>6 DEF Stands
<1>8. Stands(r)
  BY <1>2, <1>3, <1>6, <1>7 DEF Stands, AfterSession, InSession
<1>9. Current(r)
  <2>1. [r.mem EXCEPT !.pending = TRUE] = m
    BY <1>2, <1>3, <1>7
  <2>2. r.mem.turns = m.turns /\ r.pc = "answered" /\ r.s = exec[e].s /\ r.fence = exec[e].fence
    BY <1>2, <1>3
  <2>3. exec[e].fence = lease.fence =>
            session[exec[e].s] = m /\ Unsent(exec[e].s, m.turns)
    BY <1>1, <1>4, <1>5, <1>6 DEF Current
  <2>4. QED BY <2>1, <2>2, <2>3 DEF Current
<1>10. /\ lease' = lease /\ chainFaults' = chainFaults /\ link' = link /\ sent' = sent
       /\ task' = task /\ bill' \in {"none", "open", "paid"} /\ task' \in Task
  BY SessionFacts DEF Untrack
<1>11. QED BY <1>3, <1>4, <1>6, <1>8, <1>9, <1>10, StaysInSession

\* An intent of the executor's fence, recorded from a tool.
LEMMA RequestStep ==
    ASSUME ChainInv, NEW e \in Executor, RequestHandoff(e)
    PROVE  ChainInv'
<1>1. task' \in Task /\ task'.count = task.count /\ task'.consumed = task.consumed
      /\ task'.ready = task.ready
  BY RunFacts, SessionFacts DEF RequestHandoff, Task
<1>2. LinksInOrder'
  BY <1>1, LinksStay DEF RequestHandoff
<1>3. QED BY <1>1, <1>2, SessionFacts, Outside DEF RequestHandoff

\* The request is sent once: whoever else has this session in memory is staler, so that
\* it can neither save it nor send this turn.
LEMMA SendStep ==
    ASSUME ChainInv, NEW e \in Executor, SendGeneration(e)
    PROVE  ChainInv'
<1>1. PICK k \in Ordinal : k = exec[e].s
  BY RunFacts DEF SendGeneration, AtStep, InSession
<1>2. PICK n \in Nat : n = exec[e].mem.turns
  BY RunFacts
<1>3. /\ exec[e].pc = "reserved" /\ exec[e].pc \in InSession
      /\ session' = session /\ lease' = lease /\ link' = link /\ task' = task /\ bill' = bill
      /\ chainFaults' = chainFaults
      /\ sent' = [sent EXCEPT ![<<k, n + 1>>] = @ + 1]
  BY <1>1, <1>2 DEF SendGeneration, AtStep, InSession
<1>4. PICK r \in RunType :
        /\ exec' = [exec EXCEPT ![e] = r] /\ r.pc = "sent" /\ r.mode = exec[e].mode
        /\ r.fence = exec[e].fence /\ r.s = exec[e].s /\ r.mem = exec[e].mem
  <2>1. "sent" \in ChainStep
    BY DEF ChainStep
  <2>2. QED BY <2>1, ToStep DEF SendGeneration
<1>5. Stands(exec[e]) /\ Current(exec[e]) /\ AboutToSend(e)
  BY DEF ChainInv
<1>6. /\ session[k].pending /\ session[k].turns = n /\ Unsent(k, n)
      /\ \A f \in Executor : f # e /\ exec[f].pc \in InSession /\ exec[f].s = k =>
            exec[f].fence < exec[e].fence
  BY <1>1, <1>2, <1>3, <1>5 DEF AboutToSend
<1>7. n + 1 \in Turn
  BY <1>2, <1>3, <1>5, ChainBounds DEF Stands, Turn
<1>8. /\ sent' \in [Ordinal \X Turn -> Nat] /\ sent'[<<k, n + 1>>] = 1
      /\ \A j \in Ordinal : \A t \in Turn :
            j # k \/ t # n + 1 => sent'[<<j, t>>] = sent[<<j, t>>]
  <2>1. sent[<<k, n + 1>>] = 0 /\ sent \in [Ordinal \X Turn -> Nat]
    BY <1>2, <1>6, <1>7, SessionFacts DEF Unsent
  <2>2. <<k, n + 1>> \in Ordinal \X Turn
    BY <1>7
  <2>3. sent' = [sent EXCEPT ![<<k, n + 1>>] = 1]
    BY <1>3, <2>1
  <2>4. QED BY <2>1, <2>2, <2>3
<1>9. /\ \A f \in Executor : f # e => exec'[f] = exec[f]
      /\ exec'[e] = r /\ exec' \in [Executor -> RunType]
  BY <1>4, SessionFacts
<1>10. ChainTypeOK'
  BY <1>3, <1>8, <1>9 DEF ChainInv, ChainTypeOK
<1>11. Fences' /\ InOrder' /\ LinksInOrder' /\ Sessions' = Sessions
  <2>1. Sessions' = Sessions
    BY <1>3 DEF Sessions
  <2>2. InOrder' /\ LinksInOrder'
    BY <1>3, <2>1, SessionFacts DEF InOrder, LinksInOrder
  <2>3. \A f \in Executor : exec'[f].fence = exec[f].fence
    BY <1>4, <1>9
  <2>4. QED BY <1>3, <2>1, <2>2, <2>3, SessionFacts DEF Fences
<1>12. \A f \in Executor : Stands(exec[f])'
  <2>1. Stands(r)
    BY <1>3, <1>4, <1>5 DEF Stands, InSession, AfterSession, Marked
  <2>2. ASSUME NEW f \in Executor PROVE Stands(exec'[f])
    BY <1>9, <2>1 DEF ChainInv
  <2>3. QED BY <1>11, <2>2 DEF Stands
<1>13. \A f \in Executor : Current(exec[f])'
  <2>1. ASSUME NEW f \in Executor, f # e PROVE Current(exec[f])'
    <3>1. exec'[f] = exec[f] /\ Current(exec[f]) /\ Stands(exec[f])
      BY <1>9, <2>1 DEF ChainInv
    <3>2. SUFFICES ASSUME exec[f].fence = lease.fence, exec[f].pc \in InSession,
                          exec[f].pc \notin {"sent", "refused"}
                   PROVE  Unsent(exec[f].s, exec[f].mem.turns)'
      BY <1>3, <3>1 DEF Current
    <3>3. exec[f].s # k
      <4>1. exec[e].fence =< exec[f].fence /\ exec[e].fence \in Nat /\ exec[f].fence \in Nat
        BY <3>2, RunFacts
      <4>2. QED BY <1>6, <2>1, <3>2, <4>1
    <3>4. Unsent(exec[f].s, exec[f].mem.turns) /\ exec[f].s \in Ordinal
      BY <3>1, <3>2, RunFacts DEF Current
    <3>5. QED BY <1>8, <3>1, <3>3, <3>4 DEF Unsent
  <2>2. Current(exec[e])'
    BY <1>3, <1>4, <1>5, <1>9 DEF Current
  <2>3. QED BY <2>1, <2>2
<1>14. \A f \in Executor : AboutToSend(f)'
  <2>1. ASSUME NEW f \in Executor, f # e, exec[f].pc = "reserved"
        PROVE  AboutToSend(f)'
    <3>1. exec'[f] = exec[f] /\ AboutToSend(f) /\ exec[f].s \in Ordinal
      BY <1>9, <2>1, RunFacts DEF ChainInv, InSession
    <3>2. exec[f].s # k
      <4>1. exec[e].fence \in Nat /\ exec[f].fence \in Nat /\ exec[f].pc \in InSession
        BY <2>1, RunFacts DEF InSession
      <4>2. exec[f].s = k => exec[e].fence < exec[f].fence /\ exec[f].fence < exec[e].fence
        BY <1>1, <1>3, <1>6, <2>1, <3>1, <4>1 DEF AboutToSend
      <4>3. QED BY <4>1, <4>2
    <3>3. Unsent(exec[f].s, exec[f].mem.turns)'
      BY <1>8, <2>1, <3>1, <3>2 DEF AboutToSend, Unsent
    <3>4. \A g \in Executor : exec'[g].s = exec[g].s /\ exec'[g].fence = exec[g].fence
                              /\ (exec'[g].pc \in InSession => exec[g].pc \in InSession)
      BY <1>3, <1>4, <1>9
    <3>5. QED BY <1>3, <2>1, <3>1, <3>3, <3>4 DEF AboutToSend
  <2>2. \A f \in Executor : exec'[f].pc # "reserved" => AboutToSend(f)'
    BY DEF AboutToSend
  <2>3. QED BY <1>4, <1>9, <2>1, <2>2
<1>15. SentOnce'
  <2>1. ASSUME NEW j \in Ordinal
        PROVE  /\ \A t \in Turn : sent'[<<j, t>>] =< 1
               /\ Unsent(j, session[j].turns + 1)'
               /\ ~Spoilt(j)' => Unsent(j, session[j].turns)'
    <3>1. CASE j = k
      <4>1. ASSUME NEW t \in Turn PROVE sent'[<<j, t>>] =< 1
        <5>1. CASE t = n + 1
          BY <1>8, <3>1, <5>1
        <5>2. CASE t # n + 1
          <6>1. sent'[<<j, t>>] = sent[<<j, t>>]
            BY <1>8, <5>2
          <6>2. QED BY <6>1, SessionFacts DEF SentOnce
        <5>3. QED BY <5>1, <5>2
      <4>2. \A t \in Turn : t > n + 1 => sent'[<<j, t>>] = 0
        <5>1. \A t \in Turn : t > n + 1 => t > n
          BY <1>2, ChainBounds
        <5>2. QED BY <1>6, <1>8, <3>1, <5>1 DEF Unsent
      <4>3. Spoilt(j)'
        BY <1>3, <1>6, <3>1 DEF Spoilt
      <4>4. QED BY <1>3, <1>6, <3>1, <4>1, <4>2, <4>3 DEF Unsent
    <3>2. CASE j # k
      <4>1. Spoilt(j)' <=> Spoilt(j)
        BY <1>3 DEF Spoilt
      <4>2. QED BY <1>3, <1>8, <3>2, <4>1, SessionFacts DEF SentOnce, Unsent
    <3>3. QED BY <3>1, <3>2
  <2>2. QED BY <2>1 DEF SentOnce
<1>16. QED BY <1>10, <1>11, <1>12, <1>13, <1>14, <1>15 DEF ChainInv

-----------------------------------------------------------------------------
(* Before the lease, the tickets, and the lease. *)

LEMMA ReadStep ==
    ASSUME ChainInv, NEW e \in Executor, ReadTask(e)
    PROVE  ChainInv'
<1> DEFINE x == [Idle EXCEPT !.pc = "read", !.ready = task.ready, !.consumed = task.consumed,
                             !.holder = task.holder]
<1>1. /\ x \in RunType /\ x.pc = "read" /\ x.fence = 0 /\ x.mode = "none"
  <2>1. task.ready \in Nat /\ task.consumed \in Nat /\ task.holder \in Nat /\ Idle \in RunType
        /\ "read" \in ChainStep
    BY SessionFacts, StartTypes DEF Task, ChainStep
  <2>2. x \in RunType /\ x.pc = "read"
    BY <2>1 DEF RunType
  <2>3. x.fence = 0 /\ x.mode = "none"
    BY <2>1, StartTypes DEF RunType, Idle
  <2>4. QED BY <2>2, <2>3
<1>2. exec' = [exec EXCEPT ![e] = x]
  BY DEF ReadTask
<1> HIDE DEF x
<1>3. PICK r \in RunType : r = x
  BY <1>1
<1>4. Stands(r) /\ r.pc \notin InSession /\ r.fence \in {0, exec[e].fence}
  BY <1>1, <1>3 DEF Stands, InSession, AfterSession
<1>5. LinksInOrder'
  BY LinksStay DEF ReadTask
<1>6. exec' = [exec EXCEPT ![e] = r]
  BY <1>2, <1>3
<1>7. QED BY <1>4, <1>5, <1>6, SessionFacts, OutOfSession DEF ReadTask

\* A plan names a session that exists, unless it is to start afresh.
LEMMA DecisionFacts ==
    ASSUME ChainInv, NEW v \in RunType
    PROVE  \E pc \in {"off", "planned", "restore", "reissue"},
              mode \in {"none", "fresh", "ticket", "recover", "completed"}, s \in Nat :
              /\ Decision(v) = Choose(pc, mode, s)
              /\ pc = "reissue" \/ mode = "recover" => s \in 1 .. Sessions
              /\ mode = "ticket" => s \in Ordinal
<1> DEFINE n == Sessions
           k == v.consumed
<1>1. n \in Nat /\ n =< MaxSessions /\ k \in Nat
  BY SessionFacts DEF RunType
<1>2. \/ Decision(v) = Choose("planned", "fresh", 0)
      \/ Decision(v) = Choose("planned", "ticket", n) /\ n > 0
      \/ Decision(v) = Choose("restore", "ticket", k) /\ k # 0 /\ n = k
      \/ Decision(v) = Choose("planned", "recover", n) /\ n = k + 1
      \/ Decision(v) = Choose("reissue", "ticket", n) /\ n > k
      \/ Decision(v) = Choose("planned", "completed", n)
      \/ Decision(v) = Choose("off", "none", 0)
  BY DEF Decision
<1>3. /\ n > 0 => n \in 1 .. n /\ n \in Ordinal
      /\ k # 0 /\ n = k => k \in Ordinal
      /\ n = k + 1 => n > 0
      /\ n > k => n > 0
  BY <1>1, ChainBounds DEF Ordinal
<1>4. 0 \in Nat
  OBVIOUS
<1> HIDE DEF n, k
<1>5. CASE Decision(v) = Choose("planned", "fresh", 0)
  BY <1>4, <1>5
<1>6. CASE Decision(v) = Choose("planned", "ticket", n) /\ n > 0
  BY <1>1, <1>3, <1>6
<1>7. CASE Decision(v) = Choose("restore", "ticket", k) /\ k # 0 /\ n = k
  BY <1>1, <1>3, <1>7
<1>8. CASE Decision(v) = Choose("planned", "recover", n) /\ n = k + 1
  BY <1>1, <1>3, <1>8 DEF n
<1>9. CASE Decision(v) = Choose("reissue", "ticket", n) /\ n > k
  BY <1>1, <1>3, <1>9 DEF n
<1>10. CASE Decision(v) = Choose("planned", "completed", n)
  BY <1>1, <1>10
<1>11. CASE Decision(v) = Choose("off", "none", 0)
  BY <1>4, <1>11
<1>12. QED BY <1>2, <1>5, <1>6, <1>7, <1>8, <1>9, <1>10, <1>11

LEMMA PlanStep ==
    ASSUME ChainInv, NEW e \in Executor, Plan(e)
    PROVE  ChainInv'
<1>1. PICK v \in RunType : v = exec[e] /\ v.pc = "read" /\ v.fence = 0
  BY RunFacts DEF Plan, AtStep, Stands, InSession, AfterSession
<1>2. PICK pc \in {"off", "planned", "restore", "reissue"},
           mode \in {"none", "fresh", "ticket", "recover", "completed"}, s \in Nat :
              /\ Decision(v) = Choose(pc, mode, s)
              /\ pc = "reissue" \/ mode = "recover" => s \in 1 .. Sessions
              /\ mode = "ticket" => s \in Ordinal
  BY DecisionFacts
<1>3. Decision(v).pc = pc /\ Decision(v).mode = mode /\ Decision(v).s = s
  BY <1>2 DEF Choose
<1>4. bill' \in {"none", "open", "paid"} /\ LinksInOrder'
  BY SessionFacts, LinksStay DEF Plan, Reconciled
<1>5. ASSUME pc = "off" PROVE ChainInv'
  <2>1. Leave(e)
    BY <1>1, <1>3, <1>5 DEF Plan
  <2>2. QED BY <1>4, <2>1, SessionFacts, Leaves DEF Plan
<1>6. ASSUME pc # "off" PROVE ChainInv'
  <2>1. /\ exec' = [exec EXCEPT ![e].pc = pc, ![e].mode = mode, ![e].s = s]
        /\ pc \in ChainStep
    BY <1>1, <1>3, <1>6 DEF Plan, ChainStep
  <2>2. PICK r \in RunType : /\ exec' = [exec EXCEPT ![e] = r]
                             /\ r.pc = pc /\ r.mode = mode /\ r.s = s
                             /\ r.fence = exec[e].fence
    <3> DEFINE x == [v EXCEPT !.pc = pc, !.mode = mode, !.s = s]
    <3>1. x \in RunType
      BY <2>1 DEF RunType
    <3>2. x.pc = pc /\ x.mode = mode /\ x.s = s /\ x.fence = v.fence
      BY DEF RunType
    <3>3. exec' = [exec EXCEPT ![e] = x]
      BY <1>1, <2>1, SessionFacts
    <3> HIDE DEF x
    <3>4. QED BY <1>1, <3>1, <3>2, <3>3
  <2>3. Stands(r) /\ r.pc \notin InSession /\ r.fence \in {0, exec[e].fence}
    BY <1>1, <1>2, <1>6, <2>2 DEF Stands, InSession, AfterSession
  <2>4. QED BY <1>4, <2>2, <2>3, SessionFacts, OutOfSession DEF Plan
<1>7. QED BY <1>5, <1>6

\* The counter of faults stays a number.
LEMMA FaultsCounted ==
    ASSUME ChainInv, CountRevival \/ chainFaults' = chainFaults
    PROVE  chainFaults' \in Nat
BY SessionFacts DEF CountRevival

\* The consumed ticket that is restored is the last.
LEMMA RestoreStep ==
    ASSUME ChainInv, NEW e \in Executor, Restore(e)
    PROVE  ChainInv'
<1>1. UNCHANGED <<lease, session, bill, sent>> /\ exec[e].pc = "restore" /\ chainFaults' \in Nat
  BY FaultsCounted DEF Restore, AtStep
<1>2. ASSUME ~CanRestore PROVE ChainInv'
  <2>1. Leave(e) /\ link' = link /\ task' = task
    BY <1>2 DEF Restore
  <2>2. LinksInOrder'
    BY <1>1, <2>1, LinksStay
  <2>3. QED BY <1>1, <2>1, <2>2, SessionFacts, Leaves
<1>3. ASSUME CanRestore PROVE ChainInv'
  <2>1. PICK k \in Ordinal : k = task.consumed /\ k = task.count
    <3>1. task.consumed \in Nat /\ task.count \in Nat /\ task.consumed # 0
          /\ task.consumed =< task.count /\ task.count =< MaxSessions
      BY <1>3, SessionFacts DEF CanRestore, Task, LinksInOrder
    <3>2. task.consumed \in Ordinal
      BY <3>1, ChainBounds DEF Ordinal
    <3>3. ~(task.consumed < task.count)
      BY <1>3, <3>2, SessionFacts DEF CanRestore, LinksInOrder
    <3>4. QED BY <3>1, <3>2, <3>3
  <2>2. /\ link[k].status = "consumed" /\ Sessions = k /\ session[k].status = "handed_off"
        /\ link' = [link EXCEPT ![k].status = "issued", ![k].fence = 0]
        /\ task' = [task EXCEPT !.status = "queued", !.holder = 0, !.ready = k,
                                !.consumed = 0, !.fence = 0]
        /\ exec' = [exec EXCEPT ![e].pc = "planned", ![e].s = k]
    BY <1>3, <2>1 DEF Restore, CanRestore
  <2>3. /\ task' \in Task /\ task'.count = k /\ task'.ready = k /\ task'.consumed = 0
    BY <2>1, <2>2, SessionFacts, ChainBounds DEF Task
  <2>4. /\ link' \in [Ordinal -> Link] /\ link'[k].status = "issued"
        /\ link'[k].source = link[k].source /\ link'[k].successor = link[k].successor
        /\ \A j \in Ordinal : j # k => link'[j] = link[j]
    BY <2>2, SessionFacts DEF Link
  <2>5. LinksInOrder'
    <3>1. Sessions' = Sessions /\ k \in Nat /\ k # 0 /\ k =< MaxSessions
      BY <1>1, <2>1, ChainBounds DEF Sessions, Ordinal
    <3>2. \A j \in Ordinal :
            /\ link'[j].status # "none" <=> j =< k
            /\ j =< k => link'[j].source = j /\ session'[j].status = "handed_off"
            /\ link'[j].successor = IF link'[j].status = "started" THEN j + 1 ELSE 0
            /\ j < k => link'[j].status = "started"
      <4>1. \A j \in Ordinal : j # k =>
            /\ link'[j].status # "none" <=> j =< k
            /\ j =< k => link'[j].source = j /\ session'[j].status = "handed_off"
            /\ link'[j].successor = IF link'[j].status = "started" THEN j + 1 ELSE 0
            /\ j < k => link'[j].status = "started"
        BY <1>1, <2>1, <2>4, SessionFacts DEF LinksInOrder
      <4>2. /\ k =< k /\ ~(k < k) /\ link[k].source = k /\ link[k].successor = 0
        BY <2>1, <2>2, <3>1, SessionFacts DEF LinksInOrder
      <4>3. QED BY <1>1, <2>2, <2>4, <4>1, <4>2
    <3>3. QED BY <2>2, <2>3, <2>4, <3>1, <3>2 DEF LinksInOrder
  <2>6. PICK r \in RunType : /\ exec' = [exec EXCEPT ![e] = r]
                             /\ r.pc = "planned" /\ r.s = k /\ r.fence = exec[e].fence
    <3>1. PICK v \in RunType : v = exec[e]
      BY RunFacts
    <3> DEFINE x == [v EXCEPT !.pc = "planned", !.s = k]
    <3>2. "planned" \in ChainStep /\ k \in Nat
      BY <2>1, ChainBounds DEF ChainStep
    <3>3. x \in RunType
      BY <3>2 DEF RunType
    <3>4. x.pc = "planned" /\ x.s = k /\ x.fence = v.fence
      BY DEF RunType
    <3>5. exec' = [exec EXCEPT ![e] = x]
      BY <2>2, <3>1, SessionFacts
    <3> HIDE DEF x
    <3>6. QED BY <3>1, <3>3, <3>4, <3>5
  <2>7. Stands(r) /\ r.pc \notin InSession /\ r.fence \in {0, exec[e].fence}
    <3>1. exec[e].fence = 0
      BY <1>1, RunFacts DEF Stands, InSession, AfterSession
    <3>2. k \in 1 .. Sessions
      BY <2>1, <2>2, ChainBounds DEF Ordinal
    <3>3. QED BY <2>1, <2>6, <3>1, <3>2 DEF Stands, InSession, AfterSession
  <2>8. QED BY <1>1, <2>3, <2>4, <2>5, <2>6, <2>7, SessionFacts, OutOfSession
<1>4. QED BY <1>2, <1>3

\* Who may issue a ticket holds the head of the chain, whose number the ticket gets.
LEMMA IssueFacts ==
    ASSUME ChainInv, NEW k \in Ordinal, k =< Sessions, NEW f, CanIssue(k, f), Issue(k),
           session' = session
    PROVE  /\ k = task.count + 1 /\ Sessions = k
           /\ task' \in Task /\ link' \in [Ordinal -> Link] /\ LinksInOrder'
           /\ lease' \in [fence : Nat, live : BOOLEAN] /\ lease'.fence = lease.fence
           /\ ~lease'.live
<1>1. /\ task \in Task /\ link \in [Ordinal -> Link] /\ LinksInOrder
      /\ lease \in [fence : Nat, live : BOOLEAN]
      /\ task.count \in Nat /\ task.count =< MaxSessions /\ k \in Nat /\ k # 0
      /\ Sessions \in Nat
  BY SessionFacts, ChainBounds DEF Task, LinksInOrder
<1>2. k = task.count + 1 /\ Sessions = k
  <2>1. CASE task.count = 0
    BY <1>1, <2>1 DEF LinksInOrder
  <2>2. CASE task.count # 0
    <3>1. task.count \in Ordinal /\ task.count \in 1 .. task.count
      BY <1>1, <2>2, ChainBounds DEF Ordinal
    <3>2. link[task.count].status = "started"
      BY <3>1 DEF CanIssue
    <3>3. link[task.count].successor = task.count + 1
      BY <1>1, <3>1, <3>2 DEF LinksInOrder
    <3>4. link[task.count].successor = k
      BY <2>2 DEF CanIssue, IsHead
    <3>5. Sessions = task.count + 1
      BY <1>1, <2>2, <3>2 DEF LinksInOrder
    <3>6. QED BY <3>3, <3>4, <3>5
  <2>3. QED BY <2>1, <2>2
<1>3. PICK w \in BOOLEAN :
        task' = [task EXCEPT !.status = "queued", !.holder = 0, !.intent = 0,
                             !.ready = k, !.count = k, !.waiting = w]
  <2>1. (IF task.intent = 0 THEN {FALSE} ELSE BOOLEAN) \subseteq BOOLEAN
    OBVIOUS
  <2>2. QED BY <1>2, <2>1 DEF Issue
<1>4. task' \in Task /\ task'.count = k /\ task'.ready = k /\ task'.consumed = task.consumed
  BY <1>1, <1>3 DEF Task
<1>5. /\ lease' \in [fence : Nat, live : BOOLEAN] /\ lease'.fence = lease.fence
      /\ ~lease'.live
  BY <1>1 DEF Issue
<1>6. link' = [link EXCEPT ![k] = [status |-> "issued", source |-> k, successor |-> 0,
                                   fence |-> 0]]
  BY <1>2 DEF Issue
<1>7. /\ link' \in [Ordinal -> Link] /\ link'[k].status = "issued" /\ link'[k].source = k
      /\ link'[k].successor = 0
      /\ \A j \in Ordinal : j # k => link'[j] = link[j]
  BY <1>1, <1>6 DEF Link
<1>8. LinksInOrder'
  <2>1. Sessions' = Sessions /\ k =< MaxSessions
    BY ChainBounds DEF Sessions, Ordinal
  <2>2. task.consumed \in Nat /\ task.consumed =< task.count
    BY <1>1 DEF LinksInOrder, Task
  <2>3. \A j \in Ordinal :
          /\ link'[j].status # "none" <=> j =< k
          /\ j =< k => link'[j].source = j /\ session'[j].status = "handed_off"
          /\ link'[j].successor = IF link'[j].status = "started" THEN j + 1 ELSE 0
          /\ j < k => link'[j].status = "started"
    <3>1. ASSUME NEW j \in Ordinal, j # k
          PROVE  /\ link'[j].status # "none" <=> j =< k
                 /\ j =< k => link'[j].source = j /\ session'[j].status = "handed_off"
                 /\ link'[j].successor = IF link'[j].status = "started" THEN j + 1 ELSE 0
                 /\ j < k => link'[j].status = "started"
      <4>1. link'[j] = link[j] /\ j \in Nat /\ j # 0
        BY <1>7, <3>1, ChainBounds
      <4>2. (j =< k <=> j =< task.count) /\ (j < k <=> j =< task.count)
        BY <1>1, <1>2, <3>1, <4>1
      <4>3. j =< task.count => j \in 1 .. task.count
        BY <1>1, <4>1
      <4>4. j =< task.count => link[j].status = "started"
        BY <4>3 DEF CanIssue
      <4>5. QED BY <1>1, <4>1, <4>2, <4>4 DEF LinksInOrder
    <3>2. session[k].status = "handed_off" /\ k =< k /\ ~(k < k)
      BY <1>1 DEF CanIssue
    <3>3. QED BY <1>7, <3>1, <3>2
  <2>4. QED BY <1>1, <1>2, <1>4, <1>7, <2>1, <2>2, <2>3 DEF LinksInOrder
<1>9. QED BY <1>2, <1>4, <1>5, <1>7, <1>8

LEMMA IssueStep ==
    ASSUME ChainInv, NEW e \in Executor, IssueTicket(e)
    PROVE  ChainInv'
<1>1. PICK k \in Ordinal : k = exec[e].s /\ k =< Sessions
  BY RunFacts DEF IssueTicket, AtStep
<1>2. Leave(e) /\ UNCHANGED <<session, bill, sent>> /\ chainFaults' \in Nat
  BY FaultsCounted DEF IssueTicket, Issue
<1>3. CASE CanIssue(k, exec[e].fence) /\ Issue(k)
  <2>1. /\ task' \in Task /\ link' \in [Ordinal -> Link] /\ LinksInOrder'
        /\ lease' \in [fence : Nat, live : BOOLEAN] /\ lease'.fence = lease.fence
        /\ ~lease'.live
    BY <1>1, <1>2, <1>3, IssueFacts
  <2>2. QED BY <1>2, <2>1, SessionFacts, Leaves
<1>4. CASE UNCHANGED <<task, link, lease>>
  <2>1. LinksInOrder'
    BY <1>2, <1>4, LinksStay
  <2>2. QED BY <1>2, <1>4, <2>1, SessionFacts, Leaves
<1>5. QED BY <1>1, <1>3, <1>4 DEF IssueTicket

LEMMA ReissueStep ==
    ASSUME ChainInv, NEW e \in Executor, Reissue(e)
    PROVE  ChainInv'
<1>1. PICK k \in Ordinal : k = exec[e].s /\ k =< Sessions
  BY RunFacts DEF Reissue, AtStep
<1>2. UNCHANGED <<session, bill, sent>> /\ exec[e].pc = "reissue" /\ chainFaults' \in Nat
  BY FaultsCounted DEF Reissue, AtStep, Issue
<1>3. ASSUME CanIssue(k, exec[e].holder), Issue(k),
             exec' = [exec EXCEPT ![e].pc = "planned", ![e].s = task.count + 1]
      PROVE  ChainInv'
  <2>1. /\ k = task.count + 1 /\ Sessions = k
        /\ task' \in Task /\ link' \in [Ordinal -> Link] /\ LinksInOrder'
        /\ lease' \in [fence : Nat, live : BOOLEAN] /\ lease'.fence = lease.fence
        /\ ~lease'.live
    BY <1>1, <1>2, <1>3, IssueFacts
  <2>2. PICK r \in RunType : /\ exec' = [exec EXCEPT ![e] = r]
                             /\ r.pc = "planned" /\ r.s = k /\ r.fence = exec[e].fence
    <3>1. PICK v \in RunType : v = exec[e]
      BY RunFacts
    <3> DEFINE x == [v EXCEPT !.pc = "planned", !.s = k]
    <3>2. "planned" \in ChainStep /\ k \in Nat
      BY ChainBounds DEF ChainStep
    <3>3. x \in RunType
      BY <3>2 DEF RunType
    <3>4. x.pc = "planned" /\ x.s = k /\ x.fence = v.fence
      BY DEF RunType
    <3>5. exec' = [exec EXCEPT ![e] = x]
      BY <1>3, <2>1, <3>1, SessionFacts
    <3> HIDE DEF x
    <3>6. QED BY <3>1, <3>3, <3>4, <3>5
  <2>3. Stands(r) /\ r.pc \notin InSession /\ r.fence \in {0, exec[e].fence}
    <3>1. exec[e].fence = 0
      BY <1>2, RunFacts DEF Stands, InSession, AfterSession
    <3>2. k \in 1 .. Sessions
      BY <2>1, ChainBounds DEF Ordinal
    <3>3. QED BY <2>2, <3>1, <3>2 DEF Stands, InSession, AfterSession
  <2>4. QED BY <1>2, <2>1, <2>2, <2>3, SessionFacts, OutOfSession
<1>4. ASSUME Leave(e), UNCHANGED <<task, link, lease>> PROVE ChainInv'
  <2>1. LinksInOrder'
    BY <1>2, <1>4, LinksStay
  <2>2. QED BY <1>2, <1>4, <2>1, SessionFacts, Leaves
<1>5. QED BY <1>1, <1>3, <1>4 DEF Reissue

\* A new lease has a fence that nobody had.
LEMMA AcquireStep ==
    ASSUME ChainInv, NEW e \in Executor, Acquire(e)
    PROVE  ChainInv'
<1>1. UNCHANGED <<link, session, bill, sent, chainFaults>> /\ exec[e].pc = "planned"
  BY DEF Acquire, AtStep
<1>2. ASSUME Leave(e), UNCHANGED <<lease, task>> PROVE ChainInv'
  <2>1. LinksInOrder'
    BY <1>1, <1>2, LinksStay
  <2>2. QED BY <1>1, <1>2, <2>1, SessionFacts, Leaves
<1>3. PICK n \in Nat : n = lease.fence /\ n + 1 \in Nat /\ n + 1 # 0
  BY SessionFacts
<1>4. ASSUME lease' = [fence |-> n + 1, live |-> TRUE],
             task' = [task EXCEPT !.status = "running", !.holder = n + 1],
             exec' = [exec EXCEPT ![e].pc = "held", ![e].fence = n + 1, ![e].ready = 0,
                                  ![e].consumed = 0, ![e].holder = 0]
      PROVE  ChainInv'
  <2>1. /\ task' \in Task /\ task'.count = task.count /\ task'.consumed = task.consumed
        /\ task'.ready = task.ready
    BY <1>3, <1>4, SessionFacts DEF Task
  <2>2. /\ lease' \in [fence : Nat, live : BOOLEAN] /\ lease'.fence = n + 1
    BY <1>3, <1>4
  <2>3. PICK r \in RunType : /\ exec' = [exec EXCEPT ![e] = r]
                             /\ r.pc = "held" /\ r.s = exec[e].s /\ r.fence = n + 1
                             /\ r.mode = exec[e].mode
    <3>1. PICK v \in RunType : v = exec[e]
      BY RunFacts
    <3> DEFINE x == [v EXCEPT !.pc = "held", !.fence = n + 1, !.ready = 0,
                              !.consumed = 0, !.holder = 0]
    <3>2. "held" \in ChainStep
      BY DEF ChainStep
    <3>3. x \in RunType
      BY <1>3, <3>2 DEF RunType
    <3>4. x.pc = "held" /\ x.s = v.s /\ x.fence = n + 1 /\ x.mode = v.mode
      BY DEF RunType
    <3>5. exec' = [exec EXCEPT ![e] = x]
      BY <1>4, <3>1, SessionFacts
    <3> HIDE DEF x
    <3>6. QED BY <3>1, <3>3, <3>4, <3>5
  <2>4. /\ exec' \in [Executor -> RunType] /\ exec'[e] = r
        /\ \A f \in Executor : f # e => exec'[f] = exec[f]
    BY <2>3, SessionFacts
  <2>5. \A f \in Executor : exec[f].fence \in Nat /\ exec[f].fence =< n
    BY <1>3, RunFacts
  <2>6. ChainTypeOK'
    BY <1>1, <2>1, <2>2, <2>4 DEF ChainInv, ChainTypeOK
  <2>7. Fences'
    <3>1. \A f \in Executor : exec'[f].fence =< n + 1
      BY <1>3, <2>3, <2>4, <2>5
    <3>2. \A f, g \in Executor :
              exec'[f].fence = exec'[g].fence /\ f # g => exec'[f].fence = 0
      <4>1. \A f \in Executor : f # e => exec'[f].fence = exec[f].fence /\ exec[f].fence # n + 1
        BY <1>3, <2>4, <2>5
      <4>2. exec'[e].fence = n + 1
        BY <2>3, <2>4
      <4>3. QED BY <4>1, <4>2, SessionFacts DEF Fences
    <3>3. QED BY <1>3, <2>2, <3>1, <3>2 DEF Fences
  <2>8. InOrder' /\ LinksInOrder' /\ SentOnce' /\ Sessions' = Sessions
    <3>1. Sessions' = Sessions /\ LinksInOrder'
      BY <1>1, <2>1, LinksStay DEF Sessions
    <3>2. QED BY <1>1, <3>1, SessionFacts DEF InOrder, SentOnce, Spoilt, Unsent
  <2>9. \A f \in Executor : Stands(exec[f])'
    <3>1. Stands(r)
      BY <1>1, <1>3, <2>3, RunFacts DEF Stands, InSession, AfterSession
    <3>2. ASSUME NEW f \in Executor PROVE Stands(exec'[f])
      BY <2>4, <3>1 DEF ChainInv
    <3>3. QED BY <2>8, <3>2 DEF Stands
  <2>10. \A f \in Executor : Current(exec[f])'
    <3>1. r.pc \notin InSession
      BY <2>3 DEF InSession
    <3>2. \A f \in Executor : f # e => exec'[f].fence # lease'.fence
      BY <1>3, <2>2, <2>4, <2>5
    <3>3. QED BY <2>4, <3>1, <3>2 DEF Current
  <2>11. \A f \in Executor : AboutToSend(f)'
    <3>1. ASSUME NEW f \in Executor, f # e, exec[f].pc = "reserved" PROVE AboutToSend(f)'
      <4>1. exec'[f] = exec[f] /\ AboutToSend(f) /\ r.pc \notin InSession
        BY <2>3, <2>4, <3>1 DEF ChainInv, InSession
      <4>2. \A g \in Executor : exec'[g].pc \in InSession => exec'[g] = exec[g]
        BY <2>4, <4>1
      <4>3. QED BY <1>1, <3>1, <4>1, <4>2 DEF AboutToSend, Unsent
    <3>2. \A f \in Executor : exec'[f].pc # "reserved" => AboutToSend(f)'
      BY DEF AboutToSend
    <3>3. QED BY <2>3, <2>4, <3>1, <3>2
  <2>12. QED BY <2>6, <2>7, <2>8, <2>9, <2>10, <2>11 DEF ChainInv
<1>5. QED BY <1>2, <1>3, <1>4 DEF Acquire

\* Only the last ticket can be consumed.
LEMMA ConsumeStep ==
    ASSUME ChainInv, NEW e \in Executor, Consume(e)
    PROVE  ChainInv'
<1>1. /\ exec[e].pc = "held" /\ exec[e].mode = "ticket" /\ exec[e].fence \in Nat
      /\ exec[e].fence # 0
  BY RunFacts DEF Consume, AtStep, Stands, AfterSession
<1>2. PICK k \in Ordinal : k = exec[e].s /\ k = task.count /\ task.ready = k
  <2>1. exec[e].s \in Ordinal /\ task.ready = exec[e].s
    BY <1>1, RunFacts DEF Consume, Stands
  <2>2. task.ready # 0
    BY <2>1, ChainBounds
  <2>3. QED BY <2>1, <2>2, SessionFacts DEF LinksInOrder
<1>3. PICK n \in Nat : n = exec[e].fence
  BY <1>1
<1>4. /\ task' = [task EXCEPT !.ready = 0, !.consumed = k, !.fence = n]
      /\ link' = [link EXCEPT ![k].status = "consumed", ![k].fence = n]
      /\ link[k].status = "issued" /\ To(e, "consumed")
      /\ UNCHANGED <<lease, session, bill, sent, chainFaults>>
  BY <1>2, <1>3 DEF Consume
<1>5. /\ task' \in Task /\ task'.count = k /\ task'.ready = 0 /\ task'.consumed = k
  BY <1>2, <1>4, SessionFacts, ChainBounds DEF Task
<1>6. /\ link' \in [Ordinal -> Link] /\ link'[k].status = "consumed"
      /\ link'[k].source = link[k].source /\ link'[k].successor = link[k].successor
      /\ \A j \in Ordinal : j # k => link'[j] = link[j]
  BY <1>4, SessionFacts DEF Link
<1>7. LinksInOrder'
  <2>1. Sessions' = Sessions /\ k \in Nat /\ k # 0 /\ k =< MaxSessions
    BY <1>4, ChainBounds DEF Sessions, Ordinal
  <2>2. \A j \in Ordinal :
          /\ link'[j].status # "none" <=> j =< k
          /\ j =< k => link'[j].source = j /\ session'[j].status = "handed_off"
          /\ link'[j].successor = IF link'[j].status = "started" THEN j + 1 ELSE 0
          /\ j < k => link'[j].status = "started"
    <3>1. \A j \in Ordinal : j # k =>
          /\ link'[j].status # "none" <=> j =< k
          /\ j =< k => link'[j].source = j /\ session'[j].status = "handed_off"
          /\ link'[j].successor = IF link'[j].status = "started" THEN j + 1 ELSE 0
          /\ j < k => link'[j].status = "started"
      BY <1>2, <1>4, <1>6, SessionFacts DEF LinksInOrder
    <3>2. /\ k =< k /\ ~(k < k) /\ link[k].source = k /\ link[k].successor = 0
          /\ session[k].status = "handed_off"
      BY <1>2, <1>4, <2>1, SessionFacts DEF LinksInOrder
    <3>3. QED BY <1>4, <1>6, <3>1, <3>2
  <2>3. Sessions = k /\ k =< k
    BY <1>2, <1>4, <2>1, SessionFacts DEF LinksInOrder
  <2>4. QED BY <1>5, <1>6, <2>1, <2>2, <2>3 DEF LinksInOrder
<1>8. QED BY <1>1, <1>4, <1>5, <1>6, <1>7, StepsOutside

\* A new session is the next one, and its ticket is the last.
LEMMA BeginStep ==
    ASSUME ChainInv, NEW e \in Executor, Begin(e)
    PROVE  ChainInv'
<1>1. PICK n \in Ordinal : n = Sessions + 1 /\ n \in Nat
  BY ChainBounds DEF Begin
<1>2. PICK c \in Checkpoint : /\ c = [Unopened EXCEPT !.status = "ready"]
                             /\ c.status = "ready" /\ c.turns = 0 /\ ~c.pending /\ ~c.terminal
  <2> DEFINE x == [Unopened EXCEPT !.status = "ready"]
  <2>1. x \in Checkpoint /\ x.status = "ready" /\ x.turns = 0 /\ ~x.pending /\ ~x.terminal
    BY DEF Unopened, Checkpoint
  <2> HIDE DEF x
  <2>2. QED BY <2>1 DEF x
<1>3. /\ exec[e].pc \in {"held", "consumed"} /\ Owns(e) /\ MayBegin(e)
      /\ session' = [session EXCEPT ![n] = c]
      /\ link' = IF n = 1 THEN link
                 ELSE [link EXCEPT ![task.consumed].status = "started",
                                   ![task.consumed].successor = n]
      /\ exec' = [exec EXCEPT ![e].pc = "begun", ![e].s = n, ![e].mem = c]
      /\ UNCHANGED <<task, lease, bill, sent, chainFaults>>
  BY <1>1, <1>2 DEF Begin, AtStep
<1>4. PICK r \in RunType :
        /\ exec' = [exec EXCEPT ![e] = r] /\ r.pc = "begun" /\ r.s = n /\ r.mem = c
        /\ r.fence = exec[e].fence
  <2>1. PICK v \in RunType : v = exec[e]
    BY RunFacts
  <2> DEFINE x == [v EXCEPT !.pc = "begun", !.s = n, !.mem = c]
  <2>2. "begun" \in ChainStep
    BY DEF ChainStep
  <2>3. x \in RunType
    BY <1>1, <2>2 DEF RunType
  <2>4. x.pc = "begun" /\ x.s = n /\ x.mem = c /\ x.fence = v.fence
    BY DEF RunType
  <2>5. exec' = [exec EXCEPT ![e] = x]
    BY <1>3, <2>1, SessionFacts
  <2> HIDE DEF x
  <2>6. QED BY <2>1, <2>3, <2>4, <2>5
<1>5. /\ session' \in [Ordinal -> Checkpoint] /\ session'[n] = c
      /\ \A j \in Ordinal : j # n => session'[j] = session[j]
  BY <1>3, SessionFacts
<1>6. Sessions \in Nat /\ session[n].status = "none" /\ session[n] = Unopened
  <2>1. Sessions \in Nat /\ ~(n =< Sessions)
    BY <1>1, SessionFacts
  <2>2. QED BY <2>1, SessionFacts
<1>7. InOrder' /\ Sessions' = n
  <2>1. \A j \in Ordinal : /\ session'[j].status # "none" <=> j =< n
                           /\ session'[j].status = "none" => session'[j] = Unopened
    <3>1. \A j \in Ordinal : j # n => (j =< n <=> j =< Sessions)
      BY <1>1, <1>6, ChainBounds
    <3>2. \A j \in Ordinal : j # n =>
            /\ session'[j].status # "none" <=> j =< n
            /\ session'[j].status = "none" => session'[j] = Unopened
      BY <1>5, <3>1, SessionFacts
    <3>3. session'[n].status # "none" /\ n =< n
      BY <1>1, <1>2, <1>5
    <3>4. QED BY <3>2, <3>3
  <2>2. n \in 0 .. MaxSessions
    BY <1>1, ChainBounds DEF Ordinal
  <2>3. InOrder'
    BY <2>1, <2>2 DEF InOrder
  <2>4. Cardinality({j \in Ordinal : session'[j].status # "none"}) = n
    BY <2>1, <2>2, CountInOrder
  <2>5. QED BY <2>3, <2>4 DEF Sessions
<1>8. link' \in [Ordinal -> Link] /\ LinksInOrder'
  <2>1. CASE Sessions = 0
    <3>1. n = 1 /\ link' = link /\ task.count = 0
      BY <1>1, <1>3, <2>1 DEF MayBegin
    <3>2. \A j \in Ordinal : ~(j =< task.count)
      BY <3>1, ChainBounds
    <3>3. QED BY <1>3, <1>7, <3>1, <3>2, SessionFacts DEF LinksInOrder
  <2>2. CASE Sessions # 0
    <3>1. n # 1 /\ task.count \in Nat /\ task.consumed \in Nat
      BY <1>1, <1>6, <2>2, SessionFacts DEF Task
    <3>2. PICK k \in Ordinal : k = task.consumed /\ k = Sessions /\ link[k].status = "consumed"
      BY <1>3, <1>6, <2>2, SessionFacts, ChainBounds DEF MayBegin, Ordinal
    <3>3. k = task.count /\ n = k + 1 /\ k \in Nat /\ k # 0 /\ k # n
      <4>1. k =< task.count /\ ~(k < task.count)
        BY <3>2, SessionFacts DEF LinksInOrder
      <4>2. k \in Nat /\ k # 0
        BY ChainBounds
      <4>3. QED BY <1>1, <3>1, <3>2, <4>1, <4>2
    <3>4. link' = [link EXCEPT ![k].status = "started", ![k].successor = n]
      BY <1>3, <3>1, <3>2
    <3>5. /\ link' \in [Ordinal -> Link] /\ link'[k].status = "started"
          /\ link'[k].successor = n /\ link'[k].source = link[k].source
          /\ \A j \in Ordinal : j # k => link'[j] = link[j]
      BY <1>1, <3>4, SessionFacts DEF Link
    <3>6. \A j \in Ordinal :
            /\ link'[j].status # "none" <=> j =< k
            /\ j =< k => link'[j].source = j /\ session'[j].status = "handed_off"
            /\ link'[j].successor = IF link'[j].status = "started" THEN j + 1 ELSE 0
            /\ j < k => link'[j].status = "started"
      <4>1. \A j \in Ordinal : j =< k => session'[j] = session[j]
        BY <1>5, <3>3, ChainBounds
      <4>2. \A j \in Ordinal : j # k =>
              /\ link'[j].status # "none" <=> j =< k
              /\ j =< k => link'[j].source = j /\ session'[j].status = "handed_off"
              /\ link'[j].successor = IF link'[j].status = "started" THEN j + 1 ELSE 0
              /\ j < k => link'[j].status = "started"
        BY <3>3, <3>5, <4>1, SessionFacts DEF LinksInOrder
      <4>3. k =< k /\ ~(k < k) /\ link[k].source = k /\ session[k].status = "handed_off"
        BY <3>3, SessionFacts DEF LinksInOrder
      <4>4. QED BY <3>3, <3>5, <4>1, <4>2, <4>3
    <3>7. task.ready = 0
      BY <3>2, <3>3, SessionFacts DEF LinksInOrder
    <3>8. QED BY <1>3, <1>7, <3>2, <3>3, <3>5, <3>6, <3>7, SessionFacts DEF LinksInOrder
  <2>3. QED BY <2>1, <2>2
<1>9. Stands(r)'
  <2>1. exec[e].fence # 0
    BY <1>3, SessionFacts DEF Owns, Fences
  <2>2. n \in 1 .. Sessions'
    BY <1>1, <1>6, <1>7
  <2>3. QED BY <1>2, <1>4, <2>1, <2>2 DEF Stands, InSession, AfterSession, Marked
<1>10. Unsent(n, session'[n].turns) /\ ~session[n].pending
  <2>1. ~Spoilt(n) /\ session[n].turns = 0 /\ ~session[n].pending
    BY <1>6, StartTypes DEF Spoilt
  <2>2. QED BY <1>2, <1>5, <2>1, SessionFacts DEF SentOnce
<1>11. Sessions =< Sessions' /\ r.pc \in {"begun", "boundary"} /\ r.mem = session'[n]
  BY <1>1, <1>4, <1>5, <1>6, <1>7
<1>12. QED BY <1>3, <1>4, <1>5, <1>7, <1>8, <1>9, <1>10, <1>11, Enters

\* A session that is recovered is one nobody can still be sending a turn of.
LEMMA RecoverSteps ==
    ASSUME ChainInv, NEW e \in Executor, RecoverTerminal(e) \/ ResumeRun(e)
    PROVE  ChainInv'
<1>1. /\ exec[e].pc = "held" /\ exec[e].mode = "recover" /\ Owns(e) /\ exec[e].fence # 0
      /\ UNCHANGED <<task, lease, link, bill, sent, chainFaults>>
  <2>1. /\ exec[e].pc = "held" /\ exec[e].mode = "recover" /\ Owns(e)
        /\ UNCHANGED <<task, lease, link, bill, sent, chainFaults>>
    BY DEF RecoverTerminal, ResumeRun, AtStep
  <2>2. QED BY <2>1, SessionFacts DEF Owns, Fences
<1>2. PICK k \in Ordinal : k = exec[e].s /\ k \in 1 .. Sessions /\ k \in Nat /\ k =< Sessions
  <2>1. exec[e].s \in 1 .. Sessions /\ exec[e].s \in Nat
    BY <1>1, RunFacts DEF Stands
  <2>2. QED BY <2>1, SessionFacts, ChainBounds DEF Ordinal
<1>3. PICK c \in Checkpoint : c = session[k]
  BY SessionFacts
\* Either way the session is kept, or saved as ready.
<1>4. ASSUME NEW d \in Checkpoint, NEW pc \in {"begun", "boundary"},
             session' = [session EXCEPT ![k] = d],
             exec' = [exec EXCEPT ![e].pc = pc, ![e].mem = d],
             d.turns = c.turns, ~c.pending, d.pending = c.pending,
             c.status \in {"ready", "running", "interrupted", "failed", "completed"},
             d.status \in {"ready", "running", "interrupted", "failed", "completed"},
             c.status = "failed" => c.terminal,
             d.terminal => pc = "boundary"
      PROVE  ChainInv'
  <2>1. PICK r \in RunType :
          /\ exec' = [exec EXCEPT ![e] = r] /\ r.pc = pc /\ r.s = k /\ r.mem = d
          /\ r.fence = exec[e].fence
    <3>1. PICK v \in RunType : v = exec[e]
      BY RunFacts
    <3> DEFINE x == [v EXCEPT !.pc = pc, !.mem = d]
    <3>2. pc \in ChainStep
      BY DEF ChainStep
    <3>3. x \in RunType
      BY <3>2 DEF RunType
    <3>4. x.pc = pc /\ x.s = v.s /\ x.mem = d /\ x.fence = v.fence
      BY DEF RunType
    <3>5. exec' = [exec EXCEPT ![e] = x]
      BY <1>4, <3>1, SessionFacts
    <3> HIDE DEF x
    <3>6. QED BY <1>2, <3>1, <3>3, <3>4, <3>5
  <2>2. /\ session' \in [Ordinal -> Checkpoint] /\ session'[k] = d
        /\ \A j \in Ordinal : j # k => session'[j] = session[j]
    BY <1>4, SessionFacts
  <2>3. InOrder' /\ Sessions' = Sessions
    <3>1. \A j \in Ordinal : session'[j].status # "none" <=> session[j].status # "none"
      BY <1>3, <1>4, <2>2
    <3>2. \A j \in Ordinal : session'[j].status = "none" => session'[j] = Unopened
      BY <1>4, <2>2, SessionFacts
    <3>3. Sessions' = Sessions
      BY <3>1 DEF Sessions
    <3>4. Sessions \in 0 .. MaxSessions
      BY SessionFacts, ChainBounds
    <3>5. QED BY <3>1, <3>2, <3>3, <3>4, SessionFacts DEF InOrder
  <2>4. LinksInOrder' /\ link' \in [Ordinal -> Link]
    <3>1. \A j \in Ordinal : j =< task.count => session'[j] = session[j]
      BY <1>3, <1>4, <2>2, SessionFacts DEF LinksInOrder
    <3>2. QED BY <1>1, <2>3, <3>1, SessionFacts DEF LinksInOrder
  <2>5. Stands(r)'
    BY <1>1, <1>2, <1>4, <2>1, <2>3 DEF Stands, InSession, AfterSession, Marked
  <2>6. ~session[k].pending /\ Unsent(k, session'[k].turns)
    <3>1. ~Spoilt(k)
      BY <1>3, <1>4 DEF Spoilt
    <3>2. QED BY <1>3, <1>4, <2>2, <3>1, SessionFacts DEF SentOnce
  <2>7. Sessions =< Sessions' /\ r.mem = session'[k]
    BY <2>1, <2>2, <2>3, SessionFacts
  <2>8. QED BY <1>1, <2>1, <2>2, <2>3, <2>4, <2>5, <2>6, <2>7, Enters
<1>5. CASE RecoverTerminal(e)
  <2>1. /\ Recoverable(c) /\ exec' = [exec EXCEPT ![e].pc = "boundary", ![e].mem = c]
        /\ session' = session
    BY <1>2, <1>3, <1>5 DEF RecoverTerminal
  <2>2. session' = [session EXCEPT ![k] = c]
    BY <1>3, <2>1, SessionFacts
  <2>3. QED BY <1>4, <2>1, <2>2 DEF Recoverable
<1>6. CASE ResumeRun(e)
  <2>1. /\ ~c.terminal /\ ~c.pending
        /\ c.status \in {"interrupted", "running", "ready", "completed"}
        /\ session' = IF c.status \in {"interrupted", "running"}
                      THEN [session EXCEPT ![k].status = "ready"] ELSE session
        /\ exec' = [exec EXCEPT ![e].pc = "begun", ![e].mem = session'[k]]
    BY <1>2, <1>3, <1>6 DEF ResumeRun
  <2> DEFINE x == [c EXCEPT !.status = "ready"]
  <2>2. /\ x \in Checkpoint /\ x.turns = c.turns /\ x.pending = c.pending
        /\ x.terminal = c.terminal /\ x.status = "ready"
    BY DEF Checkpoint
  <2>3. [session EXCEPT ![k].status = "ready"] = [session EXCEPT ![k] = x]
    BY <1>3, SessionFacts
  <2> HIDE DEF x
  <2>4. CASE c.status \in {"interrupted", "running"}
    <3>1. session' = [session EXCEPT ![k] = x]
      BY <2>1, <2>3, <2>4
    <3>2. session'[k] = x
      BY <3>1, SessionFacts
    <3>3. exec' = [exec EXCEPT ![e].pc = "begun", ![e].mem = x]
      BY <2>1, <3>2
    <3>4. QED BY <1>4, <2>1, <2>2, <2>4, <3>1, <3>3
  <2>5. CASE c.status \notin {"interrupted", "running"}
    <3>1. session' = [session EXCEPT ![k] = c] /\ session'[k] = c
      BY <1>3, <2>1, <2>5, SessionFacts
    <3>2. exec' = [exec EXCEPT ![e].pc = "begun", ![e].mem = c]
      BY <2>1, <3>1
    <3>3. QED BY <1>4, <2>1, <3>1, <3>2
  <2>6. QED BY <2>4, <2>5
<1>7. QED BY <1>5, <1>6

-----------------------------------------------------------------------------
(* Ends of a run, and the theorem. *)

\* Steps that only leave, or only change the place of an executor outside a session.
LEMMA EndSteps ==
    ASSUME ChainInv, NEW e \in Executor,
           \/ FinishRecovered(e) \/ FailOutside(e) \/ Finish(e) \/ Failed(e) \/ Refused(e)
           \/ ExecutorDies(e)
    PROVE  ChainInv'
<1>1. /\ task \in Task /\ lease \in [fence : Nat, live : BOOLEAN] /\ chainFaults \in Nat
      /\ link \in [Ordinal -> Link] /\ bill \in {"none", "open", "paid"}
  BY SessionFacts
<1>2. [lease EXCEPT !.live = FALSE] \in [fence : Nat, live : BOOLEAN]
      /\ [lease EXCEPT !.live = FALSE].fence = lease.fence
      /\ ~[lease EXCEPT !.live = FALSE].live
  BY <1>1
<1>3. CASE FinishRecovered(e)
  <2>1. exec[e].fence # 0
    BY <1>3, RunFacts DEF FinishRecovered, AtStep, Stands, AfterSession
  <2>2. LinksInOrder'
    BY <1>3, LinksStay DEF FinishRecovered
  <2>3. QED BY <1>1, <1>3, <2>1, <2>2, StepsOutside DEF FinishRecovered
<1>4. CASE FailOutside(e)
  <2>1. exec[e].fence # 0
    BY <1>4, RunFacts DEF FailOutside, Stands, AfterSession, InSession
  <2>2. LinksInOrder'
    BY <1>4, LinksStay DEF FailOutside
  <2>3. QED BY <1>1, <1>4, <2>1, <2>2, StepsOutside DEF FailOutside
<1>5. CASE Finish(e)
  <2>1. PICK status \in {"completed", "blocked"} : task' = [task EXCEPT !.status = status]
    BY <1>5 DEF Finish
  <2>2. /\ task' \in Task /\ task'.count = task.count /\ task'.consumed = task.consumed
        /\ task'.ready = task.ready
    BY <1>1, <2>1 DEF Task
  <2>3. LinksInOrder'
    BY <1>5, <2>2, LinksStay DEF Finish
  <2>4. QED BY <1>1, <1>2, <1>5, <2>2, <2>3, Leaves DEF Finish
<1>6. CASE Failed(e)
  <2>1. /\ task' \in Task /\ task'.count = task.count /\ task'.consumed = task.consumed
        /\ task'.ready = task.ready
    <3>1. CASE CanRequeue
      <4>1. task' = [task EXCEPT !.status = "queued", !.holder = 0, !.recoveries = @ + 1]
        BY <1>6, <3>1 DEF Failed
      <4>2. task.recoveries + 1 \in Nat
        BY <1>1 DEF Task
      <4>3. QED BY <1>1, <4>1, <4>2 DEF Task
    <3>2. CASE ~CanRequeue
      <4>1. task' = [task EXCEPT !.status = "blocked"]
        BY <1>6, <3>2 DEF Failed
      <4>2. QED BY <1>1, <4>1 DEF Task
    <3>3. QED BY <3>1, <3>2
  <2>2. LinksInOrder'
    BY <1>6, <2>1, LinksStay DEF Failed
  <2>3. QED BY <1>1, <1>2, <1>6, <2>1, <2>2, Leaves DEF Failed
<1>7. CASE Refused(e)
  <2>1. LinksInOrder'
    BY <1>7, LinksStay DEF Refused
  <2>2. QED BY <1>1, <1>7, <2>1, Leaves DEF Refused
<1>8. CASE ExecutorDies(e)
  <2>1. LinksInOrder' /\ chainFaults' \in Nat
    BY <1>1, <1>8, LinksStay DEF ExecutorDies
  <2>2. QED BY <1>1, <1>8, <2>1, Leaves DEF ExecutorDies
<1>9. QED BY <1>3, <1>4, <1>5, <1>6, <1>7, <1>8

\* Steps of nobody: the lease runs out, a wait ends, the queued task is retired.
LEMMA OutsideSteps ==
    ASSUME ChainInv, Expire \/ WaitOver \/ RetireQueued
    PROVE  ChainInv'
<1>1. /\ task \in Task /\ lease \in [fence : Nat, live : BOOLEAN] /\ chainFaults \in Nat
      /\ link \in [Ordinal -> Link] /\ bill \in {"none", "open", "paid"} /\ LinksInOrder
  BY SessionFacts
<1>2. CASE Expire
  <2>1. LinksInOrder' /\ chainFaults' \in Nat
    BY <1>1, <1>2, LinksStay DEF Expire
  <2>2. lease' \in [fence : Nat, live : BOOLEAN] /\ lease'.fence = lease.fence /\ ~lease'.live
    BY <1>1, <1>2 DEF Expire
  <2>3. QED BY <1>1, <1>2, <2>1, <2>2, Outside DEF Expire
<1>3. CASE WaitOver
  <2>1. /\ task' \in Task /\ task'.count = task.count /\ task'.consumed = task.consumed
        /\ task'.ready = task.ready
    BY <1>1, <1>3 DEF WaitOver, Task
  <2>2. LinksInOrder'
    BY <1>3, <2>1, LinksStay DEF WaitOver
  <2>3. QED BY <1>1, <1>3, <2>1, <2>2, Outside DEF WaitOver
<1>4. CASE RetireQueued
  <2>1. task' = [task EXCEPT !.status = "blocked", !.ready = 0]
    BY <1>4 DEF RetireQueued
  <2>2. /\ task' \in Task /\ task'.count = task.count /\ task'.consumed = task.consumed
        /\ task'.ready = 0
    BY <1>1, <2>1 DEF Task
  <2>3. link' \in [Ordinal -> Link] /\ LinksInOrder'
    <3>1. CASE task.ready = 0
      <4>1. link' = link
        BY <1>4, <3>1 DEF RetireQueued
      <4>2. QED BY <1>1, <1>4, <2>2, <3>1, <4>1, LinksStay DEF RetireQueued
    <3>2. CASE task.ready # 0
      <4>1. PICK k \in Ordinal : k = task.count /\ link[k].status = "issued" /\ k = task.ready
                                 /\ k \in Nat /\ k # 0
        <5>1. task.ready = task.count /\ task.count \in Nat /\ task.count =< MaxSessions
          BY <1>1, <3>2 DEF LinksInOrder, Task
        <5>2. task.count \in Ordinal
          BY <3>2, <5>1, ChainBounds DEF Ordinal
        <5>3. QED BY <1>1, <3>2, <5>1, <5>2 DEF LinksInOrder
      <4>2. link' = [link EXCEPT ![k].status = "retired"]
        BY <1>4, <3>2, <4>1 DEF RetireQueued
      <4>3. /\ link' \in [Ordinal -> Link] /\ link'[k].status = "retired"
            /\ link'[k].source = link[k].source /\ link'[k].successor = link[k].successor
            /\ \A j \in Ordinal : j # k => link'[j] = link[j]
        BY <1>1, <4>2 DEF Link
      <4>4. Sessions' = Sessions /\ session' = session
        BY <1>4 DEF RetireQueued, Sessions
      <4>5. \A j \in Ordinal :
              /\ link'[j].status # "none" <=> j =< k
              /\ j =< k => link'[j].source = j /\ session'[j].status = "handed_off"
              /\ link'[j].successor = IF link'[j].status = "started" THEN j + 1 ELSE 0
              /\ j < k => link'[j].status = "started"
        <5>1. \A j \in Ordinal : j # k =>
                /\ link'[j].status # "none" <=> j =< k
                /\ j =< k => link'[j].source = j /\ session'[j].status = "handed_off"
                /\ link'[j].successor = IF link'[j].status = "started" THEN j + 1 ELSE 0
                /\ j < k => link'[j].status = "started"
          <6>1. \A j \in Ordinal :
                /\ link[j].status # "none" <=> j =< k
                /\ j =< k => link[j].source = j /\ session[j].status = "handed_off"
                /\ link[j].successor = IF link[j].status = "started" THEN j + 1 ELSE 0
                /\ j < k => link[j].status = "started"
            BY <1>1, <4>1 DEF LinksInOrder
          <6>2. QED BY <4>3, <4>4, <6>1
        <5>2. /\ k =< k /\ ~(k < k) /\ link[k].source = k /\ link[k].successor = 0
              /\ session[k].status = "handed_off"
          BY <1>1, <4>1 DEF LinksInOrder
        <5>3. QED BY <4>3, <4>4, <5>1, <5>2
      <4>6. QED BY <1>1, <2>2, <4>1, <4>3, <4>4, <4>5 DEF LinksInOrder
    <3>3. QED BY <3>1, <3>2
  <2>4. QED BY <1>1, <1>4, <2>2, <2>3, Outside DEF RetireQueued
<1>5. QED BY <1>2, <1>3, <1>4

\* Every step of an executor and of its surroundings keeps the invariant.
LEMMA ChainStepKeeps ==
    ASSUME ChainInv, ChainNext
    PROVE  ChainInv'
<1>1. ASSUME NEW e \in Executor, Prepare(e) PROVE ChainInv'
  BY <1>1, ReadStep, PlanStep, RestoreStep, ReissueStep, AcquireStep, ConsumeStep, BeginStep,
     RecoverSteps, EndSteps DEF Prepare
<1>2. ASSUME NEW e \in Executor, TakeTurn(e) PROVE ChainInv'
  BY <1>2, TurnSteps, SaveSteps, SendStep, FailSteps, ReceiveStep, UntrackStep, RequestStep
     DEF TakeTurn
<1>3. ASSUME NEW e \in Executor, Close(e) PROVE ChainInv'
  BY <1>3, SaveSteps, TurnSteps, IssueStep, EndSteps, FailSteps DEF Close
<1>4. ASSUME NEW e \in Executor, ExecutorDies(e) PROVE ChainInv'
  BY <1>4, EndSteps
<1>5. CASE Expire \/ WaitOver \/ RetireQueued
  BY <1>5, OutsideSteps
<1>6. QED BY <1>1, <1>2, <1>3, <1>4, <1>5 DEF ChainNext, Work

LEMMA ChainInitial == ChainInit => ChainInv
<1> SUFFICES ASSUME ChainInit PROVE ChainInv
  OBVIOUS
<1>1. ChainTypeOK
  <2>1. task \in Task /\ lease \in [fence : Nat, live : BOOLEAN]
        /\ bill \in {"none", "open", "paid"} /\ chainFaults \in Nat
    BY DEF ChainInit, Task
  <2>2. link \in [Ordinal -> Link] /\ sent \in [Ordinal \X Turn -> Nat]
    BY DEF ChainInit, Link
  <2>3. session \in [Ordinal -> Checkpoint] /\ exec \in [Executor -> RunType]
    BY StartTypes DEF ChainInit
  <2>4. QED BY <2>1, <2>2, <2>3 DEF ChainTypeOK
<1>2. InOrder /\ Sessions = 0
  <2>1. 0 \in 0 .. MaxSessions
    BY ChainBounds
  <2>2. \A k \in Ordinal : /\ session[k].status # "none" <=> k =< 0
                           /\ session[k].status = "none" => session[k] = Unopened
    BY StartTypes, ChainBounds DEF ChainInit
  <2>3. InOrder
    BY <2>1, <2>2 DEF InOrder
  <2>4. QED BY <2>1, <2>2, <2>3, CountInOrder DEF Sessions
<1>3. Fences
  BY StartTypes DEF ChainInit, Fences
<1>4. \A e \in Executor : exec[e] = Idle
  BY DEF ChainInit
<1>5. Stands(Idle) /\ Current(Idle) /\ Idle.pc # "reserved"
  BY StartTypes DEF Stands, Current, InSession, AfterSession, Idle
<1>6. \A e \in Executor : Stands(exec[e]) /\ Current(exec[e]) /\ AboutToSend(e)
  BY <1>4, <1>5 DEF AboutToSend
<1>7. SentOnce
  <2>1. \A k \in Ordinal : \A t \in Turn : sent[<<k, t>>] = 0
    BY DEF ChainInit
  <2>2. QED BY <2>1 DEF SentOnce, Unsent
<1>8. LinksInOrder
  <2>1. \A k \in Ordinal : link[k].status = "none" /\ link[k].successor = 0 /\ ~(k =< 0)
                           /\ ~(k < 0)
    BY ChainBounds DEF ChainInit
  <2>2. task.count = 0 /\ task.consumed = 0 /\ task.ready = 0
    BY DEF ChainInit
  <2>3. QED BY <1>2, <2>1, <2>2, ChainBounds DEF LinksInOrder
<1>9. QED BY <1>1, <1>2, <1>3, <1>6, <1>7, <1>8 DEF ChainInv

LEMMA ChainInvHolds == ChainSpec => []ChainInv
<1>1. ChainInv /\ UNCHANGED chainVars => ChainInv'
  <2> SUFFICES ASSUME ChainInv, UNCHANGED chainVars PROVE ChainInv'
    OBVIOUS
  <2>1. LinksInOrder'
    BY LinksStay DEF chainVars
  <2>2. QED BY <2>1, SessionFacts, Outside DEF chainVars
<1>2. ChainInv /\ [ChainNext]_chainVars => ChainInv'
  BY <1>1, ChainStepKeeps
<1>3. QED BY <1>2, ChainInitial, PTL DEF ChainSpec

\* What the invariant says of the chain that OneChain states.
LEMMA ChainImplies == ChainInv => ChainSound
<1> SUFFICES ASSUME ChainInv PROVE ChainSound
  OBVIOUS
<1>1. ChainTypeOK /\ LinksInOrder /\ SentOnce
  BY DEF ChainInv
<1>2. NoRequestTwice
  <2>1. ASSUME NEW r \in Ordinal \X Turn PROVE sent[r] =< 1
    <3>1. r = <<r[1], r[2]>> /\ r[1] \in Ordinal /\ r[2] \in Turn
      BY <2>1
    <3>2. sent[<<r[1], r[2]>>] =< 1
      BY <1>1, <3>1 DEF SentOnce
    <3>3. QED BY <3>1, <3>2
  <2>2. QED BY <2>1 DEF NoRequestTwice
<1>3. OneChain
  <2>1. PICK n \in 0 .. MaxSessions :
          /\ \A k \in Ordinal : link[k].status = "started" <=> k =< n
          /\ Sessions # 0 => Sessions = n + 1
    <3>1. task.count \in Nat /\ task.count =< MaxSessions /\ Sessions \in Nat
      BY <1>1, SessionFacts DEF ChainTypeOK, Task, LinksInOrder
    <3>2. CASE task.count = 0
      <4>1. \A k \in Ordinal : link[k].status = "none" /\ ~(k =< 0)
        BY <1>1, <3>2, ChainBounds DEF LinksInOrder
      <4>2. Sessions # 0 => Sessions = 0 + 1
        BY <1>1, <3>1, <3>2 DEF LinksInOrder
      <4>3. 0 \in 0 .. MaxSessions
        BY ChainBounds
      <4>4. QED BY <4>1, <4>2, <4>3
    <3>3. CASE task.count # 0 /\ link[task.count].status = "started"
      <4>1. \A k \in Ordinal : link[k].status = "started" <=> k =< task.count
        <5>1. ASSUME NEW k \in Ordinal PROVE link[k].status = "started" <=> k =< task.count
          <6>1. k \in Nat
            BY ChainBounds
          <6>2. CASE k = task.count
            BY <3>1, <3>3, <6>2
          <6>3. CASE k < task.count
            BY <1>1, <3>1, <6>1, <6>3 DEF LinksInOrder
          <6>4. CASE k > task.count
            BY <1>1, <3>1, <6>1, <6>4 DEF LinksInOrder
          <6>5. QED BY <3>1, <6>1, <6>2, <6>3, <6>4
        <5>2. QED BY <5>1
      <4>2. Sessions = task.count + 1
        BY <1>1, <3>3 DEF LinksInOrder
      <4>3. task.count \in 0 .. MaxSessions
        BY <3>1, ChainBounds
      <4>4. QED BY <4>1, <4>2, <4>3
    <3>4. CASE task.count # 0 /\ link[task.count].status # "started"
      <4>1. PICK n \in 0 .. MaxSessions : n = task.count - 1
        BY <3>1, <3>4, ChainBounds
      <4>2. \A k \in Ordinal : link[k].status = "started" <=> k =< n
        <5>1. ASSUME NEW k \in Ordinal PROVE link[k].status = "started" <=> k =< n
          <6>1. k \in Nat
            BY ChainBounds
          <6>2. CASE k = task.count
            BY <3>1, <3>4, <4>1, <6>2
          <6>3. CASE k < task.count
            BY <1>1, <3>1, <4>1, <6>1, <6>3 DEF LinksInOrder
          <6>4. CASE k > task.count
            BY <1>1, <3>1, <4>1, <6>1, <6>4 DEF LinksInOrder
          <6>5. QED BY <3>1, <6>1, <6>2, <6>3, <6>4
        <5>2. QED BY <5>1
      <4>3. Sessions = n + 1
        <5>1. Sessions = task.count
          BY <1>1, <3>4 DEF LinksInOrder
        <5>2. QED BY <3>1, <3>4, <4>1, <5>1
      <4>4. QED BY <4>2, <4>3
    <3>5. QED BY <3>2, <3>3, <3>4
  <2>2. Cardinality({k \in Ordinal : link[k].status = "started"}) = n
    <3> DEFINE f == [k \in Ordinal |->
                        [status |-> IF link[k].status = "started" THEN "started" ELSE "none"]]
    <3>1. \A k \in Ordinal : f[k].status # "none" <=> k =< n
      BY <2>1
    <3>2. {k \in Ordinal : f[k].status # "none"} = {k \in Ordinal : link[k].status = "started"}
      OBVIOUS
    <3> HIDE DEF f
    <3>3. Cardinality({k \in Ordinal : f[k].status # "none"}) = n
      BY <3>1, CountInOrder
    <3>4. QED BY <3>2, <3>3
  <2>3. Sessions # 0 =>
            Sessions = Cardinality({k \in Ordinal : link[k].status = "started"}) + 1
    BY <2>1, <2>2
  <2>4. QED BY <1>1, <2>3 DEF OneChain, LinksInOrder
<1>4. QED BY <1>1, <1>2, <1>3 DEF ChainSound

\* Whatever executors die or go on with expired leases, no model request is sent twice,
\* and the sessions and the tickets of a task form one chain.
THEOREM ChainSafety == ChainSpec => []ChainSound
BY ChainInvHolds, ChainImplies, PTL

-----------------------------------------------------------------------------
(* One executor at a time: a chain that ends is complete. *)

Lone == \A e, f \in Executor : e = f

\* While no ticket is ready, the last one is the one that was consumed.
Booked ==
    ~Terminal /\ task.ready = 0 /\ task.count # 0 =>
        task.consumed = task.count /\ task.fence = link[task.count].fence

\* Session k ends the chain: it is the last, and every ticket before it is started.
AtEnd(k) == task.ready = 0 /\ Sessions = task.count + 1 /\ k = Sessions

\* A plan to go on in a session that exists.
TakesUp(r) == r.mode \in {"recover", "completed"}

\* The record r acts for the lease that is live.
Holds(r) == lease.live /\ r.fence = lease.fence

\* What a lone executor knows: what it read is still so unless the task ended, and the
\* session that it plans to take up, works in or finishes is the end of the chain.
Knows(r) ==
    /\ r.pc = "read" /\ ~Terminal => r.ready = task.ready /\ r.consumed = task.consumed
    /\ r.pc \in {"restore", "reissue"} => r.mode = "ticket"
    /\ r.pc = "planned" /\ TakesUp(r) /\ ~Terminal => AtEnd(r.s)
    /\ r.pc = "held" /\ TakesUp(r) /\ Holds(r) => AtEnd(r.s)
    /\ r.pc \in InSession \cup {"done"} /\ Holds(r) => AtEnd(r.s)
    /\ r.pc \in {"planned", "held"} /\ r.mode = "completed" => session[r.s].status = "completed"
    /\ r.pc = "done" => session[r.s].status = "completed"

LoneInv ==
    /\ Terminal => ~lease.live
    /\ Booked
    /\ \A e \in Executor : Knows(exec[e])
    /\ CompletedChainValid

LEMMA SameSessions ==
    ASSUME \A k \in Ordinal : session'[k].status = "none" <=> session[k].status = "none"
    PROVE  Sessions' = Sessions
BY DEF Sessions

\* The task, its tickets and the number of its sessions stay, and the lease is not renewed.
LEMMA LoneStays ==
    ASSUME Lone, LoneInv, NEW e \in Executor, Knows(exec[e])',
           task'.status = task.status, task'.ready = task.ready, task'.count = task.count,
           task'.consumed = task.consumed, task'.fence = task.fence,
           link' = link, lease'.live => lease.live, Sessions' = Sessions,
           session' = session \/ ~Terminal
    PROVE  LoneInv'
<1>1. Terminal' <=> Terminal
  BY DEF Terminal
<1>2. (Terminal => ~lease.live)'
  BY <1>1 DEF LoneInv
<1>3. Booked'
  BY <1>1 DEF LoneInv, Booked
<1>4. \A f \in Executor : Knows(exec[f])'
  <2>1. ASSUME NEW f \in Executor PROVE Knows(exec[f])'
    <3>1. f = e
      BY DEF Lone
    <3>2. QED BY <3>1
  <2>2. QED BY <2>1
<1>5. CompletedChainValid'
  BY DEF LoneInv, CompletedChainValid, Terminal
<1>6. QED BY <1>2, <1>3, <1>4, <1>5 DEF LoneInv

\* The same when the step changes the task or the lease: what is left to show is named.
LEMMA LoneChanges ==
    ASSUME Lone, NEW e \in Executor, Knows(exec[e])', (Terminal => ~lease.live)', Booked',
           task'.status # "completed"
    PROVE  LoneInv'
<1>1. ASSUME NEW f \in Executor PROVE Knows(exec[f])'
  <2>1. f = e
    BY DEF Lone
  <2>2. QED BY <2>1
<1>2. QED BY <1>1 DEF LoneInv, CompletedChainValid

\* An executor that leaves knows nothing that could be wrong.
LEMMA LeavesKnowing ==
    ASSUME ChainInv, NEW e \in Executor, Leave(e)
    PROVE  Knows(exec[e])'
<1>1. exec'[e] = Idle /\ Idle.pc = "off"
  BY SessionFacts, StartTypes DEF Leave
<1>2. QED BY <1>1 DEF Knows, InSession

\* The holder of a live lease works for a task that has not ended.
LEMMA OwnerWorks ==
    ASSUME LoneInv, NEW e \in Executor, Owns(e)
    PROVE  ~Terminal /\ Holds(exec[e]) /\ Knows(exec[e])
BY DEF LoneInv, Owns, Holds

\* A step of an executor in its session.
LEMMA LoneInside ==
    ASSUME Lone, ChainInv, LoneInv, NEW e \in Executor, exec[e].pc \in InSession,
           exec'[e].fence = exec[e].fence, exec'[e].s = exec[e].s,
           exec'[e].pc \in InSession \cup {"done", "handed", "failed"},
           exec'[e].pc = "done" => session'[exec[e].s].status = "completed",
           task'.status = task.status, task'.ready = task.ready, task'.count = task.count,
           task'.consumed = task.consumed, task'.fence = task.fence,
           link' = link, lease' = lease,
           \/ session' = session
           \/ Owns(e) /\ \E c \in Checkpoint : /\ session' = [session EXCEPT ![exec[e].s] = c]
                                               /\ c.status # "none"
    PROVE  LoneInv'
<1>1. exec[e].s \in Ordinal /\ exec[e].s =< Sessions /\ session \in [Ordinal -> Checkpoint]
  BY RunFacts, SessionFacts
<1>2. session[exec[e].s].status # "none"
  BY <1>1, SessionFacts
<1>3. Sessions' = Sessions
  <2>1. \A k \in Ordinal : session'[k].status = "none" <=> session[k].status = "none"
    BY <1>1, <1>2
  <2>2. QED BY <2>1, SameSessions
<1>4. session' = session \/ ~Terminal
  BY OwnerWorks
<1>5. Knows(exec[e])'
  <2>1. Knows(exec[e]) /\ (Holds(exec[e])' <=> Holds(exec[e]))
    BY DEF LoneInv, Holds
  <2>2. AtEnd(exec[e].s)' <=> AtEnd(exec[e].s)
    BY <1>3 DEF AtEnd
  <2>3. Holds(exec[e])' => AtEnd(exec[e].s)'
    BY <2>1, <2>2 DEF Knows
  <2>4. exec'[e].pc \notin {"read", "restore", "reissue", "planned", "held"}
    BY DEF InSession
  <2>5. QED BY <2>3, <2>4 DEF Knows
<1>6. QED BY <1>3, <1>4, <1>5, LoneStays

\* What an executor becomes when it saves, or moves to another place.
LEMMA Becomes ==
    ASSUME ChainInv, NEW e \in Executor, NEW pc, NEW c,
           \/ To(e, pc)
           \/ exec' = [exec EXCEPT ![e].pc = pc, ![e].mem = c]
    PROVE  /\ exec'[e].pc = pc /\ exec'[e].fence = exec[e].fence /\ exec'[e].s = exec[e].s
           /\ exec'[e].mode = exec[e].mode
<1>1. exec \in [Executor -> RunType] /\ exec[e] \in RunType
  BY SessionFacts
<1>2. CASE To(e, pc)
  BY <1>1, <1>2 DEF To, RunType
<1>3. CASE exec' = [exec EXCEPT ![e].pc = pc, ![e].mem = c]
  BY <1>1, <1>3 DEF RunType
<1>4. QED BY <1>2, <1>3

\* The turns and the boundary: the executor saves what it has in memory, or only moves.
LEMMA LoneTurns ==
    ASSUME Lone, ChainInv, LoneInv, NEW e \in Executor, exec[e].pc \in InSession,
           \/ TakeTurn(e) \/ Complete(e) \/ AskHandoff(e) \/ HandOff(e) \/ NextTurn(e)
           \/ FailTurn(e) \/ FailOutside(e)
    PROVE  LoneInv'
<1> DEFINE m == exec[e].mem
<1>1. /\ m \in Checkpoint /\ m.status # "none" /\ m.turns \in Nat /\ task \in Task
      /\ exec[e].s \in Ordinal /\ session \in [Ordinal -> Checkpoint]
  BY RunFacts, SessionFacts DEF Stands
\* A save that leaves the task alone.
<1>2. ASSUME NEW c \in Checkpoint, NEW pc, SaveSession(e, c, pc), c.status # "none",
             pc \in InSession \cup {"done", "handed", "failed"},
             pc = "done" => c.status = "completed", UNCHANGED <<task, lease, link>>
      PROVE  LoneInv'
  <2>1. /\ exec'[e].pc = pc /\ exec'[e].fence = exec[e].fence /\ exec'[e].s = exec[e].s
        /\ Owns(e) /\ session' = [session EXCEPT ![exec[e].s] = c]
    BY <1>2, Becomes DEF SaveSession
  <2>2. session'[exec[e].s] = c
    BY <1>1, <2>1
  <2>3. QED BY <1>2, <2>1, <2>2, LoneInside
\* A step that saves nothing.
<1>3. ASSUME exec'[e].fence = exec[e].fence, exec'[e].s = exec[e].s,
             exec'[e].pc \in InSession \cup {"failed"},
             task'.status = task.status, task'.ready = task.ready, task'.count = task.count,
             task'.consumed = task.consumed, task'.fence = task.fence,
             UNCHANGED <<link, lease, session>>
      PROVE  LoneInv'
  <2>1. exec'[e].pc # "done"
    BY <1>3 DEF InSession
  <2>2. QED BY <1>3, <2>1, LoneInside
<1>4. {"turn", "marked", "reserved", "sent", "refused", "received", "paid", "answered",
       "tool", "boundary", "asked"} \subseteq InSession
  BY DEF InSession
<1>5. CASE \/ Reserve(e) \/ SendGeneration(e) \/ Refuse(e) \/ Pay(e) \/ NextTurn(e)
           \/ FailOutside(e)
  <2>1. PICK pc \in InSession \cup {"failed"} :
          To(e, pc) /\ UNCHANGED <<task, link, lease, session>>
    BY <1>4, <1>5 DEF Reserve, SendGeneration, Refuse, Pay, NextTurn, FailOutside
  <2>2. QED BY <1>3, <2>1, Becomes
<1>6. CASE Untrack(e)
  <2>1. /\ exec' = [exec EXCEPT ![e].pc = "answered", ![e].mem = [m EXCEPT !.pending = FALSE]]
        /\ UNCHANGED <<task, link, lease, session>>
    BY <1>6 DEF Untrack, Keep
  <2>2. QED BY <1>3, <1>4, <2>1, Becomes
<1>7. CASE RequestHandoff(e) \/ AskHandoff(e)
  <2>1. /\ task' = [task EXCEPT !.intent = exec[e].fence]
        /\ UNCHANGED <<link, lease, session>>
        /\ exec' = exec \/ To(e, "asked")
    BY <1>7 DEF RequestHandoff, AskHandoff
  <2>2. /\ task'.status = task.status /\ task'.ready = task.ready /\ task'.count = task.count
        /\ task'.consumed = task.consumed /\ task'.fence = task.fence
    BY <1>1, <2>1 DEF Task
  <2>3. QED BY <1>3, <1>4, <2>1, <2>2, Becomes
<1>8. CASE \/ StartRun(e) \/ CompleteVerified(e) \/ Mark(e) \/ ReserveRefused(e) \/ Abandon(e)
           \/ ReceiveAnswer(e) \/ CallTool(e)
  <2>1. \E c \in Checkpoint, pc \in InSession \cup {"done", "failed"} :
          /\ SaveSession(e, c, pc) /\ c.status # "none" /\ (pc = "done" => c.status = "completed")
          /\ UNCHANGED <<task, lease, link>>
    <3>1. CASE StartRun(e)
      <4>1. [m EXCEPT !.status = "running"] \in Checkpoint
            /\ [m EXCEPT !.status = "running"].status = "running"
        BY <1>1 DEF Checkpoint
      <4>2. QED BY <1>4, <3>1, <4>1 DEF StartRun
    <3>2. CASE CompleteVerified(e)
      <4>1. [m EXCEPT !.status = "completed"] \in Checkpoint
            /\ [m EXCEPT !.status = "completed"].status = "completed"
        BY <1>1 DEF Checkpoint
      <4>2. QED BY <3>2, <4>1 DEF CompleteVerified
    <3>3. CASE Mark(e) \/ CallTool(e)
      <4>1. [m EXCEPT !.pending = TRUE] \in Checkpoint
            /\ [m EXCEPT !.pending = TRUE].status = m.status
        BY <1>1 DEF Checkpoint
      <4>2. QED BY <1>1, <1>4, <3>3, <4>1 DEF Mark, CallTool, InSession
    <3>4. CASE ReserveRefused(e) \/ Abandon(e)
      <4>1. [m EXCEPT !.pending = FALSE, !.status = "failed"] \in Checkpoint
            /\ [m EXCEPT !.pending = FALSE, !.status = "failed"].status = "failed"
        BY <1>1 DEF Checkpoint
      <4>2. QED BY <3>4, <4>1 DEF ReserveRefused, Abandon
    <3>5. CASE ReceiveAnswer(e)
      <4>1. PICK v \in Checkpoint : v = m /\ v.turns + 1 \in Nat /\ v.status # "none"
        BY <1>1
      <4>2. [v EXCEPT !.settled = FALSE, !.turns = @ + 1] \in Checkpoint
        BY <4>1 DEF Checkpoint
      <4>3. [v EXCEPT !.settled = FALSE, !.turns = @ + 1].status = v.status
        BY DEF Checkpoint
      <4>4. SaveSession(e, [v EXCEPT !.settled = FALSE, !.turns = @ + 1], "received")
            /\ UNCHANGED <<task, lease, link>>
        BY <3>5, <4>1 DEF ReceiveAnswer
      <4>5. QED BY <1>4, <4>1, <4>2, <4>3, <4>4 DEF InSession
    <3>6. QED BY <1>8, <3>1, <3>2, <3>3, <3>4, <3>5
  <2>2. QED BY <1>2, <2>1
<1>9. CASE \/ ToolDone(e) \/ AnswerRequest(e) \/ Complete(e) \/ HandOff(e) \/ FailTurn(e)
  <2>1. \E c \in Checkpoint, pc \in InSession \cup {"done", "handed", "failed"} :
          /\ SaveSession(e, c, pc) /\ c.status # "none" /\ (pc = "done" => c.status = "completed")
          /\ UNCHANGED <<task, lease, link>>
    <3>1. CASE ToolDone(e)
      <4>1. PICK b \in BOOLEAN : SaveSession(e,
              [m EXCEPT !.pending = FALSE, !.settled = TRUE, !.asks = b], "boundary")
        BY <3>1 DEF ToolDone
      <4>2. [m EXCEPT !.pending = FALSE, !.settled = TRUE, !.asks = b] \in Checkpoint
            /\ [m EXCEPT !.pending = FALSE, !.settled = TRUE, !.asks = b].status = m.status
        BY <1>1 DEF Checkpoint
      <4>3. QED BY <1>1, <1>4, <3>1, <4>1, <4>2 DEF ToolDone, InSession
    <3>2. CASE AnswerRequest(e)
      <4>1. PICK b \in BOOLEAN : SaveSession(e,
              [m EXCEPT !.settled = TRUE, !.terminal = TRUE, !.asks = b], "boundary")
        BY <3>2 DEF AnswerRequest
      <4>2. [m EXCEPT !.settled = TRUE, !.terminal = TRUE, !.asks = b] \in Checkpoint
            /\ [m EXCEPT !.settled = TRUE, !.terminal = TRUE, !.asks = b].status = m.status
        BY <1>1 DEF Checkpoint
      <4>3. QED BY <1>1, <1>4, <3>2, <4>1, <4>2 DEF AnswerRequest, InSession
    <3>3. CASE Complete(e)
      <4>1. [m EXCEPT !.status = "completed", !.terminal = FALSE] \in Checkpoint
            /\ [m EXCEPT !.status = "completed", !.terminal = FALSE].status = "completed"
        BY <1>1 DEF Checkpoint
      <4>2. QED BY <3>3, <4>1 DEF Complete
    <3>4. CASE HandOff(e)
      <4>1. [m EXCEPT !.status = "handed_off"] \in Checkpoint
            /\ [m EXCEPT !.status = "handed_off"].status = "handed_off"
        BY <1>1 DEF Checkpoint
      <4>2. QED BY <3>4, <4>1 DEF HandOff
    <3>5. CASE FailTurn(e)
      <4>1. PICK status \in {"uncertain", "failed", "interrupted"} :
              SaveSession(e, [m EXCEPT !.status = status], "failed")
        BY <3>5 DEF FailTurn
      <4>2. [m EXCEPT !.status = status] \in Checkpoint
            /\ [m EXCEPT !.status = status].status = status
        BY <1>1 DEF Checkpoint
      <4>3. QED BY <3>5, <4>1, <4>2 DEF FailTurn
    <3>6. QED BY <1>9, <3>1, <3>2, <3>3, <3>4, <3>5
  <2>2. QED BY <1>2, <2>1
<1>10. QED BY <1>5, <1>6, <1>7, <1>8, <1>9 DEF TakeTurn

-----------------------------------------------------------------------------
(* The steps of a lone executor before and after its session. *)

\* An executor that gives up leaves the task as it is.
LEMMA LoneLeaves ==
    ASSUME Lone, ChainInv, LoneInv, NEW e \in Executor, Leave(e),
           UNCHANGED <<task, lease, link, session>>
    PROVE  LoneInv'
<1>1. Knows(exec[e])' /\ Sessions' = Sessions
  BY LeavesKnowing DEF Sessions
<1>2. QED BY <1>1, LoneStays

\* The end of the chain is known from what a plan to take it up checks.
LEMMA LastKnown ==
    ASSUME ChainInv, LoneInv, ~Terminal, task.ready = 0, Sessions > task.consumed
    PROVE  AtEnd(Sessions)
<1>1. /\ task.count \in Nat /\ task.consumed \in Nat /\ Sessions \in Nat /\ LinksInOrder
  BY SessionFacts DEF Task
<1>2. CASE task.count = 0
  BY <1>1, <1>2 DEF AtEnd, LinksInOrder
<1>3. CASE task.count # 0
  <2>1. task.consumed = task.count
    BY <1>3 DEF LoneInv, Booked
  <2>2. QED BY <1>1, <1>3, <2>1 DEF AtEnd, LinksInOrder
<1>4. QED BY <1>2, <1>3

LEMMA LoneReads ==
    ASSUME Lone, ChainInv, LoneInv, NEW e \in Executor, ReadTask(e)
    PROVE  LoneInv'
<1>1. UNCHANGED <<task, lease, link, session>> /\ Sessions' = Sessions
  BY DEF ReadTask, Sessions
<1>2. PICK v \in RunType : v = Idle
  BY StartTypes
<1>3. exec'[e] = [v EXCEPT !.pc = "read", !.ready = task.ready, !.consumed = task.consumed,
                           !.holder = task.holder]
  BY <1>2, SessionFacts DEF ReadTask
<1>4. exec'[e].pc = "read" /\ exec'[e].ready = task.ready /\ exec'[e].consumed = task.consumed
  BY <1>3 DEF RunType
<1>5. Knows(exec[e])'
  BY <1>1, <1>4 DEF Knows, InSession
<1>6. QED BY <1>1, <1>5, LoneStays

\* A lone executor plans for the task as it is.
LEMMA LonePlans ==
    ASSUME Lone, ChainInv, LoneInv, NEW e \in Executor, Plan(e)
    PROVE  LoneInv'
<1>1. UNCHANGED <<task, lease, link, session>> /\ Sessions' = Sessions
  BY DEF Plan, Sessions
<1>2. PICK v \in RunType : v = exec[e] /\ v.pc = "read" /\ Knows(v)
  BY RunFacts DEF Plan, AtStep, LoneInv
<1>3. PICK n \in Nat, k \in Nat : n = Sessions /\ k = v.consumed
  BY SessionFacts DEF RunType
<1>4. \/ Decision(v) = Choose("planned", "fresh", 0)
      \/ Decision(v) = Choose("planned", "ticket", n)
      \/ Decision(v) = Choose("restore", "ticket", k)
      \/ Decision(v) = Choose("planned", "recover", n) /\ v.ready = 0 /\ n = k + 1
      \/ Decision(v) = Choose("reissue", "ticket", n)
      \/ /\ Decision(v) = Choose("planned", "completed", n) /\ v.ready = 0 /\ n > k
         /\ Latest.status = "completed"
      \/ Decision(v) = Choose("off", "none", 0)
  BY <1>3 DEF Decision
<1>5. CASE Decision(v).pc = "off"
  <2>1. Leave(e)
    BY <1>2, <1>5 DEF Plan
  <2>2. QED BY <1>1, <2>1, LoneLeaves
<1>6. CASE Decision(v).pc # "off"
  <2>1. PICK pc, mode, s : Decision(v) = Choose(pc, mode, s)
    BY <1>4
  <2>2. Decision(v).pc = pc /\ Decision(v).mode = mode /\ Decision(v).s = s
    BY <2>1 DEF Choose
  <2>3. exec' = [exec EXCEPT ![e].pc = pc, ![e].mode = mode, ![e].s = s]
    BY <1>2, <1>6, <2>2 DEF Plan
  <2>4. exec'[e].pc = pc /\ exec'[e].mode = mode /\ exec'[e].s = s
    BY <2>3, SessionFacts DEF RunType
  <2>5. /\ pc \in {"planned", "restore", "reissue"}
        /\ pc \in {"restore", "reissue"} => mode = "ticket"
        /\ mode \in {"recover", "completed"} => s = n /\ v.ready = 0 /\ n > k
        /\ mode = "completed" => Latest.status = "completed"
    BY <1>3, <1>4, <1>6, <2>2 DEF Choose
  <2>6. ASSUME mode \in {"recover", "completed"}, ~Terminal PROVE AtEnd(s)
    BY <1>2, <1>3, <2>5, <2>6, LastKnown DEF Knows
  <2>7. AtEnd(s)' <=> AtEnd(s)
    BY <1>1 DEF AtEnd
  <2>8. mode = "completed" => session'[s].status = "completed"
    BY <1>1, <1>3, <2>5 DEF Latest
  <2>9. Knows(exec[e])'
    BY <1>1, <2>4, <2>5, <2>6, <2>7, <2>8 DEF Knows, TakesUp, InSession, Terminal
  <2>10. QED BY <1>1, <2>9, LoneStays
<1>7. QED BY <1>5, <1>6

\* A ticket that is ready keeps the chain open.
LEMMA TicketOpens ==
    ASSUME Lone, ChainInv, LoneInv, NEW e \in Executor, Knows(exec[e])',
           task'.status = "queued", task'.ready # 0, ~lease'.live
    PROVE  LoneInv'
<1>1. (Terminal => ~lease.live)' /\ Booked' /\ task'.status # "completed"
  BY DEF Terminal, Booked
<1>2. QED BY <1>1, LoneChanges

LEMMA LoneRestores ==
    ASSUME Lone, ChainInv, LoneInv, NEW e \in Executor, Restore(e)
    PROVE  LoneInv'
<1>1. CASE ~CanRestore
  BY <1>1, LoneLeaves DEF Restore
<1>2. CASE CanRestore
  <2>1. PICK k \in Nat : k = task.consumed /\ k # 0
    BY <1>2, SessionFacts DEF CanRestore, Task
  <2>2. task' = [task EXCEPT !.status = "queued", !.holder = 0, !.ready = k,
                             !.consumed = 0, !.fence = 0]
    BY <1>2, <2>1 DEF Restore
  <2>3. task'.status = "queued" /\ task'.ready # 0
    BY <2>1, <2>2, SessionFacts DEF Task
  <2>4. ~lease'.live
    BY <1>2 DEF CanRestore, Restore
  <2>5. exec'[e].pc = "planned" /\ exec'[e].mode = "ticket"
    <3>1. exec' = [exec EXCEPT ![e].pc = "planned", ![e].s = k]
      BY <1>2, <2>1 DEF Restore
    <3>2. exec[e].mode = "ticket"
      BY DEF Restore, AtStep, LoneInv, Knows
    <3>3. QED BY <3>1, <3>2, SessionFacts DEF RunType
  <2>6. Knows(exec[e])'
    BY <2>5 DEF Knows, TakesUp, InSession
  <2>7. QED BY <2>3, <2>4, <2>6, TicketOpens
<1>3. QED BY <1>1, <1>2

\* What issuing a ticket does to the task.
LEMMA IssuedTask ==
    ASSUME ChainInv, NEW k, Issue(k)
    PROVE  task'.status = "queued" /\ task'.ready # 0 /\ ~lease'.live
<1>1. PICK n \in Nat : n = task.count + 1 /\ n # 0
  BY SessionFacts DEF Task
<1>2. PICK w \in BOOLEAN :
        task' = [task EXCEPT !.status = "queued", !.holder = 0, !.intent = 0,
                             !.ready = n, !.count = n, !.waiting = w]
  BY <1>1 DEF Issue
<1>3. task'.status = "queued" /\ task'.ready # 0
  BY <1>1, <1>2, SessionFacts DEF Task
<1>4. ~lease'.live
  BY SessionFacts DEF Issue
<1>5. QED BY <1>3, <1>4

LEMMA LoneIssues ==
    ASSUME Lone, ChainInv, LoneInv, NEW e \in Executor, Reissue(e) \/ IssueTicket(e)
    PROVE  LoneInv'
<1>1. CASE Reissue(e)
  <2>1. CASE Leave(e) /\ UNCHANGED <<task, link, lease>>
    BY <1>1, <2>1, LoneLeaves DEF Reissue
  <2>2. CASE /\ CanIssue(exec[e].s, exec[e].holder) /\ Issue(exec[e].s)
             /\ exec' = [exec EXCEPT ![e].pc = "planned", ![e].s = task.count + 1]
    <3>1. exec'[e].pc = "planned" /\ exec'[e].mode = "ticket"
      <4>1. exec[e].mode = "ticket"
        BY <1>1 DEF Reissue, AtStep, LoneInv, Knows
      <4>2. QED BY <2>2, <4>1, SessionFacts DEF RunType
    <3>2. Knows(exec[e])'
      BY <3>1 DEF Knows, TakesUp, InSession
    <3>3. QED BY <2>2, <3>2, IssuedTask, TicketOpens
  <2>3. QED BY <1>1, <2>1, <2>2 DEF Reissue
<1>2. CASE IssueTicket(e)
  <2>1. CASE UNCHANGED <<task, link, lease>>
    BY <1>2, <2>1, LoneLeaves DEF IssueTicket
  <2>2. CASE CanIssue(exec[e].s, exec[e].fence) /\ Issue(exec[e].s)
    <3>1. Knows(exec[e])'
      BY <1>2, LeavesKnowing DEF IssueTicket
    <3>2. QED BY <2>2, <3>1, IssuedTask, TicketOpens
  <2>3. QED BY <1>2, <2>1, <2>2 DEF IssueTicket
<1>3. QED BY <1>1, <1>2

\* The plan is kept, and it still fits the task.
LEMMA LoneAcquires ==
    ASSUME Lone, ChainInv, LoneInv, NEW e \in Executor, Acquire(e)
    PROVE  LoneInv'
<1>1. CASE Leave(e) /\ UNCHANGED <<lease, task>>
  BY <1>1, LoneLeaves DEF Acquire
<1>2. CASE ~(Leave(e) /\ UNCHANGED <<lease, task>>)
  <2>1. PICK f \in Nat : f = lease.fence + 1
    BY SessionFacts
  <2>2. /\ ~Terminal /\ exec[e].pc = "planned"
        /\ task' = [task EXCEPT !.status = "running", !.holder = f]
        /\ exec' = [exec EXCEPT ![e].pc = "held", ![e].fence = f, ![e].ready = 0,
                                ![e].consumed = 0, ![e].holder = 0]
        /\ UNCHANGED <<link, session>>
    BY <1>2, <2>1 DEF Acquire, AtStep
  <2>3. /\ task'.status = "running" /\ task'.ready = task.ready /\ task'.count = task.count
        /\ task'.consumed = task.consumed /\ task'.fence = task.fence
    BY <2>2, SessionFacts DEF Task
  <2>4. exec'[e].pc = "held" /\ exec'[e].mode = exec[e].mode /\ exec'[e].s = exec[e].s
    BY <2>2, SessionFacts DEF RunType
  <2>5. Knows(exec[e]) /\ Sessions' = Sessions
    BY <2>2 DEF LoneInv, Sessions
  <2>6. Knows(exec[e])'
    BY <2>2, <2>3, <2>4, <2>5 DEF Knows, TakesUp, AtEnd, InSession
  <2>7. (Terminal => ~lease.live)' /\ Booked'
    BY <2>2, <2>3 DEF Terminal, Booked, LoneInv
  <2>8. QED BY <2>3, <2>6, <2>7, LoneChanges
<1>3. QED BY <1>1, <1>2

LEMMA LoneConsumes ==
    ASSUME Lone, ChainInv, LoneInv, NEW e \in Executor, Consume(e)
    PROVE  LoneInv'
<1>1. PICK n \in Nat : n = exec[e].fence
  BY RunFacts
<1>2. PICK k \in Ordinal : k = exec[e].s /\ task.ready = k /\ task.count = k
  <2>1. exec[e].s \in Ordinal /\ task.ready = exec[e].s
    BY RunFacts DEF Consume, AtStep, Stands
  <2>2. exec[e].s # 0
    BY <2>1, ChainBounds
  <2>3. QED BY <2>1, <2>2, SessionFacts DEF LinksInOrder
<1>3. /\ task' = [task EXCEPT !.ready = 0, !.consumed = k, !.fence = n]
      /\ link' = [link EXCEPT ![k].status = "consumed", ![k].fence = n]
      /\ To(e, "consumed") /\ lease' = lease
  BY <1>1, <1>2 DEF Consume
<1>4. /\ task'.status = task.status /\ task'.count = k /\ task'.consumed = k /\ task'.fence = n
  BY <1>2, <1>3, SessionFacts DEF Task
<1>5. link'[k].fence = n
  BY <1>3, SessionFacts DEF Link
<1>6. ~Terminal
  BY OwnerWorks DEF Consume
<1>7. Knows(exec[e])'
  <2>1. exec'[e].pc = "consumed"
    BY <1>3, Becomes
  <2>2. QED BY <2>1 DEF Knows, InSession
<1>8. (Terminal => ~lease.live)' /\ Booked' /\ task'.status # "completed"
  BY <1>4, <1>5, <1>6 DEF Terminal, Booked
<1>9. QED BY <1>7, <1>8, LoneChanges

\* A new session is the end of the chain.
LEMMA LoneBegins ==
    ASSUME Lone, ChainInv, LoneInv, NEW e \in Executor, Begin(e)
    PROVE  LoneInv'
<1>1. PICK n \in Ordinal : n = Sessions + 1 /\ n \in Nat
  BY ChainBounds DEF Begin
<1>2. PICK c \in Checkpoint : c = [Unopened EXCEPT !.status = "ready"] /\ c.status = "ready"
  <2> DEFINE x == [Unopened EXCEPT !.status = "ready"]
  <2>1. x \in Checkpoint /\ x.status = "ready"
    BY DEF Unopened, Checkpoint
  <2> HIDE DEF x
  <2>2. QED BY <2>1 DEF x
<1>3. /\ session' = [session EXCEPT ![n] = c] /\ task' = task /\ lease' = lease
      /\ exec' = [exec EXCEPT ![e].pc = "begun", ![e].s = n, ![e].mem = c]
      /\ Owns(e) /\ MayBegin(e)
      /\ link' = IF n = 1 THEN link
                 ELSE [link EXCEPT ![task.consumed].status = "started",
                                   ![task.consumed].successor = n]
  BY <1>1, <1>2 DEF Begin
<1>4. Sessions' = n
  <2>1. \A k \in Ordinal : session'[k].status # "none" <=> k =< n
    BY <1>1, <1>2, <1>3, SessionFacts, ChainBounds
  <2>2. n \in 0 .. MaxSessions
    BY <1>1, ChainBounds DEF Ordinal
  <2>3. QED BY <2>1, <2>2, CountInOrder DEF Sessions
<1>5. task.ready = 0 /\ Sessions = task.count
  <2>1. task.count \in Nat /\ task.consumed \in Nat /\ task.ready \in Nat /\ LinksInOrder
        /\ task.count =< MaxSessions
    BY SessionFacts DEF Task, LinksInOrder
  <2>2. CASE Sessions = 0
    BY <1>3, <2>1, <2>2 DEF MayBegin, LinksInOrder
  <2>3. CASE Sessions # 0
    <3>1. PICK k \in Ordinal : /\ k = task.consumed /\ k =< task.count /\ k = Sessions
                               /\ link[k].status = "consumed"
      <4>1. task.consumed # 0 /\ link[task.consumed].status = "consumed"
            /\ Sessions = task.consumed /\ task.consumed =< task.count
        BY <1>3, <2>1, <2>3 DEF MayBegin, LinksInOrder
      <4>2. task.consumed \in Ordinal
        BY <2>1, <4>1, ChainBounds DEF Ordinal
      <4>3. QED BY <4>1, <4>2
    <3>2. k = task.count
      BY <2>1, <3>1, ChainBounds DEF LinksInOrder
    <3>3. QED BY <2>1, <3>1, <3>2 DEF LinksInOrder
  <2>4. QED BY <2>2, <2>3
<1>6. AtEnd(n)'
  BY <1>1, <1>3, <1>4, <1>5 DEF AtEnd
<1>7. Knows(exec[e])'
  <2>1. exec'[e].pc = "begun" /\ exec'[e].s = n
    BY <1>3, SessionFacts DEF RunType
  <2>2. QED BY <1>6, <2>1 DEF Knows
<1>8. ~Terminal
  BY <1>3, OwnerWorks
<1>9. Booked'
  <2>1. ASSUME task.count # 0 PROVE link'[task.count].fence = link[task.count].fence
    <3>1. task.count \in Ordinal
      BY <1>1, <1>5, <2>1, SessionFacts, ChainBounds DEF Ordinal
    <3>2. QED BY <1>3, <3>1, SessionFacts DEF Link
  <2>2. QED BY <1>3, <1>8, <2>1 DEF LoneInv, Booked, Terminal
<1>10. (Terminal => ~lease.live)' /\ task'.status # "completed"
  BY <1>3, <1>8 DEF Terminal
<1>11. QED BY <1>7, <1>9, <1>10, LoneChanges

\* A session that is taken up again is the one that was planned.
LEMMA LoneTakesUp ==
    ASSUME Lone, ChainInv, LoneInv, NEW e \in Executor,
           RecoverTerminal(e) \/ ResumeRun(e) \/ FinishRecovered(e)
    PROVE  LoneInv'
<1>1. /\ exec[e].pc = "held" /\ TakesUp(exec[e]) /\ Knows(exec[e])
      /\ UNCHANGED <<task, link, lease>>
  BY DEF RecoverTerminal, ResumeRun, FinishRecovered, AtStep, TakesUp, LoneInv
<1>2. CASE RecoverTerminal(e)
  <2>1. PICK c : exec' = [exec EXCEPT ![e].pc = "boundary", ![e].mem = c]
    BY <1>2 DEF RecoverTerminal
  <2>2. exec'[e].pc = "boundary" /\ exec'[e].fence = exec[e].fence /\ exec'[e].s = exec[e].s
    BY <2>1, Becomes
  <2>3. session' = session /\ Sessions' = Sessions
    BY <1>2 DEF RecoverTerminal, Sessions
  <2>4. Knows(exec[e])'
    BY <1>1, <2>2, <2>3 DEF Knows, Holds, AtEnd
  <2>5. QED BY <1>1, <2>3, <2>4, LoneStays
<1>3. CASE ResumeRun(e)
  <2>1. PICK k \in Ordinal : k = exec[e].s /\ session[k].status # "none"
    <3>1. exec[e].s \in 1 .. Sessions /\ Sessions =< MaxSessions /\ Sessions \in Nat
      BY <1>1, <1>3, RunFacts, SessionFacts DEF Stands, ResumeRun
    <3>2. exec[e].s \in Ordinal /\ exec[e].s =< Sessions
      BY <3>1, ChainBounds DEF Ordinal
    <3>3. QED BY <3>2, SessionFacts
  <2>2. PICK c : exec' = [exec EXCEPT ![e].pc = "begun", ![e].mem = c]
    BY <1>3 DEF ResumeRun
  <2>3. exec'[e].pc = "begun" /\ exec'[e].fence = exec[e].fence /\ exec'[e].s = exec[e].s
    BY <2>2, Becomes
  <2>4. session' = session \/ session' = [session EXCEPT ![k].status = "ready"]
    BY <1>3, <2>1 DEF ResumeRun
  <2>5. \A j \in Ordinal : session'[j].status = "none" <=> session[j].status = "none"
    BY <2>1, <2>4, SessionFacts DEF Checkpoint
  <2>6. Sessions' = Sessions
    BY <2>5, SameSessions
  <2>7. Knows(exec[e])'
    BY <1>1, <2>3, <2>6 DEF Knows, Holds, AtEnd
  <2>8. ~Terminal
    BY <1>3, OwnerWorks DEF ResumeRun
  <2>9. QED BY <1>1, <2>6, <2>7, <2>8, LoneStays
<1>4. CASE FinishRecovered(e)
  <2>1. To(e, "done") /\ session' = session /\ Sessions' = Sessions
    BY <1>4 DEF FinishRecovered, Sessions
  <2>2. exec'[e].pc = "done" /\ exec'[e].fence = exec[e].fence /\ exec'[e].s = exec[e].s
    BY <2>1, Becomes
  <2>3. exec[e].mode = "completed"
    BY <1>4 DEF FinishRecovered
  <2>4. Knows(exec[e])'
    BY <1>1, <2>1, <2>2, <2>3 DEF Knows, Holds, AtEnd
  <2>5. QED BY <1>1, <2>1, <2>4, LoneStays
<1>5. QED BY <1>2, <1>3, <1>4

\* A task that is finished has a complete chain.
LEMMA LoneFinishes ==
    ASSUME Lone, ChainInv, LoneInv, NEW e \in Executor, Finish(e)
    PROVE  LoneInv'
<1>1. PICK status \in {"completed", "blocked"} :
        task' = [task EXCEPT !.status = status]
  BY DEF Finish
<1>2. /\ task'.status = status /\ task'.ready = task.ready /\ task'.count = task.count
      /\ task'.consumed = task.consumed /\ task'.fence = task.fence
      /\ ~lease'.live /\ UNCHANGED <<link, session>>
  BY <1>1, SessionFacts DEF Task, Finish
<1>3. ~Terminal /\ AtEnd(exec[e].s) /\ session[exec[e].s].status = "completed"
  <2>1. exec[e].pc = "done" /\ Owns(e)
    BY DEF Finish, AtStep
  <2>2. QED BY <2>1, OwnerWorks DEF Knows
<1>4. Sessions' = Sessions /\ task.count \in Nat /\ LinksInOrder
  BY <1>2, SessionFacts DEF Sessions, Task
<1>5. \A k \in 1 .. task.count : link[k].status = "started"
  <2>1. ASSUME NEW k \in 1 .. task.count PROVE link[k].status = "started"
    <3>1. k \in Ordinal /\ task.count # 0
      BY <1>4, ChainBounds DEF Ordinal, LinksInOrder
    <3>2. link[task.count].status = "started"
      BY <1>3, <1>4, <3>1 DEF AtEnd, LinksInOrder
    <3>3. k < task.count => link[k].status = "started"
      BY <1>4, <3>1 DEF LinksInOrder
    <3>4. QED BY <1>4, <3>2, <3>3
  <2>2. QED BY <2>1
<1>6. CompletedChainValid'
  <2>1. task.ready = 0 /\ Sessions = task.count + 1 /\ exec[e].s = task.count + 1
    BY <1>3 DEF AtEnd
  <2>2. task.count # 0 => task.consumed = task.count /\ task.fence = link[task.count].fence
    BY <1>3, <2>1 DEF LoneInv, Booked
  <2>3. QED BY <1>2, <1>3, <1>4, <1>5, <2>1, <2>2 DEF CompletedChainValid
<1>7. (Terminal => ~lease.live)' /\ Booked'
  BY <1>2 DEF Terminal, Booked
<1>8. \A f \in Executor : Knows(exec[f])'
  <2>1. Knows(exec[e])'
    BY LeavesKnowing DEF Finish
  <2>2. QED BY <2>1 DEF Lone
<1>9. QED BY <1>6, <1>7, <1>8 DEF LoneInv

\* A failure, outside a session or after it, and a death.
LEMMA LoneFails ==
    ASSUME Lone, ChainInv, LoneInv, NEW e \in Executor,
           \/ Failed(e) \/ Refused(e) \/ ExecutorDies(e)
           \/ FailOutside(e) /\ exec[e].pc \notin InSession
    PROVE  LoneInv'
<1>1. CASE Failed(e)
  <2>1. PICK n \in Nat : n = task.recoveries + 1
    BY SessionFacts DEF Task
  <2>2. \/ task' = [task EXCEPT !.status = "queued", !.holder = 0, !.recoveries = n]
        \/ task' = [task EXCEPT !.status = "blocked"]
    BY <1>1, <2>1 DEF Failed
  <2>3. /\ task'.status \in {"queued", "blocked"} /\ task'.ready = task.ready
        /\ task'.count = task.count /\ task'.consumed = task.consumed
        /\ task'.fence = task.fence
    BY <2>2, SessionFacts DEF Task
  <2>4. ~lease'.live /\ link' = link
    BY <1>1, SessionFacts DEF Failed
  <2>5. ~Terminal
    BY <1>1, OwnerWorks DEF Failed
  <2>6. (Terminal => ~lease.live)' /\ Booked'
    BY <2>3, <2>4, <2>5 DEF LoneInv, Booked, Terminal
  <2>7. Knows(exec[e])'
    BY <1>1, LeavesKnowing DEF Failed
  <2>8. QED BY <2>3, <2>6, <2>7, LoneChanges
<1>2. CASE Refused(e) \/ ExecutorDies(e)
  BY <1>2, LoneLeaves DEF Refused, ExecutorDies
<1>3. CASE FailOutside(e) /\ exec[e].pc \notin InSession
  <2>1. exec'[e].pc = "failed" /\ Sessions' = Sessions
    BY <1>3, Becomes DEF FailOutside, Sessions
  <2>2. Knows(exec[e])'
    BY <2>1 DEF Knows, InSession
  <2>3. QED BY <1>3, <2>1, <2>2, LoneStays DEF FailOutside
<1>4. QED BY <1>1, <1>2, <1>3

\* What happens around the executor: the lease runs out, a wait ends, a proof elsewhere.
LEMMA LoneOutside ==
    ASSUME ChainInv, LoneInv, Expire \/ WaitOver \/ RetireQueued
    PROVE  LoneInv'
<1>1. exec' = exec /\ session' = session /\ Sessions' = Sessions
  BY DEF Expire, WaitOver, RetireQueued, Sessions
<1>2. CASE Expire \/ WaitOver
  <2>1. /\ task'.status = task.status /\ task'.ready = task.ready /\ task'.count = task.count
        /\ task'.consumed = task.consumed /\ task'.fence = task.fence
        /\ link' = link /\ (lease'.live => lease.live) /\ lease'.fence = lease.fence
    BY <1>2, SessionFacts DEF Expire, WaitOver, Task
  <2>2. Terminal' <=> Terminal
    BY <2>1 DEF Terminal
  <2>3. ASSUME NEW f \in Executor PROVE Knows(exec[f])'
    <3>1. Knows(exec[f])
      BY DEF LoneInv
    <3>2. QED BY <1>1, <2>1, <2>2, <3>1 DEF Knows, TakesUp, Holds, AtEnd
  <2>4. CompletedChainValid'
    BY <1>1, <2>1 DEF LoneInv, CompletedChainValid
  <2>5. (Terminal => ~lease.live)' /\ Booked'
    BY <2>1, <2>2 DEF LoneInv, Booked
  <2>6. QED BY <2>3, <2>4, <2>5 DEF LoneInv
<1>3. CASE RetireQueued
  <2>1. task'.status = "blocked" /\ ~lease'.live /\ lease' = lease
    BY <1>3, SessionFacts DEF RetireQueued, Task
  <2>2. Terminal'
    BY <2>1 DEF Terminal
  <2>3. ASSUME NEW f \in Executor PROVE Knows(exec[f])'
    <3>1. Knows(exec[f])
      BY DEF LoneInv
    <3>2. QED BY <1>1, <2>1, <2>2, <3>1 DEF Knows, Holds
  <2>4. QED BY <2>1, <2>2, <2>3 DEF LoneInv, Booked, CompletedChainValid
<1>4. QED BY <1>2, <1>3

LEMMA LoneStepKeeps ==
    ASSUME Lone, ChainInv, LoneInv, ChainNext
    PROVE  LoneInv'
<1>1. ASSUME NEW e \in Executor, Prepare(e) PROVE LoneInv'
  BY <1>1, LoneReads, LonePlans, LoneRestores, LoneIssues, LoneAcquires, LoneConsumes,
     LoneBegins, LoneTakesUp DEF Prepare
<1>2. ASSUME NEW e \in Executor, TakeTurn(e) PROVE LoneInv'
  <2>1. exec[e].pc \in InSession
    BY <1>2 DEF TakeTurn, StartRun, CompleteVerified, Mark, Reserve, ReserveRefused,
                SendGeneration, Refuse, Abandon, ReceiveAnswer, Pay, Untrack, CallTool,
                RequestHandoff, ToolDone, AnswerRequest, AtStep, InSession
  <2>2. QED BY <1>2, <2>1, LoneTurns
<1>3. ASSUME NEW e \in Executor, Close(e) PROVE LoneInv'
  <2>1. CASE Complete(e) \/ AskHandoff(e) \/ HandOff(e) \/ NextTurn(e) \/ FailTurn(e)
    <3>1. exec[e].pc \in InSession
      BY <2>1 DEF Complete, AskHandoff, HandOff, NextTurn, FailTurn, AtStep, InSession
    <3>2. QED BY <2>1, <3>1, LoneTurns
  <2>2. CASE FailOutside(e)
    BY <2>2, LoneTurns, LoneFails
  <2>3. CASE IssueTicket(e) \/ Finish(e) \/ Failed(e) \/ Refused(e)
    BY <2>3, LoneIssues, LoneFinishes, LoneFails
  <2>4. QED BY <1>3, <2>1, <2>2, <2>3 DEF Close
<1>4. ASSUME NEW e \in Executor, ExecutorDies(e) PROVE LoneInv'
  BY <1>4, LoneFails
<1>5. CASE Expire \/ WaitOver \/ RetireQueued
  BY <1>5, LoneOutside
<1>6. QED BY <1>1, <1>2, <1>3, <1>4, <1>5 DEF ChainNext, Work

\* With one executor at a time a task is completed only with a complete chain: no plan is
\* old, so the session that is finished is the last and no ticket is left without successor.
THEOREM LoneChainSafety == Lone => (ChainSpec => []LoneChainSound)
<1> SUFFICES ASSUME Lone PROVE ChainSpec => []LoneChainSound
  OBVIOUS
<1>1. ChainInit => LoneInv
  <2> SUFFICES ASSUME ChainInit PROVE LoneInv
    OBVIOUS
  <2>1. ~Terminal /\ task.status # "completed" /\ ~lease.live /\ task.count = 0
    BY DEF ChainInit, Terminal
  <2>2. \A e \in Executor : exec[e] = Idle
    BY DEF ChainInit
  <2>3. \A e \in Executor : Knows(exec[e])
    BY <2>2, StartTypes DEF Knows, InSession
  <2>4. QED BY <2>1, <2>3 DEF LoneInv, Booked, CompletedChainValid
<1>2. ChainInv /\ LoneInv /\ [ChainNext]_chainVars => LoneInv'
  <2> SUFFICES ASSUME ChainInv, LoneInv, UNCHANGED chainVars PROVE LoneInv'
    BY LoneStepKeeps
  <2>1. /\ exec' = exec /\ task' = task /\ lease' = lease /\ link' = link
        /\ session' = session /\ Sessions' = Sessions
    BY DEF chainVars, Sessions
  <2>2. ASSUME NEW f \in Executor PROVE Knows(exec[f])'
    <3>1. Knows(exec[f])
      BY DEF LoneInv
    <3>2. QED BY <2>1, <3>1 DEF Knows, TakesUp, Holds, AtEnd, Terminal
  <2>3. QED BY <2>1, <2>2 DEF LoneInv, Booked, CompletedChainValid, Terminal
<1>3. ChainInv /\ LoneInv => LoneChainSound
  BY ChainImplies DEF LoneInv, LoneChainSound
<1>4. QED BY <1>1, <1>2, <1>3, ChainInvHolds, PTL DEF ChainSpec
=============================================================================
