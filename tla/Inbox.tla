------------------------------- MODULE Inbox -------------------------------
(***************************************************************************)
(* The inbox of one research branch: posts and messages that other         *)
(* branches commit, the branch's subscriptions, the deliveries it is given *)
(* (DiscussionMixin.discussion_updates, acknowledge_discussion_updates)    *)
(* and the runtime sessions that save a delivery in their checkpoint       *)
(* before they acknowledge it (ResponsesRuntime._receive_updates).         *)
(*                                                                         *)
(* An event gets its sequence number when its transaction inserts it and   *)
(* is seen when that transaction commits; the inbox lock is held between.  *)
(* A session may lose its lease to a successor and not know it.  Access to *)
(* a source may be revoked and given again at any time.                    *)
(***************************************************************************)
EXTENDS Naturals, FiniteSets, FiniteSetsExt

CONSTANTS
    Topic,          \* discussion topics
    Mail,           \* in place of a topic: a message to the branch
    Session,        \* runtime sessions of the branch, each started once
    NoSession,      \* no session
    BatchLimit,     \* items in a delivery (10 in the code)
    ScanLimit,      \* events looked at for a delivery (100 in the code)
    TopicLimit,     \* subscriptions of a reader (100 in the code)
    MaxEvents       \* bound: posts and messages

ASSUME InboxAssumption ==
    /\ Mail \notin Topic /\ NoSession \notin Session
    /\ {BatchLimit, ScanLimit} \subseteq Nat \ {0}
    /\ {TopicLimit, MaxEvents} \subseteq Nat

VARIABLES
    event,       \* the events, by sequence number
    revoked,     \* events whose source the branch may not read now
    sub,         \* subscriptions: on, and start_sequence
    reader,      \* ack_sequence and pending_delivery_id (0: none)
    delivery,    \* the delivery records, by identifier
    leaseholder, \* the session that holds the task's live lease
    run,         \* where each session stands in _receive_updates
    checkpoint,  \* the delivery views each session has saved
    due          \* history: events committed to the branch since it subscribed

inboxVars == <<event, revoked, sub, reader, delivery, leaseholder, run, checkpoint, due>>

Sequence == 1 .. MaxEvents
Id == 1 .. MaxEvents
Items == UNION {[S -> {"shown", "withdrawn"}] : S \in SUBSET Sequence}
NoItems == [n \in {} |-> "shown"]

Event == [state : {"none", "open", "posted", "undone"}, to : Topic \cup {Mail},
          quiet : BOOLEAN]
Delivery == [status : {"none", "pending", "acknowledged"}, start : Nat, end : Nat,
             items : Items]
ReaderPhase == {"new", "idle", "fetched", "saved", "checked", "stopped"}
Run == [phase : ReaderPhase, id : Id \cup {0}, items : Items, again : BOOLEAN]

InboxTypeOK ==
    /\ event \in [Sequence -> Event]
    /\ revoked \subseteq Sequence
    /\ sub \in [Topic -> [on : BOOLEAN, start : Nat]]
    /\ reader \in [ack : Nat, pending : Id \cup {0}]
    /\ delivery \in [Id -> Delivery]
    /\ leaseholder \in Session \cup {NoSession}
    /\ run \in [Session -> Run]
    /\ checkpoint \in [Session -> SUBSET (Id \X Items)]
    /\ due \subseteq Sequence

InboxInit ==
    /\ event = [n \in Sequence |-> [state |-> "none", to |-> Mail, quiet |-> FALSE]]
    /\ revoked = {}
    /\ sub = [t \in Topic |-> [on |-> FALSE, start |-> 0]]
    /\ reader = [ack |-> 0, pending |-> 0]
    /\ delivery = [d \in Id |-> [status |-> "none", start |-> 0, end |-> 0,
                                 items |-> NoItems]]
    /\ leaseholder = NoSession
    /\ run = [x \in Session |-> [phase |-> "new", id |-> 0, items |-> NoItems,
                                 again |-> FALSE]]
    /\ checkpoint = [x \in Session |-> {}]
    /\ due = {}
-----------------------------------------------------------------------------
(* Writers. *)

\* _inbox_event_lock is free.
Unlocked == \A n \in Sequence : event[n].state # "open"

Posted == {n \in Sequence : event[n].state = "posted"}

\* _insert_post or _deliver_message: the lock, then the sequence number.
InsertEvent(n, to, quiet) ==
    /\ Unlocked
    /\ event[n].state = "none"
    /\ \A k \in Sequence : k < n => event[k].state # "none"
    /\ quiet => to # Mail
    /\ event' = [event EXCEPT ![n] = [state |-> "open", to |-> to, quiet |-> quiet]]
    /\ UNCHANGED <<revoked, sub, reader, delivery, leaseholder, run, checkpoint, due>>

Following(to) == to = Mail \/ (to \in Topic /\ sub[to].on)

CommitEvent(n) ==
    /\ event[n].state = "open"
    /\ event' = [event EXCEPT ![n].state = "posted"]
    /\ due' = IF Following(event[n].to) THEN due \cup {n} ELSE due
    /\ UNCHANGED <<revoked, sub, reader, delivery, leaseholder, run, checkpoint>>

Rollback(n) ==
    /\ event[n].state = "open"
    /\ event' = [event EXCEPT ![n].state = "undone"]
    /\ UNCHANGED <<revoked, sub, reader, delivery, leaseholder, run, checkpoint, due>>

\* A review, or a change of sharing, decides what _source_accessible answers.
ChangeAccess(n) ==
    /\ n \in Posted
    /\ revoked' = IF n \in revoked THEN revoked \ {n} ELSE revoked \cup {n}
    /\ UNCHANGED <<event, sub, reader, delivery, leaseholder, run, checkpoint, due>>
-----------------------------------------------------------------------------
(* Subscriptions. *)

\* _discussion_max_sequence.
MaxSequence == Max(Posted \cup {0})

On == {t \in Topic : sub[t].on}

\* _set_subscription: the topics T are dropped, the topics F
\* are followed from now on.
SetSubscription(T, F) ==
    /\ Unlocked
    /\ Cardinality((On \ T) \cup F) =< TopicLimit
    /\ sub' = [t \in Topic |->
                IF t \in T THEN [sub[t] EXCEPT !.on = FALSE]
                ELSE IF t \in F /\ ~sub[t].on THEN [on |-> TRUE, start |-> MaxSequence]
                ELSE sub[t]]
    /\ due' = {n \in due : event[n].to \notin T}
    /\ UNCHANGED <<event, revoked, reader, delivery, leaseholder, run, checkpoint>>

\* subscribe_discussion, refused while a delivery is outstanding.
Subscribe(t) == reader.pending = 0 /\ ~sub[t].on /\ SetSubscription({}, {t})
Unsubscribe(t) == reader.pending = 0 /\ sub[t].on /\ SetSubscription({t}, {})

\* _auto_subscribe, at any time; at the limit it first gives up a thread.
AutoSubscribe(t) ==
    /\ ~sub[t].on
    /\ \/ SetSubscription({}, {t})
       \/ Cardinality(On) >= TopicLimit /\ \E u \in On : SetSubscription({u}, {t})
-----------------------------------------------------------------------------
(* Deliveries. *)

\* _delivery_clauses.
Eligible ==
    {n \in Posted : n > reader.ack /\
        (event[n].to # Mail => sub[event[n].to].on /\ n > sub[event[n].to].start)}

Scanned == {n \in Eligible : Cardinality({k \in Eligible : k < n}) < ScanLimit}

\* _push_skip of a source that is still accessible.
Skipped(n) == event[n].quiet /\ n \notin revoked

\* The loop of discussion_updates stopped after the events of B: they are all,
\* the limit is reached, or the next item would be too many bytes.
Batch(B) ==
    LET items == {n \in B : ~Skipped(n)} IN
    /\ B \subseteq Scanned
    /\ \A n \in B, k \in Scanned \ B : n < k
    /\ Cardinality(items) =< BatchLimit
    /\ \/ B = Scanned
       \/ Cardinality(items) = BatchLimit /\ Max(B) \in items
       \/ /\ items # {}
          /\ \E k \in Scanned \ B : ~Skipped(k) /\ \A j \in Scanned \ B : k =< j

LastItem(B) == Max({n \in B : ~Skipped(n)} \cup {reader.ack})       \* mutant
\* processed: the last event looked at, skipped ones included.
Processed(B) == Max(B \cup {reader.ack})

ItemsOf(B) ==
    [n \in {k \in B : ~Skipped(k)} |-> IF n \in revoked THEN "withdrawn" ELSE "shown"]

\* _sanitize_delivery: a notice replaces what may not be read any more.
Sanitized(items) ==
    [n \in DOMAIN items |-> IF n \in revoked THEN "withdrawn" ELSE items[n]]

ReaderStep(x, phase) == run' = [run EXCEPT ![x].phase = phase]
Stop(x) == run' = [run EXCEPT ![x] = [@ EXCEPT !.phase = "stopped", !.items = NoItems, !.id = 0]]

Receives(x, d, items) ==
    run' = [run EXCEPT ![x].phase = "fetched", ![x].id = d, ![x].items = items]

\* The outstanding delivery is given again, as it may be read now.
Redeliver(x) ==
    LET d == reader.pending
        items == Sanitized(delivery[d].items) IN
    /\ run[x].phase = "idle" /\ leaseholder = x
    /\ d # 0
    /\ delivery' = [delivery EXCEPT ![d].items = items]
    /\ Receives(x, d, items)
    /\ UNCHANGED <<event, revoked, sub, reader, leaseholder, checkpoint, due>>

\* A new delivery, or none when every event was skipped.
Deliver(x) ==
    /\ run[x].phase = "idle" /\ leaseholder = x
    /\ reader.pending = 0
    /\ \E B \in SUBSET Scanned :
        /\ Batch(B)
        /\ IF DOMAIN ItemsOf(B) = {}
           THEN /\ reader' = [reader EXCEPT !.ack = Processed(B)]
                /\ UNCHANGED <<delivery, run>>
           ELSE LET d == Min({i \in Id : delivery[i].status = "none"}) IN
                /\ delivery' = [delivery EXCEPT ![d] =
                        [status |-> "pending", start |-> reader.ack,
                         end |-> Processed(B), items |-> ItemsOf(B)]]
                /\ reader' = [reader EXCEPT !.pending = d]
                /\ Receives(x, d, ItemsOf(B))
    /\ UNCHANGED <<event, revoked, sub, leaseholder, checkpoint, due>>
-----------------------------------------------------------------------------
(* _receive_updates, after the batch has been fetched. *)

KnownId(x) == \E v \in checkpoint[x] : v[1] = run[x].id             \* mutant
\* The checkpoint has this delivery with the same fingerprint.
KnownBatch(x) == <<run[x].id, run[x].items>> \in checkpoint[x]

Save(x) ==
    /\ run[x].phase = "fetched" /\ leaseholder = x
    /\ ReaderStep(x, "saved")
    /\ checkpoint' = [checkpoint EXCEPT
            ![x] = IF KnownBatch(x) THEN @ ELSE @ \cup {<<run[x].id, run[x].items>>}]
    /\ UNCHANGED <<event, revoked, sub, reader, delivery, leaseholder, due>>

\* DELIVERY_CHANGED: read again once, then give up.
Reread(x) ==
    IF run[x].again THEN Stop(x)
    ELSE run' = [run EXCEPT ![x] = [phase |-> "idle", id |-> 0, items |-> NoItems, again |-> TRUE]]

Changed(d) == Sanitized(delivery[d].items) # delivery[d].items

\* The first transaction of acknowledge_discussion_updates keeps the notices.
CheckAck(x) ==
    LET d == run[x].id IN
    /\ run[x].phase = "saved" /\ leaseholder = x
    /\ IF reader.pending = d /\ Changed(d)
       THEN /\ delivery' = [delivery EXCEPT ![d].items = Sanitized(@)]
            /\ Reread(x)
       ELSE ReaderStep(x, "checked") /\ UNCHANGED delivery
    /\ UNCHANGED <<event, revoked, sub, reader, leaseholder, checkpoint, due>>

\* The second transaction acknowledges, or is rolled back.
Acknowledge(x) ==
    LET d == run[x].id IN
    /\ run[x].phase = "checked" /\ leaseholder = x
    /\ IF reader.pending # d
       THEN Stop(x) /\ UNCHANGED <<reader, delivery>>
       ELSE IF Changed(d)
            THEN Reread(x) /\ UNCHANGED <<reader, delivery>>
            ELSE /\ delivery' = [delivery EXCEPT ![d].status = "acknowledged"]
                 /\ reader' = [ack |-> delivery[d].end, pending |-> 0]
                 /\ run' = [run EXCEPT ![x] = [phase |-> "idle", id |-> 0,
                                               items |-> NoItems, again |-> FALSE]]
    /\ UNCHANGED <<event, revoked, sub, leaseholder, checkpoint, due>>
-----------------------------------------------------------------------------
(* Sessions. *)

\* A new session takes the task's lease; it resumes the checkpoint of an
\* earlier session or begins without one.
Start(x, S) ==
    /\ run[x].phase = "new"
    /\ leaseholder' = x
    /\ ReaderStep(x, "idle")
    /\ checkpoint' = [checkpoint EXCEPT ![x] = S]
    /\ UNCHANGED <<event, revoked, sub, reader, delivery, due>>

\* The session dies at any point, or is refused because its lease is lost.
Die(x) ==
    /\ run[x].phase \notin {"new", "stopped"}
    /\ Stop(x)
    /\ UNCHANGED <<event, revoked, sub, reader, delivery, leaseholder, checkpoint, due>>
-----------------------------------------------------------------------------
Receive(x) == Redeliver(x) \/ Deliver(x) \/ Save(x) \/ CheckAck(x) \/ Acknowledge(x)

InboxNext ==
    \/ \E n \in Sequence, to \in Topic \cup {Mail}, q \in BOOLEAN : InsertEvent(n, to, q)
    \/ \E n \in Sequence : CommitEvent(n) \/ Rollback(n) \/ ChangeAccess(n)
    \/ \E t \in Topic : Subscribe(t) \/ Unsubscribe(t) \/ AutoSubscribe(t)
    \/ \E x \in Session : Receive(x) \/ Die(x)
    \/ \E x \in Session, S \in {{}} \cup {checkpoint[y] : y \in Session} : Start(x, S)

\* A running session comes back to _receive_updates before every generation.
InboxFairness == \A x \in Session : WF_inboxVars(Receive(x))

InboxSpec == InboxInit /\ [][InboxNext]_inboxVars
FairInboxSpec == InboxSpec /\ InboxFairness
-----------------------------------------------------------------------------
(* Properties. *)

\* The acknowledged cursor never passes an event that the branch was owed:
\* everything up to it was saved by a session, or skipped by the push rules.
NothingPassedOver ==
    \A n \in due : n =< reader.ack =>
        \/ event[n].quiet
        \/ \E x \in Session : \E v \in checkpoint[x] : n \in DOMAIN v[2]

\* What an acknowledged delivery says was saved by some session exactly so,
\* withdrawal notices included, before it was acknowledged.
AcknowledgedAsSaved ==
    \A d \in Id : delivery[d].status = "acknowledged" =>
        \E x \in Session : <<d, delivery[d].items>> \in checkpoint[x]

\* Deliveries cover the event log in consecutive, disjoint stretches, and an
\* outstanding one begins at the cursor.
ConsecutiveDeliveries ==
    /\ \A d \in Id : delivery[d].status # "none" =>
        \A n \in DOMAIN delivery[d].items : delivery[d].start < n /\ n =< delivery[d].end
    /\ \A c, d \in Id : c < d /\ delivery[d].status # "none" =>
            delivery[c].status = "acknowledged" /\ delivery[c].end =< delivery[d].start
    /\ reader.pending # 0 => /\ delivery[reader.pending].status = "pending"
                             /\ delivery[reader.pending].start = reader.ack

\* While a session keeps running under its lease, every event owed to the
\* branch is handled in the end: no source can wedge the inbox.
Handled(n) == n \notin due \/ n =< reader.ack
Served == leaseholder # NoSession /\ run[leaseholder].phase # "stopped"
UpdatesArrive == <>[]Served => \A n \in Sequence : []<>Handled(n)

\* The inbox is sound: deliveries cover the log without gaps, and only what a
\* session saved is acknowledged.
InboxSound ==
    /\ InboxTypeOK
    /\ NothingPassedOver
    /\ AcknowledgedAsSaved
    /\ ConsecutiveDeliveries
=============================================================================
