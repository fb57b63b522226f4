----------------------------- MODULE Synthesis -----------------------------
(***************************************************************************)
(* The scheduling of synthesis tasks from an experiment's discussion       *)
(* (workforce.py schedule_research_synthesis, configure_workforce, and the *)
(* posts of discussion.py it reads).                                       *)
(*                                                                         *)
(* A post's event takes its sequence number when it is flushed and becomes *)
(* visible when its transaction commits; _insert_post holds the            *)
(* experiment's event lock in between.  The scheduler holds the experiment *)
(* lock, not the event lock: it reads the committed posts past its         *)
(* watermark, a batch at a time, and keeps a bounded sample of them until  *)
(* they are many enough and of two topics.                                 *)
(***************************************************************************)
EXTENDS Naturals, Sequences, FiniteSets

CONSTANTS
    Topic,       \* discussion topics
    Poster,      \* transactions that post
    BatchSize,   \* events read at a time (100)
    SampleSize,  \* posts a synthesis samples at most (20)
    Interval,    \* the intervals an operator may configure, 0 for none
    MaxPosts     \* bound: posts written

ASSUME SynthesisAssumption ==
    /\ BatchSize \in Nat \ {0}
    /\ SampleSize \in Nat \ {0, 1}
    /\ Interval \subseteq Nat
    /\ MaxPosts \in Nat
    /\ {"committed", "rolled_back"} \cap Poster = {}

VARIABLES
    posts,      \* every sequence number given out, with its post; its state is
                \* the transaction that wrote it until that one ends
    lock,       \* the transaction that holds the event lock
    policy,     \* the workforce policy's synthesis fields
    task,       \* the outstanding synthesis task: "none" or "pending"
    syntheses   \* what each scheduled synthesis covers

synthesisVars == <<posts, lock, policy, task, syntheses>>

SynthesisTypeOK ==
    /\ Len(posts) <= MaxPosts /\ lock \subseteq Poster
    /\ policy.interval \in Interval \cup {0} /\ policy.watermark \in 0 .. Len(posts)
    /\ Len(policy.sample) <= SampleSize /\ policy.count \in 0 .. Len(posts)
    /\ task \in {"none", "pending"}

SynthesisInit ==
    /\ posts = <<>>
    /\ lock = {}
    /\ policy = [interval |-> 0, watermark |-> 0, sample |-> <<>>, count |-> 0]
    /\ task = "none"
    /\ syntheses = <<>>
-----------------------------------------------------------------------------
(* Posts. *)

\* _inbox_event_lock: one transaction at a time holds it, to its end.
NoLock(p) == p \notin lock                                         \* mutant
MayLock(p) == lock = {}

\* _insert_post flushes its event: outside a society only the
\* posts of a branch are eligible.
FlushPost(p, topic, branched) ==
    /\ MayLock(p)
    /\ Len(posts) < MaxPosts
    /\ lock' = lock \cup {p}
    /\ posts' = Append(posts,
         [topic |-> topic, branched |-> branched, state |-> p])
    /\ UNCHANGED <<policy, task, syntheses>>

\* Its transaction commits, or rolls back and leaves a gap in the sequence.
EndPost(p, outcome) ==
    /\ p \in lock
    /\ lock' = lock \ {p}
    /\ posts' = [i \in 1..Len(posts) |->
         IF posts[i].state = p THEN [posts[i] EXCEPT !.state = outcome] ELSE posts[i]]
    /\ UNCHANGED <<policy, task, syntheses>>
-----------------------------------------------------------------------------
(* The schedule. *)

\* configure_workforce replaces the interval only.
Configure(k) ==
    /\ k # policy.interval
    /\ policy' = [policy EXCEPT !.interval = k]
    /\ UNCHANGED <<posts, lock, task, syntheses>>

\* The committed posts past the watermark, which are read in sequence order.
Unread == {i \in policy.watermark + 1 .. Len(posts) : posts[i].state = "committed"}

\* A batch holds the first of them; the watermark moves to its last event.
Batch == {i \in Unread : Cardinality({j \in Unread : j <= i}) <= BatchSize}
Through == CHOOSE i \in Batch : \A j \in Batch : j <= i

Eligible(i) == posts[i].branched
Topics(s) == {posts[s[i]].topic : i \in 1..Len(s)}

\* One post joins the bounded sample, the last place kept for a second topic.
Sampled(s, i) ==
    IF Len(s) < SampleSize THEN Append(s, i)
    ELSE IF Cardinality(Topics(s)) = 1 /\ posts[i].topic \notin Topics(s)
    THEN [s EXCEPT ![SampleSize] = i]
    ELSE s

\* The posts of the batch join it one after the other.
SampleAfter ==
    LET upto[i \in policy.watermark .. Through] ==
          IF i = policy.watermark THEN policy.sample
          ELSE IF i \in Batch /\ Eligible(i) THEN Sampled(upto[i-1], i) ELSE upto[i-1]
    IN  upto[Through]

CountAfter == policy.count + Cardinality({i \in Batch : Eligible(i)})

\* schedule_research_synthesis past its early returns (disabled, outstanding,
\* no new posts): it accumulates, or queues a task when admission lets it.
ScheduleSynthesis ==
    /\ policy.interval > 0
    /\ task = "none"
    /\ Unread # {}
    /\ LET sample == SampleAfter
           count == CountAfter
           due == count >= policy.interval /\ Cardinality(Topics(sample)) >= 2
       IN  /\ policy' = [policy EXCEPT !.watermark = Through,
                                       !.sample = IF due THEN <<>> ELSE sample,
                                       !.count = IF due THEN 0 ELSE count]
           /\ task' = IF due THEN "pending" ELSE task
           /\ syntheses' = IF due
                           THEN Append(syntheses, [sample |-> sample, count |-> count])
                           ELSE syntheses
    /\ UNCHANGED <<posts, lock>>

\* The synthesis task ends.
SynthesisEnds ==
    /\ task = "pending"
    /\ task' = "none"
    /\ UNCHANGED <<posts, lock, policy, syntheses>>

SynthesisNext ==
    \/ \E p \in Poster, t \in Topic, b \in BOOLEAN : FlushPost(p, t, b)
    \/ \E p \in Poster, o \in {"committed", "rolled_back"} : EndPost(p, o)
    \/ \E k \in Interval : Configure(k)
    \/ ScheduleSynthesis
    \/ SynthesisEnds

SynthesisSpec == SynthesisInit /\ [][SynthesisNext]_synthesisVars
-----------------------------------------------------------------------------
TotalOf(s) ==
    LET total[k \in 0..Len(s)] == IF k = 0 THEN 0 ELSE total[k-1] + s[k].count
    IN  total[Len(s)]

Passed == {i \in 1..policy.watermark : posts[i].state = "committed" /\ Eligible(i)}

\* Every eligible post the watermark passed is counted exactly once, in a
\* synthesis or in the pending count: none that committed late was skipped,
\* none is read twice.
EachPostCounted == TotalOf(syntheses) + policy.count = Cardinality(Passed)

\* However long a single-topic backlog was, the pending sample holds two topics
\* as soon as the posts it stands for do, so that a synthesis that is due by
\* its count is not held back by the bounded sample.
SampleSpansTopics ==
    LET done == TotalOf(syntheses)
        pending == {i \in Passed : Cardinality({j \in Passed : j < i}) >= done}
    IN  Cardinality({posts[i].topic : i \in pending}) >= 2 =>
            Cardinality(Topics(policy.sample)) >= 2

\* Every post counts towards one synthesis.
SynthesisSound == SynthesisTypeOK /\ EachPostCounted /\ SampleSpansTopics
=============================================================================
