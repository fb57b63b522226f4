---------------------------- MODULE HostLimiter ----------------------------
(***************************************************************************)
(* The HTTP side of the literature broker: a pool of threads, a limiter    *)
(* that lets one request at a time go to a host and spaces the requests,   *)
(* the retries of a busy host and the redirects.  All brokers of the       *)
(* process share the limiter.  Time is a counter; a thread may act late.   *)
(***************************************************************************)
EXTENDS Integers, FiniteSets

CONSTANTS
    Fetcher,        \* calls that read a source
    HostQueue,      \* queues of the limiter: a host, or the arXiv hosts together
    Interval,       \* seconds between two requests of a queue
    MaxWait,        \* max_wait, MAX_QUEUE_SECONDS
    Delays,         \* Retry-After values, cut at MAX_BACKOFF_SECONDS
    MaxRetryWait,   \* MAX_RETRY_WAIT_SECONDS
    RetryAttempts,  \* RETRY_ATTEMPTS
    MaxRedirects,   \* MAX_REDIRECTS
    Threads,        \* LITERATURE_THREADS
    MaxClock        \* bound of the model on the time

ASSUME HostLimiterAssumption ==
    /\ Interval \in Nat \ {0} /\ MaxWait \in Nat /\ MaxRetryWait \in Nat
    /\ Delays \subseteq Nat
    /\ RetryAttempts \in Nat \ {0} /\ MaxRedirects \in Nat
    /\ Threads \in Nat \ {0} /\ MaxClock \in Nat
    /\ HostQueue # {} /\ "none" \notin Fetcher

VARIABLES
    clock,          \* the monotonic clock
    fetcher,        \* each call: where it is, its queue, attempt, hop and when it queued
    bucket,         \* each queue: the call that holds its lock, and ready_at
    quiet           \* history: until when no request may go to the queue

limiterVars == <<clock, fetcher, bucket, quiet>>

NoFetcher == "none"
FetcherPc == {"new", "pool", "queued", "sleeping", "sending", "answered", "done", "failed"}
Running == {"queued", "sleeping", "sending", "answered"}

LimiterTypeOK ==
    /\ clock \in 0 .. MaxClock
    /\ fetcher \in [Fetcher -> [pc : FetcherPc, queue : HostQueue, attempt : Nat, hop : Nat,
                                since : Nat]]
    /\ bucket \in [HostQueue -> [lock : Fetcher \cup {NoFetcher}, ready : Nat]]
    /\ quiet \in [HostQueue -> Nat]

LimiterInit ==
    /\ clock = 0
    /\ fetcher = [f \in Fetcher |-> [pc |-> "new", queue |-> CHOOSE q \in HostQueue : TRUE,
                                     attempt |-> 0, hop |-> 0, since |-> 0]]
    /\ bucket = [q \in HostQueue |-> [lock |-> NoFetcher, ready |-> 0]]
    /\ quiet = [q \in HostQueue |-> 0]

Later(a, b) == IF a < b THEN b ELSE a
In(f, pc) == fetcher[f].pc = pc

Tick ==
    /\ clock < MaxClock
    /\ clock' = clock + 1
    /\ UNCHANGED <<fetcher, bucket, quiet>>

\* run_blocking hands the call to the pool.
Enqueue(f) ==
    /\ In(f, "new")
    /\ fetcher' = [fetcher EXCEPT ![f].pc = "pool", ![f].since = clock]
    /\ UNCHANGED <<clock, bucket, quiet>>

\* A thread takes the call.  It fails if it waited too long for the thread; check_url
\* refuses a URL that is not allowlisted; otherwise it queues for its host.
StartThread(f, q) ==
    /\ In(f, "pool")
    /\ Cardinality({g \in Fetcher : fetcher[g].pc \in Running}) < Threads
    /\ fetcher' = [fetcher EXCEPT ![f].pc = IF clock - fetcher[f].since > MaxWait THEN "failed"
                                            ELSE "queued",
                                  ![f].queue = q, ![f].since = clock]
    /\ UNCHANGED <<clock, bucket, quiet>>

\* slot: the lock is free.  The time until the host may be asked again must fit in what
\* is left of the bound.
TakeSlot(f) ==
    LET q == fetcher[f].queue
        wait == bucket[q].ready - clock
        fits == wait <= MaxWait - (clock - fetcher[f].since)
    IN  /\ In(f, "queued") /\ bucket[q].lock = NoFetcher
        /\ clock - fetcher[f].since <= MaxWait
        /\ fetcher' = [fetcher EXCEPT ![f].pc = IF fits THEN "sleeping" ELSE "failed",
                                      ![f].since = 0]
        /\ bucket' = [bucket EXCEPT ![q].lock = IF fits THEN f ELSE NoFetcher]
        /\ UNCHANGED <<clock, quiet>>

\* The lock was not free for max_wait.
QueueTimeout(f) ==
    /\ In(f, "queued") /\ clock - fetcher[f].since >= MaxWait
    /\ bucket[fetcher[f].queue].lock # NoFetcher
    /\ fetcher' = [fetcher EXCEPT ![f].pc = "failed"]
    /\ UNCHANGED <<clock, bucket, quiet>>

\* It slept until the host may be asked; the request goes out.
SendRequest(f) ==
    /\ In(f, "sleeping") /\ clock >= bucket[fetcher[f].queue].ready
    /\ fetcher' = [fetcher EXCEPT ![f].pc = "sending"]
    /\ UNCHANGED <<clock, bucket, quiet>>

IntervalOnly(ready, delay) == clock + Interval                      \* mutant
\* backoff with the host's delay, and then the interval when the slot is left: both only
\* move ready_at forward.
ReadyAt(ready, delay) == Later(Later(ready, clock + delay), clock + Interval)

\* The slot is left: the host is spaced from now on.
LeaveSlot(q, delay) ==
    /\ bucket' = [bucket EXCEPT ![q].lock = NoFetcher, ![q].ready = ReadyAt(@, delay)]
    /\ quiet' = [quiet EXCEPT ![q] = Later(@, clock + Later(Interval, delay))]

\* The host is busy and names a delay (or the call's own, doubled each time).  The call
\* asks again unless the delay is long or the attempts are used up.
Busy(f, delay) ==
    LET again == delay <= MaxRetryWait /\ fetcher[f].attempt + 1 < RetryAttempts
    IN  /\ In(f, "sending")
        /\ LeaveSlot(fetcher[f].queue, delay)
        /\ fetcher' = [fetcher EXCEPT ![f].pc = IF again THEN "queued" ELSE "done",
                                      ![f].attempt = IF again THEN @ + 1 ELSE @,
                                      ![f].since = clock]
        /\ UNCHANGED clock

\* A redirect: its body is not read, and the next host has its own queue.
Redirect(f, q) ==
    LET again == fetcher[f].hop < MaxRedirects
    IN  /\ In(f, "sending")
        /\ LeaveSlot(fetcher[f].queue, 0)
        /\ fetcher' = [fetcher EXCEPT ![f].pc = IF again THEN "queued" ELSE "failed",
                                      ![f].queue = q, ![f].hop = IF again THEN @ + 1 ELSE @,
                                      ![f].attempt = 0, ![f].since = clock]
        /\ UNCHANGED clock

\* The answer was read, or the request failed: the slot is left in either case.
Answered(f, pc) ==
    /\ In(f, "sending")
    /\ LeaveSlot(fetcher[f].queue, 0)
    /\ fetcher' = [fetcher EXCEPT ![f].pc = pc, ![f].attempt = 0, ![f].hop = 0]
    /\ UNCHANGED clock

LimiterNext ==
    \/ Tick
    \/ \E f \in Fetcher :
        \/ Enqueue(f) \/ TakeSlot(f) \/ QueueTimeout(f) \/ SendRequest(f)
        \/ \E q \in HostQueue : StartThread(f, q) \/ Redirect(f, q)
        \/ \E delay \in Delays : Busy(f, delay)
        \/ \E pc \in {"done", "failed"} : Answered(f, pc)

LimiterSpec == LimiterInit /\ [][LimiterNext]_limiterVars
-----------------------------------------------------------------------------
(* Properties *)

\* A host is asked by one call at a time, and by nobody before the interval since the
\* last request and every Retry-After that any call received have passed, however the
\* calls queue, retry and follow redirects.
HostLeftInPeace ==
    \A q \in HostQueue :
        /\ Cardinality({f \in Fetcher : In(f, "sending") /\ fetcher[f].queue = q}) <= 1
        /\ \A f \in Fetcher : In(f, "sending") /\ fetcher[f].queue = q => clock >= quiet[q]

\* The limits of the literature hosts are kept.
LimiterSound == LimiterTypeOK /\ HostLeftInPeace
=============================================================================
