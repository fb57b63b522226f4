--------------------------- MODULE CheckpointStore ---------------------------
(***************************************************************************)
(* CanonicalRuntimeStore: how the native state of one session is saved as  *)
(* a graph of chunks.  The bytes of new chunks are stored first, then one  *)
(* transaction inserts their rows and moves the session's pointer to the   *)
(* new manifest (commit_native_checkpoint).  The command is keyed by the   *)
(* digest of the state, so a save of a state that was saved before is a    *)
(* replay.  Each execution keeps a cache of the rows it knows.             *)
(*                                                                         *)
(* Executions crash, lose their lease, and may not learn that their        *)
(* transaction was committed.  A state stands for its set of chunks.       *)
(***************************************************************************)
EXTENDS Naturals, FiniteSets, Functions, FiniteSetsExt

CONSTANTS
    Execution,      \* executions of the task, each with a store of its own
    Chunk,          \* what chunks contain
    State,          \* the states that are saved: nonempty sets of chunks
    MaxRows         \* bound: rows of the store; their ids have no order in time

ASSUME CheckpointAssumption ==
    /\ MaxRows \in Nat /\ "none" \notin Execution
    /\ \A s \in State : s \subseteq Chunk /\ s # {}

VARIABLES
    stored,         \* the chunks whose bytes the object store has
    rows,           \* the committed rows: the chunk of each id
    pointer,        \* the session's checkpoint: a state and the rows it refers to
    command,        \* the committed commands: the rows that each state was saved with
    owner,          \* the execution that holds the lease
    store           \* each execution's store object

checkpointVars == <<stored, rows, pointer, command, owner, store>>

Row == 1 .. MaxRows
Nothing == <<>>

\* f is a function from some of S to T; the rows of a manifest, by chunk.
Partial(f, S, T) == DOMAIN f \subseteq S /\ \A x \in DOMAIN f : f[x] \in T
IsRefs(f) == Partial(f, Chunk, Row)
NoState == {}

Off == [pc |-> "off", cache |-> Nothing, warm |-> FALSE, saving |-> NoState,
        written |-> Nothing]

CheckpointTypeOK ==
    /\ stored \subseteq Chunk
    /\ Partial(rows, Row, Chunk)
    /\ pointer.state \in State \cup {NoState} /\ IsRefs(pointer.refs)
    /\ DOMAIN command \subseteq State /\ \A s \in DOMAIN command : IsRefs(command[s])
    /\ owner \in Execution \cup {"none"}
    /\ \A e \in Execution :
        /\ store[e].pc \in {"off", "open", "saving"} /\ store[e].warm \in BOOLEAN
        /\ IsRefs(store[e].cache) /\ IsRefs(store[e].written)
        /\ store[e].saving \in State \cup {NoState}

CheckpointInit ==
    /\ stored = {} /\ rows = Nothing
    /\ pointer = [state |-> NoState, refs |-> Nothing]
    /\ command = Nothing
    /\ owner = "none"
    /\ store = [e \in Execution |-> Off]

\* The left function wins where both are defined.
Over(f, g) == [x \in DOMAIN f \cup DOMAIN g |-> IF x \in DOMAIN f THEN f[x] ELSE g[x]]
-----------------------------------------------------------------------------
\* An execution that holds the lease opens its store with an empty cache.  The
\* lease may have expired under the execution that held it.
OpenStore(e) ==
    /\ store[e].pc = "off"
    /\ owner' = e
    /\ store' = [store EXCEPT ![e] = [Off EXCEPT !.pc = "open"]]
    /\ UNCHANGED <<stored, rows, pointer, command>>

\* _warm_chunk_cache: the first of the rows of each chunk, if the session was
\* ever saved.
Warmed(e) ==
    IF store[e].warm \/ pointer.state = NoState THEN store[e].cache
    ELSE Over(store[e].cache,
              [c \in Range(rows) |-> Min({r \in DOMAIN rows : rows[r] = c})])

\* _save_checkpoint begins.
BeginSave(e, s) ==
    /\ store[e].pc = "open"
    /\ store' = [store EXCEPT ![e] = [@ EXCEPT !.pc = "saving", !.cache = Warmed(e),
                                              !.warm = TRUE, !.saving = s,
                                              !.written = Nothing]]
    /\ UNCHANGED <<stored, rows, pointer, command, owner>>

\* The ids that no row and no execution has: new_id never repeats one.
FreshRows == Row \ (DOMAIN rows \cup UNION {Range(store[e].written) \cup Range(store[e].cache) :
                                                e \in Execution})

Known(e) == Over(store[e].cache, store[e].written)
ToWrite(e) == store[e].saving \ DOMAIN Known(e)

\* put_chunk of a chunk that is not known.
PutChunk(e, c) ==
    /\ store[e].pc = "saving" /\ c \in ToWrite(e)
    /\ stored' = stored \cup {c}
    /\ \E id \in FreshRows :
        store' = [store EXCEPT ![e].written = Over([x \in {c} |-> id], @)]
    /\ UNCHANGED <<rows, pointer, command, owner>>

\* The manifest of the state being saved.
Manifest(e) == [c \in store[e].saving |-> Known(e)[c]]

Done(e) == [store[e] EXCEPT !.pc = "open", !.saving = NoState, !.written = Nothing]

AlwaysTaught(e, committed) == Known(e)                              \* mutant
\* Only a save that committed this manifest teaches the cache.
Taught(e, committed) == IF committed THEN Known(e) ELSE store[e].cache

\* runtime.save, by the holder.  The reply may be lost: then the caller sees an
\* error, whatever was committed, and learns nothing.
Commit(e) ==
    LET s == store[e].saving
        fresh == s \notin DOMAIN command IN
    /\ store[e].pc = "saving" /\ ToWrite(e) = {}
    /\ owner = e
    /\ ~fresh => command[s] = Manifest(e)
    /\ IF fresh
       THEN /\ rows' = Over(rows, [r \in Range(store[e].written) |->
                                    CHOOSE c \in Chunk : /\ c \in DOMAIN store[e].written
                                                         /\ store[e].written[c] = r])
            /\ pointer' = [state |-> s, refs |-> Manifest(e)]
            /\ command' = Over(command, [x \in {s} |-> Manifest(e)])
       ELSE UNCHANGED <<rows, pointer, command>>
    /\ \E reply \in BOOLEAN :
        store' = [store EXCEPT ![e] = [Done(e) EXCEPT !.cache = Taught(e, fresh /\ reply)]]
    /\ UNCHANGED <<stored, owner>>

\* STALE_LEASE, IDEMPOTENCY_CONFLICT for another manifest of a known state, or
\* a failed transaction: nothing is committed.  The execution may save again.
SaveFails(e) ==
    /\ store[e].pc = "saving"
    /\ store' = [store EXCEPT ![e] = [Done(e) EXCEPT !.cache = Taught(e, FALSE)]]
    /\ UNCHANGED <<stored, rows, pointer, command, owner>>

\* The process dies, or the execution ends.
CloseStore(e) ==
    /\ store[e].pc # "off"
    /\ store' = [store EXCEPT ![e] = Off]
    /\ owner' = IF owner = e THEN "none" ELSE owner
    /\ UNCHANGED <<stored, rows, pointer, command>>

CheckpointNext ==
    \E e \in Execution :
        \/ OpenStore(e) \/ Commit(e) \/ SaveFails(e) \/ CloseStore(e)
        \/ \E s \in State : BeginSave(e, s)
        \/ \E c \in Chunk : PutChunk(e, c)

CheckpointSpec == CheckpointInit /\ [][CheckpointNext]_checkpointVars
-----------------------------------------------------------------------------
(* Properties. *)

\* load_native_checkpoint and decode succeed: every reference has a committed
\* row of that chunk, whose bytes are stored.
Resolves(refs) == \A c \in DOMAIN refs :
                    refs[c] \in DOMAIN rows /\ rows[refs[c]] = c /\ c \in stored

\* The saved checkpoint can always be read back exactly, whichever executions
\* died, lost their lease or never learnt the outcome of a save.
PointerResolves == DOMAIN pointer.refs = pointer.state /\ Resolves(pointer.refs)

\* The saved session can be read back.
CheckpointsSound == CheckpointTypeOK /\ PointerResolves
=============================================================================
