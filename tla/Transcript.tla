----------------------------- MODULE Transcript -----------------------------
(***************************************************************************)
(* The native transcript of a model session (ResponsesRuntime): the active *)
(* input sent with each request, the stored tool results, the stubs that   *)
(* replace old outputs and name a result to recall, the pruning at a       *)
(* compaction item, and the copy that a successor session starts from.     *)
(* The process may die at any step and go on from the last saved state.    *)
(***************************************************************************)
EXTENDS Naturals, Sequences, FiniteSets, Functions

CONSTANTS
    CallId,             \* call ids of the provider, never reused
    Long,               \* calls whose output is longer than the output limit
    ElideAfter,         \* elide_after_turns
    ElideEvery,         \* elide_every_turns
    MaxItems,           \* bound of the model: items of a response
    MaxResponses,       \* bound of the model
    MaxDeaths           \* bound of the model: crashes and handoffs

ASSUME TranscriptAssumption ==
    /\ Long \subseteq CallId
    /\ ElideAfter \in Nat /\ ElideEvery \in Nat \ {0}
    /\ {MaxItems, MaxResponses, MaxDeaths} \subseteq Nat

VARIABLES
    chat,           \* the state of the session in memory
    savedChat,      \* its last saved copy
    phase,          \* where the runtime loop is
    unanswered,     \* the calls of the present response that have no output yet, by place
    dispatches,     \* history: how often the tool of a call ran
    deaths          \* crashes and handoffs so far

transcriptVars == <<chat, savedChat, phase, unanswered, dispatches, deaths>>

Nil == "none"
\* Items of the input.  `of` is the call whose stored result the item stands for.
Item(kind, id, of) == [kind |-> kind, id |-> id, of |-> of]
Anchor == Item("anchor", Nil, Nil)
Compaction == Item("compaction", Nil, Nil)

IsCall(item) == item.kind \in {"call", "recall"}
IsOutput(item) == item.kind \in {"full", "head", "page", "stub"}
Ids(results) == {entry[1] : entry \in results}

NewChat ==
    [input |-> <<Anchor>>, response |-> <<>>, results |-> {}, pages |-> {},
     archives |-> {}, refs |-> {}, seq |-> 0, lastBlock |-> 0,
     pending |-> FALSE, settled |-> TRUE, marker |-> FALSE, pruned |-> FALSE]

TranscriptTypeOK ==
    /\ \A c \in {chat, savedChat} :
        /\ \A i \in DOMAIN c.input : /\ c.input[i].id \in CallId \cup {Nil}
                                     /\ c.input[i].of \in CallId \cup {Nil}
        /\ c.results \cup c.pages \subseteq CallId \X (0 .. MaxResponses)
        /\ c.archives \subseteq CallId /\ c.refs \subseteq CallId
    /\ phase \in {"boundary", "sent", "received", "calls", "running", "advance", "settle",
                  "lost", "ended"}
    /\ unanswered \subseteq DOMAIN chat.response
    /\ dispatches \in [CallId -> Nat] /\ deaths \in 0 .. MaxDeaths

TranscriptInit ==
    /\ chat = NewChat /\ savedChat = NewChat
    /\ phase = "boundary" /\ unanswered = {}
    /\ dispatches = [c \in CallId |-> 0]
    /\ deaths = 0

\* _save
Saves(c) == chat' = c /\ savedChat' = c
-----------------------------------------------------------------------------
(* A turn *)

\* _elide_block: once per block of responses, the outputs that are old enough become
\* stubs that name the result to recall (for a page: the output that it is a page of).
Elided(c) ==
    LET Old(id) == \E entry \in c.results \cup c.pages :
                      entry[1] = id /\ entry[2] + ElideAfter <= c.seq
        Stub(item) == IF IsOutput(item) /\ item.kind # "stub" /\ Old(item.id)
                      THEN Item("stub", item.id, item.of) ELSE item
    IN  IF c.seq - c.lastBlock < ElideEvery THEN c
        ELSE [c EXCEPT !.input = [i \in DOMAIN @ |-> Stub(@[i])], !.lastBlock = c.seq]

\* _prepare_request: the generation marker is saved before the request goes out.
SendTurn ==
    /\ phase = "boundary" /\ chat.seq < MaxResponses
    /\ Saves([Elided(chat) EXCEPT !.pending = TRUE, !.settled = FALSE, !.marker = FALSE,
                                  !.pruned = FALSE])
    /\ phase' = "sent"
    /\ UNCHANGED <<unanswered, dispatches, deaths>>

\* The response joins the input.  Its calls are new; a recall names an earlier call.
ReceiveResponse(items) ==
    /\ phase = "sent"
    /\ \A i \in DOMAIN items : IsCall(items[i]) =>
        /\ dispatches[items[i].id] = 0
        /\ items[i].id \notin Ids(chat.pages)
        /\ ~\E j \in DOMAIN chat.input : chat.input[j].id = items[i].id
    /\ Saves([chat EXCEPT !.input = @ \o items, !.response = items, !.seq = @ + 1])
    /\ phase' = "received"
    /\ UNCHANGED <<unanswered, dispatches, deaths>>

HasCompaction(items) == Compaction \in Range(items)
CallsOf(items) == {i \in DOMAIN items : IsCall(items[i])}

\* The response is paid for.  Only a response with compaction items is saved here.
SettleResponse ==
    LET settled == [chat EXCEPT !.pending = FALSE, !.marker = HasCompaction(chat.response)]
    IN  /\ phase = "received"
        /\ chat' = settled
        /\ savedChat' = IF settled.marker THEN settled ELSE savedChat
        /\ unanswered' = CallsOf(chat.response)
        /\ phase' = "calls"
        /\ UNCHANGED <<dispatches, deaths>>

\* _run_calls answers the calls in their order.
Present == CHOOSE i \in unanswered : \A j \in unanswered : i <= j
Called == chat.response[Present]

\* _find_tool_result: the active results, then the own archives, then inherited ones.
Findable(c) == Ids(c.results) \cup c.archives \cup c.refs

\* _recall reads a stored output: nothing is stored or marked.
Recall ==
    /\ phase = "calls" /\ unanswered # {} /\ Called.kind = "recall"
    /\ LET found == Called.of \in Findable(chat)
           out == Item(IF found THEN "page" ELSE "full", Called.id,
                       IF found THEN Called.of ELSE Called.id)
       IN  chat' = [chat EXCEPT !.input = Append(@, out),
                                !.pages = IF found THEN @ \cup {<<Called.id, chat.seq>>} ELSE @]
    /\ unanswered' = unanswered \ {Present}
    /\ UNCHANGED <<savedChat, phase, dispatches, deaths>>

\* The marker of a tool call is saved, and the tool runs.
MarkCall ==
    /\ phase = "calls" /\ unanswered # {} /\ Called.kind = "call"
    /\ Saves([chat EXCEPT !.pending = TRUE])
    /\ dispatches' = [dispatches EXCEPT ![Called.id] = @ + 1]
    /\ phase' = "running"
    /\ UNCHANGED <<unanswered, deaths>>

\* Its result is stored and its output, or the head of a long one, joins the input.
AnswerCall ==
    LET id == Called.id
    IN  /\ phase = "running"
        /\ chat' = [chat EXCEPT !.pending = FALSE,
                                !.results = @ \cup {<<id, chat.seq>>},
                                !.input = Append(@, Item(IF id \in Long THEN "head" ELSE "full",
                                                         id, id))]
        /\ unanswered' = unanswered \ {Present}
        /\ phase' = "calls"
        /\ UNCHANGED <<savedChat, dispatches, deaths>>

\* After the last call.  An answer without calls ends the session if it has a text.
CallsDone ==
    /\ phase = "calls" /\ unanswered = {}
    /\ \/ phase' = "ended" /\ CallsOf(chat.response) = {}
       \/ phase' = "advance" /\ chat.response # <<>>
    /\ UNCHANGED <<chat, savedChat, unanswered, dispatches, deaths>>

LastCompaction(input) == CHOOSE i \in DOMAIN input :
    input[i] = Compaction /\ \A j \in i + 1 .. Len(input) : input[j] # Compaction

FromCompaction(c) == LastCompaction(c.input)                        \* mutant
\* Pruning starts at the last compaction item, or, when a call before it has its output
\* behind it, at the start of the whole response.
KeepFrom(c) ==
    LET last == LastCompaction(c.input)
        after == {c.input[i].id : i \in {i \in last + 1 .. Len(c.input) : IsOutput(c.input[i])}}
        crossing == {i \in 1 .. last - 1 : IsCall(c.input[i]) /\ c.input[i].id \in after}
        start == Len(c.input) - Len(c.response) - Cardinality(CallsOf(c.response)) + 1
    IN  IF crossing = {} THEN last
        ELSE CHOOSE i \in crossing \cup {start} : \A j \in crossing \cup {start} : i <= j

\* _advance_active_input: what is pruned is archived first, with all results.
Advance ==
    /\ phase = "advance"
    /\ IF HasCompaction(chat.response)
       THEN Saves([chat EXCEPT !.archives = @ \cup Ids(chat.results), !.results = {},
                               !.pruned = TRUE,
                               !.input = Append(SubSeq(@, KeepFrom(chat), Len(@)), Anchor)])
       ELSE UNCHANGED <<chat, savedChat>>
    /\ phase' = "settle"
    /\ UNCHANGED <<unanswered, dispatches, deaths>>

SettleBoundary ==
    /\ phase = "settle"
    /\ Saves([chat EXCEPT !.settled = TRUE])
    /\ phase' = "boundary"
    /\ UNCHANGED <<unanswered, dispatches, deaths>>
-----------------------------------------------------------------------------
(* Handoff, crash and recovery *)

\* The archives that a successor may read: the inherited ones and the source's own.
ArchiveRefs(c) == c.refs \cup c.archives

\* start_from_handoff: the successor copies the settled transcript.
Handoff ==
    /\ phase = "boundary" /\ chat.seq > 0 /\ deaths < MaxDeaths
    /\ Saves([chat EXCEPT !.refs = ArchiveRefs(chat), !.archives = {},
                          !.marker = FALSE, !.pruned = FALSE])
    /\ deaths' = deaths + 1
    /\ UNCHANGED <<phase, unanswered, dispatches>>

\* The process dies: what was not saved is lost.
Dies ==
    /\ phase \notin {"lost", "ended"} /\ deaths < MaxDeaths
    /\ chat' = savedChat
    /\ phase' = "lost" /\ unanswered' = {}
    /\ deaths' = deaths + 1
    /\ UNCHANGED <<savedChat, dispatches>>

CompactionOnly(items) == items # <<>> /\ Range(items) = {Compaction}

\* A settled state goes on; a paid compaction-only response is finished locally, from
\* where it stopped; anything else stays uncertain and the session is given up.
ResumeTranscript ==
    /\ phase = "lost"
    /\ phase' = IF chat.pending THEN "ended"
                ELSE IF chat.settled THEN "boundary"
                ELSE IF chat.marker /\ CompactionOnly(chat.response)
                THEN IF chat.pruned THEN "settle" ELSE "advance"
                ELSE "ended"
    /\ UNCHANGED <<chat, savedChat, unanswered, dispatches, deaths>>

\* What a response can hold: compaction items, and calls with an id each of its own.
Responses ==
    LET one == {Compaction} \cup {Item("call", id, id) : id \in CallId}
                   \cup {Item("recall", p[1], p[2]) : p \in {p \in CallId \X CallId : p[1] # p[2]}}
    IN  {s \in UNION {[1 .. n -> one] : n \in 0 .. MaxItems} :
            \A i, j \in DOMAIN s : i # j /\ IsCall(s[i]) => s[i].id # s[j].id}

TranscriptNext ==
    \/ SendTurn \/ SettleResponse \/ Recall \/ MarkCall \/ AnswerCall \/ CallsDone \/ Advance
    \/ SettleBoundary \/ Handoff \/ Dies \/ ResumeTranscript
    \/ \E items \in Responses : ReceiveResponse(items)

TranscriptSpec == TranscriptInit /\ [][TranscriptNext]_transcriptVars
-----------------------------------------------------------------------------
(* Properties *)

\* Whatever a stub, a shortened output or a page in the input stands for can still be
\* recalled, in full, across elision, pruning, handoffs and crashes.
StubsRecallable ==
    \A i \in DOMAIN chat.input :
        chat.input[i].kind \in {"stub", "head", "page"} => chat.input[i].of \in Findable(chat)

\* The provider refuses an input with an output whose call is missing.  At a boundary
\* every output has its call before it and every call its output.
CallsPaired ==
    phase = "boundary" =>
        /\ \A i \in DOMAIN chat.input : IsOutput(chat.input[i]) =>
              \E j \in 1 .. i - 1 : IsCall(chat.input[j]) /\ chat.input[j].id = chat.input[i].id
        /\ \A i \in DOMAIN chat.input : IsCall(chat.input[i]) =>
              \E j \in DOMAIN chat.input :
                  j > i /\ IsOutput(chat.input[j]) /\ chat.input[j].id = chat.input[i].id

\* The transcript that is sent is complete: stubs can be recalled, calls are paired with
\* their outputs, and no tool ran twice for one call.
TranscriptWhole ==
    TranscriptTypeOK /\ StubsRecallable /\ CallsPaired /\ \A id \in CallId : dispatches[id] <= 1
=============================================================================
