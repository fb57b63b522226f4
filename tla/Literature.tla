----------------------------- MODULE Literature -----------------------------
(***************************************************************************)
(* LiteratureBroker: searches and page fetches of one execution, with the  *)
(* screen that keeps a benchmark run away from the works that solve it.    *)
(* The calls run on threads of a pool and share what the screen learned.   *)
(*                                                                         *)
(* A document is a search result or a page.  The parsing of identifiers,   *)
(* titles and texts is abstracted to what it finds in each document.       *)
(***************************************************************************)
EXTENDS Naturals, FiniteSets

CONSTANTS
    LitCall,        \* the tool calls, each on a thread of its own
    Document,       \* search results and pages
    WorkId,         \* arXiv ids, DOIs and OpenAlex ids in canonical form
    Identity,       \* the ids that a document carries
    UrlIds,         \* the ids that its URL names
    Mentions,       \* the ids that occur in its text
    BlockedPages,   \* documents on a blocked page or domain
    Titled,         \* documents whose text holds a blocked title
    Overlapping,    \* documents whose text shares too many n-grams with the reference
    Listing,        \* search pages, provider APIs and pages chosen by number
    BlockedIds      \* ids in blocked_sources

ASSUME LiteratureAssumption ==
    /\ Identity \in [Document -> SUBSET WorkId]
    /\ UrlIds \in [Document -> SUBSET WorkId]
    /\ \A d \in Document : UrlIds[d] \subseteq Identity[d]
    /\ Mentions \in [Document -> SUBSET WorkId]
    /\ BlockedPages \subseteq Document /\ Titled \subseteq Document
    /\ Overlapping \subseteq Document /\ Listing \subseteq Document
    /\ BlockedIds \subseteq WorkId

VARIABLES
    broker,         \* mode of the policy, and whether the reference is long enough
    lit,            \* each call: where it is, the documents found (later: withheld), the
                    \* ids these teach, the set that _learn read, the documents released,
                    \* and (history) the ids withheld before the call
    learned,        \* _learned: ids of the works that the screen withheld
    keyPattern,     \* _keys: the ids that the compiled pattern matches
    withheldIds,    \* history: ids that finished screens withheld
    overlapped      \* history: two calls were inside _learn at the same time

litVars == <<broker, lit, learned, keyPattern, withheldIds, overlapped>>

LitPc == {"new", "asked", "screen", "learn", "write", "keys", "page", "done", "fetched", "refused"}
NewCall == [pc |-> "new", docs |-> {}, tainted |-> {}, read |-> {}, released |-> {},
            known |-> {}]

LiteratureTypeOK ==
    /\ broker \in [mode : {"off", "open", "benchmark"}, usable : BOOLEAN]
    /\ lit \in [LitCall -> [pc : LitPc, docs : SUBSET Document, tainted : SUBSET WorkId,
                            read : SUBSET WorkId, released : SUBSET Document,
                            known : SUBSET WorkId]]
    /\ learned \subseteq WorkId /\ keyPattern \subseteq WorkId
    /\ withheldIds \subseteq WorkId /\ overlapped \in BOOLEAN

LiteratureInit ==
    /\ broker \in [mode : {"off", "open", "benchmark"}, usable : BOOLEAN]
    /\ lit = [c \in LitCall |-> NewCall]
    /\ learned = {} /\ keyPattern = BlockedIds
    /\ withheldIds = {} /\ overlapped = FALSE

Benchmark == broker.mode = "benchmark"
\* _require_enabled and _require_screen
Enabled == broker.mode # "off" /\ (Benchmark => broker.usable)

Moves(c, pc) == lit' = [lit EXCEPT ![c].pc = pc]
-----------------------------------------------------------------------------
(* The screen *)

\* _identity: the ids of a provider's record.
RecordIds(d) == Identity[d]
\* _url_ids: the ids that a URL names, in any spelling.
UrlKeys(d) == UrlIds[d]
\* _page_keys and _host_matches: a page or a domain of the policy.
OnBlockedPage(d) == d \in BlockedPages
\* _key_pattern and _key_text: an id of the pattern occurs in the text.
KeyMatch(d) == Mentions[d] \cap keyPattern # {}
\* A title of the policy, however it is typeset.
TitleHit(d) == d \in Titled
\* _measure, of the words of the extracted text.
Overlap(d) == d \in Overlapping
\* classify_blocked_source: the ids among the policy's entries.
PolicyIds == BlockedIds

\* _contamination: the first reason found decides, any of them withholds.
Contamination(d) == KeyMatch(d) \/ TitleHit(d) \/ Overlap(d)

\* _page_blocked
PageBlocked(d) == UrlKeys(d) \cap (PolicyIds \cup learned) # {} \/ OnBlockedPage(d)

\* _item_blocked
ItemBlocked(d) ==
    RecordIds(d) \cap (PolicyIds \cup learned) # {} \/ PageBlocked(d) \/ Contamination(d)

\* The ids of the documents that are blocked themselves.
DirectHits(docs) == UNION {RecordIds(d) : d \in {d \in docs : ItemBlocked(d)}}  \* mutant
\* A set of ids at which the loop of _screen stops: no document shares an id with it
\* and has another one.
Settled(docs, ids) ==
    /\ DirectHits(docs) \subseteq ids
    /\ \A d \in docs : RecordIds(d) \cap ids # {} => RecordIds(d) \subseteq ids
\* The ids of the blocked documents, and of every document that shares an id with one
\* of those, to the end of the chain: the least set at which the loop stops.
Tainted(docs) ==
    {i \in WorkId : \A ids \in SUBSET WorkId : Settled(docs, ids) => i \in ids}

\* _search_endpoint and _opaque_view
ListsWorks(d) == d \in Listing

\* _check_source
SourceRefused(d) == Benchmark /\ (ListsWorks(d) \/ PageBlocked(d))
-----------------------------------------------------------------------------
(* search *)

\* A policy that is off, or a reference that is too short: the call raises.
Disabled(c) ==
    /\ lit[c].pc = "new" /\ ~Enabled
    /\ Moves(c, "refused")
    /\ UNCHANGED <<broker, learned, keyPattern, withheldIds, overlapped>>

Search(c) ==
    /\ lit[c].pc = "new" /\ Enabled
    /\ lit' = [lit EXCEPT ![c].pc = "asked", ![c].known = withheldIds]
    /\ UNCHANGED <<broker, learned, keyPattern, withheldIds, overlapped>>

\* _parse_arxiv and _parse_openalex: any records.
ProviderRecords == SUBSET Document

\* Both providers answered, each with some documents, or failed and gave none.
Provider(c, docs) ==
    /\ lit[c].pc = "asked"
    /\ lit' = [lit EXCEPT ![c].docs = docs, ![c].pc = "screen"]
    /\ UNCHANGED <<broker, learned, keyPattern, withheldIds, overlapped>>

\* _screen: which of the documents are kept, and what their ids teach.  An item of the
\* same work as an earlier one is left out of the page, which is cut at the limit.
Screen(c) ==
    /\ lit[c].pc = "screen"
    /\ LET tainted == IF Benchmark THEN Tainted(lit[c].docs) ELSE {}
           kept == {d \in lit[c].docs :
                      Benchmark => ~ItemBlocked(d) /\ RecordIds(d) \cap tainted = {}}
       IN  \E shown \in SUBSET kept :
              /\ \A d, e \in shown : d = e \/ RecordIds(d) \cap RecordIds(e) = {}
              /\ lit' = [lit EXCEPT ![c].pc = IF Benchmark THEN "learn" ELSE "done",
                                    ![c].tainted = tainted, ![c].docs = @ \ kept,
                                    ![c].released = shown]
    /\ UNCHANGED <<broker, learned, keyPattern, withheldIds, overlapped>>

\* _learn reads the set of learned ids.
Learn(c) ==
    /\ lit[c].pc = "learn"
    /\ LET fresh == lit[c].tainted \ (learned \cup PolicyIds)
       IN  IF fresh = {}
           THEN /\ lit' = [lit EXCEPT ![c].pc = "done"]
                /\ withheldIds' = withheldIds \cup lit[c].tainted
           ELSE /\ lit' = [lit EXCEPT ![c].pc = "write", ![c].read = learned \cup fresh]
                /\ withheldIds' = withheldIds
    /\ overlapped' = (overlapped \/ \E b \in LitCall : lit[b].pc \in {"write", "keys"})
    /\ UNCHANGED <<broker, learned, keyPattern>>

\* It replaces the set by the one that it read, with the fresh ids.
LearnWrite(c) ==
    /\ lit[c].pc = "write"
    /\ learned' = lit[c].read
    /\ Moves(c, "keys")
    /\ UNCHANGED <<broker, keyPattern, withheldIds, overlapped>>

\* It compiles the pattern of the ids; the page of results is returned.
LearnKeys(c) ==
    /\ lit[c].pc = "keys"
    /\ keyPattern' = PolicyIds \cup learned
    /\ Moves(c, "done")
    /\ withheldIds' = withheldIds \cup lit[c].tainted
    /\ UNCHANGED <<broker, learned, overlapped>>
-----------------------------------------------------------------------------
(* fetch *)

Fetch(c, d) ==
    /\ lit[c].pc = "new" /\ broker.mode # "off"
    /\ IF SourceRefused(d) \/ ~Enabled
       THEN Moves(c, "refused")
       ELSE lit' = [lit EXCEPT ![c].pc = "page", ![c].known = withheldIds, ![c].docs = {d}]
    /\ UNCHANGED <<broker, learned, keyPattern, withheldIds, overlapped>>

\* The page that was reached is checked too, and then its text.
Withholds(c, final) == SourceRefused(final) \/ (Contamination(final) /\ Benchmark)

\* The page that the redirects led to was read.
FetchPage(c, final) ==
    /\ lit[c].pc = "page"
    /\ lit' = [lit EXCEPT ![c].pc = IF Withholds(c, final) THEN "refused" ELSE "fetched",
                          ![c].docs = {},
                          ![c].released = IF Withholds(c, final) THEN {} ELSE {final}]
    /\ UNCHANGED <<broker, learned, keyPattern, withheldIds, overlapped>>

\* The request failed, an error status, too large, or a type that cannot be read.
CallFails(c) ==
    /\ lit[c].pc = "page"
    /\ Moves(c, "refused")
    /\ UNCHANGED <<broker, learned, keyPattern, withheldIds, overlapped>>
-----------------------------------------------------------------------------
LiteratureNext ==
    \E c \in LitCall :
        \/ Disabled(c) \/ Search(c) \/ Screen(c) \/ Learn(c) \/ LearnWrite(c) \/ LearnKeys(c)
        \/ CallFails(c)
        \/ \E docs \in ProviderRecords : Provider(c, docs)
        \/ \E d \in Document : Fetch(c, d) \/ FetchPage(c, d)

LiteratureSpec == LiteratureInit /\ [][LiteratureNext]_litVars
-----------------------------------------------------------------------------
(* Properties *)

\* What a call released to the agent, and the ids that name it.
Released(c) == IF lit[c].pc \in {"done", "fetched"} THEN lit[c].released ELSE {}
NamingIds(c, d) == IF lit[c].pc = "fetched" THEN UrlIds[d] ELSE Identity[d]

\* The ids that must not reach the agent through a call: those of blocked sources and
\* those withheld before it began; and the ids of what the same search withheld.
Forbidden(c) == BlockedIds \cup lit[c].known
WithheldHere(c) == UNION {Identity[d] : d \in lit[c].docs}

\* A benchmark run never sees a blocked work, nor another copy of a work that was
\* withheld: not in the search that withheld it, however long the chain of copies is,
\* not in a search that began afterwards, and not by fetching its page, directly or
\* through a redirect; and no text that names one which was withheld before.  (A
\* text may name a work that the same search withholds.  Two calls that were inside
\* _learn at once may lose ids: ScreenRemembers.)
CopiesWithheld ==
    Benchmark /\ ~overlapped =>
        \A c \in LitCall : \A d \in Released(c) :
            /\ (NamingIds(c, d) \cup Mentions[d]) \cap Forbidden(c) = {}
            /\ NamingIds(c, d) \cap WithheldHere(c) = {}

\* "Later searches and fetches refuse these works too": what a finished screen withheld
\* stays in the set of learned ids.
ScreenRemembers == Benchmark => withheldIds \subseteq BlockedIds \cup learned

\* A benchmark run sees no copy of a withheld work.
LiteratureSound == LiteratureTypeOK /\ CopiesWithheld
=============================================================================
