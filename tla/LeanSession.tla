---------------------------- MODULE LeanSession ----------------------------
(***************************************************************************)
(* The Lean session of a workspace (orchestration/lean_session.py and      *)
(* formal_tools/lean_session_daemon.py): a daemon that serves one request  *)
(* at a time against one REPL process.                                     *)
(*                                                                         *)
(* The daemon caches, per header, the number of the environment in which   *)
(* the REPL elaborated it; a check sends the header if it is not cached,   *)
(* the body in that environment, and the axiom report in the body's.  The  *)
(* REPL answers in order on a pipe and numbers its environments from 1, so *)
(* a reply that nobody read, or a number kept from an earlier process,     *)
(* would answer another request.  Deadlines, crashes of the REPL and of    *)
(* the daemon, and clients that give up happen at any point.               *)
(***************************************************************************)
EXTENDS Naturals, Sequences, FiniteSets

CONSTANTS
    Client,       \* check requests
    Header,       \* the header of each client's source
    MaxEnvs,      \* commands after which the daemon restarts the REPL
    MaxFailures   \* bound: deadlines missed and processes that died

NoClient == "none"

ASSUME LeanSessionAssumption ==
    /\ NoClient \notin Client
    /\ DOMAIN Header = Client
    /\ MaxEnvs \in Nat \ {0}
    /\ MaxFailures \in Nat

VARIABLES
    waiting,   \* requests the daemon has not accepted yet
    current,   \* the request it works on, with the command it sent
    commands,  \* replies the daemon read since the REPL started
    cache,     \* header -> environment number, as the daemon remembers it
    table,     \* the REPL's environments: what each one elaborated
    todo,      \* commands the REPL has not executed yet
    pipe,      \* replies on the REPL's stdout that were not read yet
    answer,    \* what each client was told
    failures

leanVars == <<waiting, current, commands, cache, table, todo, pipe, answer, failures>>

DaemonIdle == [client |-> NoClient, step |-> "idle"]
NoReport == <<>>
Told(status, of, axioms) == [status |-> status, of |-> of, axioms |-> axioms]
NoAnswer == Told("none", <<>>, NoReport)
CheckFailed == Told("error", <<>>, NoReport)

LeanSessionTypeOK ==
    /\ waiting \subseteq Client /\ current.client \in Client \cup {NoClient}
    /\ commands \in Nat /\ failures \in 0 .. MaxFailures
    /\ \A h \in DOMAIN cache : h \in {Header[c] : c \in Client} /\ cache[h] \in Nat \ {0}
    /\ \A c \in Client : answer[c].status \in {"none", "verdict", "error"}

LeanInit ==
    /\ waiting = Client
    /\ current = DaemonIdle
    /\ commands = 0
    /\ cache = [h \in {} |-> 0]
    /\ table = <<>>
    /\ todo = <<>>
    /\ pipe = <<>>
    /\ answer = [c \in Client |-> NoAnswer]
    /\ failures = 0

LeanFailure ==
    /\ failures < MaxFailures
    /\ failures' = failures + 1

\* Session.reset: the process and all that belongs to it are gone.
Reset ==
    /\ commands' = 0 /\ cache' = [h \in {} |-> 0]
    /\ table' = <<>> /\ todo' = <<>> /\ pipe' = <<>>

KeepSession == UNCHANGED <<commands, cache, table, todo, pipe>>

\* Session.send after an error: a reply may be outstanding.
NoReset == KeepSession                                             \* mutant
ResetOnError == Reset

Cached(h) == h \in DOMAIN cache
Serving(step) == current.client # NoClient /\ current.step = step
-----------------------------------------------------------------------------
(* The daemon. *)

\* accept; a REPL that served its share of commands is replaced first.
Accept(c) ==
    /\ current = DaemonIdle
    /\ c \in waiting
    /\ waiting' = waiting \ {c}
    /\ current' = [client |-> c, step |-> "start"]
    /\ IF commands >= MaxEnvs THEN Reset ELSE KeepSession
    /\ UNCHANGED <<answer, failures>>

\* The command a check sends next: [what, env].  env 0 is the empty one.
Command ==
    LET c == current.client h == Header[c] IN
    IF current.step = "start" /\ ~Cached(h) THEN [what |-> h, env |-> 0]
    ELSE IF current.step = "start" THEN [what |-> c, env |-> cache[h]]
    ELSE [what |-> "axioms", env |-> current.env]

Send ==
    /\ current.client # NoClient
    /\ current.step \in {"start", "report"}
    /\ todo' = Append(todo, Command)
    /\ current' = IF current.step = "report" THEN [current EXCEPT !.step = "reporting"]
                  ELSE [client |-> current.client,
                        step |-> IF Cached(Header[current.client]) THEN "body" ELSE "header"]
    /\ UNCHANGED <<waiting, commands, cache, table, pipe, answer, failures>>

\* Session.check reads the header's reply and caches its environment.
ReadHeader ==
    /\ Serving("header")
    /\ pipe # <<>>
    /\ Head(pipe).env > 0
    /\ cache' = [h \in DOMAIN cache \cup {Header[current.client]} |->
         IF h = Header[current.client] THEN Head(pipe).env ELSE cache[h]]
    /\ pipe' = Tail(pipe)
    /\ current' = [client |-> current.client, step |-> "start"]
    /\ commands' = commands + 1
    /\ UNCHANGED <<waiting, table, todo, answer, failures>>

\* ... the body's reply: the verdict, whose axioms are still to be reported ...
ReadBody ==
    /\ Serving("body")
    /\ pipe # <<>>
    /\ Head(pipe).env > 0
    /\ pipe' = Tail(pipe)
    /\ current' = [client |-> current.client, step |-> "report",
                   env |-> Head(pipe).env, of |-> Head(pipe).of]
    /\ commands' = commands + 1
    /\ UNCHANGED <<waiting, cache, table, todo, answer, failures>>

Reply(c, told) ==
    /\ answer' = [answer EXCEPT ![c] = IF @ = NoAnswer THEN told ELSE @]
    /\ current' = DaemonIdle

\* ... and the axiom report, with which the check may be complete.
ReadReport ==
    /\ Serving("reporting")
    /\ pipe # <<>>
    /\ pipe' = Tail(pipe)
    /\ Reply(current.client, Told("verdict", current.of, Head(pipe).of))
    /\ commands' = commands + 1
    /\ UNCHANGED <<waiting, cache, table, todo, failures>>

\* The REPL answered with a message and no environment.
ReadRefusal ==
    /\ Serving("header") \/ Serving("body")
    /\ pipe # <<>>
    /\ Head(pipe).env = 0
    /\ pipe' = Tail(pipe)
    /\ commands' = commands + 1
    /\ Reply(current.client, CheckFailed)
    /\ UNCHANGED <<waiting, cache, table, todo, failures>>

\* The deadline passed before anything was sent: the REPL is still in sync.
OutOfTime ==
    /\ Serving("start")
    /\ LeanFailure
    /\ Reply(current.client, CheckFailed)
    /\ KeepSession
    /\ UNCHANGED waiting

\* The deadline passes, or the REPL dies, while a reply is outstanding.
CallFails ==
    /\ current.client # NoClient
    /\ current.step \in {"header", "body"}
    /\ LeanFailure
    /\ ResetOnError
    /\ Reply(current.client, CheckFailed)
    /\ UNCHANGED waiting

\* The same during or before the report: the verdict stands, without axioms,
\* so the result is not complete.
ReportFails ==
    /\ current.client # NoClient
    /\ current.step \in {"report", "reporting"}
    /\ LeanFailure
    /\ IF current.step = "reporting" THEN ResetOnError ELSE KeepSession
    /\ Reply(current.client, Told("verdict", current.of, NoReport))
    /\ UNCHANGED waiting

\* The client's own deadline: it leaves, the daemon works on.
ClientLeaves(c) ==
    /\ answer[c] = NoAnswer
    /\ LeanFailure
    /\ answer' = [answer EXCEPT ![c] = CheckFailed]
    /\ UNCHANGED <<waiting, current, commands, cache, table, todo, pipe>>

\* The daemon dies with its REPL; the next request starts another.
DaemonDies ==
    /\ LeanFailure
    /\ commands' = 0 /\ cache' = [h \in {} |-> 0]
    /\ table' = <<>> /\ todo' = <<>> /\ pipe' = <<>>
    /\ current' = DaemonIdle
    /\ answer' = IF current.client # NoClient /\ answer[current.client] = NoAnswer
                 THEN [answer EXCEPT ![current.client] = CheckFailed] ELSE answer
    /\ UNCHANGED waiting
-----------------------------------------------------------------------------
(* The REPL, as the daemon uses it: external to the repository. *)

\* What a command elaborates: its text after what its environment elaborated.
Content(cmd) ==
    IF cmd.env = 0 THEN <<cmd.what>>
    ELSE IF cmd.env \in 1..Len(table) THEN Append(table[cmd.env], cmd.what)
    ELSE <<"unknown environment">>

ReplExecutes ==
    /\ todo # <<>>
    /\ table' = Append(table, Content(Head(todo)))
    /\ pipe' = Append(pipe, [env |-> Len(table) + 1, of |-> Content(Head(todo))])
    /\ todo' = Tail(todo)
    /\ UNCHANGED <<waiting, current, commands, cache, answer, failures>>

ReplRefuses ==
    /\ todo # <<>>
    /\ LeanFailure
    /\ pipe' = Append(pipe, [env |-> 0, of |-> <<>>])
    /\ todo' = Tail(todo)
    /\ UNCHANGED <<waiting, current, commands, cache, table, answer>>
-----------------------------------------------------------------------------
LeanNext ==
    \/ \E c \in Client : Accept(c)
    \/ Send
    \/ ReadHeader
    \/ ReadBody
    \/ ReadReport
    \/ ReadRefusal
    \/ OutOfTime
    \/ CallFails
    \/ ReportFails
    \/ \E c \in Client : ClientLeaves(c)
    \/ DaemonDies
    \/ ReplExecutes
    \/ ReplRefuses

LeanSpec == LeanInit /\ [][LeanNext]_leanVars
-----------------------------------------------------------------------------
Judged(c) == answer[c].status = "verdict"

\* Whatever times out, crashes or is restarted before, a client that is told a
\* verdict is told what Lean made of its own body after its own header, and
\* the axioms it is told are those of that very elaboration.
AnswersMatch ==
    \A c \in Client :
        Judged(c) =>
            /\ answer[c].of = <<Header[c], c>>
            /\ answer[c].axioms \in {NoReport, <<Header[c], c, "axioms">>}

\* The daemon's idea of an environment is the REPL's: a cached header names the
\* environment that elaborated it, in the process that runs now.
CacheIsCurrent ==
    \A h \in DOMAIN cache :
        cache[h] \in 1..Len(table) /\ table[cache[h]] = <<h>>

\* The daemon answers each client for its own text.
LeanSessionSound == LeanSessionTypeOK /\ AnswersMatch /\ CacheIsCurrent
=============================================================================
