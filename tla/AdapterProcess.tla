---------------------------- MODULE AdapterProcess ----------------------------
(***************************************************************************)
(* One adapter process (cmd/epack-remote-locktivity/main.go): it reads a    *)
(* line, answers it, reads the next.  Requests are told apart by the way    *)
(* they are served: auth.login and pull.prepare pass a rate limiter         *)
(* (internal/remote/handler.go, allowRateLimited); the key, lock, run       *)
(* progress, credentials and config requests are checked and make one call; *)
(* runs.sync and auth.whoami map their errors in their own way.             *)
(***************************************************************************)
EXTENDS ErrorMapping, Integers, Sequences, FiniteSets

CONSTANTS
  Interval,       \* Interval[op]: authLoginMinInterval, pullPrepareMinInterval
  SomeReplies,    \* the replies of the API
  NoReply,
  MaxLines, MaxTime

ASSUME AdapterAssumption ==
  /\ Interval \in [{"auth.login", "pull.prepare"} -> Nat]
  /\ SomeReplies \subseteq Replies
  /\ MaxLines \in Nat /\ MaxTime \in Nat

Limited == {"auth.login", "pull.prepare"}
Calls   == {"pull.prepare", "call", "runs.sync", "auth.whoami"}

\* Lines that no handler sees: empty, above 10 MB, not JSON, of another protocol
\* version or an unknown type, with fields that do not parse.
Broken == {"not_json", "unsupported", "malformed"}
Kinds  == {"empty", "too_long", "invalid"} \cup Broken \cup Limited \cup Calls

VARIABLES
  clock,
  input,      \* the lines epack wrote
  closed,     \* epack closed stdin
  read,       \* lines read
  pc,
  exit,       \* the exit status, -1 while the process runs
  out,        \* the request_id of every answer: the line's number, 0 for ""
  answer,     \* the last answer's code, and the reply it comes from
  lastAt,     \* lastAt[op]: when the limiter admitted op last, -1: never
  admitted,   \* when it did (history)
  refused     \* when it refused, since its last admission (history)

vars == <<clock, input, closed, read, pc, exit, out, answer, lastAt, admitted, refused>>

limiter == <<lastAt, admitted, refused>>

Times == 0..MaxTime

TypeOK ==
  /\ clock \in Times
  /\ input \in Seq(Kinds) /\ Len(input) <= MaxLines
  /\ closed \in BOOLEAN
  /\ read \in 0..Len(input)
  /\ pc \in {"reading", "dispatch", "authenticate", "call", "answered", "gone"}
  /\ exit \in {-1, 0, 1, 2} /\ (exit = -1 <=> pc # "gone")
  /\ out \in Seq(0..MaxLines)
  /\ answer \in [code : ProtocolCodes \cup {"ok", "none"}, reply : SomeReplies \cup {NoReply}]
  /\ lastAt \in [Limited -> Times \cup {-1}]
  /\ admitted \in [Limited -> Seq(Times)]
  /\ refused \in [Limited -> SUBSET Times]

Nothing == [code |-> "none", reply |-> NoReply]

Init ==
  /\ clock = 0
  /\ input = <<>>
  /\ closed = FALSE
  /\ read = 0
  /\ pc = "reading"
  /\ exit = -1
  /\ out = <<>>
  /\ answer = Nothing
  /\ lastAt = [op \in Limited |-> -1]
  /\ admitted = [op \in Limited |-> <<>>]
  /\ refused = [op \in Limited |-> {}]

-----------------------------------------------------------------------------
(* epack and the clock.                                                      *)

Tick ==
  /\ clock < MaxTime
  /\ clock' = clock + 1
  /\ UNCHANGED <<input, closed, read, pc, exit, out, answer, limiter>>

Write(kind) ==
  /\ ~closed
  /\ Len(input) < MaxLines
  /\ input' = Append(input, kind)
  /\ UNCHANGED <<clock, closed, read, pc, exit, out, answer, limiter>>

Close ==
  /\ ~closed
  /\ closed' = TRUE
  /\ UNCHANGED <<clock, input, read, pc, exit, out, answer, limiter>>

-----------------------------------------------------------------------------
(* The loop.                                                                 *)

Line == input[read]

More == pc = "reading" /\ read < Len(input)

EndWith(status) ==
  /\ pc' = "gone"
  /\ exit' = status
  /\ UNCHANGED <<clock, input, closed, out, limiter>>

ReadLine ==
  /\ More
  /\ input[read + 1] \notin {"empty", "too_long"}
  /\ read' = read + 1
  /\ pc' = "dispatch"
  /\ UNCHANGED <<clock, input, closed, exit, out, answer, limiter>>

\* A mistake: the same line again.
StayOnEmpty ==
  /\ More
  /\ input[read + 1] = "empty"
  /\ UNCHANGED vars

SkipEmpty ==
  /\ More
  /\ input[read + 1] = "empty"
  /\ read' = read + 1
  /\ UNCHANGED <<clock, input, closed, pc, exit, out, answer, limiter>>

\* The scanner gives up, and the process with it.
StopAtLongLine ==
  /\ More
  /\ input[read + 1] = "too_long"
  /\ EndWith(1)
  /\ UNCHANGED <<read, answer>>

EndOfInput ==
  /\ pc = "reading"
  /\ read = Len(input)
  /\ closed
  /\ EndWith(0)
  /\ UNCHANGED <<read, answer>>

\* A panic in a handler or a kill.
Die ==
  /\ pc # "gone"
  /\ EndWith(2)
  /\ answer' = Nothing
  /\ UNCHANGED read

\* One answer, on a line of its own.
Reply(code, reply) ==
  /\ out' = Append(out, IF Line = "not_json" THEN 0 ELSE read)
  /\ answer' = [code |-> code, reply |-> reply]
  /\ pc' = "answered"
  /\ UNCHANGED <<clock, input, closed, read, exit>>

NextLine ==
  /\ pc = "answered"
  /\ answer' = Nothing
  /\ pc' = "reading"
  /\ UNCHANGED <<clock, input, closed, read, exit, out, limiter>>

-----------------------------------------------------------------------------
(* processRequest, and the start of the handlers.                            *)

\* A mistake: a line that does not parse is passed over.
PassOverBroken ==
  /\ pc = "dispatch"
  /\ Line \in Broken
  /\ pc' = "reading"
  /\ UNCHANGED <<clock, input, closed, read, exit, out, answer, limiter>>

AnswerBroken ==
  /\ pc = "dispatch"
  /\ Line \in Broken
  /\ Reply(IF Line = "unsupported" THEN "unsupported_protocol" ELSE "invalid_request",
           NoReply)
  /\ UNCHANGED limiter

\* A request that lacks what it needs: a configuration, a key, an id.
AnswerInvalid ==
  /\ pc = "dispatch"
  /\ Line = "invalid"
  /\ Reply("invalid_request", NoReply)
  /\ UNCHANGED limiter

\* A mistake: one window for both operations.
AllowsShared(op) ==
  \A o \in Limited : lastAt[o] = -1 \/ clock - lastAt[o] >= Interval[op]

Allows(op) == lastAt[op] = -1 \/ clock - lastAt[op] >= Interval[op]

\* A mistake: the time of the next admission.
AdmittedLater(op) == [lastAt EXCEPT ![op] = clock + Interval[op]]

AdmittedNow(op) == [lastAt EXCEPT ![op] = clock]

\* The slot is spent before the request is known to succeed.
Admit ==
  /\ pc = "dispatch"
  /\ Line \in Limited
  /\ Allows(Line)
  /\ lastAt' = AdmittedNow(Line)
  /\ admitted' = [admitted EXCEPT ![Line] = Append(@, clock)]
  /\ refused' = [refused EXCEPT ![Line] = {}]
  /\ IF Line = "pull.prepare"
     THEN pc' = "authenticate" /\ UNCHANGED <<clock, input, closed, read, exit, out, answer>>
     ELSE \E code \in {"ok", "invalid_request", "server_error"} : Reply(code, NoReply)

\* A mistake: a refused request starts the window again.
RefuseAndRestart ==
  /\ pc = "dispatch"
  /\ Line \in Limited
  /\ ~Allows(Line)
  /\ lastAt' = [lastAt EXCEPT ![Line] = clock]
  /\ refused' = [refused EXCEPT ![Line] = @ \cup {clock}]
  /\ Reply("rate_limited", NoReply)
  /\ UNCHANGED admitted

Refuse ==
  /\ pc = "dispatch"
  /\ Line \in Limited
  /\ ~Allows(Line)
  /\ refused' = [refused EXCEPT ![Line] = @ \cup {clock}]
  /\ Reply("rate_limited", NoReply)
  /\ UNCHANGED <<lastAt, admitted>>

Serve ==
  /\ pc = "dispatch"
  /\ Line \in Calls \ Limited
  /\ pc' = "authenticate"
  /\ UNCHANGED <<clock, input, closed, read, exit, out, answer, limiter>>

-----------------------------------------------------------------------------
(* The handlers' calls.                                                      *)

Authenticated ==
  /\ pc = "authenticate"
  /\ pc' = "call"
  /\ UNCHANGED <<clock, input, closed, read, exit, out, answer, limiter>>

\* getClient fails: runs.sync has no code of its own, auth.whoami no error.
NotAuthenticated ==
  /\ pc = "authenticate"
  /\ Reply(CASE Line = "runs.sync"   -> "server_error"
             [] Line = "auth.whoami" -> "ok"
             [] OTHER                -> "auth_required", NoReply)
  /\ UNCHANGED limiter

Called(reply) ==
  /\ pc = "call"
  /\ Reply(CASE reply.status = "ok"   -> "ok"
             [] Line = "runs.sync"    -> "server_error"
             [] Line = "auth.whoami"  -> "ok"
             [] OTHER                 -> ToRemoteError(reply), reply)
  /\ UNCHANGED limiter

\* pull.prepare: the pack has no download.
NoDownload ==
  /\ pc = "call"
  /\ Line = "pull.prepare"
  /\ Reply("not_found", NoReply)
  /\ UNCHANGED limiter

-----------------------------------------------------------------------------
Work ==
  \/ ReadLine \/ SkipEmpty \/ StopAtLongLine \/ EndOfInput \/ NextLine
  \/ AnswerBroken \/ AnswerInvalid \/ Admit \/ Refuse \/ Serve
  \/ Authenticated \/ NotAuthenticated
  \/ \E reply \in SomeReplies : Called(reply)
  \/ NoDownload

Next == Work \/ Die \/ Tick \/ Close \/ \E kind \in Kinds : Write(kind)

\* The process is one thread; a call ends with the client's timeout.
Spec == Init /\ [][Next]_vars /\ WF_vars(Work)

-----------------------------------------------------------------------------
(* Properties.                                                               *)

Nonempty(n) == input[n] # "empty"

\* The place of line n's answer.
Place(n) == Cardinality({m \in 1..n : Nonempty(m)})

\* epack knows an answer by its place: whatever is wrong with a line, it gets
\* one answer, under its own id when it has one, and only the line being served
\* has none yet; status 0 means that all were served (run, main.go:65).
AnswersMatchLines ==
  /\ \A n \in 1..read : Nonempty(n) /\ Place(n) <= Len(out) =>
       out[Place(n)] = IF input[n] = "not_json" THEN 0 ELSE n
  /\ Place(read) - Len(out) \in IF pc \in {"reading", "answered"} THEN {0} ELSE {0, 1}
  /\ exit = 0 => read = Len(input) /\ Len(out) = Place(read)

\* Admissions of one operation are an interval apart, and a request is refused
\* only within an interval of the last admission: refusals and the other
\* operation do not postpone the next one (allowRateLimited, handler.go:269).
LimiterExact ==
  \A op \in Limited :
    LET times == admitted[op] IN
    /\ \A i \in 1..(Len(times) - 1) : times[i + 1] - times[i] >= Interval[op]
    /\ \A t \in refused[op] : times # <<>> /\ t - times[Len(times)] < Interval[op]

\* Of the requests whose errors toRemoteError maps (handler.go:1432): a 429 reaches
\* epack as rate_limited, whatever other codes' words its message holds; the status
\* supplies the code of a reply that has none, and of no other (client.go:599): what
\* the API said in a code of its own stays a server_error.
StatusReaches ==
  LET r == answer.reply IN
  r # NoReply /\ Line \in {"call", "pull.prepare"} =>
    /\ r.status = "limited" => answer.code = "rate_limited"
    /\ r.json /\ r.words = {} /\ r.code = "none" =>
         /\ r.status = "unauthorized" => answer.code = "auth_required"
         /\ r.status = "forbidden"    => answer.code = "forbidden"
         /\ r.status = "missing"      => answer.code = "not_found"
    /\ r.json /\ r.words = {} /\ r.code = "unknown" /\ r.status \notin {"ok", "limited"} =>
         answer.code = "server_error"

\* Every line epack writes is answered or passed, or the process has ended.
EveryLineServed ==
  \A n \in 1..MaxLines :
    Len(input) >= n ~> ((read >= n /\ pc \in {"reading", "answered"}) \/ pc = "gone")
=============================================================================
