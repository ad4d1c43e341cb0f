------------------------------ MODULE Pipeline ------------------------------
(***************************************************************************)
(* What surrounds every handler (app/main.py, app/middleware.py), from the *)
(* outside in: the server's own error handler, the request context, the    *)
(* rate limiter, CORS, GZip, the exception handlers, the handler.  A       *)
(* layer awaits only the next one, so a request is one step here; what it  *)
(* leaves behind are the client's bucket, a response and a log line.       *)
(*                                                                         *)
(* A token of a header stands for all its spellings: _merge_vary compares  *)
(* them in lower case.                                                     *)
(***************************************************************************)
EXTENDS RateLimit

CONSTANTS ApiKeySet,    \* ADMIN_API_KEY is not blank
          Requests      \* the requests that clients make

(* A request, and what its handler would do with it, if it is asked.  Only *)
(* writes meet constraints, and /healthz cannot fail.                      *)
Request == [endpoint : {"read", "admin", "health"},
            key      : {"right", "wrong", "other"},  \* other: not ASCII
            result   : {"ok", "conflict", "violation", "raises"},
            gzip     : BOOLEAN,   \* GZip has a say in the encoding
            listed   : BOOLEAN,   \* its origin is one of CORS_ORIGINS
            id       : {"none", "ascii", "other"}]     \* likewise

ASSUME PipelineConstants ==
    /\ ApiKeySet \in BOOLEAN
    /\ Requests \subseteq {q \in Request :
            /\ q.result \in {"conflict", "violation"} => q.endpoint = "admin"
            /\ q.endpoint = "health" => q.result = "ok"}

VARIABLES request,   \* the last request
          response,  \* what its client got
          line       \* what the access log says of it

pipelineVars == <<vars, request, response, line>>

(* A health check before the first request. *)
NoRequest == [endpoint |-> "health", key |-> "wrong", result |-> "ok",
              gzip |-> FALSE, listed |-> FALSE, id |-> "none"]

(* headers: of each Vary header its tokens; id: x-request-id.              *)
Reply(status, headers) == [status |-> status, headers |-> headers, id |-> "none"]

Raised == Reply(0, <<>>)

PipelineTypeOK ==
    /\ TypeOK
    /\ request \in Requests \cup {NoRequest}
    /\ response.status \in {200, 403, 409, 422, 429, 500}
    /\ response.id \in {"none", "fresh", "ascii"}
    /\ line.status \in {200, 403, 409, 422, 429, 500}
    /\ line.id \in {"fresh", "ascii", "other"}

PipelineInit ==
    /\ Init
    /\ request = NoRequest
    /\ response = [Reply(200, <<>>) EXCEPT !.id = "fresh"]
    /\ line = [status |-> 200, id |-> "fresh"]

----------------------------------------------------------------------------
(* The layers. *)

Authorised(q) == q.endpoint = "admin" /\ ApiKeySet => q.key = "right"

(* require_admin, then the handler; its errors as main.py maps them.       *)
(* compare_digest raises on text that is not ASCII.                        *)
Handled(q) ==
    IF ~Authorised(q) THEN IF q.key = "other" THEN Raised ELSE Reply(403, <<>>)
    ELSE CASE q.result = "raises"    -> Raised
           [] q.result = "conflict"  -> Reply(409, <<>>)
           [] q.result = "violation" -> Reply(422, <<>>)
           [] q.result = "ok"        ->
                Reply(200, IF q.endpoint = "read" THEN <<<<"accept-encoding">>>> ELSE <<>>)

(* Starlette's add_vary_header: one value in the end, joined, not deduped. *)
AddVary(r, token) == [r EXCEPT !.headers = <<Append(FlattenSeq(@), token)>>]

Encoded(q, r) == IF q.gzip /\ r # Raised THEN AddVary(r, "accept-encoding") ELSE r

Shared(q, r) == IF q.listed /\ r # Raised THEN AddVary(r, "origin") ELSE r

(* Wrong on purpose: repeated headers are joined, repeated tokens stay.    *)
JoinedVary(headers) == IF headers = <<>> THEN <<>> ELSE <<FlattenSeq(headers)>>

(* _merge_vary: the first occurrence of each token. *)
Kept(seen, token) == IF Contains(seen, token) THEN seen ELSE Append(seen, token)

MergedVary(headers) ==
    LET tokens == FlattenSeq(headers)
        seen[n \in 0 .. Len(tokens)] == IF n = 0 THEN <<>> ELSE Kept(seen[n - 1], tokens[n])
    IN  IF headers = <<>> THEN <<>> ELSE <<seen[Len(tokens)]>>

(* x-request-id: the client's, cut, or a new one. *)
IdOf(q) == IF q.id = "none" THEN "fresh" ELSE q.id

(* An id that is not ASCII cannot be encoded: send_wrapper raises.         *)
WithContext(q, r) ==
    IF r = Raised \/ q.id = "other" THEN Raised
    ELSE [r EXCEPT !.headers = MergedVary(@), !.id = IdOf(q)]

(* Wrong on purpose: the default is what a handler that raised leaves.     *)
LoggedAsOk(q, r) == [status |-> IF r = Raised THEN 200 ELSE r.status, id |-> IdOf(q)]

(* The status is noted before the headers are written; 500 is the default. *)
Logged(q, r) == [status |-> IF r = Raised THEN 500 ELSE r.status, id |-> IdOf(q)]

(* The handler of Exception answers from outside of all middleware.        *)
Answered(r) == IF r = Raised THEN Reply(500, <<>>) ELSE r

Answer(q, r) ==
    /\ request' = q
    /\ response' = Answered(WithContext(q, r))
    /\ line' = Logged(q, r)

Admit(c, q) == Allow(c) /\ Answer(q, Shared(q, Encoded(q, Handled(q))))

TurnAway(c, q) == Refuse(c) /\ Answer(q, Reply(429, <<>>))

PipelineNext ==
    \/ \E c \in Clients, q \in Requests : Admit(c, q) \/ TurnAway(c, q)
    \/ Tick /\ UNCHANGED <<request, response, line>>

PipelineSpec == PipelineInit /\ [][PipelineNext]_pipelineVars

----------------------------------------------------------------------------
(* Properties. *)

(* Caches between worker and client may rely on Vary: it names, once each, *)
(* everything the layers that had a part in the response chose it by       *)
(* (middleware.py:73-79, test_vary_is_sent_once_even_when_gzip_engages).   *)
VaryIsExact ==
    LET used == (IF request.gzip \/ (request.endpoint = "read" /\ response.status = 200)
                 THEN {"accept-encoding"} ELSE {})
                \cup (IF request.listed THEN {"origin"} ELSE {})
    IN  response.status \notin {429, 500} =>
            /\ Len(response.headers) <= 1
            /\ ToSet(FlattenSeq(response.headers)) = used
            /\ IsInjective(FlattenSeq(response.headers))

(* A response and its log line can be matched by the id, which is the      *)
(* client's own if it sent one, and tell the same status.  Exceptions are  *)
(* internal errors, answered from outside the middleware without an id,    *)
(* and ids that cannot be encoded, for which the client gets a 500 after   *)
(* another status was noted (main.py:88-89 and :154-162, middleware.py     *)
(* :42-45).                                                                *)
LogMatchesResponse ==
    /\ line.id = IdOf(request)
    /\ IF response.status = 500 THEN response.id = "none" ELSE response.id = line.id
    /\ request.id # "other" => line.status = response.status
=============================================================================
