------------------------------- MODULE Requests -------------------------------
(***************************************************************************)
(* One HTTP request from the outermost middleware to its response: what is *)
(* refused before any store is asked, the calls each handler makes to the  *)
(* stores, and what a client is told when one of them fails (Spec.md 7,    *)
(* docs/errors.md).                                                        *)
(*                                                                         *)
(* What a request says is reduced to the differences the code makes        *)
(* between requests; what the stores hold is reduced to the differences    *)
(* between answers, and chosen when it is asked for.  The commit of a      *)
(* write may succeed and its reply be lost.                                *)
(***************************************************************************)
EXTENDS Integers, Sequences

CONSTANTS
    Fallible    \* the stores whose calls may fail: any of them, at any time

ASSUME FallibleAssumption == Fallible \subseteq {"postgres", "redis"}

VARIABLES
    configured, \* REDIS_URL is set
    request,    \* what the client sent
    phase,      \* the call the handler makes next, or "received", or "answered"
    source,     \* the store a board is read from
    game,       \* Postgres: the row of the game the request names
    stored,     \* Postgres: the request's own write is committed
    used,       \* the stores the request has called
    failed,     \* the stores that failed it
    response

vars == <<configured, request, phase, source, game, stored, used, failed, response>>

Stores == {"postgres", "redis"}

\* The routes of app/api, a path that has none, and a method the path does not take.
Routes == {"submit", "create", "rebuild", "top", "rank", "games", "game", "health", "unrouted", "method"}
Guarded == {"submit", "create", "rebuild"}    \* they also are the ones with a body
BoardReads == {"top", "rank"}

\* "unreadable" is a Content-Length int() refuses; "undecodable" a key header that is not
\* ASCII, which compare_digest refuses; "absent" a board that is in the future, or a
\* bucket of another period.
Request == [route : Routes,
            length : {"fine", "over", "unreadable"},
            body : {"fine", "garbled", "invalid"},
            key : {"right", "wrong", "missing", "undecodable"},
            query : {"fine", "invalid", "absent"}]

\* errors.ERROR_STATUS.
Status(code) ==
    CASE code \in {"OK", "ok", "degraded"} -> 200
      [] code = "MALFORMED_JSON" -> 400
      [] code = "UNAUTHORIZED" -> 401
      [] code \in {"NOT_FOUND", "GAME_NOT_FOUND", "USER_NOT_RANKED"} -> 404
      [] code = "METHOD_NOT_ALLOWED" -> 405
      [] code = "GAME_INACTIVE" -> 409
      [] code = "PAYLOAD_TOO_LARGE" -> 413
      [] code = "VALIDATION_ERROR" -> 422
      [] code = "INTERNAL_ERROR" -> 500
      [] code \in {"DEPENDENCY_UNAVAILABLE", "unhealthy"} -> 503

\* _STATUS_TO_CODE, for the statuses the framework raises.
StatusToCode(status) == CASE status = 404 -> "NOT_FOUND" [] status = 405 -> "METHOD_NOT_ALLOWED"

Codes == {"OK", "MALFORMED_JSON", "UNAUTHORIZED", "NOT_FOUND", "GAME_NOT_FOUND", "USER_NOT_RANKED",
          "METHOD_NOT_ALLOWED", "GAME_INACTIVE", "PAYLOAD_TOO_LARGE", "VALIDATION_ERROR",
          "INTERNAL_ERROR", "DEPENDENCY_UNAVAILABLE"}

\* What GET /health answers instead of a code.
Verdicts == {"ok", "degraded", "unhealthy"}

NoResponse == [code |-> "OK", retryAfter |-> FALSE, traced |-> FALSE]

PostgresCalls == {"game", "write", "commit", "settle", "boards", "confirm", "hydrate", "list", "probe", "lag"}
RedisCalls == {"index", "ranks", "size", "fill", "ping"}

TypeOK ==
    /\ configured \in BOOLEAN
    /\ request \in Request
    /\ phase \in {"received", "page", "answered"} \cup PostgresCalls \cup RedisCalls
    /\ source \in Stores
    /\ game \in {"none", "active", "retired"}
    /\ stored \in BOOLEAN
    /\ used \subseteq Stores
    /\ failed \subseteq used \cap Fallible
    /\ response \in [code : Codes \cup Verdicts, retryAfter : BOOLEAN, traced : BOOLEAN]

Init ==
    /\ configured \in BOOLEAN
    /\ request \in Request
    /\ phase = "received"
    /\ source = "postgres"
    /\ game \in {"none", "active", "retired"}
    /\ stored = FALSE
    /\ used = {}
    /\ failed = {}
    /\ response = NoResponse

-----------------------------------------------------------------------------
(* The layers of the application.                                          *)

\* Mutant of Layers: the middleware is registered the other way round.
LayersSwapped == <<"server errors", "limit_body_size", "request_context", "exceptions", "router">>

\* From the outside in: install_middleware registers request_context last.  The handler for
\* Exception runs in the framework's outermost layer, those for the other exceptions
\* in its innermost one.
Layers == <<"server errors", "request_context", "limit_body_size", "exceptions", "router">>

\* request_context adds X-Request-ID to the responses that come to it from inside.
Traced(layer) == \E i, j \in DOMAIN Layers : i < j /\ Layers[i] = "request_context" /\ Layers[j] = layer

\* A layer makes the response.  DependencyUnavailableError carries Retry-After, and so does
\* an unhealthy verdict.
Respond(layer, code) ==
    /\ phase' = "answered"
    /\ response' = [code |-> code, retryAfter |-> Status(code) = 503,
                    traced |-> Traced(layer)]

\* A ServiceError or a RequestValidationError; and an exception nobody handles.
Raise(code) == Respond("exceptions", code)
Escape == Respond("server errors", "INTERNAL_ERROR")

\* Mutant of KeyAsked: the rebuild route, whose parameter for the key has a default, does
\* not ask for it.
KeyAskedButAdmin(r) == r.route \in Guarded \ {"rebuild"}

\* The routes that depend on require_api_key or require_admin_key.
KeyAsked(r) == r.route \in Guarded

\* What can refuse a request before its handler runs, in the order it is looked at: the
\* middleware, the router, the parser of the body (_translate_validation_errors makes
\* its error a 400), the dependency that checks the key, and the schemas.
Checks(r) ==
    << [when |-> r.length = "unreadable", code |-> "MALFORMED_JSON", by |-> "limit_body_size"],
       [when |-> r.length = "over", code |-> "PAYLOAD_TOO_LARGE", by |-> "limit_body_size"],
       [when |-> r.route = "unrouted", code |-> StatusToCode(404), by |-> "exceptions"],
       [when |-> r.route = "method", code |-> StatusToCode(405), by |-> "exceptions"],
       [when |-> r.route \in Guarded /\ r.body = "garbled",
                 code |-> "MALFORMED_JSON", by |-> "exceptions"],
       [when |-> KeyAsked(r) /\ r.key \in {"missing", "wrong"},
                 code |-> "UNAUTHORIZED", by |-> "exceptions"],
       [when |-> KeyAsked(r) /\ r.key = "undecodable",
                 code |-> "INTERNAL_ERROR", by |-> "server errors"],
       [when |-> \/ r.route \in Guarded /\ r.body = "invalid"
                 \/ r.route \in BoardReads /\ r.query = "invalid",
                 code |-> "VALIDATION_ERROR", by |-> "exceptions"] >>

Refusals(r) == {i \in DOMAIN Checks(r) : Checks(r)[i].when}

Receive ==
    /\ phase = "answered"
    /\ request' \in Request
    /\ phase' = "received"
    /\ source' = "postgres"
    /\ stored' = FALSE
    /\ used' = {}
    /\ failed' = {}
    /\ response' = NoResponse
    /\ UNCHANGED <<configured, game>>

Refuse ==
    /\ phase = "received"
    /\ \E i \in Refusals(request) :
        /\ \A j \in Refusals(request) : i <= j
        /\ Respond(Checks(request)[i].by, Checks(request)[i].code)
    /\ UNCHANGED <<configured, request, source, game, stored, used, failed>>

\* The handler runs: its first call to a store, or the refusal of
\* rebuild_leaderboards without a rank index.
Enter ==
    /\ phase = "received"
    /\ Refusals(request) = {}
    /\ IF request.route = "rebuild" /\ ~configured
         THEN Raise("DEPENDENCY_UNAVAILABLE")
         ELSE /\ phase' = CASE request.route \in {"submit", "game"} \cup BoardReads -> "game"
                            [] request.route = "create" -> "write"
                            [] request.route = "rebuild" -> "boards"
                            [] request.route = "games" -> "list"
                            [] request.route = "health" -> "probe"
              /\ UNCHANGED response
    /\ UNCHANGED <<configured, request, source, game, stored, used, failed>>

-----------------------------------------------------------------------------
(* Calls to the stores.                                                    *)

\* The store the next call goes to.
Called ==
    CASE phase \in PostgresCalls -> "postgres"
      [] phase \in RedisCalls -> "redis"
      [] phase = "page" -> source

Calling == phase \notin {"received", "answered"}

Proceed(next) == phase' = next /\ UNCHANGED response
Finish == Respond("router", "OK")

\* get_game or require_writable_game; _resolve_board goes on to check the bucket.
AskGame ==
    /\ phase = "game"
    /\ CASE game = "none" -> Raise("GAME_NOT_FOUND")
         [] game = "retired" /\ request.route = "submit" -> Raise("GAME_INACTIVE")
         [] game # "none" /\ request.route = "game" -> Finish
         [] game = "active" /\ request.route = "submit" -> Proceed("write")
         [] game # "none" /\ request.route \in BoardReads ->
                IF request.query = "absent" THEN Raise("VALIDATION_ERROR")
                ELSE IF configured THEN Proceed("size") ELSE Proceed("page")
    /\ UNCHANGED <<source, game, stored>>

\* entries.submit_score, games.create_game.
Write ==
    /\ phase = "write"
    /\ Proceed("commit")
    /\ UNCHANGED <<source, game, stored>>

\* Mutant of Commit: engine.connect in the place of engine.begin.
CommitForgotten ==
    /\ phase = "commit"
    /\ IF request.route = "submit" /\ configured THEN Proceed("index") ELSE Finish
    /\ UNCHANGED <<source, game, stored>>

\* The end of the engine.begin block.  A new game is active; a registered one stays as it is.
\* _sync_index has something to do when the submission improved a board.
Commit ==
    /\ phase = "commit"
    /\ stored' = TRUE
    /\ game' = IF request.route = "create" /\ game = "none" THEN "active" ELSE game
    /\ IF request.route = "submit" /\ configured
         THEN Proceed("index") \/ Proceed("ranks")
         ELSE Finish
    /\ UNCHANGED source

\* The fast path of _sync_index, its settling transaction, and _read_rank for each board.
Index ==
    /\ phase = "index"
    /\ Proceed("settle")
    /\ UNCHANGED <<source, game, stored>>

Settle ==
    /\ phase = "settle"
    /\ Proceed("ranks")
    /\ UNCHANGED <<source, game, stored>>

ReadRanks ==
    /\ phase = "ranks"
    /\ Finish
    /\ UNCHANGED <<source, game, stored>>

\* _resolve_repository: the index knows the board, or its zero is confirmed.
AskSize ==
    /\ phase = "size"
    /\ \/ source' = "redis" /\ Proceed("page")
       \/ source' = source /\ Proceed("confirm")
    /\ UNCHANGED <<game, stored>>

\* The zero is confirmed by Postgres, or contradicted.
Confirm ==
    /\ phase = "confirm"
    /\ source' \in {"redis", "postgres"}
    /\ Proceed("page")
    /\ UNCHANGED <<game, stored>>

\* top or around; an empty page needs no hydration, an unranked user is a 404.  The rank
\* that PostgresRanking.around counts may have no row ("broken" in Ranking).
ReadPage ==
    /\ phase = "page"
    /\ \/ Proceed("hydrate")
       \/ request.route = "top" /\ Finish
       \/ request.route = "rank" /\ Raise("USER_NOT_RANKED")
       \/ request.route = "rank" /\ source = "postgres" /\ Escape
    /\ UNCHANGED <<source, game, stored>>

\* The last call of list_games, of a read that has rows to hydrate, and of a rebuild.
LastCall ==
    /\ phase \in {"list", "hydrate", "fill"}
    /\ Finish
    /\ UNCHANGED <<source, game, stored>>

\* rebuild_index begins with the boards there are.
ListBoards ==
    /\ phase = "boards"
    /\ Proceed("fill")
    /\ UNCHANGED <<source, game, stored>>

\* Mutant of Verdict: Redis is a dependency like any other.
VerdictStrict(postgres, redis) == IF postgres /\ redis THEN "ok" ELSE "unhealthy"

\* health.resolve_status.
Verdict(postgres, redis) ==
    IF ~postgres THEN "unhealthy" ELSE IF redis THEN "ok" ELSE "degraded"

\* health.health asks both stores at once; which answers first makes no difference.
Judge(postgres, redis) ==
    LET verdict == Verdict(postgres, redis) IN
    IF postgres /\ verdict # "unhealthy" THEN Proceed("lag") ELSE Respond("router", verdict)

ProbePostgres ==
    /\ phase = "probe"
    /\ IF configured THEN Proceed("ping") ELSE Judge(TRUE, FALSE)
    /\ UNCHANGED <<source, game, stored>>

ProbeRedis ==
    /\ phase = "ping"
    /\ Judge("postgres" \notin failed, TRUE)
    /\ UNCHANGED <<source, game, stored>>

\* _probe_outbox: the backlog goes into the answer, or is left out of it.
Lag == Respond("router", Verdict(TRUE, configured /\ "redis" \notin failed))

ProbeOutbox ==
    /\ phase = "lag"
    /\ Lag
    /\ UNCHANGED <<source, game, stored>>

Call ==
    /\ Calling
    /\ \/ AskGame \/ Write \/ Commit \/ Index \/ Settle \/ ReadRanks
       \/ AskSize \/ Confirm \/ ReadPage \/ LastCall \/ ListBoards
       \/ ProbePostgres \/ ProbeRedis \/ ProbeOutbox
    /\ used' = used \cup {Called}
    /\ UNCHANGED <<configured, request, failed>>

\* Mutant of Survive: a failure of the fast path is raised.
SurviveButIndex ==
    CASE phase = "settle" -> Proceed("ranks")
      [] phase \in {"ranks", "fill"} -> Finish
      [] phase = "size" -> Proceed("page")
      [] phase = "probe" -> IF configured THEN Proceed("ping") ELSE Judge(FALSE, FALSE)
      [] phase = "ping" -> Judge("postgres" \notin failed, FALSE)
      [] phase = "lag" -> Lag
      [] OTHER -> Escape

\* What becomes of a failed call: the fast path, its settling, the ranks of the response,
\* a board of a rebuild, the choice of a store and the health endpoint all have an answer
\* to it; no other handler does.
Survive ==
    CASE phase \in {"index", "settle"} -> Proceed("ranks")
      [] phase \in {"ranks", "fill"} -> Finish
      [] phase = "size" -> Proceed("page")
      [] phase = "probe" -> IF configured THEN Proceed("ping") ELSE Judge(FALSE, FALSE)
      [] phase = "ping" -> Judge("postgres" \notin failed, FALSE)
      [] phase = "lag" -> Lag
      [] OTHER -> Escape

\* A call fails; a commit may have been made all the same.  A rebuild's "fill" stands for
\* the cursor in Postgres too.
Fail ==
    /\ Calling
    /\ \E store \in Fallible :
        /\ store = Called \/ phase = "fill"
        /\ used' = used \cup {store}
        /\ failed' = failed \cup {store}
    /\ Survive
    /\ stored' \in {stored, stored \/ phase = "commit"}
    /\ game' = IF request.route = "create" /\ stored' /\ game = "none" THEN "active" ELSE game
    /\ UNCHANGED <<configured, request, source>>

\* External: an operator retires the game, at any moment of a request.
Retire ==
    /\ game = "active"
    /\ game' = "retired"
    /\ UNCHANGED <<configured, request, phase, source, stored, used, failed, response>>

Next == Receive \/ Refuse \/ Enter \/ Call \/ Fail \/ Retire

Spec == Init /\ [][Next]_vars

-----------------------------------------------------------------------------
(* Properties.                                                             *)

Answered == phase = "answered"

\* A client can act on the status: 200 to a write means that it is committed, a refusal
\* that nothing was written, whatever failed on the way and however late; only a 500
\* leaves it open, and the write may then simply be sent again (Spec.md D1).
StatusTellsEffect ==
    Answered =>
        /\ Status(response.code) = 200 /\ request.route \in {"submit", "create"} => stored
        /\ Status(response.code) \in 400..499 \cup {503} => ~stored

\* A guarded route calls no store for a request without the right key, whatever else is
\* wrong with it (deps.require_api_key and require_admin_key).
KeyBeforeStores == request.route \in Guarded /\ request.key # "right" => used = {}

\* The service blames itself only when it must: a step that answers 500 has a failed call
\* to Postgres behind it, or the page of a read that has chosen Redis, the one call at
\* which Redis may fail a request, or a key that cannot be compared; or it is the page of
\* a rank read from Postgres, where a submission among around's statements leaves the rank
\* without a row ("broken" in Ranking).
\* In particular Redis alone never fails a submission ("Succeeds even if the rank
\* index is down", the description of POST /v1/scores), nor takes an instance out of
\* service: an unhealthy verdict has a failed probe of Postgres behind it, and a
\* degraded one a Redis that is down or not there (health's module comment).
Blames ==
    ~Answered /\ Answered' =>
        /\ Status(response'.code) = 500 =>
              \/ "postgres" \in failed'
              \/ phase = "page" /\ source = "redis" /\ "redis" \in failed'
              \/ phase = "page" /\ request.route = "rank" /\ source = "postgres"
              \/ phase = "received" /\ request.key = "undecodable"
        /\ response'.code = "unhealthy" => "postgres" \in failed'
        /\ response'.code = "degraded" => "redis" \in failed' \/ ~configured
        /\ response'.code = "ok" => "redis" \notin failed' /\ configured

BlameFitsCause == [][Blames]_vars

\* Every response but that to an unhandled exception carries X-Request-ID, also the one
\* "short-circuited by the body-size guard" (middleware.install_middleware).
TracedUnlessUnhandled == Answered => response.traced \/ response.code = "INTERNAL_ERROR"

\* "Postgres unavailable" is a 503 with Retry-After (docs/errors.md, DEPENDENCY_UNAVAILABLE;
\* Spec.md 4 and 7).
PostgresDownIs503 ==
    Answered /\ Status(response.code) # 200 /\ "postgres" \in failed =>
        Status(response.code) = 503 /\ response.retryAfter
=============================================================================
