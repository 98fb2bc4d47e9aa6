--------------------------- MODULE RequestsProofs ---------------------------
(***************************************************************************)
(* What a client and a load balancer are told, proved along the path of a  *)
(* request: which calls a route makes (OnItsWay), that its own write is    *)
(* committed after "commit" and not before (WrittenAtCommit), and that it  *)
(* comes to a store only with its key (KeyShown).                          *)
(*                                                                         *)
(* A step either goes on to a call of the route or answers; Goes and       *)
(* Answers say once what each of them has to establish.                    *)
(***************************************************************************)
EXTENDS Requests, TLAPS

\* The calls of each route.
PhasesOf(route) ==
    CASE route = "submit" -> {"game", "write", "commit", "index", "settle", "ranks"}
      [] route = "create" -> {"write", "commit"}
      [] route = "rebuild" -> {"boards", "fill"}
      [] route \in BoardReads -> {"game", "size", "confirm", "page", "hydrate"}
      [] route = "games" -> {"list"}
      [] route = "game" -> {"game"}
      [] route = "health" -> {"probe", "ping", "lag"}
      [] OTHER -> {}

\* A request that is being handled makes the calls of its route; it has no response yet.
OnItsWay ==
    phase # "answered" =>
        /\ phase = "received" \/ phase \in PhasesOf(request.route)
        /\ response = NoResponse

AfterCommit == {"index", "settle", "ranks"}

\* A submission is committed before the index is told of it, and nothing is before.
WrittenAtCommit == phase # "answered" => (stored <=> phase \in AfterCommit)

\* Whoever calls a store has shown the key the route asks for.
KeyShown == Calling /\ request.route \in Guarded => request.key = "right"

IInv ==
    /\ TypeOK
    /\ OnItsWay
    /\ WrittenAtCommit
    /\ KeyShown
    /\ StatusTellsEffect
    /\ KeyBeforeStores
    /\ TracedUnlessUnhandled

AllCodes == Codes \cup Verdicts

ByLayers == {"server errors", "limit_body_size", "exceptions", "router"}

-----------------------------------------------------------------------------
(* The layers and the checks.                                              *)

LEMMA FiveLayers == DOMAIN Layers = 1..5 /\ Layers[2] = "request_context"
<1>1. DOMAIN Layers = 1..5
  BY DEF Layers
<1>2. Layers[2] = "request_context"
  BY DEF Layers
<1>. QED
  BY <1>1, <1>2

\* Only the outermost layer is outside request_context.
LEMMA TracedInside ==
  ASSUME NEW layer \in ByLayers \ {"server errors"}
  PROVE  Traced(layer)
<1>1. DOMAIN Layers = 1..5
  BY FiveLayers
<1>2. Layers[2] = "request_context"
  BY FiveLayers
<1>3. CASE layer = "limit_body_size"
  <2>1. Layers[3] = "limit_body_size"
    BY DEF Layers
  <2>. QED
    BY <1>1, <1>2, <1>3, <2>1 DEF Traced
<1>4. CASE layer = "exceptions"
  <2>1. Layers[4] = "exceptions"
    BY DEF Layers
  <2>. QED
    BY <1>1, <1>2, <1>4, <2>1 DEF Traced
<1>5. CASE layer = "router"
  <2>1. Layers[5] = "router"
    BY DEF Layers
  <2>. QED
    BY <1>1, <1>2, <1>5, <2>1 DEF Traced
<1>. QED
  BY <1>3, <1>4, <1>5 DEF ByLayers

LEMMA Responded ==
  ASSUME NEW layer \in ByLayers, NEW code \in AllCodes, Respond(layer, code)
  PROVE  /\ phase' = "answered"
         /\ response' \in [code : AllCodes, retryAfter : BOOLEAN, traced : BOOLEAN]
         /\ response'.code = code
         /\ layer # "server errors" => response'.traced
<1>1. phase' = "answered"
  BY DEF Respond
<1>2. response' = [code |-> code, retryAfter |-> Status(code) = 503, traced |-> Traced(layer)]
  BY DEF Respond
<1>3. (Status(code) = 503) \in BOOLEAN /\ Traced(layer) \in BOOLEAN
  BY DEF Traced
<1>4. response'.code = code /\ response'.traced = Traced(layer)
  BY <1>2
<1>5. response' \in [code : AllCodes, retryAfter : BOOLEAN, traced : BOOLEAN]
  BY <1>2, <1>3
<1>6. layer # "server errors" => response'.traced
  BY <1>4, TracedInside
<1>. QED
  BY <1>1, <1>4, <1>5, <1>6

\* The checks one by one.
LEMMA EightChecks ==
  ASSUME NEW r \in Request
  PROVE  /\ DOMAIN Checks(r) = 1..8
         /\ Checks(r)[1].by = "limit_body_size" /\ Checks(r)[1].code = "MALFORMED_JSON"
         /\ Checks(r)[2].by = "limit_body_size" /\ Checks(r)[2].code = "PAYLOAD_TOO_LARGE"
         /\ Checks(r)[3].by = "exceptions" /\ Checks(r)[3].code = "NOT_FOUND"
         /\ Checks(r)[3].when <=> r.route = "unrouted"
         /\ Checks(r)[4].by = "exceptions" /\ Checks(r)[4].code = "METHOD_NOT_ALLOWED"
         /\ Checks(r)[4].when <=> r.route = "method"
         /\ Checks(r)[5].by = "exceptions" /\ Checks(r)[5].code = "MALFORMED_JSON"
         /\ Checks(r)[6].by = "exceptions" /\ Checks(r)[6].code = "UNAUTHORIZED"
         /\ Checks(r)[6].when <=> KeyAsked(r) /\ r.key \in {"missing", "wrong"}
         /\ Checks(r)[7].by = "server errors" /\ Checks(r)[7].code = "INTERNAL_ERROR"
         /\ Checks(r)[7].when <=> KeyAsked(r) /\ r.key = "undecodable"
         /\ Checks(r)[8].by = "exceptions" /\ Checks(r)[8].code = "VALIDATION_ERROR"
<1>1. DOMAIN Checks(r) = 1..8
  BY DEF Checks
<1>2. Checks(r)[1].by = "limit_body_size" /\ Checks(r)[1].code = "MALFORMED_JSON"
  BY DEF Checks
<1>3. Checks(r)[2].by = "limit_body_size" /\ Checks(r)[2].code = "PAYLOAD_TOO_LARGE"
  BY DEF Checks
<1>4. Checks(r)[3].by = "exceptions" /\ Checks(r)[3].code = "NOT_FOUND"
  BY DEF Checks, StatusToCode
<1>5. Checks(r)[3].when <=> r.route = "unrouted"
  BY DEF Checks
<1>6. Checks(r)[4].by = "exceptions" /\ Checks(r)[4].code = "METHOD_NOT_ALLOWED"
  <2>1. StatusToCode(405) = "METHOD_NOT_ALLOWED"
    BY DEF StatusToCode
  <2>. QED
    BY <2>1 DEF Checks
<1>7. Checks(r)[4].when <=> r.route = "method"
  BY DEF Checks
<1>8. Checks(r)[5].by = "exceptions" /\ Checks(r)[5].code = "MALFORMED_JSON"
  BY DEF Checks
<1>9. Checks(r)[6].by = "exceptions" /\ Checks(r)[6].code = "UNAUTHORIZED"
  BY DEF Checks
<1>10. Checks(r)[6].when <=> KeyAsked(r) /\ r.key \in {"missing", "wrong"}
  BY DEF Checks
<1>11. Checks(r)[7].by = "server errors" /\ Checks(r)[7].code = "INTERNAL_ERROR"
  BY DEF Checks
<1>12. Checks(r)[7].when <=> KeyAsked(r) /\ r.key = "undecodable"
  BY DEF Checks
<1>13. Checks(r)[8].by = "exceptions" /\ Checks(r)[8].code = "VALIDATION_ERROR"
  BY DEF Checks
<1>. QED
  BY <1>1, <1>2, <1>3, <1>4, <1>5, <1>6, <1>7, <1>8, <1>9, <1>10, <1>11, <1>12, <1>13

\* What each check says when it refuses.
LEMMA RefusedWith ==
  ASSUME NEW r \in Request, NEW i \in Refusals(r)
  PROVE  /\ Checks(r)[i].by \in ByLayers
         /\ Checks(r)[i].code \in Codes \ {"OK"}
         /\ Checks(r)[i].by = "server errors" => Checks(r)[i].code = "INTERNAL_ERROR"
         /\ Checks(r)[i].code = "INTERNAL_ERROR" => r.key = "undecodable"
<1>1. i \in 1..8 /\ Checks(r)[i].when
  BY EightChecks DEF Refusals
<1>2. i = 1 \/ i = 2 \/ i = 3 \/ i = 4 \/ i = 5 \/ i = 6 \/ i = 7 \/ i = 8
  BY <1>1
<1>. DEFINE by == Checks(r)[i].by
            code == Checks(r)[i].code
            Ordinary == /\ by \in {"limit_body_size", "exceptions"}
                        /\ code \in {"MALFORMED_JSON", "PAYLOAD_TOO_LARGE", "NOT_FOUND",
                                     "METHOD_NOT_ALLOWED", "UNAUTHORIZED", "VALIDATION_ERROR"}
<1>3. CASE i = 7
  <2>1. /\ Checks(r)[7].code = "INTERNAL_ERROR"
        /\ Checks(r)[7].by = "server errors"
        /\ Checks(r)[7].when <=> KeyAsked(r) /\ r.key = "undecodable"
    BY EightChecks
  <2>. QED
    BY <1>1, <1>3, <2>1 DEF ByLayers, Codes
<1>4. ASSUME i # 7
      PROVE  Ordinary
  BY <1>2, <1>4, EightChecks
<1>. HIDE DEF by, code
<1>5. ASSUME i # 7
      PROVE  by \in ByLayers /\ code \in Codes \ {"OK", "INTERNAL_ERROR"} /\ by # "server errors"
  BY <1>4, <1>5 DEF ByLayers, Codes
<1>. QED
  BY <1>3, <1>5 DEF by, code

\* What a request that nothing refuses is.
LEMMA NotRefused ==
  ASSUME NEW r \in Request, Refusals(r) = {}
  PROVE  /\ r.route \in Routes \ {"unrouted", "method"}
         /\ r.route \in Guarded => r.key = "right"
<1>1. r.route \in Routes /\ r.key \in {"right", "wrong", "missing", "undecodable"}
  BY DEF Request
<1>2. \A i \in 1..8 : ~Checks(r)[i].when
  BY EightChecks DEF Refusals
<1>3. ~Checks(r)[3].when /\ ~Checks(r)[4].when /\ ~Checks(r)[6].when /\ ~Checks(r)[7].when
  BY <1>2
<1>4. /\ r.route # "unrouted" /\ r.route # "method"
      /\ ~(KeyAsked(r) /\ r.key \in {"missing", "wrong"})
      /\ ~(KeyAsked(r) /\ r.key = "undecodable")
  BY <1>3, EightChecks
<1>. QED
  BY <1>1, <1>4 DEF KeyAsked

-----------------------------------------------------------------------------
(* Going on, and answering.                                                *)

\* The stores after a step of a request that has them called.
StoresTyped ==
    /\ source' \in Stores
    /\ game' \in {"none", "active", "retired"}
    /\ stored' \in BOOLEAN
    /\ used' \subseteq Stores
    /\ failed' \subseteq used' \cap Fallible

LEMMA Goes ==
  ASSUME IInv, phase # "answered", NEW next \in PhasesOf(request.route), Proceed(next),
         UNCHANGED <<configured, request>>, StoresTyped,
         request.route \in Guarded => request.key = "right",
         stored' <=> next \in AfterCommit
  PROVE  IInv' /\ Blames
<1>1. phase' = next /\ response' = response
  BY DEF Proceed
<1>2. request \in Request /\ request.route \in Routes
  BY DEF IInv, TypeOK, Request
<1>3. next \in {"page"} \cup PostgresCalls \cup RedisCalls
  BY <1>2 DEF PhasesOf, PostgresCalls, RedisCalls, Routes, BoardReads
<1>4. phase' # "answered" /\ response' = NoResponse
  BY <1>1, <1>3 DEF PostgresCalls, RedisCalls, IInv, OnItsWay
<1>5. TypeOK'
  BY <1>1, <1>3 DEF IInv, TypeOK, StoresTyped
<1>6. OnItsWay' /\ WrittenAtCommit'
  BY <1>1, <1>4 DEF OnItsWay, WrittenAtCommit
<1>7. KeyShown' /\ KeyBeforeStores'
  BY DEF KeyShown, KeyBeforeStores
<1>8. StatusTellsEffect' /\ TracedUnlessUnhandled'
  BY <1>4 DEF StatusTellsEffect, TracedUnlessUnhandled, Answered
<1>9. Blames
  BY <1>4 DEF Blames, Answered
<1>. QED
  BY <1>5, <1>6, <1>7, <1>8, <1>9 DEF IInv

\* The statuses, as far as the properties tell them apart.
LEMMA Statuses ==
  ASSUME NEW code \in AllCodes
  PROVE  /\ Status(code) = 200 <=> code \in {"OK", "ok", "degraded"}
         /\ Status(code) = 500 <=> code = "INTERNAL_ERROR"
         /\ Status(code) \in 400..499 \cup {503} => code \notin {"OK", "INTERNAL_ERROR"}
<1>1. \A c \in {"OK", "ok", "degraded"} : Status(c) = 200
  BY DEF Status
<1>2. Status("INTERNAL_ERROR") = 500
  BY DEF Status
<1>3. \A c \in {"MALFORMED_JSON", "UNAUTHORIZED", "METHOD_NOT_ALLOWED", "GAME_INACTIVE",
               "PAYLOAD_TOO_LARGE", "VALIDATION_ERROR"} :
        Status(c) \in {400, 401, 405, 409, 413, 422}
  BY DEF Status
<1>4. \A c \in {"NOT_FOUND", "GAME_NOT_FOUND", "USER_NOT_RANKED"} : Status(c) = 404
  BY DEF Status
<1>5. \A c \in {"DEPENDENCY_UNAVAILABLE", "unhealthy"} : Status(c) = 503
  BY DEF Status
<1>6. \/ code \in {"OK", "ok", "degraded"}
      \/ code = "INTERNAL_ERROR"
      \/ code \in {"MALFORMED_JSON", "UNAUTHORIZED", "METHOD_NOT_ALLOWED", "GAME_INACTIVE",
                   "PAYLOAD_TOO_LARGE", "VALIDATION_ERROR"}
      \/ code \in {"NOT_FOUND", "GAME_NOT_FOUND", "USER_NOT_RANKED"}
      \/ code \in {"DEPENDENCY_UNAVAILABLE", "unhealthy"}
  BY DEF AllCodes, Codes, Verdicts
<1>7. CASE code \in {"OK", "ok", "degraded"}
  BY <1>1, <1>7
<1>8. CASE code = "INTERNAL_ERROR"
  BY <1>2, <1>8
<1>9. CASE code \in {"MALFORMED_JSON", "UNAUTHORIZED", "METHOD_NOT_ALLOWED", "GAME_INACTIVE",
                    "PAYLOAD_TOO_LARGE", "VALIDATION_ERROR"}
  BY <1>3, <1>9
<1>10. CASE code \in {"NOT_FOUND", "GAME_NOT_FOUND", "USER_NOT_RANKED"}
  BY <1>4, <1>10
<1>11. CASE code \in {"DEPENDENCY_UNAVAILABLE", "unhealthy"}
  BY <1>5, <1>11
<1>. QED
  BY <1>6, <1>7, <1>8, <1>9, <1>10, <1>11

\* What an answer has to be.
Justified(layer, code) ==
    /\ code = "OK" /\ request.route \in {"submit", "create"} => stored'
    /\ code \in Verdicts => request.route = "health"
    /\ code \notin {"OK", "INTERNAL_ERROR"} => ~stored'
    /\ code = "INTERNAL_ERROR" =>
          \/ "postgres" \in failed'
          \/ phase = "page" /\ source = "redis" /\ "redis" \in failed'
          \/ phase = "page" /\ request.route = "rank" /\ source = "postgres"
          \/ phase = "received" /\ request.key = "undecodable"
    /\ code = "unhealthy" => "postgres" \in failed'
    /\ code = "degraded" => "redis" \in failed' \/ ~configured
    /\ code = "ok" => "redis" \notin failed' /\ configured
    /\ layer = "server errors" => code = "INTERNAL_ERROR"

LEMMA Answers ==
  ASSUME IInv, NEW layer \in ByLayers, NEW code \in AllCodes, Respond(layer, code),
         UNCHANGED <<configured, request>>, StoresTyped,
         request.route \in Guarded /\ request.key # "right" => used' = {},
         Justified(layer, code)
  PROVE  IInv' /\ Blames
<1>1. /\ phase' = "answered"
      /\ response' \in [code : AllCodes, retryAfter : BOOLEAN, traced : BOOLEAN]
      /\ response'.code = code
      /\ layer # "server errors" => response'.traced
  BY Responded
<1>2. TypeOK'
  BY <1>1 DEF IInv, TypeOK, StoresTyped, AllCodes
<1>3. OnItsWay' /\ WrittenAtCommit' /\ KeyShown' /\ KeyBeforeStores'
  BY <1>1 DEF OnItsWay, WrittenAtCommit, KeyShown, KeyBeforeStores, Calling
<1>4. StatusTellsEffect'
  <2>1. Status(response'.code) = Status(code)
    BY <1>1
  <2>2. Status(code) = 200 /\ request.route \in {"submit", "create"} => stored'
    BY Statuses DEF Justified, Verdicts
  <2>3. Status(code) \in 400..499 \cup {503} => ~stored'
    BY Statuses DEF Justified
  <2>. QED
    BY <2>1, <2>2, <2>3 DEF StatusTellsEffect
<1>5. Blames
  BY <1>1, Statuses DEF Blames, Justified
<1>6. TracedUnlessUnhandled'
  BY <1>1 DEF TracedUnlessUnhandled, Justified
<1>. QED
  BY <1>2, <1>3, <1>4, <1>5, <1>6 DEF IInv

-----------------------------------------------------------------------------
(* Every step preserves the invariant and answers with a cause (Blames).   *)

LEMMA InitInvariant == Init => IInv
<1> SUFFICES ASSUME Init
             PROVE  IInv
  OBVIOUS
<1>1. TypeOK
  BY DEF Init, TypeOK, Stores, NoResponse, Codes
<1>2. /\ OnItsWay /\ WrittenAtCommit /\ KeyShown
      /\ StatusTellsEffect /\ KeyBeforeStores /\ TracedUnlessUnhandled
  BY DEF Init, OnItsWay, WrittenAtCommit, AfterCommit, KeyShown, Calling, StatusTellsEffect,
         KeyBeforeStores, TracedUnlessUnhandled, Answered
<1>. QED
  BY <1>1, <1>2 DEF IInv

LEMMA ReceivePreserves ==
  ASSUME IInv, Receive
  PROVE  IInv' /\ Blames
<1>1. TypeOK'
  BY DEF Receive, IInv, TypeOK, Stores, NoResponse, Codes
<1>2. /\ OnItsWay' /\ WrittenAtCommit' /\ KeyShown'
      /\ StatusTellsEffect' /\ KeyBeforeStores' /\ TracedUnlessUnhandled'
  BY DEF Receive, OnItsWay, WrittenAtCommit, AfterCommit, KeyShown, Calling, StatusTellsEffect,
         KeyBeforeStores, TracedUnlessUnhandled, Answered
<1>3. Blames
  BY DEF Receive, Blames, Answered
<1>. QED
  BY <1>1, <1>2, <1>3 DEF IInv

\* No handler has run: nothing is stored, and no store was called without the key.
LEMMA RefusePreserves ==
  ASSUME IInv, Refuse
  PROVE  IInv' /\ Blames
<1>1. PICK i \in Refusals(request) :
        Respond(Checks(request)[i].by, Checks(request)[i].code)
  BY DEF Refuse
<1>2. request \in Request /\ ~stored /\ phase = "received"
  BY DEF IInv, TypeOK, Refuse, WrittenAtCommit, AfterCommit
<1>. DEFINE layer == Checks(request)[i].by
            code == Checks(request)[i].code
<1>3. /\ layer \in ByLayers /\ code \in Codes \ {"OK"}
      /\ layer = "server errors" => code = "INTERNAL_ERROR"
      /\ code = "INTERNAL_ERROR" => request.key = "undecodable"
  BY <1>2, RefusedWith
<1>. HIDE DEF layer, code
<1>4. /\ UNCHANGED <<configured, request>> /\ UNCHANGED <<source, game, stored, used, failed>>
  BY DEF Refuse
<1>5. StoresTyped
  BY <1>4 DEF IInv, TypeOK, StoresTyped
<1>6. Justified(layer, code)
  BY <1>2, <1>3, <1>4 DEF Justified, Verdicts, Codes
<1>7. request.route \in Guarded /\ request.key # "right" => used' = {}
  BY <1>4 DEF IInv, KeyBeforeStores
<1>8. Respond(layer, code)
  BY <1>1 DEF layer, code
<1>. QED
  BY <1>3, <1>4, <1>5, <1>6, <1>7, <1>8, Answers DEF AllCodes

LEMMA EnterPreserves ==
  ASSUME IInv, Enter
  PROVE  IInv' /\ Blames
<1>1. /\ request \in Request /\ request.route \in Routes \ {"unrouted", "method"}
      /\ request.route \in Guarded => request.key = "right"
  BY NotRefused DEF IInv, TypeOK, Enter
<1>2. UNCHANGED <<configured, request>> /\ UNCHANGED <<source, game, stored, used, failed>>
  BY DEF Enter
<1>3. phase = "received" /\ ~stored
  BY DEF Enter, IInv, WrittenAtCommit, AfterCommit
<1>4. StoresTyped
  BY <1>2 DEF IInv, TypeOK, StoresTyped
<1>5. CASE request.route = "rebuild" /\ ~configured
  <2>1. Respond("exceptions", "DEPENDENCY_UNAVAILABLE")
    BY <1>5 DEF Enter, Raise
  <2>2. Justified("exceptions", "DEPENDENCY_UNAVAILABLE")
    BY <1>2, <1>3 DEF Justified, Verdicts
  <2>. QED
    BY <1>1, <1>2, <1>4, <2>1, <2>2, Answers DEF ByLayers, AllCodes, Codes
<1>6. CASE ~(request.route = "rebuild" /\ ~configured)
  <2>1. UNCHANGED response
    BY <1>6 DEF Enter
  <2>2. /\ phase' \in PhasesOf(request.route)
        /\ phase' \in {"game", "write", "boards", "list", "probe"}
    BY <1>1, <1>6 DEF Enter, PhasesOf, Routes, BoardReads
  <2>3. Proceed(phase')
    BY <2>1 DEF Proceed
  <2>4. stored' <=> phase' \in AfterCommit
    BY <1>2, <1>3, <2>2 DEF AfterCommit
  <2>. QED
    BY <1>1, <1>2, <1>3, <1>4, <2>2, <2>3, <2>4, Goes
<1>. QED
  BY <1>5, <1>6

-----------------------------------------------------------------------------
(* A call that succeeds.                                                   *)

LEMMA CallPreserves ==
  ASSUME IInv, Call
  PROVE  IInv' /\ Blames
<1>1. /\ phase \in PhasesOf(request.route) /\ phase # "answered"
      /\ request.route \in Guarded => request.key = "right"
      /\ stored <=> phase \in AfterCommit
  BY DEF Call, Calling, IInv, OnItsWay, KeyShown, WrittenAtCommit
<1>2. UNCHANGED <<configured, request>> /\ failed' = failed
  BY DEF Call
<1>3. request.route \in Routes
  BY DEF IInv, TypeOK, Request
<1>4. used' \subseteq Stores /\ failed' \subseteq used' \cap Fallible
  <2>1. Called \in Stores
    BY DEF Call, Calling, Called, IInv, TypeOK, Stores
  <2>. QED
    BY <2>1 DEF Call, IInv, TypeOK
\* What a step of the request has to show.
<1>. DEFINE Typed == source' \in Stores /\ game' \in {"none", "active", "retired"} /\ stored' \in BOOLEAN
<1>5. ASSUME Typed, NEW next \in PhasesOf(request.route), Proceed(next),
             stored' <=> next \in AfterCommit
      PROVE  IInv' /\ Blames
  <2>1. StoresTyped
    BY <1>4, <1>5 DEF StoresTyped
  <2>. QED
    BY <1>1, <1>2, <1>5, <2>1, Goes
<1>6. ASSUME Typed, NEW layer \in ByLayers, NEW code \in AllCodes, Respond(layer, code),
             Justified(layer, code)
      PROVE  IInv' /\ Blames
  <2>1. StoresTyped
    BY <1>4, <1>6 DEF StoresTyped
  <2>. QED
    BY <1>1, <1>2, <1>6, <2>1, Answers
<1>7. ASSUME Typed, Finish, request.route \in {"submit", "create"} => stored'
      PROVE  IInv' /\ Blames
  <2>1. Justified("router", "OK")
    BY <1>7 DEF Justified, Verdicts
  <2>. QED
    BY <1>6, <1>7, <2>1 DEF Finish, ByLayers, AllCodes, Codes
<1>8. ASSUME Typed, NEW code \in Codes \ {"OK", "INTERNAL_ERROR"}, Raise(code), ~stored'
      PROVE  IInv' /\ Blames
  <2>1. Justified("exceptions", code)
    BY <1>8 DEF Justified, Verdicts, Codes
  <2>. QED
    BY <1>6, <1>8, <2>1 DEF Raise, ByLayers, AllCodes
<1>9. UNCHANGED <<source, game, stored>> => Typed
  BY DEF IInv, TypeOK
<1>. HIDE DEF Typed
<1>10. CASE AskGame
  <2>1. phase = "game" /\ UNCHANGED <<source, game, stored>> /\ ~stored'
    BY <1>1, <1>10 DEF AskGame, AfterCommit
  <2>2. request.route \in {"submit", "game"} \cup BoardReads
    BY <1>1, <1>3, <2>1 DEF PhasesOf, Routes, BoardReads
  <2>3. \/ Raise("GAME_NOT_FOUND") \/ Raise("GAME_INACTIVE") \/ Raise("VALIDATION_ERROR")
        \/ request.route = "game" /\ Finish
        \/ request.route = "submit" /\ Proceed("write")
        \/ request.route \in BoardReads /\ (Proceed("size") \/ Proceed("page"))
    BY <1>10, <2>2 DEF AskGame, IInv, TypeOK, BoardReads
  <2>4. ASSUME NEW code \in {"GAME_NOT_FOUND", "GAME_INACTIVE", "VALIDATION_ERROR"}, Raise(code)
        PROVE  IInv' /\ Blames
    BY <1>8, <1>9, <2>1, <2>4 DEF Codes
  <2>5. CASE request.route = "game" /\ Finish
    BY <1>7, <1>9, <2>1, <2>5
  <2>6. CASE request.route = "submit" /\ Proceed("write")
    <3>1. "write" \in PhasesOf(request.route) /\ "write" \notin AfterCommit
      BY <2>6 DEF PhasesOf, BoardReads, AfterCommit
    <3>. QED
      BY <1>5, <1>9, <2>1, <2>6, <3>1
  <2>7. ASSUME request.route \in BoardReads, NEW next \in {"size", "page"}, Proceed(next)
        PROVE  IInv' /\ Blames
    <3>1. next \in PhasesOf(request.route) /\ next \notin AfterCommit
      BY <2>7 DEF PhasesOf, AfterCommit, BoardReads
    <3>. QED
      BY <1>5, <1>9, <2>1, <2>7, <3>1
  <2>. QED
    BY <2>3, <2>4, <2>5, <2>6, <2>7
<1>11. CASE Write
  <2>1. phase = "write" /\ UNCHANGED <<source, game, stored>> /\ ~stored' /\ Proceed("commit")
    BY <1>1, <1>11 DEF Write, AfterCommit
  <2>2. "commit" \in PhasesOf(request.route) /\ "commit" \notin AfterCommit
    BY <1>1, <1>3, <2>1 DEF PhasesOf, Routes, BoardReads, AfterCommit
  <2>. QED
    BY <1>5, <1>9, <2>1, <2>2
<1>12. CASE Commit
  <2>1. phase = "commit" /\ stored' = TRUE
    BY <1>12 DEF Commit
  <2>2. Typed
    BY <1>12 DEF Commit, Typed, IInv, TypeOK
  <2>3. CASE request.route = "submit" /\ configured
    <3>1. PICK next \in {"index", "ranks"} : Proceed(next)
      BY <1>12, <2>3 DEF Commit
    <3>2. next \in PhasesOf(request.route) /\ next \in AfterCommit
      BY <2>3 DEF PhasesOf, BoardReads, AfterCommit
    <3>. QED
      BY <1>5, <2>1, <2>2, <3>1, <3>2
  <2>4. CASE ~(request.route = "submit" /\ configured)
    BY <1>7, <1>12, <2>1, <2>2, <2>4 DEF Commit
  <2>. QED
    BY <2>3, <2>4
<1>13. CASE Index
  <2>1. phase = "index" /\ UNCHANGED <<source, game, stored>> /\ stored' /\ Proceed("settle")
    BY <1>1, <1>13 DEF Index, AfterCommit
  <2>2. "settle" \in PhasesOf(request.route) /\ "settle" \in AfterCommit
    BY <1>1, <1>3, <2>1 DEF PhasesOf, Routes, BoardReads, AfterCommit
  <2>. QED
    BY <1>5, <1>9, <2>1, <2>2
<1>14. CASE Settle
  <2>1. phase = "settle" /\ UNCHANGED <<source, game, stored>> /\ stored' /\ Proceed("ranks")
    BY <1>1, <1>14 DEF Settle, AfterCommit
  <2>2. "ranks" \in PhasesOf(request.route) /\ "ranks" \in AfterCommit
    BY <1>1, <1>3, <2>1 DEF PhasesOf, Routes, BoardReads, AfterCommit
  <2>. QED
    BY <1>5, <1>9, <2>1, <2>2
<1>15. CASE ReadRanks
  <2>1. phase = "ranks" /\ UNCHANGED <<source, game, stored>> /\ stored' /\ Finish
    BY <1>1, <1>15 DEF ReadRanks, AfterCommit
  <2>. QED
    BY <1>7, <1>9, <2>1
<1>16. CASE AskSize
  <2>1. phase = "size" /\ ~stored' /\ \E next \in {"page", "confirm"} : Proceed(next)
    BY <1>1, <1>16 DEF AskSize, AfterCommit
  <2>2. Typed
    BY <1>16 DEF AskSize, Typed, IInv, TypeOK, Stores
  <2>3. \A next \in {"page", "confirm"} : next \in PhasesOf(request.route) /\ next \notin AfterCommit
    BY <1>1, <1>3, <2>1 DEF PhasesOf, Routes, BoardReads, AfterCommit
  <2>. QED
    BY <1>5, <2>1, <2>2, <2>3
<1>17. CASE Confirm
  <2>1. phase = "confirm" /\ ~stored' /\ Proceed("page")
    BY <1>1, <1>17 DEF Confirm, AfterCommit
  <2>2. Typed
    BY <1>17 DEF Confirm, Typed, IInv, TypeOK, Stores
  <2>3. "page" \in PhasesOf(request.route) /\ "page" \notin AfterCommit
    BY <1>1, <1>3, <2>1 DEF PhasesOf, Routes, BoardReads, AfterCommit
  <2>. QED
    BY <1>5, <2>1, <2>2, <2>3
<1>18. CASE ReadPage
  <2>1. phase = "page" /\ UNCHANGED <<source, game, stored>> /\ ~stored'
    BY <1>1, <1>18 DEF ReadPage, AfterCommit
  <2>2. request.route \in BoardReads
    BY <1>1, <1>3, <2>1 DEF PhasesOf, Routes, BoardReads
  <2>3. CASE Proceed("hydrate")
    <3>1. "hydrate" \in PhasesOf(request.route) /\ "hydrate" \notin AfterCommit
      BY <2>2 DEF PhasesOf, BoardReads, AfterCommit
    <3>. QED
      BY <1>5, <1>9, <2>1, <2>3, <3>1
  <2>4. CASE Finish
    BY <1>7, <1>9, <2>1, <2>2, <2>4 DEF BoardReads
  <2>5. CASE Raise("USER_NOT_RANKED")
    BY <1>8, <1>9, <2>1, <2>5 DEF Codes
  <2>6. CASE request.route = "rank" /\ source = "postgres" /\ Escape
    <3>1. Justified("server errors", "INTERNAL_ERROR")
      BY <2>1, <2>6 DEF Justified, Verdicts
    <3>. QED
      BY <1>6, <1>9, <2>1, <2>6, <3>1 DEF Escape, ByLayers, AllCodes, Codes
  <2>. QED
    BY <1>18, <2>3, <2>4, <2>5, <2>6 DEF ReadPage
<1>19. CASE LastCall
  <2>1. phase \in {"list", "hydrate", "fill"} /\ UNCHANGED <<source, game, stored>> /\ Finish
    BY <1>19 DEF LastCall
  <2>2. request.route \notin {"submit", "create"}
    BY <1>1, <1>3, <2>1 DEF PhasesOf, Routes, BoardReads
  <2>. QED
    BY <1>7, <1>9, <2>1, <2>2
<1>20. CASE ListBoards
  <2>1. phase = "boards" /\ UNCHANGED <<source, game, stored>> /\ ~stored' /\ Proceed("fill")
    BY <1>1, <1>20 DEF ListBoards, AfterCommit
  <2>2. "fill" \in PhasesOf(request.route) /\ "fill" \notin AfterCommit
    BY <1>1, <1>3, <2>1 DEF PhasesOf, Routes, BoardReads, AfterCommit
  <2>. QED
    BY <1>5, <1>9, <2>1, <2>2
<1>21. CASE ProbePostgres
  <2>1. phase = "probe" /\ UNCHANGED <<source, game, stored>> /\ ~stored'
    BY <1>1, <1>21 DEF ProbePostgres, AfterCommit
  <2>2. Proceed("ping") \/ Proceed("lag")
    BY <1>21 DEF ProbePostgres, Judge, Verdict
  <2>3. \A next \in {"ping", "lag"} : next \in PhasesOf(request.route) /\ next \notin AfterCommit
    BY <1>1, <1>3, <2>1 DEF PhasesOf, Routes, BoardReads, AfterCommit
  <2>. QED
    BY <1>5, <1>9, <2>1, <2>2, <2>3
<1>22. CASE ProbeRedis
  <2>1. phase = "ping" /\ UNCHANGED <<source, game, stored>> /\ ~stored'
    BY <1>1, <1>22 DEF ProbeRedis, AfterCommit
  <2>2. request.route = "health"
    BY <1>1, <1>3, <2>1 DEF PhasesOf, Routes, BoardReads
  <2>3. \/ Proceed("lag")
        \/ "postgres" \in failed /\ Respond("router", "unhealthy")
    BY <1>22 DEF ProbeRedis, Judge, Verdict
  <2>4. CASE Proceed("lag")
    <3>1. "lag" \in PhasesOf(request.route) /\ "lag" \notin AfterCommit
      BY <2>2 DEF PhasesOf, BoardReads, AfterCommit
    <3>. QED
      BY <1>5, <1>9, <2>1, <2>4, <3>1
  <2>5. CASE "postgres" \in failed /\ Respond("router", "unhealthy")
    <3>1. Justified("router", "unhealthy")
      BY <1>2, <2>1, <2>2, <2>5 DEF Justified
    <3>. QED
      BY <1>6, <1>9, <2>1, <2>5, <3>1 DEF ByLayers, AllCodes, Verdicts
  <2>. QED
    BY <2>3, <2>4, <2>5
<1>23. CASE ProbeOutbox
  <2>1. phase = "lag" /\ UNCHANGED <<source, game, stored>> /\ ~stored'
    BY <1>1, <1>23 DEF ProbeOutbox, AfterCommit
  <2>2. request.route = "health"
    BY <1>1, <1>3, <2>1 DEF PhasesOf, Routes, BoardReads
  <2>3. PICK code \in {"ok", "degraded"} :
          Respond("router", code) /\ (code = "ok" <=> configured /\ "redis" \notin failed)
    BY <1>23 DEF ProbeOutbox, Lag, Verdict
  <2>4. Justified("router", code)
    BY <1>2, <2>1, <2>2, <2>3 DEF Justified
  <2>. QED
    BY <1>6, <1>9, <2>1, <2>3, <2>4 DEF ByLayers, AllCodes, Verdicts
<1>. QED
  BY <1>10, <1>11, <1>12, <1>13, <1>14, <1>15, <1>16, <1>17, <1>18, <1>19, <1>20, <1>21,
     <1>22, <1>23 DEF Call

-----------------------------------------------------------------------------
(* A call that fails.                                                      *)

LEMMA FailPreserves ==
  ASSUME IInv, Fail
  PROVE  IInv' /\ Blames
<1>1. /\ phase \in PhasesOf(request.route) /\ phase # "answered"
      /\ request.route \in Guarded => request.key = "right"
      /\ stored <=> phase \in AfterCommit
  BY DEF Fail, Calling, IInv, OnItsWay, KeyShown, WrittenAtCommit
<1>2. UNCHANGED <<configured, request, source>> /\ Survive
  BY DEF Fail
<1>3. request.route \in Routes /\ source \in Stores
  BY DEF IInv, TypeOK, Request
<1>4. PICK store \in Fallible :
        /\ store = Called \/ phase = "fill"
        /\ used' = used \cup {store}
        /\ failed' = failed \cup {store}
  BY DEF Fail
<1>5. StoresTyped
  <2>1. store \in Stores
    BY FallibleAssumption DEF Stores
  <2>2. used' \subseteq Stores /\ failed' \subseteq used' \cap Fallible
    BY <1>4, <2>1 DEF IInv, TypeOK
  <2>3. stored' \in BOOLEAN /\ game' \in {"none", "active", "retired"}
    BY DEF Fail, IInv, TypeOK
  <2>. QED
    BY <1>2, <1>3, <2>2, <2>3 DEF StoresTyped
<1>6. phase # "commit" => stored' = stored
  BY DEF Fail, IInv, TypeOK
\* What the answer to the failure has to show.
<1>7. ASSUME NEW next \in PhasesOf(request.route), Proceed(next), phase # "commit",
             phase \in AfterCommit <=> next \in AfterCommit
      PROVE  IInv' /\ Blames
  <2>1. stored' <=> next \in AfterCommit
    BY <1>1, <1>6, <1>7
  <2>. QED
    BY <1>1, <1>2, <1>5, <1>7, <2>1, Goes
<1>8. ASSUME NEW layer \in ByLayers, NEW code \in AllCodes, Respond(layer, code),
             Justified(layer, code)
      PROVE  IInv' /\ Blames
  BY <1>1, <1>2, <1>5, <1>8, Answers
<1>9. CASE phase \in {"index", "settle"}
  <2>1. Proceed("ranks")
    BY <1>2, <1>9 DEF Survive
  <2>2. "ranks" \in PhasesOf(request.route) /\ "ranks" \in AfterCommit /\ phase \in AfterCommit
    BY <1>1, <1>3, <1>9 DEF PhasesOf, Routes, BoardReads, AfterCommit
  <2>. QED
    BY <1>7, <1>9, <2>1, <2>2
<1>10. CASE phase \in {"ranks", "fill"}
  <2>1. Respond("router", "OK")
    BY <1>2, <1>10 DEF Survive, Finish
  <2>2. request.route \in {"submit", "create"} => stored'
    BY <1>1, <1>3, <1>6, <1>10 DEF PhasesOf, Routes, BoardReads, AfterCommit
  <2>3. Justified("router", "OK")
    BY <2>2 DEF Justified, Verdicts
  <2>. QED
    BY <1>8, <2>1, <2>3 DEF ByLayers, AllCodes, Codes
<1>11. CASE phase = "size"
  <2>1. Proceed("page")
    BY <1>2, <1>11 DEF Survive
  <2>2. "page" \in PhasesOf(request.route) /\ "page" \notin AfterCommit /\ phase \notin AfterCommit
    BY <1>1, <1>3, <1>11 DEF PhasesOf, Routes, BoardReads, AfterCommit
  <2>. QED
    BY <1>7, <1>11, <2>1, <2>2
<1>12. CASE phase \in {"probe", "ping", "lag"}
  <2>1. request.route = "health" /\ ~stored'
    BY <1>1, <1>3, <1>6, <1>12 DEF PhasesOf, Routes, BoardReads, AfterCommit
  <2>2. Called = IF phase = "ping" THEN "redis" ELSE "postgres"
    BY <1>12 DEF Called, PostgresCalls, RedisCalls
  <2>3. ASSUME NEW next \in {"ping", "lag"}, Proceed(next)
        PROVE  IInv' /\ Blames
    <3>1. next \in PhasesOf(request.route) /\ next \notin AfterCommit /\ phase \notin AfterCommit
      BY <1>12, <2>1, <2>3 DEF PhasesOf, BoardReads, AfterCommit
    <3>. QED
      BY <1>7, <1>12, <2>3, <3>1
  <2>4. ASSUME "postgres" \in failed', Respond("router", "unhealthy")
        PROVE  IInv' /\ Blames
    <3>1. Justified("router", "unhealthy")
      BY <2>1, <2>4 DEF Justified
    <3>. QED
      BY <1>8, <2>4, <3>1 DEF ByLayers, AllCodes, Verdicts
  <2>5. CASE phase = "probe"
    <3>1. "postgres" \in failed'
      BY <1>4, <2>2, <2>5
    <3>2. Proceed("ping") \/ Respond("router", "unhealthy")
      BY <1>2, <2>5 DEF Survive, Judge, Verdict
    <3>. QED
      BY <2>3, <2>4, <3>1, <3>2
  <2>6. CASE phase = "ping"
    <3>1. Proceed("lag") \/ ("postgres" \in failed /\ Respond("router", "unhealthy"))
      BY <1>2, <2>6 DEF Survive, Judge, Verdict
    <3>. QED
      BY <1>4, <2>3, <2>4, <3>1
  <2>7. CASE phase = "lag"
    <3>1. PICK code \in {"ok", "degraded"} :
            Respond("router", code) /\ (code = "ok" <=> configured /\ "redis" \notin failed)
      BY <1>2, <2>7 DEF Survive, Lag, Verdict
    <3>2. "redis" \in failed' <=> "redis" \in failed
      BY <1>4, <2>2, <2>7
    <3>3. Justified("router", code)
      BY <2>1, <3>1, <3>2 DEF Justified
    <3>. QED
      BY <1>8, <3>1, <3>3 DEF ByLayers, AllCodes, Verdicts
  <2>. QED
    BY <1>12, <2>5, <2>6, <2>7
<1>13. CASE phase \notin {"index", "settle", "ranks", "fill", "size", "probe", "ping", "lag"}
  <2>1. Respond("server errors", "INTERNAL_ERROR")
    BY <1>2, <1>13 DEF Survive, Escape
  <2>2. phase \in {"game", "write", "commit", "boards", "confirm", "page", "hydrate", "list"}
    BY <1>1, <1>3, <1>13 DEF PhasesOf, Routes, BoardReads
  <2>3. store = Called
    BY <1>4, <1>13
  <2>4. CASE phase = "page"
    <3>1. Called = source
      BY <2>4 DEF Called, PostgresCalls, RedisCalls
    <3>2. \/ "postgres" \in failed'
          \/ "redis" \in failed' /\ source = "redis"
      BY <1>2, <1>3, <1>4, <2>3, <3>1 DEF Stores
    <3>3. Justified("server errors", "INTERNAL_ERROR")
      BY <2>4, <3>2 DEF Justified, Verdicts
    <3>. QED
      BY <1>8, <2>1, <3>3 DEF ByLayers, AllCodes, Codes
  <2>5. CASE phase # "page"
    <3>1. Called = "postgres"
      BY <2>2, <2>5 DEF Called, PostgresCalls, RedisCalls
    <3>2. "postgres" \in failed'
      BY <1>4, <2>3, <3>1
    <3>3. Justified("server errors", "INTERNAL_ERROR")
      BY <3>2 DEF Justified, Verdicts
    <3>. QED
      BY <1>8, <2>1, <3>3 DEF ByLayers, AllCodes, Codes
  <2>. QED
    BY <2>4, <2>5
<1>. QED
  BY <1>9, <1>10, <1>11, <1>12, <1>13

\* Retiring the game is noticed by the next call that looks at it.
LEMMA RetirePreserves ==
  ASSUME IInv, Retire \/ UNCHANGED vars
  PROVE  IInv' /\ Blames
<1>1. UNCHANGED <<configured, request, phase, source, stored, used, failed, response>>
  BY DEF Retire, vars
<1>2. game' \in {"none", "active", "retired"}
  BY DEF Retire, vars, IInv, TypeOK
<1>3. IInv'
  BY <1>1, <1>2 DEF IInv, TypeOK, OnItsWay, WrittenAtCommit, KeyShown, Calling, StatusTellsEffect,
                    KeyBeforeStores, TracedUnlessUnhandled, Answered
<1>4. Blames
  BY <1>1 DEF Blames, Answered
<1>. QED
  BY <1>3, <1>4

LEMMA NextPreserves ==
  ASSUME IInv, [Next]_vars
  PROVE  IInv' /\ Blames
BY ReceivePreserves, RefusePreserves, EnterPreserves, CallPreserves, FailPreserves,
   RetirePreserves DEF Next

\* The path of a request, and what it may be told at its end, in every reachable state.
THEOREM Invariant == Spec => []IInv
<1>1. IInv /\ [Next]_vars => IInv'
  BY NextPreserves
<1>. QED
  BY InitInvariant, <1>1, PTL DEF Spec

-----------------------------------------------------------------------------
(* What follows from it.                                                   *)

\* Every variable has its type, always; in particular every response has a code of the
\* catalogue or a verdict of health.
THEOREM TypeCorrect == Spec => []TypeOK
<1>1. IInv => TypeOK
  BY DEF IInv
<1>. QED
  BY <1>1, Invariant, PTL

\* 200 to a write means that it is committed, a refusal that nothing was written.
THEOREM StatusIsTrue == Spec => []StatusTellsEffect
<1>1. IInv => StatusTellsEffect
  BY DEF IInv
<1>. QED
  BY <1>1, Invariant, PTL

\* No store is called for a guarded route without the right key.
THEOREM KeyComesFirst == Spec => []KeyBeforeStores
<1>1. IInv => KeyBeforeStores
  BY DEF IInv
<1>. QED
  BY <1>1, Invariant, PTL

\* A step that answers 500, or a verdict of health, has its cause.
THEOREM BlameIsJust == Spec => BlameFitsCause
<1>1. IInv /\ [Next]_vars => [Blames]_vars
  BY NextPreserves
<1>. QED
  BY <1>1, Invariant, PTL DEF Spec, BlameFitsCause

\* Only the response to an unhandled exception goes without X-Request-ID.
THEOREM ResponsesAreTraced == Spec => []TracedUnlessUnhandled
<1>1. IInv => TracedUnlessUnhandled
  BY DEF IInv
<1>. QED
  BY <1>1, Invariant, PTL
=============================================================================
