------------------------------ MODULE Requests ------------------------------
(***************************************************************************)
(* An HTTP request on its way through puls-server: the middleware chain    *)
(* that wrapMiddleware builds (internal/server/server.go), its layers      *)
(* (internal/server/middleware.go, internal/observability/metrics.go), the *)
(* mux, requireAuth, and in front of the public endpoints rateLimit        *)
(* (internal/server/ratelimit.go) with the limiter of RateLimiter, which   *)
(* all requests share.  A layer is an operator on what the layers inside   *)
(* it have left: the writers' fields, and whether a panic is on its way.   *)
(***************************************************************************)
EXTENDS RateLimiter

VARIABLE response   \* what became of the last request

CONSTANT NoResponse

requestVars == <<vars, response>>

Tokens == {"missing", "malformed", "invalid", "device", "admin"}

\* How a handler can end: it answers; it panics before its answer, or when it
\* has begun to answer.
Endings == {"answers", "panics", "panicsLate"}

RequestsInit == Init /\ response = NoResponse

----------------------------------------------------------------------------
(* The writers.  sent is net/http's: the first WriteHeader counts.  capture *)
(* is captureWriter.status, status is responseWriter.status: the last one. *)

NewWriter == [sent |-> 0, capture |-> 200, status |-> 200,
              counted |-> 0, logged |-> 0, panicking |-> FALSE]

WriteHeader(w, code) ==
    [w EXCEPT !.sent = IF @ = 0 THEN code ELSE @,
              !.capture = code, !.status = code]

----------------------------------------------------------------------------
(* The layers.                                                             *)

recoveryMiddleware(w) ==
    IF w.panicking THEN [WriteHeader(w, 500) EXCEPT !.panicking = FALSE] ELSE w

\* The count is in a deferred function.
metricsMiddleware(w) == [w EXCEPT !.counted = w.capture]

\* The log line is not: a panic would pass it by.
loggingMiddleware(w) == IF w.panicking THEN w ELSE [w EXCEPT !.logged = w.status]

\* A slip a change to the code could make, for wrapMiddleware: "as it
\* originally did", recovery wraps the other two.
RecoveryOutermost(w) ==
    recoveryMiddleware(loggingMiddleware(metricsMiddleware(w)))

wrapMiddleware(w) ==
    loggingMiddleware(metricsMiddleware(recoveryMiddleware(w)))

\* net/http sends 200 if the handler returned without a word, and closes the
\* connection on a panic.
NetHTTP(w) ==
    IF w.sent = 0 /\ ~w.panicking THEN [w EXCEPT !.sent = 200] ELSE w

HandlerEnds(code, ending) ==
    CASE ending = "answers"    -> WriteHeader(NewWriter, code)
      [] ending = "panics"     -> [NewWriter EXCEPT !.panicking = TRUE]
      [] ending = "panicsLate" -> [WriteHeader(NewWriter, code) EXCEPT !.panicking = TRUE]

----------------------------------------------------------------------------
(* Requests.                                                               *)

\* What requireAuth(admin) turns a request away with; 0 lets it pass.
requireAuth(token) ==
    CASE token \in {"missing", "malformed", "invalid"} -> 401
      [] token = "device"                              -> 403
      [] token = "admin"                               -> 0

Responds(code, ending) ==
    response' = [ending |-> ending,
                 w |-> NetHTTP(wrapMiddleware(HandlerEnds(code, ending)))]

\* The handler proper runs.  200 stands for every status it may answer with.
Handled == \E ending \in Endings : Responds(200, ending)

\* rateLimit: the limiter's answer decides which handler runs.
PublicRequest(k) ==
    /\ Allow(k)
    /\ \/ /\ admitted' # admitted
          /\ Handled
       \/ /\ rejected' # rejected
          /\ Responds(429, "answers")

AdminRequest ==
    /\ \E token \in Tokens :
          \/ /\ requireAuth(token) = 0
             /\ Handled
          \/ /\ requireAuth(token) # 0
             /\ Responds(requireAuth(token), "answers")
    /\ UNCHANGED vars

\* The mux knows no such path (or, with a 405, not this method for it).
UnmatchedRequest ==
    /\ Responds(404, "answers")
    /\ UNCHANGED vars

RequestsNext ==
    \/ \E k \in Keys : PublicRequest(k)
    \/ AdminRequest \/ UnmatchedRequest
    \/ (Tick \/ OpenWindow) /\ UNCHANGED response

RequestsSpec == RequestsInit /\ [][RequestsNext]_requestVars

----------------------------------------------------------------------------
(* Properties.                                                             *)

(***************************************************************************)
(* puls_http_requests_total and the log agree, and say what the client was *)
(* sent; only a handler that panics when it has begun to answer makes them *)
(* differ from it.  A request whose handler panicked is in every case      *)
(* counted and logged as a 500, never as a success.                        *)
(***************************************************************************)
CountedAsSent ==
    response # NoResponse =>
        LET w == response.w IN
        /\ w.counted = w.logged
        /\ response.ending # "panicsLate" => w.counted = w.sent
        /\ response.ending # "answers" => w.counted = 500
=============================================================================
