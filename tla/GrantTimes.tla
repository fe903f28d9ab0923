----------------------------- MODULE GrantTimes -----------------------------
(***************************************************************************)
(* What the API gateway promises about the time a token is good for: the   *)
(* part of the state of VerifyCache the promise speaks of, and the promise *)
(* itself.                                                                 *)
(***************************************************************************)
EXTENDS Integers

CONSTANTS
    Exp,                   \* the time each token expires
    Requests,              \* goroutines serving API calls
    TTL, StaleTTL,         \* verifyCacheTTL, verifyStaleTTL
    Timeout                \* of the HTTP client that calls auth-service

VARIABLE request           \* local variables of the goroutines

At(r, pc) == request[r].pc = pc

\* How long past its expiry a token can still open the door.
Grace(via) ==
    CASE via = "auth"  -> 0
      [] via = "cache" -> Timeout + TTL
      [] via = "stale" -> Timeout + StaleTTL

\* Two layers of caching, two clocks and calls that overlap do not add up: a
\* request that is let through began before the token expired, or within one
\* call's timeout and one cache period (one stale period if auth-service did
\* not answer) of that, whatever other requests did to the entry meanwhile.
GrantsAreTimely ==
    \A r \in Requests :
        At(r, "granted") => request[r].began < Exp[request[r].tok] + Grace(request[r].via)

=============================================================================
