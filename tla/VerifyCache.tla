----------------------------- MODULE VerifyCache -----------------------------
(***************************************************************************)
(* The API gateway's cache of verified tokens                              *)
(* (cmd/api-gateway/verify_cache.go) and the auth-service behind it.       *)
(*                                                                         *)
(* Request goroutines look a token up, call POST /verify over the network  *)
(* when the entry is missing or expired, and store or fall back on an      *)
(* entry when the answer is there; several may do so for one token.  An    *)
(* entry is the time it was put: its deadlines are sums of that.           *)
(***************************************************************************)
EXTENDS GrantTimes, FiniteSets, FiniteSetsExt

CONSTANTS
    Tokens,
    MaxSize,               \* verifyCacheMaxSize
    MaxTime, MaxLost       \* bounds: the clock, calls that fail

ASSUME VerifyCacheAssumption ==
    /\ Tokens # {} /\ Exp \in [Tokens -> Nat]
    /\ TTL \in Nat /\ StaleTTL \in Nat /\ Timeout \in Nat
    /\ MaxSize \in Nat \ {0}
    /\ MaxTime \in Nat /\ MaxLost \in Nat

Null == -1                 \* no entry

VARIABLES
    cached,       \* the tokens verifyCache has an entry for
    putAt,        \* when each entry was put
    now, lost

vars == <<cached, putAt, request, now, lost>>

\* seen: the entry found by the lookup; via: where the claims come from.
Locals ==
    [pc: {"idle", "verify", "ok", "unauthorized", "unreachable", "granted"},
     tok: Tokens, began: Nat, seen: {Null} \cup Nat,
     via: {"auth", "cache", "stale"}]

AnyToken == CHOOSE t \in Tokens : TRUE

Idle == [pc |-> "idle", tok |-> AnyToken, began |-> 0, seen |-> Null,
         via |-> "auth"]

Init ==
    /\ cached = {}
    /\ putAt = [t \in Tokens |-> 0]
    /\ request = [r \in Requests |-> Idle]
    /\ now = 0
    /\ lost = 0

-----------------------------------------------------------------------------

Goto(r, pc) == request' = [request EXCEPT ![r].pc = pc]
Grant(r, via) == request' = [request EXCEPT ![r].pc = "granted", ![r].via = via]

Fresh(put, time) == time < put + TTL

\* Before the stale deadline: the entry may stand in for an answer.
Usable_Unbounded(put, time) == put # Null
Usable(put, time) == put # Null /\ time < put + StaleTTL

\* The entry a lookup finds.
Found(t) == IF t \in cached THEN putAt[t] ELSE Null

\* The start of verifyTokenCached: the clock is read, and the entry under the
\* read lock.
Lookup(r, t) ==
    /\ At(r, "idle")
    /\ LET seen == Found(t)
           hit == seen # Null /\ Fresh(seen, now)
       IN  request' = [request EXCEPT ![r] =
               [pc |-> IF hit THEN "granted" ELSE "verify", tok |-> t,
                began |-> now, seen |-> seen,
                via |-> IF hit THEN "cache" ELSE "auth"]]
    /\ UNCHANGED <<cached, putAt, now, lost>>

\* POST /verify: VerifyToken looks at the token alone, its signature and its
\* expiry, and never at the user it was issued to.
VerifyToken(t) == now < Exp[t]

Answer(r) ==
    /\ At(r, "verify")
    /\ LET t == request[r].tok
       IN  IF VerifyToken(t)
           THEN Goto(r, "ok")
           ELSE Goto(r, "unauthorized")
    /\ UNCHANGED <<cached, putAt, now, lost>>

\* The call times out, is refused, or its answer never arrives.
CallFails(r) ==
    /\ At(r, "verify")
    /\ lost < MaxLost
    /\ lost' = lost + 1
    /\ Goto(r, "unreachable")
    /\ UNCHANGED <<cached, putAt, now>>

-----------------------------------------------------------------------------
(* Storing an entry. *)

\* At the cap, entries past their expiry go, in the order the map yields them
\* and a quarter of the cap at most ...
Evictions ==
    LET expired == {t \in cached : putAt[t] + TTL < now}
        quota == Max({1, MaxSize \div 4})
    IN  {E \in SUBSET expired : Cardinality(E) = Min({quota, Cardinality(expired)})}

\* ... and if that made no room, everything goes.
Cleared(left) == IF Cardinality(left) >= MaxSize THEN {} ELSE left

Room ==
    IF Cardinality(cached) >= MaxSize THEN {Cleared(cached \ E) : E \in Evictions}
    ELSE {cached}

\* verifyCachePut: the entry's deadlines count from now, not from the answer.
PutClaims(r) ==
    /\ At(r, "ok")
    /\ \E room \in Room : cached' = room \cup {request[r].tok}
    /\ putAt' = [putAt EXCEPT ![request[r].tok] = now]
    /\ Grant(r, "auth")
    /\ UNCHANGED <<now, lost>>

\* A definite answer is passed on; the entry found earlier stays in the cache.
Refuse(r) ==
    /\ At(r, "unauthorized")
    /\ request' = [request EXCEPT ![r] = Idle]
    /\ UNCHANGED <<cached, putAt, now, lost>>

\* No answer: the entry the lookup found, measured at the time of the lookup.
FallBack(r) ==
    /\ At(r, "unreachable")
    /\ IF Usable(request[r].seen, request[r].began)
       THEN Grant(r, "stale")
       ELSE request' = [request EXCEPT ![r] = Idle]
    /\ UNCHANGED <<cached, putAt, now, lost>>

\* serveAuthed passes the call on to its backend.
Serve(r) ==
    /\ At(r, "granted")
    /\ request' = [request EXCEPT ![r] = Idle]
    /\ UNCHANGED <<cached, putAt, now, lost>>

-----------------------------------------------------------------------------

\* The collector goroutine.
CollectGarbage ==
    /\ cached' = {t \in cached : putAt[t] + StaleTTL >= now}
    /\ cached' # cached
    /\ UNCHANGED <<putAt, request, now, lost>>

\* The gateway restarts: the cache is a map in its memory.
Restart ==
    /\ cached' = {}
    /\ request' = [r \in Requests |-> Idle]
    /\ UNCHANGED <<putAt, now, lost>>

\* Nothing runs longer than the client's timeout.
Tick ==
    /\ now < MaxTime
    /\ \A r \in Requests : At(r, "idle") \/ now < request[r].began + Timeout
    /\ now' = now + 1
    /\ UNCHANGED <<cached, putAt, request, lost>>

Next ==
    \/ \E r \in Requests, t \in Tokens : Lookup(r, t)
    \/ \E r \in Requests :
          \/ Answer(r) \/ CallFails(r)
          \/ PutClaims(r) \/ Refuse(r) \/ FallBack(r)
          \/ Serve(r)
    \/ CollectGarbage
    \/ Restart
    \/ Tick

Spec == Init /\ [][Next]_vars

-----------------------------------------------------------------------------
(* Properties. *)

TypeOK ==
    /\ cached \subseteq Tokens
    /\ putAt \in [Tokens -> Nat]
    /\ request \in [Requests -> Locals]
    /\ now \in Nat /\ lost \in Nat

\* What the bound rests on.  An entry is put by a call that began before the
\* token expired and has lasted a timeout at most, so its time is less than a
\* timeout past the expiry; a lookup takes that time over.
EntriesAreTimely ==
    \A t \in cached : putAt[t] < Exp[t] + Timeout

RequestsAreTimely ==
    \A r \in Requests :
        ~At(r, "idle") =>
            /\ request[r].began <= now
            /\ now <= request[r].began + Timeout
            /\ request[r].seen # Null =>
                  request[r].seen < Exp[request[r].tok] + Timeout
            /\ At(r, "ok") => request[r].began < Exp[request[r].tok]

TimelyInv == EntriesAreTimely /\ RequestsAreTimely /\ GrantsAreTimely

==============================================================================
