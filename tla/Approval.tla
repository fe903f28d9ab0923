------------------------------ MODULE Approval ------------------------------
(***************************************************************************)
(* The just-in-time access workflow of approval-service                    *)
(* (internal/approval/approval.go, cmd/approval-service/main.go).          *)
(*                                                                         *)
(* Every HTTP request is served by a goroutine of its own and nothing is   *)
(* transactional: an operation of several SQL statements is several steps  *)
(* here, and the statements of other requests, of auth-service and of the  *)
(* inventory fall in between.  A single-statement operation is one action. *)
(* A handler may be cut off between two statements: the request context is *)
(* cancelled when the client goes away, and a statement that fails returns *)
(* without undoing the earlier ones.                                       *)
(***************************************************************************)
EXTENDS ApprovalMatrix, FiniteSets

CONSTANTS
    Users, Admins,       \* user ids, and those whose role is "admin"
    Targets,             \* target ids
    KindOf, TierOf,      \* targets.kind and targets.tier
    Handlers,            \* goroutines serving multi-statement operations
    NoUser, NoTarget,    \* SQL NULL
    TTLs,                \* ttl_seconds values a client may send
    DefaultTTL,          \* Create's default (30 minutes)
    RenewTTL,            \* RenewApproval's default (8 hours)
    InitialMatrices,     \* approval matrices set up before the first request
    InitialMembers,      \* group memberships likewise
    MaxRequests, MaxTime, MaxEdits, MaxAborts, MaxRestarts, MaxBlind   \* bounds

Requests == 1..MaxRequests
NullTime == -1

ASSUME ApprovalAssumption ==
    /\ IsFiniteSet(Users)
    /\ Admins \subseteq Users
    /\ NoUser \notin Users /\ NoTarget \notin Targets
    /\ KindOf \in [Targets -> Kinds] /\ TierOf \in [Targets -> Int]
    /\ TTLs \subseteq Int
    /\ DefaultTTL \in Nat \ {0} /\ RenewTTL \in Nat \ {0}
    /\ InitialMatrices \subseteq SUBSET MatrixRule
    /\ InitialMembers \subseteq [Users -> SUBSET Groups]
    /\ MaxRequests \in Nat /\ MaxTime \in Nat
    /\ MaxEdits \in Nat /\ MaxAborts \in Nat
    /\ MaxRestarts \in Nat /\ MaxBlind \in Nat

VARIABLES
    request,     \* access_requests, by id
    nextId,      \* its AUTOINCREMENT
    votes,       \* approval_decisions
    handler,     \* local variables of the goroutines
    matrix,      \* approval_matrix
    memberOf,    \* user_groups, by user
    users,       \* users that have not been deleted
    targets,     \* targets that have not been deleted
    now,         \* the clock, db.Now()
    edits,       \* changes of the configuration so far
    aborts,      \* calls cut off so far
    restarts,    \* restarts of the service so far
    blind        \* Decide calls that could not read the requester's groups

config == <<matrix, memberOf, users, targets>>
counters == <<edits, aborts, restarts, blind>>
vars == <<request, nextId, votes, handler, config, now, counters>>

Status == {"absent", "pending", "approved", "denied"}

Row ==
    [status: Status, user: Users \cup {NoUser}, target: Targets \cup {NoTarget},
     approver: Users \cup {NoUser}, decided: {NullTime} \cup Nat, ttl: Nat,
     sudoRequested: BOOLEAN, sudoGranted: BOOLEAN]

\* A stored request has a user and a target (both NOT NULL).
Request ==
    {x \in Row : x.status # "absent" => x.user \in Users /\ x.target \in Targets}

NoRequest ==
    [status |-> "absent", user |-> NoUser, target |-> NoTarget,
     approver |-> NoUser, decided |-> NullTime, ttl |-> 0,
     sudoRequested |-> FALSE, sudoGranted |-> FALSE]

Vote == [request: Requests, approver: Users, approve: BOOLEAN]

Step == {"idle", "lookup", "rule", "authorize", "vote", "tally", "finalize",
         "grantsudo"}

Locals ==
    [pc: Step, req: Requests \cup {0}, caller: Users \cup {NoUser},
     approve: BOOLEAN, user: Users \cup {NoUser},
     target: Targets \cup {NoTarget}, groups: SUBSET Groups, rule: Quorum,
     verdict: {"none", "approved", "denied"}]

\* A call at work has a request; a Decide call knows who asks for what and
\* who decides, and reaches finalize with a verdict.
Handler ==
    {x \in Locals : /\ x.pc # "idle" => x.req \in Requests
                    /\ x.pc \notin {"idle", "grantsudo"} =>
                           /\ x.caller \in Users
                           /\ x.user \in Users /\ x.target \in Targets
                    /\ x.pc = "finalize" => x.verdict # "none"}

Idle ==
    [pc |-> "idle", req |-> 0, caller |-> NoUser, approve |-> FALSE,
     user |-> NoUser, target |-> NoTarget, groups |-> {},
     rule |-> DefaultQuorum, verdict |-> "none"]

Init ==
    /\ request = [r \in Requests |-> NoRequest]
    /\ nextId = 1
    /\ votes = {}
    /\ handler = [h \in Handlers |-> Idle]
    /\ matrix \in InitialMatrices
    /\ memberOf \in InitialMembers
    /\ users = Users
    /\ targets = Targets
    /\ now = 0
    /\ edits = 0 /\ aborts = 0 /\ restarts = 0 /\ blind = 0

-----------------------------------------------------------------------------
(* Filing a request: one INSERT. *)

OrDefault_ZeroOnly(ttl, default) == IF ttl = 0 THEN default ELSE ttl
OrDefault_NoDefault(ttl, default) == IF ttl < 0 THEN 0 ELSE ttl
OrDefault(ttl, default) == IF ttl <= 0 THEN default ELSE ttl

Create(u, t, ttl, sudo) ==
    /\ nextId \in Requests
    /\ u \in users /\ t \in targets          \* foreign keys
    /\ request' = [request EXCEPT ![nextId] =
           [status |-> "pending", user |-> u, target |-> t,
            approver |-> NoUser, decided |-> NullTime,
            ttl |-> OrDefault(ttl, DefaultTTL),
            sudoRequested |-> sudo, sudoGranted |-> FALSE]]
    /\ nextId' = nextId + 1
    /\ UNCHANGED <<votes, handler, config, now, counters>>

-----------------------------------------------------------------------------
(* Decide, statement by statement. *)

At(h, pc) == handler[h].pc = pc

\* The goroutine goes on with new local variables, or returns.
Continue(h, local) == handler' = [handler EXCEPT ![h] = local]
Return(h) == Continue(h, Idle)

\* The early returns ErrRequestClosed and ErrSelfApproval.
Decidable_ByRequester(r, caller) == request[r].status = "pending"
Decidable(r, caller) ==
    /\ request[r].status = "pending"
    /\ request[r].user # caller

\* Get and its checks.
DecideGet(h, r, caller, approve) ==
    /\ At(h, "idle")
    /\ Decidable(r, caller)
    /\ Continue(h, [Idle EXCEPT !.pc = "lookup", !.req = r,
                                !.caller = caller, !.approve = approve,
                                !.user = request[r].user,
                                !.target = request[r].target])
    /\ UNCHANGED <<request, nextId, votes, config, now, counters>>

\* targetMeta ("target not found" ends the call) and requesterGroups.
DecideLookup(h) ==
    /\ At(h, "lookup")
    /\ IF handler[h].target \in targets
       THEN Continue(h, [handler[h] EXCEPT
                !.pc = "rule", !.groups = memberOf[handler[h].user]])
       ELSE Return(h)
    /\ UNCHANGED <<request, nextId, votes, config, now, counters>>

\* requesterGroups fails: Decide drops the error and goes on as if the
\* requester belonged to no group.
DecideLookupBlind(h) ==
    /\ At(h, "lookup")
    /\ blind < MaxBlind
    /\ handler[h].target \in targets
    /\ Continue(h, [handler[h] EXCEPT !.pc = "rule", !.groups = {}])
    /\ blind' = blind + 1
    /\ UNCHANGED <<request, nextId, votes, config, now, edits, aborts, restarts>>

DecideRule(h) ==
    /\ At(h, "rule")
    /\ LET t == handler[h].target
       IN  Continue(h, [handler[h] EXCEPT
               !.pc = "authorize", !.groups = {},
               !.rule = FindRule(matrix, KindOf[t], TierOf[t],
                                 handler[h].groups)])
    /\ UNCHANGED <<request, nextId, votes, config, now, counters>>

\* Approver groups, when the rule names any; otherwise the admin role.
CanApprove(u, rule) ==
    IF rule.approvers # {}
    THEN rule.approvers \cap memberOf[u] # {}
    ELSE u \in Admins

DecideAuthorize(h) ==
    /\ At(h, "authorize")
    /\ IF CanApprove(handler[h].caller, handler[h].rule)
       THEN Continue(h, [handler[h] EXCEPT !.pc = "vote"])
       ELSE Return(h)
    /\ UNCHANGED <<request, nextId, votes, config, now, counters>>

\* The foreign keys and UNIQUE(request_id, approver_id) of approval_decisions.
VoteAccepted(r, u) ==
    /\ request[r].status # "absent"
    /\ u \in users
    /\ \A v \in votes : ~(v.request = r /\ v.approver = u)

DecideVote(h) ==
    /\ At(h, "vote")
    /\ LET r == handler[h].req
           u == handler[h].caller
       IN  IF VoteAccepted(r, u)
           THEN /\ votes' = votes \cup {[request |-> r, approver |-> u,
                                         approve |-> handler[h].approve]}
                /\ Continue(h, [handler[h] EXCEPT !.pc = "tally"])
           ELSE /\ Return(h)
                /\ UNCHANGED votes
    /\ UNCHANGED <<request, nextId, config, now, counters>>

Approvals(r) == {v \in votes : v.request = r /\ v.approve}
Denials(r) == {v \in votes : v.request = r /\ ~v.approve}

\* tally and the switch on its result; "none" leaves the request pending.
Verdict_OffByOne(r, required) ==
    IF Denials(r) # {} THEN "denied"
    ELSE IF Cardinality(Approvals(r)) > required THEN "approved" ELSE "none"
Verdict_OneShort(r, required) ==
    IF Denials(r) # {} THEN "denied"
    ELSE IF Cardinality(Approvals(r)) + 1 >= required THEN "approved" ELSE "none"
Verdict(r, required) ==
    IF Cardinality(Denials(r)) > 0 THEN "denied"
    ELSE IF Cardinality(Approvals(r)) >= required THEN "approved" ELSE "none"

DecideTally(h) ==
    /\ At(h, "tally")
    /\ LET verdict == Verdict(handler[h].req, handler[h].rule.required)
       IN  IF verdict = "none"
           THEN Return(h)
           ELSE Continue(h, [handler[h] EXCEPT !.pc = "finalize",
                                               !.verdict = verdict])
    /\ UNCHANGED <<request, nextId, votes, config, now, counters>>

\* finalize: UPDATE ... WHERE id = ? AND status = 'pending'.
Finalized(row, verdict, by) ==
    IF row.status # "pending" THEN row
    ELSE [row EXCEPT !.status = verdict, !.approver = by, !.decided = now,
                     !.sudoGranted = IF verdict = "approved"
                                     THEN row.sudoRequested ELSE @]

DecideFinalize(h) ==
    /\ At(h, "finalize")
    /\ request' = [request EXCEPT ![handler[h].req] =
           Finalized(@, handler[h].verdict, handler[h].caller)]
    /\ Return(h)
    /\ UNCHANGED <<nextId, votes, config, now, counters>>

-----------------------------------------------------------------------------
(* Administration of decided requests.  Only administrators get this far;  *)
(* a caller whose account is deleted meanwhile may still hold a token.     *)

Revoke(r, admin) ==
    /\ request[r].status = "approved"
    /\ request' = [request EXCEPT ![r].status = "denied",
                                  ![r].approver = admin,
                                  ![r].decided = now]
    /\ UNCHANGED <<nextId, votes, handler, config, now, counters>>

RenewApproval(r, ttl) ==
    /\ request[r].status = "approved"
    /\ request' = [request EXCEPT ![r].decided = now,
                                  ![r].ttl = OrDefault(ttl, RenewTTL)]
    /\ UNCHANGED <<nextId, votes, handler, config, now, counters>>

\* GrantSudo reads the status first and then updates by id alone.
GrantSudoGet(h, r, grant) ==
    /\ At(h, "idle")
    /\ request[r].status = "approved"
    /\ Continue(h, [Idle EXCEPT !.pc = "grantsudo", !.req = r,
                                !.approve = grant])
    /\ UNCHANGED <<request, nextId, votes, config, now, counters>>

GrantSudoSet(h) ==
    /\ At(h, "grantsudo")
    /\ request' = [request EXCEPT ![handler[h].req] =
           IF @.status = "absent" THEN @
           ELSE [@ EXCEPT !.sudoGranted = handler[h].approve]]
    /\ Return(h)
    /\ UNCHANGED <<nextId, votes, config, now, counters>>

-----------------------------------------------------------------------------
(* The process around the handlers. *)

\* A cancelled context or a failing statement: the call returns an error.
Abort(h) ==
    /\ ~At(h, "idle")
    /\ aborts < MaxAborts
    /\ Return(h)
    /\ aborts' = aborts + 1
    /\ UNCHANGED <<request, nextId, votes, config, now, edits, restarts, blind>>

\* Every start of the service sets sudo_granted on approved requests that
\* asked for sudo and do not have it.
Backfilled_AnyStatus(row) ==
    [row EXCEPT !.sudoGranted = @ \/ row.sudoRequested]
Backfilled(row) ==
    [row EXCEPT !.sudoGranted = @ \/ (row.status = "approved" /\ row.sudoRequested)]

Restart ==
    /\ restarts < MaxRestarts
    /\ handler' = [h \in Handlers |-> Idle]
    /\ request' = [r \in Requests |-> Backfilled(request[r])]
    /\ restarts' = restarts + 1
    /\ UNCHANGED <<nextId, votes, config, now, edits, aborts, blind>>

Tick ==
    /\ now < MaxTime
    /\ now' = now + 1
    /\ UNCHANGED <<request, nextId, votes, handler, config, counters>>

-----------------------------------------------------------------------------
(* What administrators change around the workflow: the matrix, and, in the *)
(* same database, group memberships, users and targets.                    *)

Edit ==
    /\ edits < MaxEdits
    /\ edits' = edits + 1
    /\ UNCHANGED <<nextId, handler, now, aborts, restarts, blind>>

MatrixCreate(id, form) ==
    /\ Edit
    /\ \A rule \in matrix : rule.id < id
    /\ matrix' = matrix \cup {NewRule(id, form)}
    /\ UNCHANGED <<request, votes, memberOf, users, targets>>

MatrixUpdate(rule, form) ==
    /\ Edit
    /\ matrix' = (matrix \ {rule}) \cup {Stored(rule.id, form, form.kind)}
    /\ UNCHANGED <<request, votes, memberOf, users, targets>>

MatrixDelete(rule) ==
    /\ Edit
    /\ matrix' = matrix \ {rule}
    /\ UNCHANGED <<request, votes, memberOf, users, targets>>

\* AddMember, RemoveMember and the directory sync's ReplaceMemberships.
SetMemberships(u, groups) ==
    /\ Edit
    /\ u \in users
    /\ memberOf' = [memberOf EXCEPT ![u] = groups]
    /\ UNCHANGED <<request, votes, matrix, users, targets>>

\* auth.DeleteUser, one transaction; the cascade empties user_groups.
DeleteUser(u) ==
    /\ Edit
    /\ u \in users
    /\ (Admins \cap users) \ {u} # {}    \* the last administrator stays
    /\ votes' = {v \in votes : v.approver # u /\ request[v.request].user # u}
    /\ request' = [r \in Requests |->
           IF request[r].user = u THEN NoRequest
           ELSE IF request[r].approver = u
                THEN [request[r] EXCEPT !.approver = NoUser]
                ELSE request[r]]
    /\ users' = users \ {u}
    /\ memberOf' = [memberOf EXCEPT ![u] = {}]
    /\ UNCHANGED <<matrix, targets>>

\* inventory.Delete, one transaction; approval_decisions cascade.
DeleteTarget(t) ==
    /\ Edit
    /\ t \in targets
    /\ votes' = {v \in votes : request[v.request].target # t}
    /\ request' = [r \in Requests |->
           IF request[r].target = t THEN NoRequest ELSE request[r]]
    /\ targets' = targets \ {t}
    /\ UNCHANGED <<matrix, memberOf, users>>

-----------------------------------------------------------------------------

\* The steps of a call in progress.
HandlerStep(h) ==
    \/ DecideLookup(h)
    \/ DecideRule(h)
    \/ DecideAuthorize(h)
    \/ DecideVote(h)
    \/ DecideTally(h)
    \/ DecideFinalize(h)
    \/ GrantSudoSet(h)

\* The calls clients may make.
Call ==
    \/ \E u \in Users, t \in Targets, ttl \in TTLs, sudo \in BOOLEAN :
           Create(u, t, ttl, sudo)
    \/ \E h \in Handlers, r \in Requests, caller \in Users, yes \in BOOLEAN :
           DecideGet(h, r, caller, yes)
    \/ \E h \in Handlers, r \in Requests, grant \in BOOLEAN :
           GrantSudoGet(h, r, grant)
    \/ \E r \in Requests, admin \in Admins : Revoke(r, admin)
    \/ \E r \in Requests, ttl \in TTLs : RenewApproval(r, ttl)

Administer ==
    \/ \E id \in RuleIds, form \in RuleForms : MatrixCreate(id, form)
    \/ \E rule \in matrix, form \in RuleForms : MatrixUpdate(rule, form)
    \/ \E rule \in matrix : MatrixDelete(rule)
    \/ \E u \in Users, groups \in SUBSET Groups : SetMemberships(u, groups)
    \/ \E u \in Users : DeleteUser(u)
    \/ \E t \in Targets : DeleteTarget(t)

Next ==
    \/ Call
    \/ \E h \in Handlers : HandlerStep(h) \/ DecideLookupBlind(h) \/ Abort(h)
    \/ Restart
    \/ Tick
    \/ Administer

Spec == Init /\ [][Next]_vars

\* A goroutine that has its next statement to run is eventually scheduled.
\* Nothing is assumed of clients, administrators or the clock.
FairSpec == Spec /\ \A h \in Handlers : WF_vars(HandlerStep(h))

-----------------------------------------------------------------------------
(* The access check used at every session launch.                          *)

\* requestGrantActive.
GrantActive(row) == row.decided = NullTime \/ now < row.decided + row.ttl

ApprovedRequests(u, t) ==
    {r \in Requests : /\ request[r].status = "approved"
                      /\ request[r].user = u /\ request[r].target = t}

\* ORDER BY decided_at DESC LIMIT 1: any of the newest, when they tie.
Newest(rows) ==
    {r \in rows : \A s \in rows : request[s].decided <= request[r].decided}

\* IsApproved may answer "yes".
IsApproved(u, t) ==
    \E r \in Newest(ApprovedRequests(u, t)) : GrantActive(request[r])

\* ActiveSudoGranted may answer "yes".
ActiveSudoGranted(u, t) ==
    \E r \in Newest({s \in ApprovedRequests(u, t) : request[s].sudoGranted}) :
        GrantActive(request[r])

-----------------------------------------------------------------------------
(* Properties.                                                             *)

TypeOK ==
    /\ request \in [Requests -> Request]
    /\ nextId \in 1..(MaxRequests + 1)
    /\ votes \subseteq Vote
    /\ handler \in [Handlers -> Handler]
    /\ matrix \subseteq MatrixRule
    /\ memberOf \in [Users -> SUBSET Groups]
    /\ users \subseteq Users
    /\ targets \subseteq Targets
    /\ now \in Nat
    /\ edits \in Nat /\ aborts \in Nat /\ restarts \in Nat /\ blind \in Nat

\* Nobody decides their own request (Decide's ErrSelfApproval): neither a
\* recorded vote nor the final decision of an approved request is the
\* requester's, whatever votes, edits and restarts interleave.
NoSelfApproval ==
    /\ \A v \in votes : v.approver # request[v.request].user
    /\ \A r \in Requests :
           request[r].status = "approved" => request[r].approver # request[r].user

\* No grant is immortal: requestGrantActive lets a NULL decided_at through
\* for ever, so finalize, RenewApproval and Revoke must leave every approved
\* request with a decision time in the past and a positive lifetime.  Whoever
\* passes the access check, or the check for sudo, then has a grant that ends.
GrantsExpire ==
    /\ \A r \in Requests :
           request[r].status = "approved" =>
               request[r].decided \in 0..now /\ request[r].ttl > 0
    /\ \A u \in Users, t \in Targets :
           IsApproved(u, t) \/ ActiveSudoGranted(u, t) =>
               \E r \in ApprovedRequests(u, t) :
                   now < request[r].decided + request[r].ttl

\* The rule that applies to a request as the database stands.
RuleOf(r) ==
    LET row == request[r]
    IN  FindRule(matrix, KindOf[row.target], TierOf[row.target],
                 memberOf[row.user])

\* Nobody has edited the configuration and every Decide call has seen it whole.
Undisturbed == edits = 0 /\ blind = 0

\* And no call has been cut off.
Uninterrupted == Undisturbed /\ aborts = 0 /\ restarts = 0

HasQuorum(r) == Cardinality(Approvals(r)) >= RuleOf(r).required

\* Four eyes: as long as nobody edits the matrix, the groups, the users or the
\* targets and no group lookup fails, an approved request has the votes its rule asks for, each from a
\* different user whom the rule lets approve and who did not file it, however
\* the statements of concurrent Decide calls, revocations, aborted calls and
\* restarts interleave.
QuorumOfApprovers ==
    Undisturbed =>
        \A r \in Requests : request[r].status = "approved" =>
            /\ HasQuorum(r)
            /\ \A v \in Approvals(r) :
                   /\ CanApprove(v.approver, RuleOf(r))
                   /\ v.approver # request[r].user
                   /\ \A w \in Approvals(r) : w.approver = v.approver => w = v

\* Calls that have voted on r and not yet finished.
Deciding(r) ==
    {h \in Handlers : handler[h].req = r
                      /\ handler[h].pc \in {"tally", "finalize"}}

\* No decision is lost: two calls that vote at the same time cannot both miss
\* the other's vote.  While no call was cut off and nothing was edited, a
\* pending request whose recorded votes decide it has a call at work that will.
NoLostDecision ==
    Uninterrupted =>
        \A r \in Requests :
            request[r].status = "pending" /\ (Denials(r) # {} \/ HasQuorum(r))
                => Deciding(r) # {}

\* The workflow is an access grant: one life per request, closed is final, the
\* deadline moves only while granted, sudo only after a grant.
Life(r) ==
    LET s == request[r].status
    IN  CASE s = "pending"  -> "open"
          [] s = "approved" -> "granted"
          [] s = "denied"   -> "closed"
          [] OTHER          -> IF r < nextId THEN "erased" ELSE "unused"

Ledger == INSTANCE AccessGrant WITH
    Holders <- Users \cup {NoUser},
    grant <- [r \in Requests |->
                 [state |-> Life(r), holder |-> request[r].user,
                  ends |-> IF request[r].status = "approved"
                           THEN request[r].decided + request[r].ttl ELSE 0,
                  sudo |-> request[r].sudoGranted]]

ImplementsAccessGrant == Ledger!Spec

\* "Approvals accumulate until required_approvals is met, at which point the
\* request flips to approved" (the comment on Decide): with nothing edited and
\* no call cut off, a request that reaches its quorum does not stay pending for
\* ever.  (A call cut off between its vote and its tally does leave it pending:
\* the voter may not vote again.)
QuorumDecides ==
    \A r \in Requests :
        (Uninterrupted /\ request[r].status = "pending" /\ HasQuorum(r))
            ~> (request[r].status # "pending" \/ ~Uninterrupted)

=============================================================================
