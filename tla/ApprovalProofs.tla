--------------------------- MODULE ApprovalProofs ---------------------------
(* Proofs about Approval, for every value of its constants. *)
EXTENDS Approval, FiniteSetTheorems, TLAPS

\* FindRule always yields a threshold of at least one approval, whether a row
\* of the matrix matches or not.
LEMMA FindRuleType ==
    ASSUME NEW m \in SUBSET MatrixRule, NEW kind, NEW tier, NEW groups
    PROVE  FindRule(m, kind, tier, groups) \in Quorum
<1> DEFINE candidates == {r \in m : Matches(r, kind, tier, groups)}
           first(r) == \A s \in candidates : Precedes(r, s, kind)
<1>1. CASE \E r \in candidates : first(r)
  <2> DEFINE best == CHOOSE r \in candidates : first(r)
  <2>1. best \in candidates
    BY <1>1
  <2>2. best \in MatrixRule
    BY <2>1
  <2>3. FindRule(m, kind, tier, groups)
            = [required |-> best.required, approvers |-> best.approvers]
    BY <1>1 DEF FindRule
  <2> HIDE DEF best
  <2>4. best.required \in Nat \ {0} /\ best.approvers \in SUBSET Groups
    BY <2>2 DEF MatrixRule
  <2> QED
    BY <2>3, <2>4 DEF Quorum
<1>2. CASE ~\E r \in candidates : first(r)
  BY <1>2 DEF FindRule, DefaultQuorum, Quorum
<1> QED
  BY <1>1, <1>2

\* What is stored for a submitted rule is a well-formed row.
LEMMA StoredType ==
    ASSUME NEW id \in RuleIds, NEW form \in RuleForms,
           NEW kind \in Kinds \cup {NoKind}
    PROVE  Stored(id, form, kind) \in MatrixRule
<1>1. form \in RuleForm
  BY MatrixAssumption
<1> DEFINE n == IF form.required < 1 THEN 1 ELSE form.required
<1>2. n \in Nat \ {0}
  BY <1>1 DEF RuleForm
<1> HIDE DEF n
<1>3. Stored(id, form, kind) =
        [id |-> id, kind |-> kind, tierMin |-> form.tierMin,
         tierMax |-> form.tierMax, required |-> n,
         requesters |-> form.requesters, approvers |-> form.approvers,
         priority |-> form.priority, enabled |-> form.enabled]
  BY DEF Stored, n
<1> QED
  BY <1>1, <1>2, <1>3 DEF MatrixRule, RuleForm

LEMMA NewRuleType ==
    ASSUME NEW id \in RuleIds, NEW form \in RuleForms
    PROVE  NewRule(id, form) \in MatrixRule
BY StoredType, MatrixAssumption DEF NewRule, RuleForm

LEMMA IdleType == Idle \in Handler
BY DEF Idle, Handler, Locals, DefaultQuorum, Quorum, Step

LEMMA NoRequestType == NoRequest \in Request
BY DEF NoRequest, Request, Row, Status

\* finalize leaves a well-formed row.
LEMMA FinalizedType ==
    ASSUME NEW row \in Request, NEW verdict \in {"approved", "denied"},
           NEW by \in Users \cup {NoUser}, now \in Nat
    PROVE  Finalized(row, verdict, by) \in Request
<1>1. CASE row.status # "pending"
  BY <1>1 DEF Finalized
<1>2. CASE row.status = "pending"
  <2>1. row \in Row /\ row.user \in Users /\ row.target \in Targets
    BY <1>2 DEF Request
  <2>2. CASE verdict = "approved"
    <3> DEFINE x == [row EXCEPT !.status = verdict, !.approver = by,
                                !.decided = now,
                                !.sudoGranted = row.sudoRequested]
    <3>1. Finalized(row, verdict, by) = x
      BY <1>2, <2>2 DEF Finalized
    <3>2. x \in Request
      BY <2>1 DEF Request, Row, Status
    <3> QED
      BY <3>1, <3>2
  <2>3. CASE verdict = "denied"
    <3> DEFINE x == [row EXCEPT !.status = verdict, !.approver = by,
                                !.decided = now]
    <3>1. Finalized(row, verdict, by) = x
      BY <1>2, <2>1, <2>3 DEF Finalized, Row
    <3>2. x \in Request
      BY <2>1 DEF Request, Row, Status
    <3> QED
      BY <3>1, <3>2
  <2> QED
    BY <2>2, <2>3
<1> QED
  BY <1>1, <1>2

-----------------------------------------------------------------------------
(* The type invariant. *)

\* It holds initially.
LEMMA InitTypeOK == Init => TypeOK
BY ApprovalAssumption, IdleType, NoRequestType DEF Init, TypeOK, Requests

\* A step that only moves a handler keeps the types if the new local
\* variables are well-formed.
LEMMA ContinueTypeOK ==
    ASSUME TypeOK, NEW h \in Handlers, NEW x \in Handler, Continue(h, x),
           UNCHANGED <<request, nextId, votes, config, now, counters>>
    PROVE  TypeOK'
BY DEF TypeOK, Continue, config, counters

\* A step that only replaces a request, and possibly moves a handler.
LEMMA RequestTypeOK ==
    ASSUME TypeOK, handler' \in [Handlers -> Handler],
           request' \in [Requests -> Request],
           UNCHANGED <<nextId, votes, config, now, counters>>
    PROVE  TypeOK'
BY DEF TypeOK, config, counters

\* Calls by clients keep the types.
LEMMA CallTypeOK == TypeOK /\ Call => TypeOK'
<1> SUFFICES ASSUME TypeOK, Call PROVE TypeOK'
  OBVIOUS
<1>0. /\ handler \in [Handlers -> Handler]
      /\ request \in [Requests -> Request]
      /\ now \in Nat
  BY DEF TypeOK
<1>1. ASSUME NEW u \in Users, NEW t \in Targets, NEW ttl \in TTLs,
             NEW sudo \in BOOLEAN, Create(u, t, ttl, sudo)
      PROVE  TypeOK'
  <2> DEFINE row == [status |-> "pending", user |-> u, target |-> t,
                     approver |-> NoUser, decided |-> NullTime,
                     ttl |-> OrDefault(ttl, DefaultTTL),
                     sudoRequested |-> sudo, sudoGranted |-> FALSE]
  <2>1. OrDefault(ttl, DefaultTTL) \in Nat
    BY ApprovalAssumption DEF OrDefault
  <2>2. row \in Request
    BY <2>1 DEF Request, Row, Status
  <2> HIDE DEF row
  <2>3. request' = [request EXCEPT ![nextId] = row]
    BY <1>1 DEF Create, row
  <2>4. request' \in [Requests -> Request]
    BY <1>0, <2>2, <2>3
  <2>5. nextId' \in 1..(MaxRequests + 1)
    BY <1>1, ApprovalAssumption DEF Create, TypeOK, Requests
  <2> QED
    BY <1>1, <2>4, <2>5 DEF Create, TypeOK, config, counters
<1>2. ASSUME NEW h \in Handlers, NEW r \in Requests, NEW caller \in Users,
             NEW yes \in BOOLEAN, DecideGet(h, r, caller, yes)
      PROVE  TypeOK'
  <2> DEFINE x == [Idle EXCEPT !.pc = "lookup", !.req = r,
                               !.caller = caller, !.approve = yes,
                               !.user = request[r].user,
                               !.target = request[r].target]
  <2>1. /\ request[r].user \in Users
        /\ request[r].target \in Targets
    BY <1>0, <1>2 DEF DecideGet, Decidable, Request
  <2>2. x \in Handler
    BY <2>1, IdleType DEF Handler, Locals, Step
  <2> QED
    BY <1>2, <2>2, ContinueTypeOK DEF DecideGet
<1>3. ASSUME NEW h \in Handlers, NEW r \in Requests, NEW grant \in BOOLEAN,
             GrantSudoGet(h, r, grant)
      PROVE  TypeOK'
  <2>1. [Idle EXCEPT !.pc = "grantsudo", !.req = r, !.approve = grant]
            \in Handler
    BY IdleType DEF Handler, Locals, Step
  <2> QED
    BY <1>3, <2>1, ContinueTypeOK DEF GrantSudoGet
<1>4. ASSUME NEW r \in Requests, NEW admin \in Admins, Revoke(r, admin)
      PROVE  TypeOK'
  <2> DEFINE row == [request[r] EXCEPT !.status = "denied",
                                       !.approver = admin, !.decided = now]
  <2>1. row \in Request
    BY <1>0, <1>4, ApprovalAssumption DEF Revoke, Request, Row, Status
  <2>2. request' = [request EXCEPT ![r] = row]
    BY <1>0, <1>4 DEF Revoke
  <2> HIDE DEF row
  <2>3. request' \in [Requests -> Request]
    BY <1>0, <2>1, <2>2
  <2> QED
    BY <1>0, <1>4, <2>3, RequestTypeOK DEF Revoke
<1>5. ASSUME NEW r \in Requests, NEW ttl \in TTLs, RenewApproval(r, ttl)
      PROVE  TypeOK'
  <2>1. OrDefault(ttl, RenewTTL) \in Nat
    BY ApprovalAssumption DEF OrDefault
  <2> DEFINE row == [request[r] EXCEPT !.decided = now, !.ttl = OrDefault(ttl, RenewTTL)]
  <2>2. row \in Request
    BY <1>0, <2>1 DEF Request, Row
  <2>3. request' = [request EXCEPT ![r] = row]
    BY <1>0, <1>5 DEF RenewApproval
  <2> HIDE DEF row
  <2>4. request' \in [Requests -> Request]
    BY <1>0, <2>2, <2>3
  <2> QED
    BY <1>0, <1>5, <2>4, RequestTypeOK DEF RenewApproval
<1> QED
  BY <1>1, <1>2, <1>3, <1>4, <1>5 DEF Call

\* The statements of a call in progress, and its abort, keep the types.
LEMMA HandlerTypeOK ==
    ASSUME TypeOK, NEW h \in Handlers, HandlerStep(h) \/ DecideLookupBlind(h) \/ Abort(h)
    PROVE  TypeOK'
<1>0. /\ handler \in [Handlers -> Handler]
      /\ request \in [Requests -> Request]
      /\ memberOf \in [Users -> SUBSET Groups]
      /\ now \in Nat
  BY DEF TypeOK
<1>r. Return(h) => handler' \in [Handlers -> Handler]
  BY <1>0, IdleType DEF Return, Continue
<1>1. CASE DecideLookup(h)
  <2>1. CASE handler[h].target \in targets
    <3> DEFINE x == [handler[h] EXCEPT !.pc = "rule",
                                       !.groups = memberOf[handler[h].user]]
    <3>1. Continue(h, x)
      BY <1>1, <2>1 DEF DecideLookup
    <3>2. handler[h].user \in Users
      BY <1>0, <1>1 DEF DecideLookup, At, Handler
    <3>3. x \in Handler
      BY <1>0, <1>1, <3>2 DEF DecideLookup, At, Handler, Locals, Step
    <3> HIDE DEF x
    <3> QED
      BY <1>1, <3>1, <3>3, ContinueTypeOK DEF DecideLookup
  <2>2. CASE handler[h].target \notin targets
    BY <1>1, <2>2, IdleType, ContinueTypeOK DEF DecideLookup, Return
  <2> QED
    BY <2>1, <2>2
<1>2. CASE DecideRule(h)
  <2> DEFINE t == handler[h].target
             q == FindRule(matrix, KindOf[t], TierOf[t], handler[h].groups)
             x == [handler[h] EXCEPT !.pc = "authorize", !.groups = {},
                                     !.rule = q]
  <2>1. q \in Quorum
    BY FindRuleType DEF TypeOK
  <2>2. Continue(h, x)
    BY <1>2 DEF DecideRule
  <2> HIDE DEF q
  <2>3. x \in Handler
    BY <1>0, <1>2, <2>1 DEF Handler, Locals, Step, DecideRule, At
  <2> HIDE DEF x
  <2> QED
    BY <1>2, <2>2, <2>3, ContinueTypeOK DEF DecideRule
<1>3. CASE DecideAuthorize(h)
  <2>1. [handler[h] EXCEPT !.pc = "vote"] \in Handler
    BY <1>0, <1>3 DEF Handler, Locals, Step, DecideAuthorize, At
  <2> QED
    BY <1>3, <2>1, IdleType, ContinueTypeOK DEF DecideAuthorize, Return
<1>4. CASE DecideVote(h)
  <2> DEFINE r == handler[h].req
             u == handler[h].caller
             v == [request |-> r, approver |-> u,
                   approve |-> handler[h].approve]
  <2>1. r \in Requests /\ handler[h].approve \in BOOLEAN
    BY <1>0, <1>4 DEF DecideVote, At, Handler, Locals
  <2>2. CASE VoteAccepted(r, u)
    <3>1. u \in Users
      BY <2>2 DEF VoteAccepted, TypeOK
    <3>2. votes' \subseteq Vote
      BY <1>4, <2>1, <2>2, <3>1 DEF DecideVote, Vote, TypeOK
    <3>3. [handler[h] EXCEPT !.pc = "tally"] \in Handler
      BY <1>0, <1>4, <2>1 DEF DecideVote, At, Handler, Locals, Step
    <3>4. handler' \in [Handlers -> Handler]
      BY <1>0, <1>4, <2>2, <3>3 DEF DecideVote, Continue
    <3> QED
      BY <1>4, <3>2, <3>4 DEF DecideVote, TypeOK, config, counters
  <2>3. CASE ~VoteAccepted(r, u)
    BY <1>4, <2>3, IdleType, ContinueTypeOK DEF DecideVote, Return
  <2> QED
    BY <2>2, <2>3
<1>5. CASE DecideTally(h)
  <2> DEFINE verdict == Verdict(handler[h].req, handler[h].rule.required)
  <2>1. verdict \in {"none", "approved", "denied"}
    BY DEF Verdict
  <2> HIDE DEF verdict
  <2>2. CASE verdict = "none"
    BY <1>5, <2>2, IdleType, ContinueTypeOK DEF DecideTally, Return, verdict
  <2>3. CASE verdict # "none"
    <3>1. [handler[h] EXCEPT !.pc = "finalize", !.verdict = verdict] \in Handler
      BY <1>0, <1>5, <2>1, <2>3 DEF Handler, Locals, Step, DecideTally, At
    <3> QED
      BY <1>5, <2>3, <3>1, ContinueTypeOK DEF DecideTally, verdict
  <2> QED
    BY <2>2, <2>3
<1>6. CASE DecideFinalize(h)
  <2> DEFINE r == handler[h].req
             row == Finalized(request[r], handler[h].verdict, handler[h].caller)
  <2>1. /\ r \in Requests
        /\ handler[h].verdict \in {"approved", "denied"}
        /\ handler[h].caller \in Users \cup {NoUser}
    BY <1>0, <1>6 DEF DecideFinalize, At, Handler, Locals
  <2>2. row \in Request
    BY <1>0, <2>1, FinalizedType
  <2>3. request' = [request EXCEPT ![r] = row]
    BY <1>6, <1>0, <2>1 DEF DecideFinalize
  <2> HIDE DEF row
  <2>4. request' \in [Requests -> Request]
    BY <1>0, <2>1, <2>2, <2>3
  <2> QED
    BY <1>6, <1>r, <2>4, RequestTypeOK DEF DecideFinalize
<1>7. CASE GrantSudoSet(h)
  <2>1. /\ handler[h].req \in Requests
        /\ handler[h].approve \in BOOLEAN
    BY <1>0, <1>7 DEF GrantSudoSet, At, Handler, Locals
  <2>2. request' \in [Requests -> Request]
    BY <1>0, <1>7, <2>1 DEF GrantSudoSet, Request, Row
  <2> QED
    BY <1>7, <1>r, <2>2, RequestTypeOK DEF GrantSudoSet
<1>8. CASE Abort(h)
  BY <1>8, <1>r DEF Abort, TypeOK, config
<1>9. CASE DecideLookupBlind(h)
  <2>1. [handler[h] EXCEPT !.pc = "rule", !.groups = {}] \in Handler
    BY <1>0, <1>9 DEF DecideLookupBlind, At, Handler, Locals, Step
  <2>2. handler' \in [Handlers -> Handler]
    BY <1>0, <1>9, <2>1 DEF DecideLookupBlind, Continue
  <2> QED
    BY <1>9, <2>2 DEF DecideLookupBlind, TypeOK, config
<1> QED
  BY <1>1, <1>2, <1>3, <1>4, <1>5, <1>6, <1>7, <1>8, <1>9 DEF HandlerStep

\* Administrative changes keep the types.
LEMMA AdministerTypeOK == TypeOK /\ Administer => TypeOK'
<1> SUFFICES ASSUME TypeOK, Administer PROVE TypeOK'
  OBVIOUS
<1>0. request \in [Requests -> Request]
  BY DEF TypeOK
<1>1. ASSUME NEW id \in RuleIds, NEW form \in RuleForms, MatrixCreate(id, form)
      PROVE  TypeOK'
  BY <1>1, NewRuleType DEF MatrixCreate, Edit, TypeOK
<1>2. ASSUME NEW rule \in matrix, NEW form \in RuleForms,
             MatrixUpdate(rule, form)
      PROVE  TypeOK'
  <2>1. rule.id \in RuleIds /\ form.kind \in Kinds \cup {NoKind}
    BY MatrixAssumption DEF TypeOK, MatrixRule, RuleForm
  <2>2. Stored(rule.id, form, form.kind) \in MatrixRule
    BY <2>1, StoredType
  <2> QED
    BY <1>2, <2>2 DEF MatrixUpdate, Edit, TypeOK
<1>3. ASSUME NEW rule \in matrix, MatrixDelete(rule)
      PROVE  TypeOK'
  BY <1>3 DEF MatrixDelete, Edit, TypeOK
<1>4. ASSUME NEW u \in Users, NEW groups \in SUBSET Groups,
             SetMemberships(u, groups)
      PROVE  TypeOK'
  BY <1>4 DEF SetMemberships, Edit, TypeOK
<1>5. ASSUME NEW u \in Users, DeleteUser(u)
      PROVE  TypeOK'
  <2>1. \A r \in Requests : [request[r] EXCEPT !.approver = NoUser] \in Request
    BY <1>0 DEF Request, Row
  <2>2. request' \in [Requests -> Request]
    BY <1>0, <1>5, <2>1, NoRequestType DEF DeleteUser
  <2> QED
    BY <1>5, <2>2 DEF DeleteUser, Edit, TypeOK
<1>6. ASSUME NEW t \in Targets, DeleteTarget(t)
      PROVE  TypeOK'
  <2>1. request' \in [Requests -> Request]
    BY <1>0, <1>6, NoRequestType DEF DeleteTarget
  <2> QED
    BY <1>6, <2>1 DEF DeleteTarget, Edit, TypeOK
<1> QED
  BY <1>1, <1>2, <1>3, <1>4, <1>5, <1>6 DEF Administer

\* A restart and its backfill keep the types.
LEMMA RestartTypeOK == TypeOK /\ Restart => TypeOK'
<1> SUFFICES ASSUME TypeOK, Restart PROVE TypeOK'
  OBVIOUS
<1>1. \A r \in Requests : Backfilled(request[r]) \in Request
  BY DEF TypeOK, Backfilled, Request, Row
<1> QED
  BY <1>1, IdleType DEF Restart, TypeOK, config

LEMMA NextTypeOK == TypeOK /\ [Next]_vars => TypeOK'
<1> SUFFICES ASSUME TypeOK, [Next]_vars PROVE TypeOK'
  OBVIOUS
<1>1. CASE Tick
  BY <1>1 DEF Tick, TypeOK, config, counters
<1>2. CASE UNCHANGED vars
  BY <1>2 DEF vars, TypeOK, config, counters
<1> QED
  BY <1>1, <1>2, CallTypeOK, HandlerTypeOK, RestartTypeOK, AdministerTypeOK
  DEF Next

\* Type correctness of the workflow: every reachable state holds well-formed
\* requests, votes and handlers; a handler at work always has a request and
\* reaches finalize with a verdict.
THEOREM TypeCorrect == Spec => []TypeOK
<1>1. Init => TypeOK
  BY InitTypeOK
<1>2. TypeOK /\ [Next]_vars => TypeOK'
  BY NextTypeOK
<1> QED
  BY <1>1, <1>2, PTL DEF Spec

-----------------------------------------------------------------------------
(* Safety.  The invariants below relate the local variables of a call to   *)
(* the rows it read earlier: ids are never reused, so a row that is still  *)
(* there is the row the call started from.                                 *)

\* Ids from nextId on are unused.
FreshIds == \A r \in Requests : r >= nextId => request[r].status = "absent"

\* A call that decides is not the requester's and still means the same row.
Decides(x) == x.pc \notin {"idle", "grantsudo"}

Linked(x) ==
    Decides(x) =>
        /\ x.req < nextId
        /\ x.caller # x.user
        /\ request[x.req].status # "absent" =>
               request[x.req].user = x.user /\ request[x.req].target = x.target

DecidersLinked == \A h \in Handlers : Linked(handler[h])

\* Votes belong to stored requests, one per approver, none the requester's.
VotesLinked ==
    /\ IsFiniteSet(votes)
    /\ \A v \in votes : /\ request[v.request].status # "absent"
                        /\ v.approver # request[v.request].user
    /\ \A v, w \in votes :
           v.request = w.request /\ v.approver = w.approver => v = w

ApproverLinked ==
    \A r \in Requests :
        request[r].status = "approved" => request[r].approver # request[r].user

LinkInv == TypeOK /\ FreshIds /\ DecidersLinked /\ VotesLinked /\ ApproverLinked

\* What a call has read is still so while nothing is edited.
Current(x) ==
    Decides(x) =>
        /\ request[x.req].status # "absent"
        /\ x.pc = "rule" => x.groups = memberOf[x.user]
        /\ x.pc \in {"authorize", "vote", "tally", "finalize"} =>
               x.rule = RuleOf(x.req)
        /\ x.pc \in {"vote", "tally", "finalize"} =>
               CanApprove(x.caller, RuleOf(x.req))
        /\ x.pc = "finalize" /\ x.verdict = "approved" => HasQuorum(x.req)

CallsCurrent == \A h \in Handlers : Current(handler[h])

VotesAuthorized == \A v \in votes : CanApprove(v.approver, RuleOf(v.request))

ApprovedHaveQuorum ==
    \A r \in Requests : request[r].status = "approved" => HasQuorum(r)

QuorumInv ==
    Undisturbed => CallsCurrent /\ VotesAuthorized /\ ApprovedHaveQuorum

-----------------------------------------------------------------------------
(* LinkInv is inductive. *)

LEMMA IdleLinked == ~Decides(Idle) /\ ~Decides(Idle)'
BY DEF Decides, Idle

LEMMA InitLinkInv == Init => LinkInv
<1> SUFFICES ASSUME Init PROVE LinkInv
  OBVIOUS
<1>1. TypeOK
  BY InitTypeOK
<1>2. FreshIds /\ ApproverLinked
  BY DEF Init, FreshIds, ApproverLinked, NoRequest
<1>3. VotesLinked
  BY FS_EmptySet DEF Init, VotesLinked
<1>4. DecidersLinked
  BY IdleLinked DEF Init, DecidersLinked, Linked
<1> QED
  BY <1>1, <1>2, <1>3, <1>4 DEF LinkInv

\* A step that only moves a handler keeps the links of the others.
LEMMA ContinueLinkInv ==
    ASSUME LinkInv, NEW h \in Handlers, NEW x \in Handler, Continue(h, x),
           Linked(x),
           UNCHANGED <<request, nextId, votes, config, now, counters>>
    PROVE  LinkInv'
<1>1. TypeOK'
  BY ContinueTypeOK DEF LinkInv
<1>2. DecidersLinked'
  BY DEF LinkInv, TypeOK, DecidersLinked, Linked, Decides, Continue
<1>3. FreshIds' /\ VotesLinked' /\ ApproverLinked'
  BY DEF LinkInv, FreshIds, VotesLinked, ApproverLinked
<1> QED
  BY <1>1, <1>2, <1>3 DEF LinkInv

\* A step that changes rows but keeps, for every request that stays, its user
\* and target; and that leaves votes as they are.
LEMMA RowsLinkInv ==
    ASSUME LinkInv, TypeOK', UNCHANGED <<nextId, votes>>,
           \A h \in Handlers : handler'[h] \in {handler[h], Idle},
           \A r \in Requests :
               /\ request'[r].status = "absent" <=> request[r].status = "absent"
               /\ request'[r].user = request[r].user
               /\ request'[r].target = request[r].target,
           ApproverLinked'
    PROVE  LinkInv'
<1>1. FreshIds'
  BY DEF LinkInv, FreshIds
<1>2. VotesLinked'
  BY DEF LinkInv, TypeOK, VotesLinked, Vote
<1>3. DecidersLinked'
  <2> SUFFICES ASSUME NEW h \in Handlers, Decides(handler[h])'
               PROVE  Linked(handler[h])'
    BY DEF DecidersLinked, Linked
  <2>1. handler'[h] = handler[h]
    BY IdleLinked
  <2>2. handler[h] \in Handler /\ Decides(handler[h]) /\ Linked(handler[h])
    BY <2>1 DEF LinkInv, TypeOK, DecidersLinked, Decides
  <2>3. handler[h].req \in Requests
    BY <2>2 DEF Handler, Decides
  <2> QED
    BY <2>1, <2>2, <2>3 DEF Linked
<1> QED
  BY <1>1, <1>2, <1>3 DEF LinkInv

LEMMA CallLinkInv == LinkInv /\ Call => LinkInv'
<1> SUFFICES ASSUME LinkInv, Call PROVE LinkInv'
  OBVIOUS
<1>t. TypeOK /\ TypeOK'
  BY CallTypeOK DEF LinkInv
<1>0. /\ handler \in [Handlers -> Handler]
      /\ request \in [Requests -> Request]
      /\ nextId \in Nat
  BY <1>t DEF TypeOK
<1>1. ASSUME NEW u \in Users, NEW t \in Targets, NEW ttl \in TTLs,
             NEW sudo \in BOOLEAN, Create(u, t, ttl, sudo)
      PROVE  LinkInv'
  <2>1. \A r \in Requests : r # nextId => request'[r] = request[r]
    BY <1>0, <1>1 DEF Create
  <2>2. /\ request[nextId].status = "absent" /\ nextId \in Requests
        /\ request'[nextId].status = "pending"
    BY <1>0, <1>1 DEF Create, LinkInv, FreshIds
  <2>3. FreshIds'
    BY <1>0, <1>1, <2>1 DEF Create, LinkInv, FreshIds, Requests
  <2>4. VotesLinked'
    BY <1>t, <1>1, <2>1, <2>2 DEF Create, LinkInv, VotesLinked, TypeOK, Vote
  <2>5. ApproverLinked'
    BY <2>1, <2>2 DEF LinkInv, ApproverLinked
  <2>6. DecidersLinked'
    <3> SUFFICES ASSUME NEW h \in Handlers, Decides(handler[h])
                 PROVE  Linked(handler[h])'
      BY <1>1 DEF Create, DecidersLinked, Linked, Decides
    <3>1. handler[h].req \in Requests /\ Linked(handler[h])
      BY <1>0 DEF Handler, Decides, LinkInv, DecidersLinked
    <3>2. handler[h].req # nextId
      BY <1>0, <3>1 DEF Linked, Requests
    <3> QED
      BY <1>0, <1>1, <2>1, <3>1, <3>2 DEF Create, Linked, Decides, Requests
  <2> QED
    BY <1>t, <2>3, <2>4, <2>5, <2>6 DEF LinkInv
<1>2. ASSUME NEW h \in Handlers, NEW r \in Requests, NEW caller \in Users,
             NEW yes \in BOOLEAN, DecideGet(h, r, caller, yes)
      PROVE  LinkInv'
  <2> DEFINE x == [Idle EXCEPT !.pc = "lookup", !.req = r,
                               !.caller = caller, !.approve = yes,
                               !.user = request[r].user,
                               !.target = request[r].target]
  <2>1. Continue(h, x)
    BY <1>2 DEF DecideGet
  <2>2. handler'[h] = x /\ x \in Handler
    BY <1>0, <1>t, <2>1 DEF Continue, TypeOK
  <2>3. Linked(x)
    <3>1. r < nextId
      BY <1>0, <1>2 DEF DecideGet, Decidable, LinkInv, FreshIds, Requests
    <3>2. /\ x.req = r /\ x.caller = caller
          /\ x.user = request[r].user /\ x.target = request[r].target
      BY DEF Idle
    <3> HIDE DEF x
    <3> QED
      BY <1>2, <3>1, <3>2 DEF Linked, DecideGet, Decidable
  <2> HIDE DEF x
  <2> QED
    BY <1>2, <2>1, <2>2, <2>3, ContinueLinkInv DEF DecideGet
<1>3. ASSUME NEW h \in Handlers, NEW r \in Requests, NEW grant \in BOOLEAN,
             GrantSudoGet(h, r, grant)
      PROVE  LinkInv'
  <2> DEFINE x == [Idle EXCEPT !.pc = "grantsudo", !.req = r,
                               !.approve = grant]
  <2>1. Continue(h, x)
    BY <1>3 DEF GrantSudoGet
  <2>2. handler'[h] = x /\ x \in Handler
    BY <1>0, <1>t, <2>1 DEF Continue, TypeOK
  <2>3. Linked(x)
    BY DEF Linked, Decides, Idle
  <2> HIDE DEF x
  <2> QED
    BY <1>3, <2>1, <2>2, <2>3, ContinueLinkInv DEF GrantSudoGet
<1>4. ASSUME NEW r \in Requests, NEW admin \in Admins, Revoke(r, admin)
      PROVE  LinkInv'
  <2>1. \A s \in Requests :
          /\ request'[s].status = "absent" <=> request[s].status = "absent"
          /\ request'[s].user = request[s].user
          /\ request'[s].target = request[s].target
          /\ request'[s].status = "approved" =>
                 request[s].status = "approved" /\ request'[s] = request[s]
    BY <1>0, <1>4 DEF Revoke, Request, Row
  <2>2. ApproverLinked'
    BY <2>1 DEF LinkInv, ApproverLinked
  <2> QED
    BY <1>t, <1>4, <2>1, <2>2, RowsLinkInv DEF Revoke
<1>5. ASSUME NEW r \in Requests, NEW ttl \in TTLs, RenewApproval(r, ttl)
      PROVE  LinkInv'
  <2>1. \A s \in Requests :
          /\ request'[s].status = request[s].status
          /\ request'[s].user = request[s].user
          /\ request'[s].target = request[s].target
          /\ request'[s].approver = request[s].approver
    BY <1>0, <1>5 DEF RenewApproval, Request, Row
  <2>2. ApproverLinked'
    BY <2>1 DEF LinkInv, ApproverLinked
  <2> QED
    BY <1>t, <1>5, <2>1, <2>2, RowsLinkInv DEF RenewApproval
<1> QED
  BY <1>1, <1>2, <1>3, <1>4, <1>5 DEF Call

\* A call that goes on with the same request, caller, user and target.
LEMMA SameCallLinked ==
    ASSUME LinkInv, NEW h \in Handlers, NEW x, Decides(handler[h]),
           x.req = handler[h].req, x.caller = handler[h].caller,
           x.user = handler[h].user, x.target = handler[h].target
    PROVE  Linked(x)
BY DEF LinkInv, DecidersLinked, Linked

LEMMA HandlerLinkInv ==
    ASSUME LinkInv, NEW h \in Handlers, HandlerStep(h) \/ DecideLookupBlind(h) \/ Abort(h)
    PROVE  LinkInv'
<1>t. TypeOK /\ TypeOK'
  BY HandlerTypeOK DEF LinkInv
<1>0. /\ handler \in [Handlers -> Handler] /\ handler[h] \in Handler
      /\ handler' \in [Handlers -> Handler]
      /\ request \in [Requests -> Request]
      /\ handler[h] \in Locals
  BY <1>t DEF TypeOK, Handler
<1>r. Return(h) => \A k \in Handlers : handler'[k] \in {handler[k], Idle}
  BY <1>0 DEF Return, Continue
<1>i. ASSUME Return(h),
             UNCHANGED <<request, nextId, votes, config, now, counters>>
      PROVE  LinkInv'
  BY <1>i, IdleType, IdleLinked, ContinueLinkInv DEF Return, Linked
<1>c. ASSUME NEW x, Continue(h, x), Decides(handler[h]),
             x.req = handler[h].req, x.caller = handler[h].caller,
             x.user = handler[h].user, x.target = handler[h].target,
             UNCHANGED <<request, nextId, votes, config, now, counters>>
      PROVE  LinkInv'
  <2>1. x \in Handler
    BY <1>0, <1>c DEF Continue
  <2> QED
    BY <1>c, <2>1, SameCallLinked, ContinueLinkInv
<1>1. CASE DecideLookup(h)
  <2> DEFINE x == [handler[h] EXCEPT !.pc = "rule",
                                     !.groups = memberOf[handler[h].user]]
  <2>1. /\ x.req = handler[h].req /\ x.caller = handler[h].caller
        /\ x.user = handler[h].user /\ x.target = handler[h].target
    BY <1>0 DEF Locals
  <2>2. Continue(h, x) \/ Return(h)
    BY <1>1 DEF DecideLookup
  <2> HIDE DEF x
  <2> QED
    BY <1>1, <1>i, <1>c, <2>1, <2>2 DEF DecideLookup, At, Decides
<1>2. CASE DecideRule(h)
  <2> DEFINE t == handler[h].target
             q == FindRule(matrix, KindOf[t], TierOf[t], handler[h].groups)
             x == [handler[h] EXCEPT !.pc = "authorize", !.groups = {},
                                     !.rule = q]
  <2>2. Continue(h, x)
    BY <1>2 DEF DecideRule
  <2> HIDE DEF q
  <2>1. /\ x.req = handler[h].req /\ x.caller = handler[h].caller
        /\ x.user = handler[h].user /\ x.target = handler[h].target
    BY <1>0 DEF Locals
  <2> HIDE DEF x
  <2> QED
    BY <1>2, <1>c, <2>1, <2>2 DEF DecideRule, At, Decides
<1>3. CASE DecideAuthorize(h)
  <2> DEFINE x == [handler[h] EXCEPT !.pc = "vote"]
  <2>1. /\ x.req = handler[h].req /\ x.caller = handler[h].caller
        /\ x.user = handler[h].user /\ x.target = handler[h].target
    BY <1>0 DEF Locals
  <2>2. Continue(h, x) \/ Return(h)
    BY <1>3 DEF DecideAuthorize
  <2> HIDE DEF x
  <2> QED
    BY <1>3, <1>i, <1>c, <2>1, <2>2 DEF DecideAuthorize, At, Decides
<1>4. CASE DecideVote(h)
  <2> DEFINE r == handler[h].req
             u == handler[h].caller
             v == [request |-> r, approver |-> u,
                   approve |-> handler[h].approve]
             x == [handler[h] EXCEPT !.pc = "tally"]
  <2>1. CASE VoteAccepted(r, u)
    <3>1. votes' = votes \cup {v} /\ Continue(h, x)
      BY <1>4, <2>1 DEF DecideVote
    <3>2. UNCHANGED <<request, nextId>>
      BY <1>4 DEF DecideVote
    <3>3. request[r].status # "absent" /\ u # request[r].user
      BY <1>4, <2>1 DEF VoteAccepted, DecideVote, At, Decides, LinkInv,
                        DecidersLinked, Linked
    <3>4. VotesLinked'
      <4>1. IsFiniteSet(votes')
        BY <3>1, FS_AddElement DEF LinkInv, VotesLinked
      <4>2. \A w \in votes' : /\ request'[w.request].status # "absent"
                              /\ w.approver # request'[w.request].user
        BY <3>1, <3>2, <3>3 DEF LinkInv, VotesLinked
      <4>3. \A w1, w2 \in votes' :
              w1.request = w2.request /\ w1.approver = w2.approver => w1 = w2
        BY <2>1, <3>1 DEF LinkInv, VotesLinked, VoteAccepted
      <4> QED
        BY <4>1, <4>2, <4>3 DEF VotesLinked
    <3>5. DecidersLinked'
      <4>1. Linked(x)
        BY <1>0, <1>4, SameCallLinked DEF DecideVote, At, Decides, Locals
      <4>2. handler' = [handler EXCEPT ![h] = x]
        BY <3>1 DEF Continue
      <4> HIDE DEF x
      <4> QED
        BY <1>0, <3>2, <4>1, <4>2 DEF LinkInv, DecidersLinked, Linked, Decides
    <3>6. FreshIds' /\ ApproverLinked'
      BY <3>2 DEF LinkInv, FreshIds, ApproverLinked
    <3> QED
      BY <1>t, <3>4, <3>5, <3>6 DEF LinkInv
  <2>2. CASE ~VoteAccepted(r, u)
    BY <1>4, <1>i, <2>2 DEF DecideVote
  <2> QED
    BY <2>1, <2>2
<1>5. CASE DecideTally(h)
  <2> DEFINE verdict == Verdict(handler[h].req, handler[h].rule.required)
             x == [handler[h] EXCEPT !.pc = "finalize", !.verdict = verdict]
  <2>2. Continue(h, x) \/ Return(h)
    BY <1>5 DEF DecideTally
  <2> HIDE DEF verdict
  <2>1. /\ x.req = handler[h].req /\ x.caller = handler[h].caller
        /\ x.user = handler[h].user /\ x.target = handler[h].target
    BY <1>0 DEF Locals
  <2> HIDE DEF x
  <2> QED
    BY <1>5, <1>i, <1>c, <2>1, <2>2 DEF DecideTally, At, Decides
<1>6. CASE DecideFinalize(h)
  <2> DEFINE r == handler[h].req
             by == handler[h].caller
             row == Finalized(request[r], handler[h].verdict, by)
  <2>1. r \in Requests /\ request[r] \in Row
    BY <1>0, <1>6 DEF DecideFinalize, At, Handler, Request
  <2>2. request' = [request EXCEPT ![r] = row]
    BY <1>0, <1>6, <2>1 DEF DecideFinalize
  <2>3. /\ row.user = request[r].user /\ row.target = request[r].target
        /\ row.approver \in {request[r].approver, by}
        /\ row.status # request[r].status => row.approver = by
        /\ row.status = "absent" <=> request[r].status = "absent"
    BY <1>0, <1>6, <2>1
       DEF Finalized, Row, Handler, Locals, DecideFinalize, At
  <2>4. request[r].status # "absent" => by # request[r].user
    BY <1>6 DEF DecideFinalize, At, Decides, LinkInv, DecidersLinked, Linked
  <2> HIDE DEF row
  <2>5. ApproverLinked'
    BY <1>0, <2>1, <2>2, <2>3, <2>4 DEF LinkInv, ApproverLinked
  <2>6. \A s \in Requests :
          /\ request'[s].status = "absent" <=> request[s].status = "absent"
          /\ request'[s].user = request[s].user
          /\ request'[s].target = request[s].target
    BY <1>0, <2>1, <2>2, <2>3
  <2> QED
    BY <1>t, <1>6, <1>r, <2>5, <2>6, RowsLinkInv DEF DecideFinalize
<1>7. CASE GrantSudoSet(h)
  <2>1. \A s \in Requests :
          /\ request'[s].status = request[s].status
          /\ request'[s].user = request[s].user
          /\ request'[s].target = request[s].target
          /\ request'[s].approver = request[s].approver
    BY <1>0, <1>7 DEF GrantSudoSet, Request, Row
  <2>2. ApproverLinked'
    BY <2>1 DEF LinkInv, ApproverLinked
  <2> QED
    BY <1>t, <1>7, <1>r, <2>1, <2>2, RowsLinkInv DEF GrantSudoSet
<1>8. CASE Abort(h)
  <2>1. UNCHANGED <<request, nextId, votes>>
    BY <1>8 DEF Abort
  <2>2. ApproverLinked'
    BY <2>1 DEF LinkInv, ApproverLinked
  <2> QED
    BY <1>t, <1>8, <1>r, <2>1, <2>2, RowsLinkInv DEF Abort
<1>9. CASE DecideLookupBlind(h)
  <2> DEFINE x == [handler[h] EXCEPT !.pc = "rule", !.groups = {}]
  <2>1. /\ x.req = handler[h].req /\ x.caller = handler[h].caller
        /\ x.user = handler[h].user /\ x.target = handler[h].target
    BY <1>0 DEF Locals
  <2>2. Continue(h, x) /\ Decides(handler[h])
    BY <1>9 DEF DecideLookupBlind, At, Decides
  <2> HIDE DEF x
  <2>3. UNCHANGED <<request, nextId, votes>>
    BY <1>9 DEF DecideLookupBlind
  <2>4. Linked(x)
    BY <2>1, <2>2, SameCallLinked
  <2>5. DecidersLinked'
    BY <1>0, <2>2, <2>3, <2>4
    DEF LinkInv, DecidersLinked, Linked, Decides, Continue
  <2>6. FreshIds' /\ VotesLinked' /\ ApproverLinked'
    BY <2>3 DEF LinkInv, FreshIds, VotesLinked, ApproverLinked
  <2> QED
    BY <1>t, <2>5, <2>6 DEF LinkInv
<1> QED
  BY <1>1, <1>2, <1>3, <1>4, <1>5, <1>6, <1>7, <1>8, <1>9 DEF HandlerStep

\* An edit removes rows, with their votes, or leaves them; a deleted user's
\* name is taken off the requests they decided.
LEMMA AdministerLinkInv == LinkInv /\ Administer => LinkInv'
<1> SUFFICES ASSUME LinkInv, Administer PROVE LinkInv'
  OBVIOUS
<1>t. TypeOK /\ TypeOK'
  BY AdministerTypeOK DEF LinkInv
<1>0. /\ handler \in [Handlers -> Handler]
      /\ request \in [Requests -> Request]
      /\ votes \subseteq Vote
  BY <1>t DEF TypeOK
<1>1. UNCHANGED <<nextId, handler>>
  BY DEF Administer, MatrixCreate, MatrixUpdate, MatrixDelete, SetMemberships,
         DeleteUser, DeleteTarget, Edit
<1>2. /\ \A r \in Requests :
            request'[r].status # "absent" =>
                /\ request'[r].status = request[r].status
                /\ request'[r].user = request[r].user
                /\ request'[r].target = request[r].target
                /\ request'[r].approver \in {request[r].approver, NoUser}
      /\ votes' \subseteq votes
      /\ \A v \in votes' : request'[v.request].status # "absent"
  <2>1. CASE UNCHANGED <<request, votes>>
    BY <2>1 DEF LinkInv, VotesLinked
  <2>2. ASSUME NEW u \in Users, DeleteUser(u) PROVE <1>2
    <3>1. \A r \in Requests :
            /\ request[r].user = u => request'[r] = NoRequest
            /\ request[r].user # u =>
                 request'[r] \in {request[r],
                                  [request[r] EXCEPT !.approver = NoUser]}
      BY <2>2 DEF DeleteUser
    <3>2. votes' = {v \in votes : v.approver # u /\ request[v.request].user # u}
      BY <2>2 DEF DeleteUser
    <3>3. \A r \in Requests : request[r] \in Row
      BY <1>0 DEF Request
    <3>4. \A r \in Requests :
            request[r].user # u =>
                /\ request'[r].status = request[r].status
                /\ request'[r].user = request[r].user
                /\ request'[r].target = request[r].target
                /\ request'[r].approver \in {request[r].approver, NoUser}
      BY <3>1, <3>3 DEF Row
    <3>5. \A v \in votes' : request'[v.request].status # "absent"
      BY <1>0, <3>2, <3>4 DEF LinkInv, VotesLinked, Vote
    <3> QED
      BY <3>1, <3>2, <3>4, <3>5 DEF NoRequest
  <2>3. ASSUME NEW t \in Targets, DeleteTarget(t) PROVE <1>2
    <3>1. \A r \in Requests :
            request'[r] = IF request[r].target = t THEN NoRequest ELSE request[r]
      BY <2>3 DEF DeleteTarget
    <3>2. votes' = {v \in votes : request[v.request].target # t}
      BY <2>3 DEF DeleteTarget
    <3>3. \A v \in votes' : request'[v.request].status # "absent"
      BY <1>0, <3>1, <3>2 DEF LinkInv, VotesLinked, Vote
    <3> QED
      BY <3>1, <3>2, <3>3 DEF NoRequest
  <2> QED
    BY <2>1, <2>2, <2>3
    DEF Administer, MatrixCreate, MatrixUpdate, MatrixDelete, SetMemberships
<1>3. FreshIds'
  BY <1>1, <1>2 DEF LinkInv, FreshIds
<1>4. VotesLinked'
  <2>1. IsFiniteSet(votes')
    BY <1>2, FS_Subset DEF LinkInv, VotesLinked
  <2>2. \A v \in votes' : v.approver # request'[v.request].user
    BY <1>0, <1>2 DEF LinkInv, VotesLinked, Vote
  <2>3. \A v, w \in votes' :
          v.request = w.request /\ v.approver = w.approver => v = w
    BY <1>2 DEF LinkInv, VotesLinked
  <2> QED
    BY <1>2, <2>1, <2>2, <2>3 DEF VotesLinked
<1>5. ApproverLinked'
  BY <1>0, <1>2, ApprovalAssumption DEF LinkInv, ApproverLinked, Request
<1>6. DecidersLinked'
  <2> SUFFICES ASSUME NEW h \in Handlers, Decides(handler[h])
               PROVE  Linked(handler[h])'
    BY <1>1 DEF DecidersLinked, Linked, Decides
  <2>1. handler[h].req \in Requests /\ Linked(handler[h])
    BY <1>0 DEF Handler, Decides, LinkInv, DecidersLinked
  <2> QED
    BY <1>1, <1>2, <2>1 DEF Linked, Decides
<1> QED
  BY <1>t, <1>3, <1>4, <1>5, <1>6 DEF LinkInv

LEMMA RestartLinkInv == LinkInv /\ Restart => LinkInv'
<1> SUFFICES ASSUME LinkInv, Restart PROVE LinkInv'
  OBVIOUS
<1>t. TypeOK /\ TypeOK'
  BY RestartTypeOK DEF LinkInv
<1>1. \A r \in Requests :
        /\ request'[r].status = request[r].status
        /\ request'[r].user = request[r].user
        /\ request'[r].target = request[r].target
        /\ request'[r].approver = request[r].approver
  BY <1>t DEF Restart, Backfilled, TypeOK, Request, Row
<1>2. ApproverLinked'
  BY <1>1 DEF LinkInv, ApproverLinked
<1>3. \A h \in Handlers : handler'[h] \in {handler[h], Idle}
  BY DEF Restart
<1> QED
  BY <1>t, <1>1, <1>2, <1>3, RowsLinkInv DEF Restart

LEMMA NextLinkInv == LinkInv /\ [Next]_vars => LinkInv'
<1> SUFFICES ASSUME LinkInv, [Next]_vars PROVE LinkInv'
  OBVIOUS
<1>1. CASE Tick \/ UNCHANGED vars
  <2>1. UNCHANGED <<request, nextId, votes, handler>>
    BY <1>1 DEF Tick, vars
  <2>2. TypeOK'
    BY <1>1, NextTypeOK DEF Next, LinkInv
  <2>3. FreshIds' /\ DecidersLinked' /\ VotesLinked' /\ ApproverLinked'
    BY <2>1 DEF LinkInv, FreshIds, DecidersLinked, Linked, Decides, VotesLinked,
                ApproverLinked
  <2> QED
    BY <2>2, <2>3 DEF LinkInv
<1> QED
  BY <1>1, CallLinkInv, HandlerLinkInv, RestartLinkInv, AdministerLinkInv
  DEF Next

LEMMA LinkInvariant == Spec => []LinkInv
<1>1. Init => LinkInv
  BY InitLinkInv
<1>2. LinkInv /\ [Next]_vars => LinkInv'
  BY NextLinkInv
<1> QED
  BY <1>1, <1>2, PTL DEF Spec

\* Nobody decides their own request, whatever votes, aborted calls, edits and
\* restarts interleave (Decide's ErrSelfApproval).
THEOREM NoSelfApprovalHolds == Spec => []NoSelfApproval
<1>1. LinkInv => NoSelfApproval
  BY DEF LinkInv, NoSelfApproval, VotesLinked, ApproverLinked
<1> QED
  BY <1>1, LinkInvariant, PTL

-----------------------------------------------------------------------------
(* Four eyes.  While nothing is edited, what a call read about its request *)
(* stays true, and votes and quorums only grow.                            *)

\* A step under which stored requests keep their rule and their votes.
RowsStay ==
    /\ UNCHANGED config
    /\ votes \subseteq votes'
    /\ \A r \in Requests :
           request[r].status # "absent" =>
               /\ request'[r].status # "absent"
               /\ request'[r].user = request[r].user
               /\ request'[r].target = request[r].target

LEMMA RuleKept ==
    ASSUME LinkInv, LinkInv', RowsStay, NEW r \in Requests,
           request[r].status # "absent"
    PROVE  /\ RuleOf(r)' = RuleOf(r)
           /\ HasQuorum(r) => HasQuorum(r)'
<1>1. RuleOf(r)' = RuleOf(r)
  BY DEF RowsStay, RuleOf, config
<1>2. RuleOf(r).required \in Nat
  BY FindRuleType DEF RuleOf, Quorum, LinkInv, TypeOK
<1>3. /\ IsFiniteSet(Approvals(r)) /\ IsFiniteSet(Approvals(r)')
      /\ Approvals(r) \subseteq Approvals(r)'
  <2>1. Approvals(r) \subseteq votes /\ Approvals(r)' \subseteq votes'
    BY DEF Approvals
  <2>2. IsFiniteSet(votes) /\ IsFiniteSet(votes')
    BY DEF LinkInv, VotesLinked
  <2> QED
    BY <2>1, <2>2, FS_Subset DEF Approvals, RowsStay
<1>4. Cardinality(Approvals(r)) <= Cardinality(Approvals(r)')
  BY <1>3, FS_Subset
<1>5. Cardinality(Approvals(r)) \in Nat /\ Cardinality(Approvals(r)') \in Nat
  BY <1>3, FS_CardinalityType
<1> QED
  BY <1>1, <1>2, <1>4, <1>5 DEF HasQuorum

LEMMA CurrentKept ==
    ASSUME LinkInv, LinkInv', RowsStay, NEW x \in Handler, Current(x)
    PROVE  Current(x)'
<1> SUFFICES ASSUME Decides(x)
             PROVE  Current(x)'
  BY DEF Current, Decides
<1>1. x.req \in Requests /\ request[x.req].status # "absent"
  BY DEF Handler, Decides, Current
<1>2. RuleOf(x.req)' = RuleOf(x.req) /\ (HasQuorum(x.req) => HasQuorum(x.req)')
  BY <1>1, RuleKept
<1>3. memberOf' = memberOf
  BY DEF RowsStay, config
<1>4. request'[x.req].status # "absent"
  BY <1>1 DEF RowsStay
<1>5. CanApprove(x.caller, RuleOf(x.req)) => CanApprove(x.caller, RuleOf(x.req))'
  BY <1>2, <1>3 DEF CanApprove
<1> QED
  BY <1>2, <1>3, <1>4, <1>5 DEF Current, Decides

\* A step keeps QuorumInv when stored requests stay, the calls it moves stay
\* current, the votes it adds are authorized and what it approves has a quorum.
LEMMA StepQuorumInv ==
    ASSUME LinkInv, LinkInv', Undisturbed, QuorumInv, RowsStay,
           \A h \in Handlers : handler'[h] = handler[h] \/ Current(handler[h])',
           \A v \in votes' \ votes : CanApprove(v.approver, RuleOf(v.request))',
           \A r \in Requests :
               request'[r].status = "approved" =>
                   request[r].status = "approved" \/ HasQuorum(r)'
    PROVE  QuorumInv'
<1>0. /\ CallsCurrent /\ VotesAuthorized /\ ApprovedHaveQuorum
      /\ handler \in [Handlers -> Handler] /\ votes \subseteq Vote
  BY DEF QuorumInv, LinkInv, TypeOK
<1>1. CallsCurrent'
  <2> SUFFICES ASSUME NEW h \in Handlers, handler'[h] = handler[h]
               PROVE  Current(handler[h])'
    BY DEF CallsCurrent
  <2>1. handler[h] \in Handler /\ Current(handler[h])
    BY <1>0 DEF CallsCurrent
  <2> QED
    BY <2>1, CurrentKept DEF Current, Decides
<1>2. VotesAuthorized'
  <2> SUFFICES ASSUME NEW v \in votes
               PROVE  CanApprove(v.approver, RuleOf(v.request))'
    BY DEF VotesAuthorized, RowsStay
  <2>1. v.request \in Requests /\ request[v.request].status # "absent"
    BY <1>0 DEF Vote, LinkInv, VotesLinked
  <2>2. RuleOf(v.request)' = RuleOf(v.request)
    BY <2>1, RuleKept
  <2> QED
    BY <1>0, <2>2 DEF VotesAuthorized, CanApprove, RowsStay, config
<1>3. ApprovedHaveQuorum'
  BY <1>0, RuleKept DEF ApprovedHaveQuorum
<1> QED
  BY <1>1, <1>2, <1>3 DEF QuorumInv

LEMMA InitQuorumInv == Init => QuorumInv
<1> SUFFICES ASSUME Init PROVE QuorumInv
  OBVIOUS
<1>1. CallsCurrent
  BY IdleLinked DEF Init, CallsCurrent, Current
<1>2. VotesAuthorized /\ ApprovedHaveQuorum
  BY DEF Init, VotesAuthorized, ApprovedHaveQuorum, NoRequest
<1> QED
  BY <1>1, <1>2 DEF QuorumInv

\* An idle goroutine has read nothing.
LEMMA IdleCurrent ==
    ASSUME NEW x, ~Decides(x)
    PROVE  Current(x) /\ Current(x)'
BY DEF Current, Decides

LEMMA CallQuorumInv ==
    ASSUME LinkInv, LinkInv', Undisturbed, QuorumInv, Call
    PROVE  QuorumInv'
<1>0. /\ handler \in [Handlers -> Handler]
      /\ request \in [Requests -> Request]
      /\ nextId \in Nat
  BY DEF LinkInv, TypeOK
<1>1. ASSUME NEW u \in Users, NEW t \in Targets, NEW ttl \in TTLs,
             NEW sudo \in BOOLEAN, Create(u, t, ttl, sudo)
      PROVE  QuorumInv'
  <2>1. /\ \A r \in Requests : r # nextId => request'[r] = request[r]
        /\ nextId \in Requests /\ request[nextId].status = "absent"
        /\ request'[nextId].status = "pending"
        /\ UNCHANGED <<handler, votes, config>>
    BY <1>0, <1>1 DEF Create, LinkInv, FreshIds
  <2>2. RowsStay
    BY <2>1 DEF RowsStay
  <2> QED
    BY <2>1, <2>2, StepQuorumInv
<1>2. ASSUME NEW h \in Handlers, NEW r \in Requests, NEW caller \in Users,
             NEW yes \in BOOLEAN, DecideGet(h, r, caller, yes)
      PROVE  QuorumInv'
  <2> DEFINE x == [Idle EXCEPT !.pc = "lookup", !.req = r,
                               !.caller = caller, !.approve = yes,
                               !.user = request[r].user,
                               !.target = request[r].target]
  <2>1. handler' = [handler EXCEPT ![h] = x]
    BY <1>2 DEF DecideGet, Continue
  <2>2. /\ handler'[h].pc = "lookup" /\ handler'[h].req = r
        /\ \A k \in Handlers : k # h => handler'[k] = handler[k]
    BY <1>0, <2>1 DEF Idle
  <2> HIDE DEF x
  <2>3. UNCHANGED <<request, votes, config>> /\ request[r].status = "pending"
    BY <1>2 DEF DecideGet, Decidable
  <2>4. RowsStay
    BY <2>3 DEF RowsStay
  <2>5. Current(handler[h])'
    BY <2>2, <2>3 DEF Current
  <2> QED
    BY <2>2, <2>3, <2>4, <2>5, StepQuorumInv
<1>3. ASSUME NEW h \in Handlers, NEW r \in Requests, NEW grant \in BOOLEAN,
             GrantSudoGet(h, r, grant)
      PROVE  QuorumInv'
  <2> DEFINE x == [Idle EXCEPT !.pc = "grantsudo", !.req = r,
                               !.approve = grant]
  <2>1. handler' = [handler EXCEPT ![h] = x]
    BY <1>3 DEF GrantSudoGet, Continue
  <2>2. ~Decides(x)
    BY DEF Idle, Decides
  <2> HIDE DEF x
  <2>3. UNCHANGED <<request, votes, config>>
    BY <1>3 DEF GrantSudoGet
  <2>4. RowsStay
    BY <2>3 DEF RowsStay
  <2>6. \A k \in Handlers : handler'[k] = handler[k] \/ Current(handler[k])'
    BY <1>0, <2>1, <2>2 DEF Current, Decides
  <2> QED
    BY <2>3, <2>4, <2>6, StepQuorumInv
<1>4. ASSUME UNCHANGED <<handler, votes, config>>,
             \A q \in Requests :
               /\ request'[q].user = request[q].user
               /\ request'[q].target = request[q].target
               /\ request[q].status # "absent" => request'[q].status # "absent"
               /\ request'[q].status = "approved" => request[q].status = "approved"
      PROVE  QuorumInv'
  <2>1. RowsStay
    BY <1>4 DEF RowsStay
  <2> QED
    BY <1>4, <2>1, StepQuorumInv
<1>5. ASSUME NEW r \in Requests, NEW admin \in Admins, Revoke(r, admin)
      PROVE  QuorumInv'
  BY <1>0, <1>4, <1>5 DEF Revoke, Request, Row
<1>6. ASSUME NEW r \in Requests, NEW ttl \in TTLs, RenewApproval(r, ttl)
      PROVE  QuorumInv'
  BY <1>0, <1>4, <1>6 DEF RenewApproval, Request, Row
<1> QED
  BY <1>1, <1>2, <1>3, <1>5, <1>6 DEF Call

LEMMA HandlerQuorumInv ==
    ASSUME LinkInv, LinkInv', Undisturbed, QuorumInv,
           NEW h \in Handlers, HandlerStep(h) \/ Abort(h)
    PROVE  QuorumInv'
<1>0. /\ handler \in [Handlers -> Handler] /\ handler[h] \in Handler
      /\ request \in [Requests -> Request]
      /\ votes \subseteq Vote
      /\ Current(handler[h])
      /\ Linked(handler[h])
  BY DEF LinkInv, TypeOK, QuorumInv, CallsCurrent, DecidersLinked
<1>l. handler[h] \in Locals
  BY <1>0 DEF Handler
<1>r. Return(h) => /\ handler'[h] = Idle
                   /\ \A k \in Handlers : k # h => handler'[k] = handler[k]
  BY <1>0 DEF Return, Continue
<1>c. ASSUME NEW x, Continue(h, x)
      PROVE  /\ handler'[h] = x
             /\ \A k \in Handlers : k # h => handler'[k] = handler[k]
  BY <1>0, <1>c DEF Continue
<1>d. Decides(handler[h]) =>
        /\ handler[h].req \in Requests
        /\ request[handler[h].req].status # "absent"
        /\ request[handler[h].req].user = handler[h].user
        /\ request[handler[h].req].target = handler[h].target
  BY <1>0 DEF Handler, Decides, Current, Linked
<1>i. ASSUME handler'[h] = Idle,
             \A k \in Handlers : k # h => handler'[k] = handler[k],
             UNCHANGED <<votes, config>>,
             \A r \in Requests :
               /\ request'[r].user = request[r].user
               /\ request'[r].target = request[r].target
               /\ request[r].status # "absent" => request'[r].status # "absent"
               /\ request'[r].status = "approved" =>
                    request[r].status = "approved" \/ HasQuorum(r)'
      PROVE  QuorumInv'
  <2>1. RowsStay
    BY <1>i DEF RowsStay
  <2>2. Current(handler[h])'
    BY <1>i, IdleLinked DEF Current, Decides
  <2> QED
    BY <1>i, <2>1, <2>2, StepQuorumInv
<1>m. ASSUME Current(handler[h])', UNCHANGED <<request, votes, config>>,
             \A k \in Handlers : k # h => handler'[k] = handler[k]
      PROVE  QuorumInv'
  <2>1. RowsStay
    BY <1>m DEF RowsStay
  <2> QED
    BY <1>m, <2>1, StepQuorumInv
<1>1. CASE DecideLookup(h)
  <2>1. Decides(handler[h]) /\ UNCHANGED <<request, votes, config>>
    BY <1>1 DEF DecideLookup, At, Decides
  <2>2. CASE handler[h].target \in targets
    <3> DEFINE x == [handler[h] EXCEPT !.pc = "rule",
                                       !.groups = memberOf[handler[h].user]]
    <3>1. Continue(h, x)
      BY <1>1, <2>2 DEF DecideLookup
    <3>2. /\ x.req = handler[h].req /\ x.pc = "rule"
          /\ x.user = handler[h].user /\ x.groups = memberOf[handler[h].user]
      BY <1>l DEF Locals
    <3> HIDE DEF x
    <3>3. /\ handler'[h].req = handler[h].req /\ handler'[h].pc = "rule"
          /\ handler'[h].user = handler[h].user
          /\ handler'[h].groups = memberOf[handler[h].user]
          /\ \A k \in Handlers : k # h => handler'[k] = handler[k]
      BY <1>c, <3>1, <3>2
    <3>4. Current(handler[h])'
      BY <1>d, <2>1, <3>3 DEF Current, config
    <3> QED
      BY <1>m, <2>1, <3>3, <3>4
  <2>3. CASE handler[h].target \notin targets
    <3>1. Return(h)
      BY <1>1, <2>3 DEF DecideLookup
    <3> QED
      BY <1>i, <1>r, <2>1, <3>1
  <2> QED
    BY <2>2, <2>3
<1>2. CASE DecideRule(h)
  <2> DEFINE t == handler[h].target
             q == FindRule(matrix, KindOf[t], TierOf[t], handler[h].groups)
             x == [handler[h] EXCEPT !.pc = "authorize", !.groups = {},
                                     !.rule = q]
  <2>1. Decides(handler[h]) /\ UNCHANGED <<request, votes, config>>
    BY <1>2 DEF DecideRule, At, Decides
  <2>2. Continue(h, x)
    BY <1>2 DEF DecideRule
  <2>3. q = RuleOf(handler[h].req)
    BY <1>0, <1>2, <1>d, <2>1 DEF RuleOf, Current, DecideRule, At
  <2> HIDE DEF q
  <2>4. x.req = handler[h].req /\ x.pc = "authorize" /\ x.rule = q
    BY <1>l DEF Locals
  <2> HIDE DEF x
  <2>5. /\ handler'[h].req = handler[h].req /\ handler'[h].pc = "authorize"
        /\ handler'[h].rule = RuleOf(handler[h].req)
        /\ \A k \in Handlers : k # h => handler'[k] = handler[k]
    BY <1>c, <2>2, <2>3, <2>4
  <2>6. RuleOf(handler[h].req)' = RuleOf(handler[h].req)
    BY <2>1, <2>5 DEF RuleOf, config
  <2>7. Current(handler[h])'
    BY <1>d, <2>1, <2>5, <2>6 DEF Current
  <2> QED
    BY <1>m, <2>1, <2>5, <2>7
<1>3. CASE DecideAuthorize(h)
  <2> DEFINE x == [handler[h] EXCEPT !.pc = "vote"]
  <2>1. Decides(handler[h]) /\ UNCHANGED <<request, votes, config>>
    BY <1>3 DEF DecideAuthorize, At, Decides
  <2>2. CASE CanApprove(handler[h].caller, handler[h].rule)
    <3>1. Continue(h, x)
      BY <1>3, <2>2 DEF DecideAuthorize
    <3>2. /\ x.req = handler[h].req /\ x.pc = "vote"
          /\ x.rule = handler[h].rule /\ x.caller = handler[h].caller
      BY <1>l DEF Locals
    <3> HIDE DEF x
    <3>3. /\ handler'[h].req = handler[h].req /\ handler'[h].pc = "vote"
          /\ handler'[h].rule = handler[h].rule
          /\ handler'[h].caller = handler[h].caller
          /\ \A k \in Handlers : k # h => handler'[k] = handler[k]
      BY <1>c, <3>1, <3>2
    <3>4. handler[h].rule = RuleOf(handler[h].req)
      BY <1>0, <1>3 DEF DecideAuthorize, At, Current, Decides
    <3>5. RuleOf(handler[h].req)' = RuleOf(handler[h].req)
      BY <2>1, <3>3 DEF RuleOf, config
    <3>6. CanApprove(handler[h].caller, RuleOf(handler[h].req))'
      BY <2>1, <2>2, <3>3, <3>4, <3>5 DEF CanApprove, config
    <3>7. Current(handler[h])'
      BY <1>d, <2>1, <3>3, <3>4, <3>5, <3>6 DEF Current
    <3> QED
      BY <1>m, <2>1, <3>3, <3>7
  <2>3. CASE ~CanApprove(handler[h].caller, handler[h].rule)
    <3>1. Return(h)
      BY <1>3, <2>3 DEF DecideAuthorize
    <3> QED
      BY <1>i, <1>r, <2>1, <3>1
  <2> QED
    BY <2>2, <2>3
<1>4. CASE DecideVote(h)
  <2> DEFINE r == handler[h].req
             u == handler[h].caller
             v == [request |-> r, approver |-> u,
                   approve |-> handler[h].approve]
             x == [handler[h] EXCEPT !.pc = "tally"]
  <2>1. Decides(handler[h]) /\ UNCHANGED <<request, config>>
    BY <1>4 DEF DecideVote, At, Decides
  <2>2. CASE VoteAccepted(r, u)
    <3>1. votes' = votes \cup {v} /\ Continue(h, x)
      BY <1>4, <2>2 DEF DecideVote
    <3>2. /\ x.req = handler[h].req /\ x.pc = "tally"
          /\ x.rule = handler[h].rule /\ x.caller = handler[h].caller
      BY <1>l DEF Locals
    <3> HIDE DEF x
    <3>3. /\ handler'[h].req = handler[h].req /\ handler'[h].pc = "tally"
          /\ handler'[h].rule = handler[h].rule
          /\ handler'[h].caller = handler[h].caller
          /\ \A k \in Handlers : k # h => handler'[k] = handler[k]
      BY <1>c, <3>1, <3>2
    <3>4. /\ handler[h].rule = RuleOf(handler[h].req)
          /\ CanApprove(handler[h].caller, RuleOf(handler[h].req))
      BY <1>0, <1>4 DEF DecideVote, At, Current, Decides
    <3>5. RuleOf(handler[h].req)' = RuleOf(handler[h].req)
      BY <2>1, <3>3 DEF RuleOf, config
    <3>6. CanApprove(handler[h].caller, RuleOf(handler[h].req))'
      BY <2>1, <3>3, <3>4, <3>5 DEF CanApprove, config
    <3>7. Current(handler[h])'
      BY <1>d, <2>1, <3>3, <3>4, <3>5, <3>6 DEF Current
    <3>8. \A w \in votes' \ votes : CanApprove(w.approver, RuleOf(w.request))'
      <4>1. \A w \in votes' \ votes : w.approver = u /\ w.request = r
        BY <3>1
      <4> QED
        BY <3>3, <3>6, <4>1
    <3>9. RowsStay
      BY <2>1, <3>1 DEF RowsStay
    <3> QED
      BY <2>1, <3>3, <3>7, <3>8, <3>9, StepQuorumInv
  <2>3. CASE ~VoteAccepted(r, u)
    <3>1. Return(h) /\ UNCHANGED votes
      BY <1>4, <2>3 DEF DecideVote
    <3> QED
      BY <1>i, <1>r, <2>1, <3>1
  <2> QED
    BY <2>2, <2>3
<1>5. CASE DecideTally(h)
  <2> DEFINE verdict == Verdict(handler[h].req, handler[h].rule.required)
             x == [handler[h] EXCEPT !.pc = "finalize", !.verdict = verdict]
  <2>1. Decides(handler[h]) /\ UNCHANGED <<request, votes, config>>
    BY <1>5 DEF DecideTally, At, Decides
  <2>2. /\ handler[h].rule = RuleOf(handler[h].req)
        /\ CanApprove(handler[h].caller, RuleOf(handler[h].req))
    BY <1>0, <1>5 DEF DecideTally, At, Current, Decides
  <2>3. verdict = "approved" => HasQuorum(handler[h].req)
    BY <2>2 DEF Verdict, HasQuorum
  <2>4. CASE verdict # "none"
    <3>1. Continue(h, x)
      BY <1>5, <2>4 DEF DecideTally
    <3> HIDE DEF verdict
    <3>2. /\ x.req = handler[h].req /\ x.pc = "finalize"
          /\ x.rule = handler[h].rule /\ x.caller = handler[h].caller
          /\ x.verdict = verdict
      BY <1>l DEF Locals
    <3> HIDE DEF x
    <3>3. /\ handler'[h].req = handler[h].req /\ handler'[h].pc = "finalize"
          /\ handler'[h].rule = handler[h].rule
          /\ handler'[h].caller = handler[h].caller
          /\ handler'[h].verdict = verdict
          /\ \A k \in Handlers : k # h => handler'[k] = handler[k]
      BY <1>c, <3>1, <3>2
    <3>5. RuleOf(handler[h].req)' = RuleOf(handler[h].req)
      BY <2>1, <3>3 DEF RuleOf, config
    <3>6. CanApprove(handler[h].caller, RuleOf(handler[h].req))'
      BY <2>1, <2>2, <3>3, <3>5 DEF CanApprove, config
    <3>7. verdict = "approved" => HasQuorum(handler[h].req)'
      BY <2>1, <2>3, <3>3, <3>5 DEF HasQuorum, Approvals
    <3>8. Current(handler[h])'
      BY <1>d, <2>1, <2>2, <3>3, <3>5, <3>6, <3>7 DEF Current
    <3> QED
      BY <1>m, <2>1, <3>3, <3>8
  <2>5. CASE verdict = "none"
    <3>1. Return(h)
      BY <1>5, <2>5 DEF DecideTally
    <3> QED
      BY <1>i, <1>r, <2>1, <3>1
  <2> QED
    BY <2>4, <2>5
<1>6. CASE DecideFinalize(h)
  <2> DEFINE r == handler[h].req
             row == Finalized(request[r], handler[h].verdict, handler[h].caller)
  <2>1. /\ r \in Requests /\ request[r] \in Row
        /\ handler[h].verdict \in {"approved", "denied"}
    BY <1>0, <1>6 DEF DecideFinalize, At, Handler, Locals, Request
  <2>2. request' = [request EXCEPT ![r] = row]
    BY <1>0, <1>6, <2>1 DEF DecideFinalize
  <2>3. /\ row.user = request[r].user /\ row.target = request[r].target
        /\ row.status \in {request[r].status, handler[h].verdict}
        /\ row.status # "absent" <=> request[r].status # "absent"
    BY <2>1 DEF Finalized, Row
  <2> HIDE DEF row
  <2>4. /\ \A q \in Requests :
             /\ request'[q].user = request[q].user
             /\ request'[q].target = request[q].target
             /\ request[q].status # "absent" => request'[q].status # "absent"
        /\ \A q \in Requests : q # r => request'[q] = request[q]
        /\ request'[r].status \in {request[r].status, handler[h].verdict}
    BY <1>0, <2>1, <2>2, <2>3
  <2>5. UNCHANGED <<votes, config>> /\ Return(h)
    BY <1>6 DEF DecideFinalize
  <2>6. RowsStay
    BY <2>4, <2>5 DEF RowsStay
  <2>7. handler[h].verdict = "approved" => HasQuorum(r)
    BY <1>0, <1>6 DEF DecideFinalize, At, Current, Decides
  <2>8. \A q \in Requests : request'[q].status = "approved" =>
            request[q].status = "approved" \/ HasQuorum(q)'
    <3> SUFFICES ASSUME handler[h].verdict = "approved"
                 PROVE  \A q \in Requests : q = r => HasQuorum(q)'
      BY <2>4
    <3>1. request[r].status # "absent"
      BY <1>6, <1>d DEF DecideFinalize, At, Decides
    <3> QED
      BY <2>1, <2>6, <2>7, <3>1, RuleKept
  <2> QED
    BY <1>i, <1>r, <2>4, <2>5, <2>8
<1>7. CASE GrantSudoSet(h)
  <2>1. \A s \in Requests :
          /\ request'[s].status = request[s].status
          /\ request'[s].user = request[s].user
          /\ request'[s].target = request[s].target
    BY <1>0, <1>7 DEF GrantSudoSet, Request, Row
  <2>2. Return(h) /\ UNCHANGED <<votes, config>>
    BY <1>7 DEF GrantSudoSet
  <2> QED
    BY <1>i, <1>r, <2>1, <2>2
<1>8. CASE Abort(h)
  <2>1. Return(h) /\ UNCHANGED <<request, votes, config>>
    BY <1>8 DEF Abort
  <2> QED
    BY <1>i, <1>r, <2>1
<1> QED
  BY <1>1, <1>2, <1>3, <1>4, <1>5, <1>6, <1>7, <1>8 DEF HandlerStep

LEMMA NextQuorumInv ==
    LinkInv /\ LinkInv' /\ QuorumInv /\ [Next]_vars => QuorumInv'
<1> SUFFICES ASSUME LinkInv, LinkInv', QuorumInv, [Next]_vars, Undisturbed'
             PROVE  QuorumInv'
  BY DEF QuorumInv
<1>t. /\ edits \in Nat /\ blind \in Nat
      /\ request \in [Requests -> Request]
      /\ handler \in [Handlers -> Handler]
  BY DEF LinkInv, TypeOK
<1>1. ~Administer /\ \A h \in Handlers : ~DecideLookupBlind(h)
  <2>1. ~Edit
    BY <1>t DEF Edit, Undisturbed
  <2>2. Administer => Edit
    BY DEF Administer, MatrixCreate, MatrixUpdate, MatrixDelete, SetMemberships,
           DeleteUser, DeleteTarget
  <2>3. \A h \in Handlers : ~DecideLookupBlind(h)
    BY <1>t DEF DecideLookupBlind, Undisturbed
  <2> QED
    BY <2>1, <2>2, <2>3
<1>2. CASE Call
  <2>1. Undisturbed
    BY <1>2 DEF Call, Create, DecideGet, GrantSudoGet, Revoke, RenewApproval,
                counters, Undisturbed
  <2> QED
    BY <1>2, <2>1, CallQuorumInv
<1>3. ASSUME NEW h \in Handlers, HandlerStep(h) \/ Abort(h)
      PROVE  QuorumInv'
  <2>1. Undisturbed
    BY <1>3 DEF HandlerStep, DecideLookup, DecideRule, DecideAuthorize,
                DecideVote, DecideTally, DecideFinalize, GrantSudoSet, Abort,
                counters, Undisturbed
  <2> QED
    BY <1>3, <2>1, HandlerQuorumInv
<1>4. CASE Restart
  <2>1. Undisturbed /\ UNCHANGED <<votes, config>>
    BY <1>4 DEF Restart, Undisturbed
  <2>2. \A s \in Requests :
          /\ request'[s].status = request[s].status
          /\ request'[s].user = request[s].user
          /\ request'[s].target = request[s].target
    BY <1>t, <1>4 DEF Restart, Backfilled, Request, Row
  <2>3. RowsStay
    BY <2>1, <2>2 DEF RowsStay
  <2>4. \A h \in Handlers : Current(handler[h])'
    BY <1>4, IdleLinked DEF Restart, Current, Decides
  <2> QED
    BY <2>1, <2>2, <2>3, <2>4, StepQuorumInv
<1>5. CASE Tick \/ UNCHANGED vars
  <2>1. Undisturbed /\ UNCHANGED <<request, votes, handler, config>>
    BY <1>5 DEF Tick, vars, counters, Undisturbed
  <2>2. RowsStay
    BY <2>1 DEF RowsStay
  <2> QED
    BY <2>1, <2>2, StepQuorumInv
<1> QED
  BY <1>1, <1>2, <1>3, <1>4, <1>5 DEF Next

LEMMA QuorumInvariant == Spec => []QuorumInv
<1>1. Init => QuorumInv
  BY InitQuorumInv
<1>2. LinkInv /\ LinkInv' /\ QuorumInv /\ [Next]_vars => QuorumInv'
  BY NextQuorumInv
<1> QED
  BY <1>1, <1>2, LinkInvariant, PTL DEF Spec

\* Four eyes for every number of users, groups, requests, rules and concurrent
\* calls: while the configuration stands, an approved request has as many
\* approvals as its rule asks for, from different eligible approvers none of
\* whom filed it.
THEOREM FourEyes == Spec => []QuorumOfApprovers
<1>1. LinkInv /\ QuorumInv => QuorumOfApprovers
  <2> SUFFICES ASSUME LinkInv, QuorumInv, Undisturbed, NEW r \in Requests,
                      request[r].status = "approved"
               PROVE  /\ HasQuorum(r)
                      /\ \A v \in Approvals(r) :
                           /\ CanApprove(v.approver, RuleOf(r))
                           /\ v.approver # request[r].user
                           /\ \A w \in Approvals(r) :
                                w.approver = v.approver => w = v
    BY DEF QuorumOfApprovers
  <2>1. HasQuorum(r)
    BY DEF QuorumInv, ApprovedHaveQuorum
  <2>2. \A v \in Approvals(r) : v \in votes /\ v.request = r
    BY DEF Approvals
  <2>3. \A v \in Approvals(r) : CanApprove(v.approver, RuleOf(r))
    BY <2>2 DEF QuorumInv, VotesAuthorized
  <2>4. \A v \in Approvals(r) :
          /\ v.approver # request[r].user
          /\ \A w \in Approvals(r) : w.approver = v.approver => w = v
    BY <2>2 DEF LinkInv, VotesLinked
  <2> QED
    BY <2>1, <2>3, <2>4
<1> QED
  BY <1>1, LinkInvariant, QuorumInvariant, PTL

-----------------------------------------------------------------------------
(* No decision is lost.  A vote is counted by the call that casts it, and  *)
(* counting is one query: the last call to vote on a request sees them all. *)

\* What NoLostDecision says of one request.
Heard(r) ==
    request[r].status = "pending" /\ (Denials(r) # {} \/ HasQuorum(r)) => Deciding(r) # {}

\* A request that stays pending, with the votes it has and the calls at work on it.
LEMMA HeardKept ==
    ASSUME UNCHANGED config, NEW r \in Requests, Heard(r),
           Approvals(r)' = Approvals(r), Denials(r)' = Denials(r),
           request'[r].status = "pending" =>
               /\ request[r].status = "pending"
               /\ request'[r].user = request[r].user
               /\ request'[r].target = request[r].target,
           Deciding(r) \subseteq Deciding(r)'
    PROVE  Heard(r)'
<1> SUFFICES ASSUME request'[r].status = "pending"
             PROVE  Heard(r)'
  BY DEF Heard
<1>1. RuleOf(r)' = RuleOf(r)
  BY DEF RuleOf, config
<1>2. HasQuorum(r)' <=> HasQuorum(r)
  BY <1>1 DEF HasQuorum
<1> QED
  BY <1>2 DEF Heard

\* A request without votes is not decided: every rule asks for one at least.
LEMMA NoVotesNoQuorum ==
    ASSUME TypeOK, TypeOK', NEW r \in Requests, Approvals(r)' = {}
    PROVE  ~HasQuorum(r)'
<1>1. RuleOf(r)'.required \in Nat \ {0}
  <2>1. matrix' \in SUBSET MatrixRule
    BY DEF TypeOK
  <2>2. \A kind, tier, groups : FindRule(matrix', kind, tier, groups) \in Quorum
    BY <2>1, FindRuleType
  <2>3. RuleOf(r)' \in Quorum
    BY <2>2 DEF RuleOf
  <2> QED
    BY <2>3 DEF Quorum
<1>2. Cardinality(Approvals(r)') = 0
  BY FS_EmptySet
<1> QED
  BY <1>1, <1>2 DEF HasQuorum

\* Votes and requests stay, and one call that was not deciding moves.
LEMMA BystanderKeepsHeard ==
    ASSUME TypeOK, UNCHANGED <<config, votes>>, NEW h \in Handlers,
           handler[h].pc \notin {"tally", "finalize"},
           \A k \in Handlers : k # h => handler'[k] = handler[k],
           \A r \in Requests :
               /\ request'[r].status = request[r].status
               /\ request'[r].user = request[r].user
               /\ request'[r].target = request[r].target,
           \A r \in Requests : Heard(r)
    PROVE  \A r \in Requests : Heard(r)'
<1> SUFFICES ASSUME NEW r \in Requests PROVE Heard(r)'
  OBVIOUS
<1>1. Deciding(r) \subseteq Deciding(r)'
  BY DEF Deciding
<1>2. Approvals(r)' = Approvals(r) /\ Denials(r)' = Denials(r)
  BY DEF Approvals, Denials
<1> QED
  BY <1>1, <1>2, HeardKept

LEMMA CallKeepsHeard ==
    ASSUME LinkInv, LinkInv', Call, \A r \in Requests : Heard(r)
    PROVE  \A r \in Requests : Heard(r)'
<1>0. /\ handler \in [Handlers -> Handler] /\ request \in [Requests -> Request]
      /\ \A r \in Requests : request[r] \in Row
      /\ TypeOK /\ TypeOK'
  BY DEF LinkInv, TypeOK, Request
<1>1. ASSUME NEW u \in Users, NEW t \in Targets, NEW ttl \in TTLs,
             NEW sudo \in BOOLEAN, Create(u, t, ttl, sudo), NEW r \in Requests
      PROVE  Heard(r)'
  <2>1. UNCHANGED <<votes, handler, config>>
    BY <1>1 DEF Create
  <2>2. /\ Approvals(r)' = Approvals(r) /\ Denials(r)' = Denials(r)
        /\ Deciding(r)' = Deciding(r)
    BY <2>1 DEF Approvals, Denials, Deciding
  <2>3. CASE r # nextId
    <3>1. request'[r] = request[r]
      BY <1>0, <1>1, <2>3 DEF Create
    <3> QED
      BY <2>1, <2>2, <3>1, HeardKept
  <2>4. CASE r = nextId
    <3>1. request[r].status = "absent"
      BY <1>0, <2>4 DEF LinkInv, FreshIds, TypeOK
    <3>2. \A v \in votes : v.request # r
      BY <3>1 DEF LinkInv, VotesLinked
    <3>3. Approvals(r)' = {} /\ Denials(r)' = {}
      BY <2>1, <3>2 DEF Approvals, Denials
    <3> QED
      BY <1>0, <3>3, NoVotesNoQuorum DEF Heard
  <2> QED
    BY <2>3, <2>4
<1>2. ASSUME NEW h \in Handlers, NEW r \in Requests,
             \/ \E caller \in Users, yes \in BOOLEAN : DecideGet(h, r, caller, yes)
             \/ \E grant \in BOOLEAN : GrantSudoGet(h, r, grant)
      PROVE  \A q \in Requests : Heard(q)'
  <2>1. handler[h].pc = "idle" /\ UNCHANGED <<request, config, votes>>
    BY <1>2 DEF DecideGet, GrantSudoGet, At
  <2>2. \A k \in Handlers : k # h => handler'[k] = handler[k]
    BY <1>0, <1>2 DEF DecideGet, GrantSudoGet, Continue
  <2> QED
    BY <1>0, <2>1, <2>2, BystanderKeepsHeard
<1>3. ASSUME NEW r \in Requests,
             \/ \E admin \in Admins : Revoke(r, admin)
             \/ \E ttl \in TTLs : RenewApproval(r, ttl)
      PROVE  \A q \in Requests : Heard(q)'
  <2>1. /\ UNCHANGED <<votes, handler, config>>
        /\ \A q \in Requests : q # r => request'[q] = request[q]
        /\ request'[r].status # "pending"
    <3>1. ASSUME NEW admin \in Admins, Revoke(r, admin) PROVE <2>1
      BY <1>0, <3>1 DEF Revoke, Row
    <3>2. ASSUME NEW ttl \in TTLs, RenewApproval(r, ttl) PROVE <2>1
      BY <1>0, <3>2 DEF RenewApproval, Row
    <3> QED
      BY <1>3, <3>1, <3>2
  <2> SUFFICES ASSUME NEW q \in Requests PROVE Heard(q)'
    OBVIOUS
  <2>2. /\ Approvals(q)' = Approvals(q) /\ Denials(q)' = Denials(q)
        /\ Deciding(q)' = Deciding(q)
    BY <2>1 DEF Approvals, Denials, Deciding
  <2> QED
    BY <2>1, <2>2, HeardKept
<1> QED
  BY <1>1, <1>2, <1>3 DEF Call

LEMMA HandlerKeepsHeard ==
    ASSUME LinkInv, LinkInv', CallsCurrent, NEW h \in Handlers, HandlerStep(h),
           \A r \in Requests : Heard(r)
    PROVE  \A r \in Requests : Heard(r)'
<1>0. /\ handler \in [Handlers -> Handler] /\ request \in [Requests -> Request]
      /\ \A r \in Requests : request[r] \in Row
      /\ TypeOK /\ TypeOK'
  BY DEF LinkInv, TypeOK, Request
<1>1. ASSUME NEW x, Continue(h, x)
      PROVE  /\ handler'[h] = x
             /\ \A k \in Handlers : k # h => handler'[k] = handler[k]
  BY <1>0, <1>1 DEF Continue
<1>2. \A k \in Handlers : k # h => handler'[k] = handler[k]
  BY <1>0 DEF HandlerStep, DecideLookup, DecideRule, DecideAuthorize, DecideVote, DecideTally,
         DecideFinalize, GrantSudoSet, Continue, Return
<1>3. UNCHANGED config
  BY DEF HandlerStep, DecideLookup, DecideRule, DecideAuthorize, DecideVote, DecideTally,
         DecideFinalize, GrantSudoSet
<1> DEFINE r == handler[h].req
<1>4. CASE DecideLookup(h) \/ DecideRule(h) \/ DecideAuthorize(h)
  <2>1. handler[h].pc \notin {"tally", "finalize"} /\ UNCHANGED <<request, votes>>
    BY <1>4 DEF DecideLookup, DecideRule, DecideAuthorize, At
  <2> QED
    BY <1>0, <1>2, <1>3, <2>1, BystanderKeepsHeard
<1>5. CASE GrantSudoSet(h)
  <2>1. handler[h].pc \notin {"tally", "finalize"} /\ UNCHANGED votes
    BY <1>5 DEF GrantSudoSet, At
  <2>2. \A q \in Requests :
          /\ request'[q].status = request[q].status
          /\ request'[q].user = request[q].user
          /\ request'[q].target = request[q].target
    BY <1>0, <1>5 DEF GrantSudoSet, Row
  <2> QED
    BY <1>0, <1>2, <1>3, <2>1, <2>2, BystanderKeepsHeard
\* The call that votes goes on to count.
<1>6. CASE DecideVote(h)
  <2> DEFINE v == [request |-> r, approver |-> handler[h].caller,
                   approve |-> handler[h].approve]
             x == [handler[h] EXCEPT !.pc = "tally"]
  <2>1. UNCHANGED request /\ handler[h].pc = "vote"
    BY <1>6 DEF DecideVote, At
  <2>2. CASE ~VoteAccepted(r, handler[h].caller)
    <3>1. UNCHANGED votes
      BY <1>6, <2>2 DEF DecideVote
    <3> QED
      BY <1>0, <1>2, <1>3, <2>1, <3>1, BystanderKeepsHeard
  <2>3. CASE VoteAccepted(r, handler[h].caller)
    <3>1. votes' = votes \cup {v} /\ handler'[h] = x
      BY <1>1, <1>6, <2>3 DEF DecideVote
    <3>2. x.pc = "tally" /\ x.req = r /\ v.request = r
      BY <1>0 DEF Handler, Locals
    <3> HIDE DEF v, x
    <3> SUFFICES ASSUME NEW q \in Requests PROVE Heard(q)'
      OBVIOUS
    <3>3. CASE q = r
      <4>1. h \in Deciding(q)'
        BY <3>1, <3>2, <3>3 DEF Deciding
      <4> QED
        BY <4>1 DEF Heard
    <3>4. CASE q # r
      <4>1. Approvals(q)' = Approvals(q) /\ Denials(q)' = Denials(q)
        BY <3>1, <3>2, <3>4 DEF Approvals, Denials
      <4>2. Deciding(q) \subseteq Deciding(q)'
        BY <1>2, <3>4 DEF Deciding
      <4> QED
        BY <1>3, <2>1, <4>1, <4>2, HeardKept
    <3> QED
      BY <3>3, <3>4
  <2> QED
    BY <2>2, <2>3
\* The call that counts returns only when the votes do not decide.
<1>7. CASE DecideTally(h)
  <2> DEFINE verdict == Verdict(r, handler[h].rule.required)
             x == [handler[h] EXCEPT !.pc = "finalize", !.verdict = verdict]
  <2>1. UNCHANGED <<request, votes>> /\ handler[h].pc = "tally"
    BY <1>7 DEF DecideTally, At
  <2> SUFFICES ASSUME NEW q \in Requests PROVE Heard(q)'
    OBVIOUS
  <2>2. Approvals(q)' = Approvals(q) /\ Denials(q)' = Denials(q)
    BY <2>1 DEF Approvals, Denials
  <2>3. CASE q # r
    <3>1. Deciding(q) \subseteq Deciding(q)'
      BY <1>2, <2>3 DEF Deciding
    <3> QED
      BY <1>3, <2>1, <2>2, <3>1, HeardKept
  <2>4. CASE q = r /\ verdict # "none"
    <3>1. handler'[h] = x
      BY <1>1, <1>7, <2>4 DEF DecideTally
    <3>2. x.pc = "finalize" /\ x.req = r
      BY <1>0 DEF Handler, Locals
    <3> HIDE DEF x
    <3>3. h \in Deciding(q)'
      BY <2>4, <3>1, <3>2 DEF Deciding
    <3> QED
      BY <3>3 DEF Heard
  <2>5. CASE q = r /\ verdict = "none"
    <3>1. handler[h].rule = RuleOf(r)
      BY <2>1 DEF CallsCurrent, Current, Decides
    <3>2. RuleOf(q)' = RuleOf(q)
      BY <1>3, <2>1 DEF RuleOf, config
    <3>3. Cardinality(Denials(r)) <= 0 /\ ~(Cardinality(Approvals(r)) >= RuleOf(r).required)
      <4>1. IsFiniteSet(Denials(r))
        BY FS_Subset DEF LinkInv, VotesLinked, Denials
      <4>2. Cardinality(Denials(r)) \in Nat
        BY <4>1, FS_CardinalityType
      <4> QED
        BY <2>5, <3>1, <4>2 DEF Verdict
    <3>4. Denials(r) = {}
      <4>1. IsFiniteSet(Denials(r)) /\ Cardinality(Denials(r)) \in Nat
        BY FS_Subset, FS_CardinalityType DEF LinkInv, VotesLinked, Denials
      <4> QED
        BY <3>3, <4>1, FS_EmptySet
    <3>5. Denials(q)' = {} /\ ~HasQuorum(q)'
      BY <2>2, <2>5, <3>2, <3>3, <3>4 DEF HasQuorum
    <3> QED
      BY <3>5 DEF Heard
  <2> QED
    BY <2>3, <2>4, <2>5
\* The call that finalizes leaves the request decided, by itself or by another.
<1>8. CASE DecideFinalize(h)
  <2> DEFINE row == Finalized(request[r], handler[h].verdict, handler[h].caller)
  <2>1. r \in Requests /\ handler[h].verdict \in {"approved", "denied"}
    BY <1>0, <1>8 DEF DecideFinalize, At, Handler, Locals
  <2>2. row.status # "pending"
    BY <1>0, <2>1 DEF Finalized, Row
  <2>3. UNCHANGED votes /\ request' = [request EXCEPT ![r] = row]
    BY <1>0, <1>8, <2>1 DEF DecideFinalize
  <2> HIDE DEF row
  <2> SUFFICES ASSUME NEW q \in Requests PROVE Heard(q)'
    OBVIOUS
  <2>4. Approvals(q)' = Approvals(q) /\ Denials(q)' = Denials(q)
    BY <2>3 DEF Approvals, Denials
  <2>5. CASE q = r
    <3>1. request'[q].status # "pending"
      BY <1>0, <2>1, <2>2, <2>3, <2>5
    <3> QED
      BY <3>1 DEF Heard
  <2>6. CASE q # r
    <3>1. request'[q] = request[q] /\ Deciding(q) \subseteq Deciding(q)'
      BY <1>0, <1>2, <2>3, <2>6 DEF Deciding
    <3> QED
      BY <1>3, <2>4, <3>1, HeardKept
  <2> QED
    BY <2>5, <2>6
<1> QED
  BY <1>4, <1>5, <1>6, <1>7, <1>8 DEF HandlerStep

LEMMA NextKeepsDecisions ==
    ASSUME LinkInv, LinkInv', QuorumInv, NoLostDecision, [Next]_vars
    PROVE  NoLostDecision'
<1> SUFFICES ASSUME Uninterrupted' PROVE \A r \in Requests : Heard(r)'
  BY DEF NoLostDecision, Heard
<1>0. edits \in Nat /\ aborts \in Nat /\ restarts \in Nat /\ blind \in Nat
  BY DEF LinkInv, TypeOK
<1>1. /\ ~Administer /\ ~Restart
      /\ \A h \in Handlers : ~DecideLookupBlind(h) /\ ~Abort(h)
  <2>1. ~Edit
    BY <1>0 DEF Edit, Uninterrupted, Undisturbed
  <2>2. Administer => Edit
    BY DEF Administer, MatrixCreate, MatrixUpdate, MatrixDelete, SetMemberships,
           DeleteUser, DeleteTarget
  <2>3. ~Restart
    BY <1>0 DEF Restart, Uninterrupted
  <2>4. \A h \in Handlers : ~DecideLookupBlind(h)
    BY <1>0 DEF DecideLookupBlind, Uninterrupted, Undisturbed
  <2>5. \A h \in Handlers : ~Abort(h)
    BY <1>0 DEF Abort, Uninterrupted
  <2> QED
    BY <2>1, <2>2, <2>3, <2>4, <2>5
<1>2. UNCHANGED counters
  BY <1>1 DEF Next, Call, Create, DecideGet, GrantSudoGet, Revoke, RenewApproval,
              HandlerStep, DecideLookup, DecideRule, DecideAuthorize, DecideVote,
              DecideTally, DecideFinalize, GrantSudoSet, Tick, vars
<1>3. Uninterrupted /\ CallsCurrent /\ \A r \in Requests : Heard(r)
  BY <1>2 DEF Uninterrupted, Undisturbed, counters, QuorumInv, NoLostDecision, Heard
<1>4. CASE Call
  BY <1>3, <1>4, CallKeepsHeard
<1>5. CASE \E h \in Handlers : HandlerStep(h)
  BY <1>3, <1>5, HandlerKeepsHeard
<1>6. CASE Tick \/ UNCHANGED vars
  <2>1. UNCHANGED <<request, votes, handler, config>>
    BY <1>6 DEF Tick, vars
  <2> QED
    BY <1>3, <2>1, HeardKept DEF Approvals, Denials, Deciding
<1> QED
  BY <1>1, <1>4, <1>5, <1>6 DEF Next

\* While nothing is edited and no call is cut off, however the statements of any
\* number of Decide calls interleave: a pending request whose votes decide it has
\* a call at work that will.  Two calls that vote at the same time cannot both
\* miss the other's vote, because each votes before it counts.
THEOREM NoDecisionIsLost == Spec => []NoLostDecision
<1>1. Init => NoLostDecision
  BY DEF Init, NoLostDecision, NoRequest
<1>2. LinkInv /\ LinkInv' /\ QuorumInv /\ NoLostDecision /\ [Next]_vars => NoLostDecision'
  BY NextKeepsDecisions
<1> QED
  BY <1>1, <1>2, LinkInvariant, QuorumInvariant, PTL DEF Spec

-----------------------------------------------------------------------------
(* Deadlines.  A row's lifetime is positive from the start, and whatever   *)
(* makes it approved stamps it with the time.                              *)

Expiring(row, t) ==
    /\ row.status # "absent" => row.ttl > 0
    /\ row.status = "approved" => row.decided \in 0..t

ExpiryInv == \A r \in Requests : Expiring(request[r], now)

\* OrDefault raises what a client sends to a positive number of seconds.
LEMMA OrDefaultPositive ==
    ASSUME NEW ttl \in Int, NEW default \in Nat \ {0}
    PROVE  OrDefault(ttl, default) \in Nat \ {0}
BY DEF OrDefault

LEMMA FinalizedExpiring ==
    ASSUME NEW row \in Request, NEW verdict \in {"approved", "denied"},
           NEW by \in Users \cup {NoUser}, now \in Nat, Expiring(row, now)
    PROVE  Expiring(Finalized(row, verdict, by), now)
<1>1. CASE row.status # "pending"
  BY <1>1 DEF Finalized
<1>2. CASE row.status = "pending"
  <2> DEFINE s == IF verdict = "approved" THEN row.sudoRequested ELSE row.sudoGranted
             x == [row EXCEPT !.status = verdict, !.approver = by, !.decided = now,
                              !.sudoGranted = s]
  <2>1. x.status = verdict /\ x.decided = now /\ x.ttl = row.ttl
    BY DEF Request, Row
  <2>2. Finalized(row, verdict, by) = x
    BY <1>2 DEF Finalized, Request, Row
  <2> HIDE DEF x
  <2> QED
    BY <1>2, <2>1, <2>2 DEF Expiring
<1> QED
  BY <1>1, <1>2

\* The rows stay what they are for the clock and the access check.
LEMMA RowsExpiring ==
    ASSUME TypeOK, ExpiryInv, now' = now \/ now' = now + 1,
           \A r \in Requests :
               \/ Expiring(request'[r], now)
               \/ /\ request'[r].status \in {request[r].status, "absent"}
                  /\ request'[r].ttl = request[r].ttl
                  /\ request'[r].decided = request[r].decided
               \/ request'[r].status = "absent"
    PROVE  ExpiryInv'
<1> SUFFICES ASSUME NEW r \in Requests PROVE Expiring(request'[r], now')
  BY DEF ExpiryInv
<1>1. Expiring(request[r], now) /\ now \in Nat
  BY DEF ExpiryInv, TypeOK
<1>2. Expiring(request'[r], now)
  BY <1>1 DEF Expiring
<1> QED
  BY <1>1, <1>2 DEF Expiring

LEMMA NextExpiryInv == TypeOK /\ ExpiryInv /\ [Next]_vars => ExpiryInv'
<1> SUFFICES ASSUME TypeOK, ExpiryInv, [Next]_vars PROVE ExpiryInv'
  OBVIOUS
<1>0. /\ request \in [Requests -> Request] /\ now \in Nat
      /\ \A r \in Requests : request[r] \in Row
      /\ handler \in [Handlers -> Handler]
  BY DEF TypeOK, Request
<1>u. ASSUME UNCHANGED request, now' = now \/ now' = now + 1 PROVE ExpiryInv'
  BY <1>u, RowsExpiring
<1>1. ASSUME NEW u \in Users, NEW t \in Targets, NEW ttl \in TTLs,
             NEW sudo \in BOOLEAN, Create(u, t, ttl, sudo)
      PROVE  ExpiryInv'
  <2> DEFINE l == OrDefault(ttl, DefaultTTL)
             row == [status |-> "pending", user |-> u, target |-> t,
                     approver |-> NoUser, decided |-> NullTime, ttl |-> l,
                     sudoRequested |-> sudo, sudoGranted |-> FALSE]
  <2>1. l \in Nat \ {0}
    BY OrDefaultPositive, ApprovalAssumption
  <2>2. request' = [request EXCEPT ![nextId] = row] /\ now' = now
    BY <1>1 DEF Create
  <2> HIDE DEF l
  <2>3. Expiring(row, now)
    BY <2>1 DEF Expiring
  <2> HIDE DEF row
  <2> QED
    BY <1>0, <2>2, <2>3 DEF ExpiryInv
<1>2. ASSUME NEW r \in Requests, NEW ttl \in TTLs, RenewApproval(r, ttl)
      PROVE  ExpiryInv'
  <2> DEFINE l == OrDefault(ttl, RenewTTL)
             row == [request[r] EXCEPT !.decided = now, !.ttl = l]
  <2>1. l \in Nat \ {0}
    BY OrDefaultPositive, ApprovalAssumption
  <2>2. request' = [request EXCEPT ![r] = row] /\ now' = now
    BY <1>0, <1>2 DEF RenewApproval
  <2> HIDE DEF l
  <2>3. row.decided = now /\ row.ttl = l
    BY <1>0 DEF Row
  <2> HIDE DEF row
  <2>4. Expiring(row, now)
    BY <1>0, <2>1, <2>3 DEF Expiring
  <2> QED
    BY <1>0, <2>2, <2>4 DEF ExpiryInv
<1>3. ASSUME NEW r \in Requests, NEW admin \in Admins, Revoke(r, admin)
      PROVE  ExpiryInv'
  <2> DEFINE row == [request[r] EXCEPT !.status = "denied",
                                       !.approver = admin, !.decided = now]
  <2>1. request' = [request EXCEPT ![r] = row] /\ now' = now
    BY <1>0, <1>3 DEF Revoke
  <2>2. row.status = "denied" /\ row.ttl = request[r].ttl /\ request[r].status = "approved"
    BY <1>0, <1>3 DEF Row, Revoke
  <2> HIDE DEF row
  <2>3. Expiring(row, now)
    BY <2>2 DEF Expiring, ExpiryInv
  <2> QED
    BY <1>0, <2>1, <2>3 DEF ExpiryInv
<1>4. ASSUME NEW h \in Handlers, DecideFinalize(h)
      PROVE  ExpiryInv'
  <2> DEFINE r == handler[h].req
             row == Finalized(request[r], handler[h].verdict, handler[h].caller)
  <2>1. /\ r \in Requests
        /\ handler[h].verdict \in {"approved", "denied"}
        /\ handler[h].caller \in Users \cup {NoUser}
    BY <1>0, <1>4 DEF DecideFinalize, At, Handler, Locals
  <2>2. Expiring(row, now)
    BY <1>0, <2>1, FinalizedExpiring DEF ExpiryInv
  <2>3. request' = [request EXCEPT ![r] = row] /\ now' = now
    BY <1>0, <1>4, <2>1 DEF DecideFinalize
  <2> HIDE DEF row
  <2> QED
    BY <1>0, <2>1, <2>2, <2>3 DEF ExpiryInv
<1>5. CASE Restart \/ (\E h \in Handlers : GrantSudoSet(h))
  <2>1. \A r \in Requests :
          /\ request'[r].status = request[r].status
          /\ request'[r].ttl = request[r].ttl
          /\ request'[r].decided = request[r].decided
    <3>1. CASE Restart
      BY <1>0, <3>1 DEF Restart, Backfilled, Row
    <3>2. ASSUME NEW h \in Handlers, GrantSudoSet(h) PROVE <2>1
      BY <1>0, <3>2 DEF GrantSudoSet, Row
    <3> QED
      BY <1>5, <3>1, <3>2
  <2>2. now' = now
    BY <1>5 DEF Restart, GrantSudoSet
  <2> QED
    BY <2>1, <2>2, RowsExpiring
<1>6. CASE Administer
  <2>1. now' = now
    BY <1>6 DEF Administer, MatrixCreate, MatrixUpdate, MatrixDelete, SetMemberships,
                DeleteUser, DeleteTarget, Edit
  <2>2. CASE UNCHANGED request
    BY <1>u, <2>1, <2>2
  <2>3. CASE (\E u \in Users : DeleteUser(u)) \/ (\E t \in Targets : DeleteTarget(t))
    <3>1. \A r \in Requests :
            \/ request'[r].status = "absent"
            \/ /\ request'[r].status = request[r].status
               /\ request'[r].ttl = request[r].ttl
               /\ request'[r].decided = request[r].decided
      BY <1>0, <2>3 DEF DeleteUser, DeleteTarget, NoRequest, Row
    <3> QED
      BY <2>1, <3>1, RowsExpiring
  <2> QED
    BY <1>6, <2>2, <2>3 DEF Administer, MatrixCreate, MatrixUpdate, MatrixDelete, SetMemberships
<1>7. CASE UNCHANGED vars \/ Tick
  BY <1>u, <1>7 DEF vars, Tick
<1>8. ASSUME NEW h \in Handlers,
             \/ DecideLookup(h) \/ DecideLookupBlind(h) \/ DecideRule(h)
             \/ DecideAuthorize(h) \/ DecideVote(h) \/ DecideTally(h) \/ Abort(h)
             \/ \E r \in Requests, caller \in Users, yes \in BOOLEAN :
                    DecideGet(h, r, caller, yes)
             \/ \E r \in Requests, grant \in BOOLEAN : GrantSudoGet(h, r, grant)
      PROVE  ExpiryInv'
  <2>1. UNCHANGED <<request, now>>
    BY <1>8 DEF DecideLookup, DecideLookupBlind, DecideRule, DecideAuthorize, DecideVote,
                DecideTally, Abort, DecideGet, GrantSudoGet
  <2> QED
    BY <1>u, <2>1
<1> QED
  BY <1>1, <1>2, <1>3, <1>4, <1>5, <1>6, <1>7, <1>8 DEF Next, Call, HandlerStep

LEMMA ExpiryInvariant == Spec => []ExpiryInv
<1>1. Init => ExpiryInv
  BY DEF Init, ExpiryInv, Expiring, NoRequest
<1>2. TypeOK /\ ExpiryInv /\ [Next]_vars => ExpiryInv'
  BY NextExpiryInv
<1> QED
  BY <1>1, <1>2, TypeCorrect, PTL DEF Spec

LEMMA ExpiryImplies == TypeOK /\ ExpiryInv => GrantsExpire
<1> SUFFICES ASSUME TypeOK, ExpiryInv PROVE GrantsExpire
  OBVIOUS
<1>1. \A r \in Requests :
        request[r].status = "approved" => request[r].decided \in 0..now /\ request[r].ttl > 0
  BY DEF ExpiryInv, Expiring
<1>2. ASSUME NEW u \in Users, NEW t \in Targets, IsApproved(u, t) \/ ActiveSudoGranted(u, t)
      PROVE  \E r \in ApprovedRequests(u, t) : now < request[r].decided + request[r].ttl
  <2>1. PICK r \in ApprovedRequests(u, t) : GrantActive(request[r])
    BY <1>2 DEF IsApproved, ActiveSudoGranted, Newest
  <2>2. request[r].decided # NullTime
    BY <1>1, <2>1 DEF ApprovedRequests, NullTime, TypeOK
  <2> QED
    BY <2>1, <2>2 DEF GrantActive
<1> QED
  BY <1>1, <1>2 DEF GrantsExpire

\* No grant is immortal: finalize, RenewApproval and Create never leave an
\* approved request without a decision time in the past and a positive
\* lifetime, so whoever passes the access check has a grant that ends.
THEOREM EveryGrantExpires == Spec => []GrantsExpire
BY TypeCorrect, ExpiryInvariant, ExpiryImplies, PTL

-----------------------------------------------------------------------------
(* The workflow implements the access grant.  Every row has its entry in   *)
(* the ledger, and a step moves each entry along its life or not at all.   *)

\* The ledger's entry for a row; used: its id has been given out.
Entry(row, used) ==
    [state |-> IF row.status = "pending" THEN "open"
               ELSE IF row.status = "approved" THEN "granted"
               ELSE IF row.status = "denied" THEN "closed"
               ELSE IF used THEN "erased" ELSE "unused",
     holder |-> row.user,
     ends |-> IF row.status = "approved" THEN row.decided + row.ttl ELSE 0,
     sudo |-> row.sudoGranted]

Entries == [r \in Requests |-> Entry(request[r], r < nextId)]

\* What the refinement needs: deadlines, fresh ids, rows that are gone hold
\* nothing, and GrantSudo writes to no request that was never granted.
Gone == \A r \in Requests : request[r].status = "absent" => request[r] = NoRequest

SudoAimed ==
    \A h \in Handlers :
        handler[h].pc = "grantsudo" =>
            /\ handler[h].req < nextId
            /\ request[handler[h].req].status # "pending"

\* The refinement mapping of Approval, entry by entry, before and after a step.
LEMMA LedgerIsEntries ==
    ASSUME TypeOK, TypeOK'
    PROVE  /\ [r \in Requests |->
                 [state |-> Life(r), holder |-> request[r].user,
                  ends |-> IF request[r].status = "approved"
                           THEN request[r].decided + request[r].ttl ELSE 0,
                  sudo |-> request[r].sudoGranted]] = Entries
           /\ [r \in Requests |->
                 [state |-> Life(r), holder |-> request[r].user,
                  ends |-> IF request[r].status = "approved"
                           THEN request[r].decided + request[r].ttl ELSE 0,
                  sudo |-> request[r].sudoGranted]]' = Entries'
<1>1. \A r \in Requests : Life(r) = Entry(request[r], r < nextId).state
  BY DEF Life, Entry
<1>2. \A r \in Requests : Life(r)' = Entry(request[r], r < nextId)'.state
  BY DEF Life, Entry
<1> QED
  BY <1>1, <1>2 DEF Entries, Entry

LEMMA EntryTyped ==
    ASSUME NEW row \in Request, NEW t \in Nat, NEW used \in BOOLEAN, Expiring(row, t)
    PROVE  Entry(row, used) \in Ledger!Grant
<1>1. row.status = "approved" => row.decided + row.ttl \in Nat
  BY DEF Expiring, Request, Row
<1>2. row.user \in Users \cup {NoUser} /\ row.sudoGranted \in BOOLEAN
  BY DEF Request, Row
<1> QED
  BY <1>1, <1>2 DEF Entry, Ledger!Grant, Ledger!State

\* The moves of the ledger, as changes of a row.
RowMoved(a, b) ==
    /\ b.user = a.user
    /\ \/ a.status = "pending" /\ b.status = "approved"
       \/ /\ a.status \in {"pending", "approved"} /\ b.status = "denied"
          /\ b.sudoGranted = a.sudoGranted
       \/ /\ a.status = "approved" /\ b.status = "approved"
          /\ b.sudoGranted = a.sudoGranted
       \/ /\ a.status \in {"approved", "denied"} /\ b.status = a.status
          /\ b.decided = a.decided /\ b.ttl = a.ttl

LEMMA RowMoves ==
    ASSUME NEW a \in Row, NEW b \in Row, NEW used \in BOOLEAN, RowMoved(a, b)
    PROVE  Ledger!Move(Entry(a, used), Entry(b, used))
<1> DEFINE x == Entry(a, used)
           y == Entry(b, used)
<1>u. b.user = a.user
  BY DEF RowMoved
<1>1. CASE a.status = "pending" /\ b.status = "approved"
  <2>1. Ledger!Granted(x, y)
    BY <1>u, <1>1 DEF Entry, Ledger!Granted
  <2> QED
    BY <2>1 DEF Ledger!Move
<1>2. CASE /\ a.status \in {"pending", "approved"} /\ b.status = "denied"
           /\ b.sudoGranted = a.sudoGranted
  <2>1. Ledger!Closed(x, y)
    <3> DEFINE s == IF a.status = "pending" THEN "open" ELSE "granted"
               e == IF a.status = "approved" THEN a.decided + a.ttl ELSE 0
               h == a.user
               d == a.sudoGranted
               state == "closed"
               ends == 0
               z == [state |-> state, holder |-> h, ends |-> e, sudo |-> d]
    <3>1. x = [state |-> s, holder |-> h, ends |-> e, sudo |-> d]
      BY <1>u, <1>2 DEF Entry
    <3>2. y = [state |-> state, holder |-> h, ends |-> ends, sudo |-> d]
      BY <1>u, <1>2 DEF Entry
    <3>3. x.state \in {"open", "granted"}
      BY <3>1
    <3> HIDE DEF x, y, s, e, h, d, state, ends
    <3>4. [x EXCEPT !.state = state] = z
      BY <3>1
    <3>5. [z EXCEPT !.ends = ends] = y
      BY <3>2
    <3> HIDE DEF z
    <3>6. [x EXCEPT !.state = state, !.ends = ends] = [[x EXCEPT !.state = state] EXCEPT !.ends = ends]
      OBVIOUS
    <3>7. y = [x EXCEPT !.state = state, !.ends = ends]
      BY <3>4, <3>5, <3>6
    <3> QED
      BY <3>3, <3>7 DEF Ledger!Closed, state, ends
  <2> QED
    BY <2>1 DEF Ledger!Move
<1>3. CASE /\ a.status = "approved" /\ b.status = "approved"
           /\ b.sudoGranted = a.sudoGranted
  <2>1. Ledger!Renewed(x, y)
    BY <1>u, <1>3 DEF Entry, Ledger!Renewed
  <2> QED
    BY <2>1 DEF Ledger!Move
<1>4. CASE /\ a.status \in {"approved", "denied"} /\ b.status = a.status
           /\ b.decided = a.decided /\ b.ttl = a.ttl
  <2>1. Ledger!SudoSet(x, y)
    BY <1>u, <1>4 DEF Entry, Ledger!SudoSet
  <2> QED
    BY <2>1 DEF Ledger!Move
<1> QED
  BY <1>1, <1>2, <1>3, <1>4 DEF RowMoved

\* A row that is deleted, and a row that is filed under a fresh id.
LEMMA RowErased ==
    ASSUME NEW row \in Row, row.status # "absent"
    PROVE  Ledger!Move(Entry(row, TRUE), Entry(NoRequest, TRUE))
<1>1. Ledger!Erased(Entry(row, TRUE), Entry(NoRequest, TRUE))
  BY DEF Entry, NoRequest, Ledger!Erased
<1> QED
  BY <1>1 DEF Ledger!Move

LEMMA RowFiled ==
    ASSUME NEW row \in Row, row.status = "pending", ~row.sudoGranted
    PROVE  Ledger!Move(Entry(NoRequest, FALSE), Entry(row, TRUE))
<1>1. Ledger!Filed(Entry(NoRequest, FALSE), Entry(row, TRUE))
  BY DEF Entry, NoRequest, Ledger!Filed
<1> QED
  BY <1>1 DEF Ledger!Move

\* The refinement step, from what a step does to each row.
LEMMA RowStep ==
    ASSUME LinkInv, LinkInv', ExpiryInv, ExpiryInv', Gone, nextId' >= nextId,
           \A r \in Requests :
               \/ Entry(request'[r], r < nextId') = Entry(request[r], r < nextId)
               \/ Ledger!Move(Entry(request[r], r < nextId), Entry(request'[r], r < nextId'))
    PROVE  Ledger!Next
<1>0. TypeOK /\ TypeOK'
  BY DEF LinkInv
<1>1. Entries' = [r \in Requests |-> Entry(request'[r], r < nextId')]
  BY DEF Entries
<1>2. \A r \in Requests : Entry(request'[r], r < nextId') \in Ledger!Grant
  <2> SUFFICES ASSUME NEW r \in Requests
               PROVE  Entry(request'[r], r < nextId') \in Ledger!Grant
    OBVIOUS
  <2>1. /\ request'[r] \in Request /\ now' \in Nat
        /\ Expiring(request'[r], now') /\ (r < nextId') \in BOOLEAN
    BY <1>0 DEF TypeOK, ExpiryInv
  <2> QED
    BY <2>1, EntryTyped
<1>3. Entries' \in [Requests -> Ledger!Grant]
  BY <1>1, <1>2
<1>4. \A r \in Requests : Entries'[r] = Entries[r] \/ Ledger!Move(Entries[r], Entries'[r])
  BY <1>1 DEF Entries
<1> QED
  BY <1>0, <1>3, <1>4, LedgerIsEntries DEF Ledger!Next

\* What a step may do to the row of a request, and to the id counter.
Kept(r) == request'[r] = request[r] /\ (r < nextId' <=> r < nextId)

Filed(r) ==
    /\ r = nextId /\ nextId' = nextId + 1
    /\ request'[r].status = "pending" /\ ~request'[r].sudoGranted

Moved(r) == nextId' = nextId /\ RowMoved(request[r], request'[r])

Deleted(r) ==
    /\ nextId' = nextId
    /\ request[r].status # "absent" /\ request'[r] = NoRequest

Unsigned(r) ==
    /\ nextId' = nextId
    /\ request'[r] = [request[r] EXCEPT !.approver = NoUser]

RowFollows(r) == Kept(r) \/ Filed(r) \/ Moved(r) \/ Deleted(r) \/ Unsigned(r)

\* GrantSudo's handler knows a request that was granted.
SudoKnown(h) ==
    handler'[h].pc = "grantsudo" =>
        \/ handler'[h] = handler[h]
        \/ request[handler'[h].req].status = "approved" /\ handler'[h].req \in Requests

\* finalize, by the status the row has by then.
LEMMA FinalizedMoves ==
    ASSUME NEW row \in Request, NEW verdict \in {"approved", "denied"},
           NEW by \in Users \cup {NoUser}
    PROVE  Finalized(row, verdict, by) = row \/ RowMoved(row, Finalized(row, verdict, by))
<1> SUFFICES ASSUME row.status = "pending"
             PROVE  RowMoved(row, Finalized(row, verdict, by))
  BY DEF Finalized
<1> DEFINE s == IF verdict = "approved" THEN row.sudoRequested ELSE row.sudoGranted
           x == [row EXCEPT !.status = verdict, !.approver = by, !.decided = now,
                            !.sudoGranted = s]
<1>1. Finalized(row, verdict, by) = x
  BY DEF Finalized, Request, Row
<1>2. x.user = row.user /\ x.status = verdict /\ (verdict = "denied" => x.sudoGranted = row.sudoGranted)
  BY DEF Request, Row
<1> HIDE DEF x
<1> QED
  BY <1>1, <1>2 DEF RowMoved

LEMMA NextFollows ==
    ASSUME LinkInv, Gone, SudoAimed, [Next]_vars
    PROVE  /\ \A r \in Requests : RowFollows(r)
           /\ \A h \in Handlers : SudoKnown(h)
<1>0. /\ request \in [Requests -> Request] /\ handler \in [Handlers -> Handler]
      /\ \A r \in Requests : request[r] \in Row
      /\ nextId \in Nat
  BY DEF LinkInv, TypeOK, Request
<1>k. ASSUME UNCHANGED handler PROVE \A h \in Handlers : SudoKnown(h)
  BY <1>k DEF SudoKnown
<1>c. ASSUME NEW h \in Handlers, NEW x, Continue(h, x), x.pc # "grantsudo"
      PROVE  \A k \in Handlers : SudoKnown(k)
  BY <1>0, <1>c DEF Continue, SudoKnown
<1>i. ASSUME NEW h \in Handlers, Return(h)
      PROVE  \A k \in Handlers : SudoKnown(k)
  BY <1>c, <1>i DEF Return, Idle
<1>u. ASSUME UNCHANGED <<request, nextId>> PROVE \A r \in Requests : RowFollows(r)
  BY <1>u DEF RowFollows, Kept
<1>1. ASSUME NEW u \in Users, NEW t \in Targets, NEW ttl \in TTLs,
             NEW sudo \in BOOLEAN, Create(u, t, ttl, sudo)
      PROVE  \A r \in Requests : RowFollows(r)
  <2>1. /\ \A r \in Requests : r # nextId => request'[r] = request[r]
        /\ nextId \in Requests /\ nextId' = nextId + 1
        /\ request'[nextId].status = "pending" /\ ~request'[nextId].sudoGranted
    BY <1>0, <1>1 DEF Create
  <2> QED
    BY <1>0, <2>1 DEF RowFollows, Kept, Filed, Requests
<1>2. ASSUME NEW r \in Requests, NEW admin \in Admins, Revoke(r, admin)
      PROVE  \A q \in Requests : RowFollows(q)
  <2>1. /\ \A q \in Requests : q # r => request'[q] = request[q]
        /\ request[r].status = "approved" /\ request'[r].status = "denied"
        /\ request'[r].user = request[r].user
        /\ request'[r].sudoGranted = request[r].sudoGranted /\ nextId' = nextId
    BY <1>0, <1>2 DEF Revoke, Row
  <2> QED
    BY <2>1 DEF RowFollows, Kept, Moved, RowMoved
<1>3. ASSUME NEW r \in Requests, NEW ttl \in TTLs, RenewApproval(r, ttl)
      PROVE  \A q \in Requests : RowFollows(q)
  <2>1. /\ \A q \in Requests : q # r => request'[q] = request[q]
        /\ request[r].status = "approved" /\ request'[r].status = "approved"
        /\ request'[r].user = request[r].user
        /\ request'[r].sudoGranted = request[r].sudoGranted /\ nextId' = nextId
    BY <1>0, <1>3 DEF RenewApproval, Row
  <2> QED
    BY <2>1 DEF RowFollows, Kept, Moved, RowMoved
<1>4. ASSUME NEW h \in Handlers, DecideFinalize(h)
      PROVE  \A q \in Requests : RowFollows(q)
  <2> DEFINE r == handler[h].req
             row == Finalized(request[r], handler[h].verdict, handler[h].caller)
  <2>1. /\ r \in Requests
        /\ handler[h].verdict \in {"approved", "denied"}
        /\ handler[h].caller \in Users \cup {NoUser}
    BY <1>0, <1>4 DEF DecideFinalize, At, Handler, Locals
  <2>2. row = request[r] \/ RowMoved(request[r], row)
    BY <1>0, <2>1, FinalizedMoves
  <2>3. request' = [request EXCEPT ![r] = row] /\ nextId' = nextId
    BY <1>0, <1>4, <2>1 DEF DecideFinalize
  <2> HIDE DEF row
  <2> QED
    BY <1>0, <2>1, <2>2, <2>3 DEF RowFollows, Kept, Moved
<1>5. ASSUME NEW h \in Handlers, GrantSudoSet(h)
      PROVE  \A q \in Requests : RowFollows(q)
  <2> DEFINE r == handler[h].req
             row == [request[r] EXCEPT !.sudoGranted = handler[h].approve]
  <2>1. r \in Requests /\ request[r].status # "pending"
    BY <1>0, <1>5 DEF GrantSudoSet, At, Handler, SudoAimed
  <2>2. /\ row.user = request[r].user /\ row.status = request[r].status
        /\ row.decided = request[r].decided /\ row.ttl = request[r].ttl
    BY <1>0, <2>1 DEF Row
  <2>3. /\ \A q \in Requests : q # r => request'[q] = request[q]
        /\ request'[r] = (IF request[r].status = "absent" THEN request[r] ELSE row)
        /\ nextId' = nextId
    BY <1>0, <1>5, <2>1 DEF GrantSudoSet
  <2> HIDE DEF row
  <2>4. RowFollows(r)
    BY <1>0, <2>1, <2>2, <2>3 DEF RowFollows, Kept, Moved, RowMoved, Row, Status
  <2> QED
    BY <2>3, <2>4 DEF RowFollows, Kept
<1>6. ASSUME Restart
      PROVE  \A q \in Requests : RowFollows(q)
  <2>1. \A r \in Requests : request[r].status # "approved" => request'[r] = request[r]
    <3> SUFFICES ASSUME NEW r \in Requests, request[r].status # "approved"
                 PROVE  request'[r] = request[r]
      OBVIOUS
    <3>1. request'[r] = [request[r] EXCEPT !.sudoGranted = request[r].sudoGranted]
      BY <1>0, <1>6 DEF Restart, Backfilled, Row
    <3> QED
      BY <1>0, <3>1 DEF Row
  <2>2. \A r \in Requests :
          /\ request'[r].user = request[r].user /\ request'[r].status = request[r].status
          /\ request'[r].decided = request[r].decided /\ request'[r].ttl = request[r].ttl
    BY <1>0, <1>6 DEF Restart, Backfilled, Row
  <2>3. nextId' = nextId
    BY <1>6 DEF Restart
  <2> QED
    BY <2>1, <2>2, <2>3 DEF RowFollows, Kept, Moved, RowMoved
<1>7. CASE Administer
  <2>1. UNCHANGED <<nextId, handler>>
    BY <1>7 DEF Administer, MatrixCreate, MatrixUpdate, MatrixDelete, SetMemberships,
                DeleteUser, DeleteTarget, Edit
  <2>2. \A r \in Requests :
          request[r].status = "absent" => request[r].user = NoUser /\ request[r].target = NoTarget
    BY DEF Gone, NoRequest
  <2>3. ASSUME NEW u \in Users, DeleteUser(u), NEW r \in Requests PROVE RowFollows(r)
    <3>1. request[r].user = u => request[r].status # "absent"
      BY <2>2, ApprovalAssumption
    <3> QED
      BY <2>1, <2>3, <3>1 DEF DeleteUser, RowFollows, Kept, Deleted, Unsigned
  <2>4. ASSUME NEW t \in Targets, DeleteTarget(t), NEW r \in Requests PROVE RowFollows(r)
    <3>1. request[r].target = t => request[r].status # "absent"
      BY <2>2, ApprovalAssumption
    <3> QED
      BY <2>1, <2>4, <3>1 DEF DeleteTarget, RowFollows, Kept, Deleted
  <2>5. UNCHANGED request => \A r \in Requests : RowFollows(r)
    BY <1>u, <2>1
  <2> QED
    BY <1>7, <1>k, <2>1, <2>3, <2>4, <2>5
       DEF Administer, MatrixCreate, MatrixUpdate, MatrixDelete, SetMemberships
<1>8. CASE Call
  <2>1. \A r \in Requests : RowFollows(r)
    BY <1>8, <1>1, <1>2, <1>3, <1>u DEF Call, DecideGet, GrantSudoGet
  <2>2. ASSUME NEW h \in Handlers, NEW r \in Requests, NEW caller \in Users,
               NEW yes \in BOOLEAN, DecideGet(h, r, caller, yes)
        PROVE  \A k \in Handlers : SudoKnown(k)
    <3> DEFINE x == [Idle EXCEPT !.pc = "lookup", !.req = r, !.caller = caller,
                                 !.approve = yes, !.user = request[r].user,
                                 !.target = request[r].target]
    <3>1. Continue(h, x) /\ x.pc # "grantsudo"
      BY <2>2 DEF DecideGet, Idle
    <3> HIDE DEF x
    <3> QED
      BY <1>c, <3>1
  <2>3. ASSUME NEW h \in Handlers, NEW r \in Requests, NEW grant \in BOOLEAN,
               GrantSudoGet(h, r, grant)
        PROVE  \A k \in Handlers : SudoKnown(k)
    <3> DEFINE x == [Idle EXCEPT !.pc = "grantsudo", !.req = r, !.approve = grant]
    <3>1. handler' = [handler EXCEPT ![h] = x] /\ x.req = r /\ request[r].status = "approved"
      BY <2>3 DEF GrantSudoGet, Continue, Idle
    <3> HIDE DEF x
    <3> QED
      BY <1>0, <3>1 DEF SudoKnown
  <2>4. CASE UNCHANGED handler
    BY <1>k, <2>1, <2>4
  <2> QED
    BY <1>8, <2>1, <2>2, <2>3, <2>4 DEF Call, Create, Revoke, RenewApproval
<1>9. ASSUME NEW h \in Handlers, HandlerStep(h) \/ DecideLookupBlind(h) \/ Abort(h)
      PROVE  (\A r \in Requests : RowFollows(r)) /\ (\A k \in Handlers : SudoKnown(k))
  <2>1. \A r \in Requests : RowFollows(r)
    BY <1>9, <1>4, <1>5, <1>u
       DEF HandlerStep, DecideLookup, DecideLookupBlind, DecideRule, DecideAuthorize,
           DecideVote, DecideTally, Abort
  <2>2. ASSUME NEW x, Continue(h, x), x.pc # "grantsudo"
        PROVE  \A k \in Handlers : SudoKnown(k)
    BY <1>c, <2>2
  <2>3. CASE Return(h)
    BY <1>i, <2>1, <2>3
  <2>4. handler[h] \in Locals
    BY <1>0 DEF Handler
  <2>5. CASE DecideLookup(h) \/ DecideLookupBlind(h) \/ DecideRule(h) \/ DecideTally(h)
    <3> DEFINE p == [handler[h] EXCEPT !.pc = "rule", !.groups = memberOf[handler[h].user]]
               b == [handler[h] EXCEPT !.pc = "rule", !.groups = {}]
               t == handler[h].target
               q == FindRule(matrix, KindOf[t], TierOf[t], handler[h].groups)
               a == [handler[h] EXCEPT !.pc = "authorize", !.groups = {}, !.rule = q]
               v == Verdict(handler[h].req, handler[h].rule.required)
               f == [handler[h] EXCEPT !.pc = "finalize", !.verdict = v]
    <3> HIDE DEF q, v
    <3>1. /\ p.pc # "grantsudo" /\ b.pc # "grantsudo"
          /\ a.pc # "grantsudo" /\ f.pc # "grantsudo"
      BY <2>4 DEF Locals
    <3>2. Return(h) \/ Continue(h, p) \/ Continue(h, b) \/ Continue(h, a) \/ Continue(h, f)
      BY <2>5 DEF DecideLookup, DecideLookupBlind, DecideRule, DecideTally, q, v
    <3> HIDE DEF p, b, a, f
    <3> QED
      BY <2>1, <2>2, <2>3, <3>1, <3>2
  <2>6. CASE DecideAuthorize(h) \/ DecideVote(h)
    <3> DEFINE v == [handler[h] EXCEPT !.pc = "vote"]
               t == [handler[h] EXCEPT !.pc = "tally"]
    <3>1. v.pc # "grantsudo" /\ t.pc # "grantsudo"
      BY <2>4 DEF Locals
    <3>2. Return(h) \/ Continue(h, v) \/ Continue(h, t)
      BY <2>6 DEF DecideAuthorize, DecideVote
    <3> HIDE DEF v, t
    <3> QED
      BY <2>1, <2>2, <2>3, <3>1, <3>2
  <2>7. CASE DecideFinalize(h) \/ GrantSudoSet(h) \/ Abort(h)
    BY <2>3, <2>7 DEF DecideFinalize, GrantSudoSet, Abort
  <2> QED
    BY <1>9, <2>1, <2>5, <2>6, <2>7 DEF HandlerStep
<1>10. CASE Tick \/ UNCHANGED vars
  BY <1>10, <1>k, <1>u DEF Tick, vars
<1>11. CASE Restart
  BY <1>6, <1>11 DEF Restart, SudoKnown, Idle
<1> QED
  BY <1>7, <1>8, <1>9, <1>10, <1>11 DEF Next

LEMMA NextGoneSudo ==
    ASSUME LinkInv, Gone, SudoAimed, [Next]_vars
    PROVE  Gone' /\ SudoAimed' /\ nextId' >= nextId
<1>0. /\ request \in [Requests -> Request] /\ handler \in [Handlers -> Handler]
      /\ \A r \in Requests : request[r] \in Row
      /\ nextId \in Nat
  BY DEF LinkInv, TypeOK, Request
<1>1. (\A r \in Requests : RowFollows(r)) /\ (\A h \in Handlers : SudoKnown(h))
  BY NextFollows
<1>2. nextId' \in {nextId, nextId + 1}
  BY DEF Next, Call, Create, DecideGet, GrantSudoGet, Revoke, RenewApproval, HandlerStep,
         DecideLookup, DecideLookupBlind, DecideRule, DecideAuthorize, DecideVote, DecideTally,
         DecideFinalize, GrantSudoSet, Abort, Restart, Tick, Administer, MatrixCreate,
         MatrixUpdate, MatrixDelete, SetMemberships, DeleteUser, DeleteTarget, Edit, vars
<1>3. Gone'
  <2> SUFFICES ASSUME NEW r \in Requests, request'[r].status = "absent"
               PROVE  request'[r] = NoRequest
    BY DEF Gone
  <2>1. Unsigned(r) => request'[r].status = request[r].status
    BY <1>0 DEF Unsigned, Row
  <2>2. request[r].status = "absent" => request[r] = NoRequest /\ NoRequest.approver = NoUser
    BY DEF Gone, NoRequest
  <2>3. request[r].status = "absent" /\ Unsigned(r) => request'[r] = NoRequest
    BY <2>2 DEF Unsigned, NoRequest
  <2> QED
    BY <1>1, <2>1, <2>2, <2>3 DEF RowFollows, Kept, Filed, Moved, RowMoved, Deleted
<1>4. SudoAimed'
  <2> SUFFICES ASSUME NEW h \in Handlers, handler'[h].pc = "grantsudo"
               PROVE  handler'[h].req < nextId' /\ request'[handler'[h].req].status # "pending"
    BY DEF SudoAimed
  <2> DEFINE r == handler'[h].req
  <2>1. r \in Requests /\ r < nextId /\ request[r].status # "pending"
    <3>1. CASE handler'[h] = handler[h]
      BY <1>0, <3>1 DEF SudoAimed, Handler
    <3>2. CASE request[r].status = "approved" /\ r \in Requests
      BY <1>0, <3>2 DEF LinkInv, FreshIds, Requests
    <3> QED
      BY <1>1, <3>1, <3>2 DEF SudoKnown
  <2>2. Unsigned(r) => request'[r].status = request[r].status
    BY <1>0, <2>1 DEF Unsigned, Row
  <2>3. RowFollows(r) /\ ~Filed(r)
    BY <1>0, <1>1, <2>1 DEF Filed, Requests
  <2>4. request'[r].status # "pending"
    BY <2>1, <2>2, <2>3 DEF RowFollows, Kept, Moved, RowMoved, Deleted, NoRequest
  <2> QED
    BY <1>0, <1>2, <2>1, <2>4 DEF Requests
<1> QED
  BY <1>0, <1>2, <1>3, <1>4

\* What happens to a row is a move of its entry, or leaves the entry alone.
LEMMA RowIsEntryStep ==
    ASSUME LinkInv, LinkInv', Gone, NEW r \in Requests, RowFollows(r)
    PROVE  \/ Entry(request'[r], r < nextId') = Entry(request[r], r < nextId)
           \/ Ledger!Move(Entry(request[r], r < nextId), Entry(request'[r], r < nextId'))
<1>0. /\ request[r] \in Row /\ request'[r] \in Row
      /\ nextId \in Nat /\ nextId' \in Nat /\ r \in Nat
  BY DEF LinkInv, TypeOK, Request, Requests
<1>1. CASE Kept(r)
  BY <1>0, <1>1 DEF Kept, Entry
<1>2. CASE Filed(r)
  <2>1. request[r] = NoRequest
    BY <1>0, <1>2 DEF Filed, LinkInv, FreshIds, Gone
  <2>2. (r < nextId) = FALSE /\ (r < nextId') = TRUE
    BY <1>0, <1>2 DEF Filed
  <2> QED
    BY <1>0, <1>2, <2>1, <2>2, RowFiled DEF Filed
<1>3. CASE Moved(r)
  <2> DEFINE used == r < nextId
  <2>1. used \in BOOLEAN
    BY <1>0
  <2> HIDE DEF used
  <2>2. Ledger!Move(Entry(request[r], used), Entry(request'[r], used))
    BY <1>0, <1>3, <2>1, RowMoves DEF Moved
  <2> QED
    BY <1>3, <2>2 DEF Moved, used
<1>4. CASE Deleted(r)
  <2>1. (r < nextId) = TRUE /\ (r < nextId') = TRUE
    BY <1>0, <1>4 DEF Deleted, LinkInv, FreshIds
  <2> QED
    BY <1>0, <1>4, <2>1, RowErased DEF Deleted
<1>5. CASE Unsigned(r)
  <2>1. /\ request'[r].status = request[r].status /\ request'[r].user = request[r].user
        /\ request'[r].decided = request[r].decided /\ request'[r].ttl = request[r].ttl
        /\ request'[r].sudoGranted = request[r].sudoGranted /\ nextId' = nextId
    BY <1>0, <1>5 DEF Unsigned, Row
  <2> QED
    BY <2>1 DEF Entry
<1> QED
  BY <1>1, <1>2, <1>3, <1>4, <1>5 DEF RowFollows

LEMMA InitLedger == Init => Ledger!Init /\ Gone /\ SudoAimed
<1> SUFFICES ASSUME Init PROVE Ledger!Init /\ Gone /\ SudoAimed
  OBVIOUS
<1>1. Gone /\ SudoAimed
  BY DEF Init, Gone, SudoAimed, Idle
<1>2. \A r \in Requests : r >= 1 /\ request[r] = NoRequest /\ nextId = 1
  BY DEF Init, Requests
<1>3. \A r \in Requests :
        /\ Life(r) = "unused" /\ request[r].user = NoUser /\ request[r].status # "approved"
        /\ request[r].sudoGranted = FALSE
  <2> SUFFICES ASSUME NEW r \in Requests
               PROVE  /\ Life(r) = "unused" /\ request[r].user = NoUser
                      /\ request[r].status # "approved" /\ request[r].sudoGranted = FALSE
    OBVIOUS
  <2>1. /\ request[r].status = "absent" /\ request[r].user = NoUser
        /\ request[r].sudoGranted = FALSE
    BY <1>2 DEF NoRequest
  <2>2. ~(r < nextId)
    BY <1>2 DEF Requests
  <2> QED
    BY <2>1, <2>2 DEF Life
<1>4. Ledger!Init
  BY <1>3 DEF Ledger!Init, Ledger!Grant, Ledger!State
<1> QED
  BY <1>1, <1>4

\* The access workflow is an access grant: filed once under a fresh id, granted
\* only while open, closed for good, its deadline moved only while granted, sudo
\* only after a grant; with any interleaving of Decide, GrantSudo, Revoke and
\* RenewApproval calls, restarts, and deletions of users and targets.
THEOREM ImplementsGrant == Spec => ImplementsAccessGrant
<1> DEFINE Inv == LinkInv /\ ExpiryInv /\ Gone /\ SudoAimed
<1>1. Init => Ledger!Init
  BY InitLedger
<1>2. Inv /\ Inv' /\ [Next]_vars => Ledger!Next
  <2> SUFFICES ASSUME Inv, Inv', [Next]_vars PROVE Ledger!Next
    OBVIOUS
  <2>1. \A r \in Requests : RowFollows(r)
    BY NextFollows
  <2>2. \A r \in Requests :
          \/ Entry(request'[r], r < nextId') = Entry(request[r], r < nextId)
          \/ Ledger!Move(Entry(request[r], r < nextId), Entry(request'[r], r < nextId'))
    BY <2>1, RowIsEntryStep
  <2>3. nextId' >= nextId
    BY NextGoneSudo
  <2> QED
    BY <2>2, <2>3, RowStep
<1>3. Spec => []Inv
  <2>1. Init => Gone /\ SudoAimed
    BY InitLedger
  <2>2. LinkInv /\ Gone /\ SudoAimed /\ [Next]_vars => Gone' /\ SudoAimed'
    BY NextGoneSudo
  <2> QED
    BY <2>1, <2>2, LinkInvariant, ExpiryInvariant, PTL DEF Spec
<1> QED
  BY <1>1, <1>2, <1>3, PTL DEF Spec, ImplementsAccessGrant, Ledger!Spec
=============================================================================
