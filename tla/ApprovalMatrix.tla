--------------------------- MODULE ApprovalMatrix ---------------------------
(***************************************************************************)
(* The approval matrix (internal/approval/matrix.go): the rules that say   *)
(* how many approvals a request needs and which groups may give them.     *)
(* Pure operators over a set of rules; the table itself is a variable of   *)
(* the module Approval.                                                    *)
(***************************************************************************)
EXTENDS Integers

CONSTANTS
    Groups,      \* group ids
    Kinds,       \* target kinds, families and "*"
    Family,      \* Family[k]: k up to its first "-"
    RuleIds,     \* ids the approval_matrix table may hand out
    RuleForms    \* rule bodies an administrator may submit

AnyKind == "*"
NoKind == "unset"      \* the empty string

\* A rule body as decoded from the request: counts are not yet clamped and
\* the kind may be empty.
RuleForm ==
    [kind: Kinds \cup {NoKind}, tierMin: Int, tierMax: Int, required: Int,
     requesters: SUBSET Groups, approvers: SUBSET Groups,
     priority: Int, enabled: BOOLEAN]

\* A row of approval_matrix.
MatrixRule ==
    [id: RuleIds, kind: Kinds \cup {NoKind}, tierMin: Int, tierMax: Int,
     required: Nat \ {0}, requesters: SUBSET Groups,
     approvers: SUBSET Groups, priority: Int, enabled: BOOLEAN]

ASSUME MatrixAssumption ==
    /\ RuleIds \subseteq Nat
    /\ AnyKind \in Kinds
    /\ Family \in [Kinds -> Kinds]
    /\ RuleForms \subseteq RuleForm

\* The row a body becomes: required_approvals is raised to at least 1.
Stored(id, form, kind) ==
    [id |-> id, kind |-> kind, tierMin |-> form.tierMin,
     tierMax |-> form.tierMax,
     required |-> IF form.required < 1 THEN 1 ELSE form.required,
     requesters |-> form.requesters, approvers |-> form.approvers,
     priority |-> form.priority, enabled |-> form.enabled]

\* Create also replaces an empty kind by "*"; Update stores the kind as sent.
NewRule(id, form) ==
    Stored(id, form, IF form.kind = NoKind THEN AnyKind ELSE form.kind)

\* The WHERE clause of FindRule and its filter on the requester's groups.
Matches(rule, kind, tier, groups) ==
    /\ rule.enabled
    /\ rule.kind \in {kind, Family[kind], AnyKind}
    /\ rule.tierMin <= tier /\ tier <= rule.tierMax
    /\ rule.requesters = {} \/ rule.requesters \cap groups # {}

Specificity(rule, kind) ==
    IF rule.kind = kind THEN 0 ELSE IF rule.kind = Family[kind] THEN 1 ELSE 2

\* ORDER BY specificity, priority, id.
Precedes(r, s, kind) ==
    LET a == Specificity(r, kind)
        b == Specificity(s, kind)
    IN  \/ a < b
        \/ a = b /\ r.priority < s.priority
        \/ a = b /\ r.priority = s.priority /\ r.id <= s.id

\* The part of a rule that Decide uses.
Quorum == [required: Nat \ {0}, approvers: SUBSET Groups]

\* What Decide assumes when FindRule returns no rule: one approval by an
\* administrator.
DefaultQuorum == [required |-> 1, approvers |-> {}]

\* FindRule: the first row, in the query's order, that matches.
FindRule(matrix, kind, tier, groups) ==
    LET candidates == {r \in matrix : Matches(r, kind, tier, groups)}
        first(r) == \A s \in candidates : Precedes(r, s, kind)
    IN  IF \E r \in candidates : first(r)
        THEN LET r == CHOOSE r \in candidates : first(r)
             IN  [required |-> r.required, approvers |-> r.approvers]
        ELSE DefaultQuorum
=============================================================================
