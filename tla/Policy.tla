------------------------------- MODULE Policy -------------------------------
(***************************************************************************)
(* The authorization engine (internal/policy): which rule of the policies  *)
(* table speaks for a role on a kind of device, how the rules of several   *)
(* roles make one decision, and the privileges a decision carries.  The    *)
(* engine reads one rule per role, each in a query of its own; modules     *)
(* that use it take those reads as separate steps.                         *)
(***************************************************************************)
EXTENDS CiscoCli, Integers, FiniteSets

CONSTANTS Roles,           \* role names
          Kinds,           \* kinds of devices and of rules; "*" and "linux" among them
          Family,          \* [Kinds -> Kinds]: the vendor root, "cisco-ios" -> "cisco"
          LinuxFamilies,   \* the families that rules for "linux" cover
          Patterns,        \* command prefixes the rules list
          Seeds            \* the default rules, without ids

Tiers == 0 .. 3            \* T0 = critical ... T3 = development
NoTier == 4                \* the host is not in the inventory

\* A row of the policies table; linux is 0 (none), 1 (sudo) or 2 (root), cisco
\* is an IOS level or 0 (unset).  UNIQUE(role, target_kind) is not declared.
Rule == [id : Nat, role : Roles, kind : Kinds, tier : Tiers, approval : BOOLEAN,
         allow : SUBSET Patterns, deny : SUBSET Patterns, linux : 0 .. 2, cisco : 0 .. 15]

\* What an administrator fills in: a rule before it has an id, with one of the
\* portal's tiers, its IOS level not yet brought into range.
RuleForm == [role : Roles, kind : Kinds, tier : Tiers, approval : BOOLEAN,
             allow : SUBSET Patterns, deny : SUBSET Patterns, linux : 0 .. 2, cisco : Int]

Decision == [allowed : BOOLEAN, approval : BOOLEAN, allow : SUBSET Patterns,
             deny : SUBSET Patterns, linux : 0 .. 2, cisco : 0 .. 15]

NoDecision == [allowed |-> FALSE, approval |-> FALSE, allow |-> {}, deny |-> {},
               linux |-> 0, cisco |-> 0]

\* policyMatchKinds.
MatchKinds(kind) ==
    {kind, Family[kind], "*"} \cup (IF Family[kind] \in LinuxFamilies THEN {"linux"} ELSE {})

\* ORDER BY CASE target_kind: exact kind, family, "linux", the rest.
Distance(kind, of) ==
    CASE of = kind -> 0
      [] of # kind /\ of = Family[kind] -> 1
      [] of # kind /\ of # Family[kind] /\ of = "linux" -> 2
      [] OTHER -> 3

\* LIMIT 1: any of the closest rules of the role; rows that tie may come in any order.
Governing(rows, role, kind) ==
    LET rs == {r \in rows : r.role = role /\ r.kind \in MatchKinds(kind)}
    IN  {r \in rs : \A s \in rs : Distance(kind, r.kind) <= Distance(kind, s.kind)}

Larger(a, b) == IF a > b THEN a ELSE b

\* One turn of the loop: a rule that reaches the device's tier is added to the
\* decision, the rest of the roles' rules have no say.  (MergeLinuxPrivilege
\* and MergeCiscoPrivilegeLevel keep the higher level.)
Joined(dec, rule, tier) ==
    IF tier <= rule.tier
    THEN [allowed  |-> TRUE,
          approval |-> dec.approval \/ rule.approval,
          allow    |-> dec.allow \cup rule.allow,
          deny     |-> dec.deny \cup rule.deny,
          linux    |-> Larger(dec.linux, rule.linux),
          cisco    |-> Larger(dec.cisco, rule.cisco)]
    ELSE dec

IosLevel_Unclamped(n) == n

\* NormalizeCiscoPrivilegeLevel.
IosLevel(n) == IF n <= 0 THEN 0 ELSE IF n > 15 THEN 15 ELSE n

\* CiscoPrivilegeFromRole.
CiscoPrivilegeFromRole(role) ==
    CASE role \in {"admin", "secops"} -> 15
      [] role = "netops" -> 10
      [] OTHER -> 1

\* EffectiveCiscoPrivilege.
EffectiveCiscoPrivilege(dec, role) ==
    IF dec.cisco > 0 THEN dec.cisco ELSE CiscoPrivilegeFromRole(role)

IsCiscoKind(kind) == Family[kind] = "cisco"

-----------------------------------------------------------------------------
(* The table's upkeep.  A form is a rule without its id.                   *)

\* CreateRule.
WithRule(rows, id, form) ==
    rows \cup {[id |-> id, role |-> form.role, kind |-> form.kind, tier |-> form.tier,
                approval |-> form.approval, allow |-> form.allow, deny |-> form.deny,
                linux |-> form.linux, cisco |-> IosLevel(form.cisco)]}

\* UpdateRule writes every column of the row; it finds no row, no change.
WithUpdate(rows, id, form) ==
    IF \E r \in rows : r.id = id
    THEN WithRule({r \in rows : r.id # id}, id, form) ELSE rows

\* DeleteRule.
WithoutRule(rows, id) == {r \in rows : r.id # id}

\* migrateAdminTierMax, on every start of the policy service.
Migrated(rows) ==
    {IF r.role = "admin" /\ r.kind = "*" THEN [r EXCEPT !.tier = 3] ELSE r : r \in rows}

\* Rules for the given forms, with ids that are not in use.
Inserted(rows, forms) ==
    LET top == CHOOSE n \in {0} \cup {r.id : r \in rows} : \A r \in rows : r.id <= n
        nr == CHOOSE f \in [forms -> 1 .. Cardinality(forms)] :
                  \A x, y \in forms : f[x] = f[y] => x = y
    IN  rows \cup UNION {WithRule({}, top + nr[x], x) : x \in forms}

\* seedPolicies: the defaults, into an empty table.
Seeded(rows) == IF rows = {} THEN Inserted(rows, Seeds) ELSE rows

\* ensureUserPolicies: the defaults of role "user", when it has no rule.
WithUserRules(rows) ==
    IF \E r \in rows : r.role = "user" THEN rows
    ELSE Inserted(rows, {s \in Seeds : s.role = "user"})

\* What a start of the policy service leaves in the table.
Started(rows) == Migrated(WithUserRules(Seeded(rows)))
=============================================================================
