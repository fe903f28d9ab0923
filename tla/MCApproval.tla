----------------------------- MODULE MCApproval -----------------------------
(* Small instances of Approval for TLC. *)
EXTENDS Approval, TLC

CONSTANTS ann, bob, cy,    \* users
          router, netops   \* a target and a group

MCUsers == {ann, bob, cy}
MCAdmins == {ann, bob}
MCTargets == {router}
MCGroups == {netops}
MCKinds == {"cisco-ios", "cisco", "*"}
MCFamily == [k \in MCKinds |-> IF k = "cisco-ios" THEN "cisco" ELSE k]
MCKindOf == [x \in MCTargets |-> "cisco-ios"]
MCTierOf == [x \in MCTargets |-> 1]
MCTTLs == {-1}

\* Two approvals by members of netops when one of them asks for a Cisco device.
TwoOfGroup ==
    [kind |-> "cisco", tierMin |-> 0, tierMax |-> 1, required |-> 2,
     requesters |-> {netops}, approvers |-> {netops}, priority |-> 100, enabled |-> TRUE]

\* A rule submitted without kind, count or groups; it matches everything.
Blank ==
    [kind |-> NoKind, tierMin |-> 0, tierMax |-> 3, required |-> 0,
     requesters |-> {}, approvers |-> {}, priority |-> 0, enabled |-> TRUE]

MCRuleForms == {Blank}
MCMatrices == {{}, {NewRule(1, TwoOfGroup)}}
MCMembers == {[x \in MCUsers |-> {netops}]}

\* Goroutines are interchangeable.
HandlerSymmetry == Permutations(Handlers)
=============================================================================
