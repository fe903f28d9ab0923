---------------------------- MODULE MCSshAccess ----------------------------
(* Small instances of SshAccess for TLC: a Linux machine and a switch, and  *)
(* two users whose logins name the same local account.                      *)
EXTENDS SshAccess, TLC

CONSTANTS ann, dup,     \* users
          box, sw       \* targets

MCUsers == {ann, dup}
MCHosts == {box, sw}
MCLogins == {"ann", "dup"}
MCOwnerOf == [l \in MCLogins |-> IF l = "ann" THEN ann ELSE dup]
MCNames == {"a"}
MCNameOf == [l \in MCLogins |-> "a"]
MCKindOf == [h \in MCHosts |-> IF h = box THEN "ubuntu" ELSE "cisco"]

MCRoles == {"netops", "user"}
MCKinds == {"ubuntu", "linux", "cisco", "*"}
MCFamily == [k \in MCKinds |-> k]
MCLinux == {"ubuntu", "linux"}

Form(role, kind, tier, approval, linux) ==
    [role |-> role, kind |-> kind, tier |-> tier, approval |-> approval, allow |-> {},
     deny |-> {}, linux |-> linux, cisco |-> 0]

MCForms == {Form("netops", "linux", 3, FALSE, 1)}
MCRules == WithRule(WithRule({}, 1, Form("user", "*", 3, TRUE, 0)),
                                 2, Form("netops", "linux", 1, FALSE, 1))

Request(u, at, sudo, active) ==
    [user |-> u, host |-> box, at |-> at, sudo |-> sudo, active |-> active]

Tabled(gs, ps) ==
    [account    |-> [u \in MCUsers |-> "enabled"],
     role       |-> [u \in MCUsers |-> "user"],
     granted    |-> [u \in MCUsers |-> {}],
     tier       |-> [h \in MCHosts |-> 1],
     rules      |-> MCRules,
     birthright |-> {<<dup, box>>},
     grants     |-> gs,
     priv       |-> ps]

\* An older grant of sudo below a newer request that ended; a request that
\* ended; and no privileged accounts at all.
MCTables ==
    {Tabled({Request(ann, 1, TRUE, TRUE), Request(ann, 2, FALSE, FALSE)}, MCHosts),
     Tabled({Request(ann, 1, FALSE, FALSE)}, MCHosts),
     Tabled({Request(ann, 1, FALSE, TRUE)}, {})}

Machine(pw, sudo) ==
    [h \in MCHosts |-> [n \in MCNames |->
        [pw |-> pw, sudo |-> sudo, by |-> NoConn, earned |-> sudo]]]

MCMachines == {Machine("no account", FALSE), Machine(ann, TRUE)}

In(login, host, via, right, pw) ==
    [login |-> login, host |-> host, via |-> via, right |-> right, pw |-> pw]

MCInputs ==
    {In("ann", box, "native", TRUE, TRUE), In("dup", box, "native", TRUE, TRUE),
     In("ann", sw, "native", TRUE, TRUE), In("ann", box, "native", FALSE, TRUE),
     In("ann", box, "browser", TRUE, TRUE), In("ann", box, "browser", TRUE, FALSE)}

\* Connections are interchangeable.
ConnSymmetry == Permutations(Conns)
=============================================================================
