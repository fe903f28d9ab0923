--------------------------- MODULE MCDeviceLogin ---------------------------
(* Small instances of DeviceLogin for TLC: a Cisco switch and a FortiGate,  *)
(* a directory user and a local account that share an e-mail.              *)
EXTENDS DeviceLogin, TLC

CONSTANTS ann, dup,   \* users
          sw, fw      \* devices

MCUsers == {ann, dup}
MCHosts == {sw, fw}
MCLogins == {"ann", "dup", "mail", "ghost"}
MCNameOf == [u \in MCUsers |-> IF u = ann THEN "ann" ELSE "dup"]
MCEmailOf == [u \in MCUsers |-> "mail"]
MCKindOf == [h \in MCHosts |-> IF h = sw THEN "cisco-ios" ELSE "fortigate"]

MCRoles == {"admin", "netops", "user"}
MCKinds == {"cisco-ios", "cisco", "fortigate", "*"}
MCFamily == [k \in MCKinds |-> IF k = "cisco-ios" THEN "cisco" ELSE k]

Reload == <<"reload">>
Show == <<"show">>
MCPatterns == {Reload, Show}
MCCommands == {<< >>, <<"do", "rel">>, <<"sho", "clo">>, <<"ex">>}
MCLines == MCCommands \cup MCPatterns
MCMeaning == [c \in MCLines |->
    CASE c = <<"do", "rel">> -> Reload
      [] c = <<"sho", "clo">> -> <<"show", "clock">>
      [] c = <<"ex">> -> <<"exit">>
      [] OTHER -> c]
MCLeaving == {<<"exit">>}

Form(role, kind, tier, allow, deny, cisco) ==
    [role |-> role, kind |-> kind, tier |-> tier, approval |-> FALSE, allow |-> allow,
     deny |-> deny, linux |-> 0, cisco |-> cisco]

MCSeeds == {Form("admin", "*", 3, {}, {}, 0), Form("user", "*", 3, {Show}, {Reload}, 0)}
MCForms == {Form("netops", "cisco-ios", 3, {}, {Reload}, 20), Form("user", "*", 1, {}, {}, 20)}

\* What the rule of netops denies, besides the rule of user.
MCRules(deny) == WithRule(WithRule(WithRule({},
                     1, Form("admin", "*", 1, {}, {}, 0)),
                     2, Form("user", "*", 3, {Show}, {Reload}, 0)),
                     3, Form("netops", "cisco", 1, {}, deny, 12))

MCMappings == {[r \in {"user"} |-> "no_access"], [r \in {"netops"} |-> "super_admin"]}
MCProfiles == {"no_access", "prof_admin", "super_admin"}
MCRank == [p \in MCProfiles |-> CASE p = "no_access" -> 0 [] p = "prof_admin" -> 2 [] OTHER -> 4]

MCTables ==
    {[account |-> [u \in MCUsers |-> IF u = ann THEN "enabled" ELSE a],
      role    |-> [u \in MCUsers |-> IF u = ann THEN "user" ELSE "admin"],
      granted |-> [u \in MCUsers |-> IF u = ann THEN {"netops"} ELSE {}],
      tier    |-> [h \in MCHosts |-> 1],
      rules   |-> MCRules(IF a = "enabled" THEN {} ELSE {Reload}),
      mapping |-> [r \in {"user"} |-> "no_access"],
      client  |-> [h \in MCHosts |-> "on"]] : a \in {"enabled", "disabled"}}

In(op, host, login, pass, cmd, svc) ==
    [op |-> op, host |-> host, login |-> login, pass |-> pass, cmd |-> cmd, svc |-> svc]

MCInputs ==
    {In("authen", sw, l, p, << >>, "pap") : l \in {"ann", "mail"}, p \in {ann, "device"}}
    \cup {In("authen", fw, "mail", ann, << >>, "ascii"), In("authen", sw, "ghost", "wrong", << >>, "pap"),
          In("authen", fw, "ann", "wrong", << >>, "chap")}
    \cup {In("author", sw, "ann", "", c, "shell") : c \in MCCommands}
    \cup {In("author", fw, l, "", << >>, "shell") : l \in {"ann", "mail", "ghost"}}
    \cup {In("author", sw, "ann", "", <<"do", "rel">>, "fortigate")}
    \cup {In("radius", h, "mail", ann, << >>, s) : h \in MCHosts, s \in {"signed"}}
    \cup {In("radius", sw, "ann", p, << >>, s) : p \in {ann, "device"}, s \in {"plain", "chap"}}
    \cup {In("radius", sw, "ghost", "wrong", << >>, "signed")}

\* Requests that share state inside a server: the FortiGate maps, the clients' copy.
MCBeside == {In("author", fw, "ann", "", << >>, "shell"), In("radius", sw, "ann", ann, << >>, "plain")}

\* Goroutines are interchangeable.
WorkerSymmetry == Permutations(Workers)
=============================================================================
