----------------------------- MODULE SshAccess -----------------------------
(***************************************************************************)
(* How an SSH connection gets its shell (internal/sshproxy with            *)
(* internal/linuxprovision): the portal sign-in or the browser token, the  *)
(* policy and the just-in-time approval, the choice of the login on the    *)
(* target, and on a Linux machine the upkeep of the user's own account,    *)
(* password and sudo included, through the bootstrap account.              *)
(*                                                                         *)
(* Every query is a step, and so is every command of the provisioning      *)
(* script: administrators change the tables between them, and connections  *)
(* of the same user meet on the machine.                                   *)
(***************************************************************************)
EXTENDS Policy

CONSTANTS
    Users,
    Logins,            \* what is typed before @target
    OwnerOf,           \* [Logins -> Users]: whom the auth service finds
    Names,             \* local account names on Linux machines
    NameOf,            \* [Logins -> Names]: LinuxUsername; names may coincide
    Hosts, KindOf,     \* targets, [Hosts -> Kinds]
    Conns, NoConn,     \* connections
    Inputs,            \* the connections users may make, see Input
    RuleForms,         \* what administrators write into the policies table
    InitialTables, InitialMachines,
    MaxConns, MaxEdits, MaxTurns   \* bounds: of each kind, of both together

ASSUME AccessAssumption ==
    /\ NoConn \notin Conns
    /\ OwnerOf \in [Logins -> Users] /\ NameOf \in [Logins -> Names]
    /\ KindOf \in [Hosts -> Kinds]
    /\ Inputs \subseteq [login : Logins, host : Hosts, via : {"native", "browser"},
                          right : BOOLEAN, pw : BOOLEAN]
    /\ \A m \in InitialMachines :
           /\ m \in [Hosts -> [Names -> [pw : Users \cup {"no account", "locked", "other"},
                                         sudo : BOOLEAN, by : Conns \cup {NoConn},
                                         earned : BOOLEAN]]]
           /\ \A h \in Hosts, n \in Names : m[h][n].sudo => m[h][n].earned

VARIABLES
    db,        \* the tables, see Tables
    machine,   \* [Hosts -> [Names -> Local]]: local accounts of Linux machines
    conn,      \* [Conns -> what a connection holds]
    begun, edits

vars == <<db, machine, conn, begun, edits>>

\* Approved requests.  IsApproved asks for the newest, ActiveSudoGranted for
\* the newest with sudo.
Grant == [user : Users, host : Hosts, at : 1 .. 2, sudo : BOOLEAN, active : BOOLEAN]

Tables == [account    : [Users -> {"enabled", "disabled", "absent"}],
           role       : [Users -> Roles],
           granted    : [Users -> SUBSET Roles],        \* roles of the user's groups
           tier       : [Hosts -> Tiers \cup {NoTier}], \* the inventory
           rules      : SUBSET Rule,
           birthright : SUBSET (Users \X Hosts),
           grants     : SUBSET Grant,
           priv       : SUBSET Hosts]                   \* hosts with a privileged account

\* A local account: whose portal password opens it; sudo; which connection wrote
\* sudo last, and whether it was due then.
Local == [pw : Users \cup {"no account", "locked", "other"}, sudo : BOOLEAN,
          by : Conns \cup {NoConn}, earned : BOOLEAN]

ASSUME TablesAssumption ==
    /\ RuleForms \subseteq RuleForm
    /\ \A d \in InitialTables : d \in Tables /\ IsFiniteSet(d.rules)
    /\ MaxConns \in Nat /\ MaxEdits \in Nat

IsLinuxKind(kind) == Family[kind] \in LinuxFamilies

EffectiveRoles(d, u) == {d.role[u]} \cup d.granted[u]

Newest(gs) == {g \in gs : \A k \in gs : k.at <= g.at}

IsApproved(d, u, h) ==
    \E g \in Newest({k \in d.grants : k.user = u /\ k.host = h}) : g.active

ActiveSudoGranted(d, u, h) ==
    \E g \in Newest({k \in d.grants : k.user = u /\ k.host = h /\ k.sudo}) : g.active

-----------------------------------------------------------------------------
(* What a connection witnesses until it is authorized: whether its account *)
(* was ever open, which roles it ever had, which tiers the target had, for *)
(* which roles a rule ever reached the target or gave sudo, which role and *)
(* which groups' roles it had all along that demanded approval all along,  *)
(* whether there ever was an approval, a birthright, a sudo grant.         *)

\* A native connection has a password; a browser's comes with a token and has
\* one if the user typed it at the launch.
Input == [login : Logins, host : Hosts, via : {"native", "browser"},
          right : BOOLEAN, pw : BOOLEAN]

Idle == [pc |-> "idle"]
Over == [pc |-> "over"]    \* refused, failed or left

Connection(x) ==
    [pc |-> IF x.via = "native" THEN "auth" ELSE "target",
     login |-> x.login, host |-> x.host, via |-> x.via, right |-> x.right, pw |-> x.pw,
     role |-> "", roles |-> {}, left |-> {}, dec |-> NoDecision, tier |-> NoTier,
     priv |-> FALSE, retry |-> FALSE, kept |-> FALSE, as |-> "",
     open |-> FALSE, had |-> {}, tiers |-> {}, could |-> {}, lifts |-> {},
     asRole |-> Roles, byGroup |-> Roles,
     granted |-> FALSE, sudo |-> FALSE]

Handshake == {"auth", "role", "target", "roles", "rule", "birthright", "grant", "sudo"}

\* The rules that speak for their role and reach one of the tiers.
Reaching(d, host, tiers) ==
    {x \in d.rules : /\ x \in Governing(d.rules, x.role, KindOf[host])
                     /\ \E t \in tiers : t <= x.tier}

\* Whichever rule speaks for the role, it reaches all of the tiers and demands
\* an approval.
Demanding(d, host, tiers) ==
    {r \in Roles :
        /\ Governing(d.rules, r, KindOf[host]) # {}
        /\ \A x \in Governing(d.rules, r, KindOf[host]) :
               x.approval /\ \A t \in tiers : t <= x.tier}

Witness(d, q) ==
    LET u == OwnerOf[q.login]
        tiers == q.tiers \cup {d.tier[q.host]}
        reaching == Reaching(d, q.host, tiers)
    IN  IF q.pc \notin Handshake THEN q
        ELSE [q EXCEPT !.open = @ \/ d.account[u] = "enabled",
                       !.had = @ \cup EffectiveRoles(d, u),
                       !.tiers = tiers,
                       !.could = @ \cup {x.role : x \in reaching},
                       !.lifts = @ \cup {x.role : x \in {y \in reaching : y.linux > 0}},
                       !.asRole = @ \cap {d.role[u]} \cap Demanding(d, q.host, tiers),
                       !.byGroup = @ \cap d.granted[u] \cap Demanding(d, q.host, tiers),
                       !.granted = @ \/ IsApproved(d, u, q.host) \/ <<u, q.host>> \in d.birthright,
                       !.sudo = @ \/ ActiveSudoGranted(d, u, q.host)]

\* Sudo on its target was due to the connection's user at some moment.
Earned(q) == q.sudo \/ q.had \cap q.lifts # {}

At(c, pc) == conn[c].pc = pc

\* A step that touches nothing but the connection.
Set(c, q) == conn' = [conn EXCEPT ![c] = q] /\ UNCHANGED <<db, machine, begun, edits>>
Goto(c, pc) == Set(c, [conn[c] EXCEPT !.pc = pc])
End(c) == Set(c, Over)

Begin(c) ==
    /\ At(c, "idle") /\ begun < MaxConns /\ begun + edits < MaxTurns
    /\ \E x \in Inputs : conn' = [conn EXCEPT ![c] = Witness(db, Connection(x))]
    /\ begun' = begun + 1
    /\ UNCHANGED <<db, machine, edits>>

-----------------------------------------------------------------------------
(* Sign-in and authorization.                                              *)

\* authenticate: the auth service judges the password and the second factor,
\* and returns the account's role; or it does not answer.
Authenticate(c) ==
    LET q == conn[c]
        u == OwnerOf[q.login]
    IN  /\ At(c, "auth")
        /\ \/ /\ q.right /\ db.account[u] = "enabled"
              /\ Set(c, [q EXCEPT !.role = db.role[u], !.pc = "target"])
           \/ End(c)

ResolveTarget_Unlisted(c) ==
    LET q == conn[c]
    IN  /\ At(c, "target")
        /\ Set(c, [q EXCEPT !.tier = db.tier[q.host],
                            !.pc = IF q.via = "native" THEN "roles" ELSE "role"])

\* resolveTarget: a target that the inventory does not list is refused.
ResolveTarget(c) ==
    LET q == conn[c]
    IN  /\ At(c, "target")
        /\ IF db.tier[q.host] = NoTier THEN End(c)
           ELSE Set(c, [q EXCEPT !.tier = db.tier[q.host],
                                 !.pc = IF q.via = "native" THEN "roles" ELSE "role"])

\* tryBrowserToken: whose token it is has a row; whether the account is open is
\* not asked.
BrowserRole(c) ==
    LET q == conn[c]
        u == OwnerOf[q.login]
    IN  /\ At(c, "role")
        /\ IF db.account[u] = "absent" THEN End(c)
           ELSE Set(c, [q EXCEPT !.role = db.role[u], !.pc = "roles"])

\* evaluateAccess: the role read before and the groups of now.
ReadRoles(c) ==
    LET q == conn[c]
        rs == {q.role} \cup db.granted[OwnerOf[q.login]]
    IN  /\ At(c, "roles")
        /\ Set(c, [q EXCEPT !.roles = rs, !.left = rs, !.pc = "rule"])

\* The policy engine's loop: the rule of one more role.
DecideRole(c) ==
    LET q == conn[c]
    IN  /\ At(c, "rule")
        /\ \E r \in q.left :
               LET rs == Governing(db.rules, r, KindOf[q.host])
               IN  \/ rs = {} /\ Set(c, [q EXCEPT !.left = @ \ {r}])
                   \/ \E x \in rs :
                         Set(c, [q EXCEPT !.left = @ \ {r}, !.dec = Joined(@, x, q.tier)])

Verdict(c) ==
    LET dec == conn[c].dec
    IN  /\ At(c, "rule") /\ conn[c].left = {}
        /\ \/ ~dec.allowed /\ End(c)
           \/ dec.allowed /\ dec.approval /\ Goto(c, "birthright")
           \/ dec.allowed /\ ~dec.approval /\ Goto(c, "sudo")

\* Who was given the machine by birthright needs no approval.
CheckBirthright(c) ==
    LET q == conn[c]
    IN  /\ At(c, "birthright")
        /\ Goto(c, IF <<OwnerOf[q.login], q.host>> \in db.birthright THEN "sudo" ELSE "grant")

CheckGrant_AnyApproved(c) ==
    LET q == conn[c]
        u == OwnerOf[q.login]
    IN  /\ At(c, "grant")
        /\ IF \E g \in db.grants : g.user = u /\ g.host = q.host THEN Goto(c, "sudo")
           ELSE End(c)

CheckGrant(c) ==
    LET q == conn[c]
    IN  /\ At(c, "grant")
        /\ IF IsApproved(db, OwnerOf[q.login], q.host) THEN Goto(c, "sudo") ELSE End(c)

\* A sudo grant lifts the level that the policy gives on a Linux machine; the
\* command lists are for network devices.
CheckSudo(c) ==
    LET q == conn[c]
        linux == IsLinuxKind(KindOf[q.host])
        lifted == linux /\ ActiveSudoGranted(db, OwnerOf[q.login], q.host)
    IN  /\ At(c, "sudo")
        /\ Set(c, [q EXCEPT !.pc = "handle",
                            !.dec.linux = Larger(@, IF lifted THEN 1 ELSE 0),
                            !.dec.allow = IF linux THEN {} ELSE @,
                            !.dec.deny = IF linux THEN {} ELSE @])

-----------------------------------------------------------------------------
(* The login on the target.                                                *)

PerUser(q) == IsLinuxKind(KindOf[q.host]) /\ q.pw

FirstLogin_SudoOnly(q, priv) ==
    CASE PerUser(q) -> IF priv /\ q.dec.linux > 0 THEN "bootstrap" ELSE "login"
      [] ~PerUser(q) /\ priv -> "privileged"
      [] OTHER -> "passthrough"

\* handle's plans: the user's own account on a Linux machine, otherwise the
\* privileged account, otherwise the portal password.  A browser session
\* without either is told so.  (The certificate is for connections without a
\* password, and only a browser's can be without.)
FirstLogin(q, priv) ==
    CASE PerUser(q) -> IF priv THEN "bootstrap" ELSE "login"
      [] ~PerUser(q) /\ priv -> "privileged"
      [] OTHER -> "passthrough"

\* lookupPrivilegedAccount.
Handle(c) ==
    LET q == conn[c]
        priv == q.host \in db.priv
    IN  /\ At(c, "handle")
        /\ IF q.pw \/ priv THEN Set(c, [q EXCEPT !.priv = priv, !.pc = FirstLogin(q, priv)])
           ELSE End(c)

\* The privileged account; only its refusal leads on to the portal password.
Privileged(c) ==
    LET q == conn[c]
    IN  /\ At(c, "privileged")
        /\ \/ Set(c, [q EXCEPT !.pc = "dialled", !.as = "privileged"])
           \/ q.pw /\ Goto(c, "passthrough")
           \/ End(c)

\* The target accepts the portal password, asking its own TACACS server maybe.
Passthrough(c) ==
    /\ At(c, "passthrough")
    /\ \/ Set(c, [conn[c] EXCEPT !.pc = "dialled", !.as = "portal"])
       \/ End(c)

Account(c) == machine[conn[c].host][NameOf[conn[c].login]]

\* A command of the provisioning script changes the account and the script
\* goes on at pc.
Write(c, account, q) ==
    /\ machine' = [machine EXCEPT ![conn[c].host][NameOf[conn[c].login]] = account]
    /\ conn' = [conn EXCEPT ![c] = q]
    /\ UNCHANGED <<db, begun, edits>>

\* syncLinuxAccount signs in as the bootstrap account.
Bootstrap(c) == At(c, "bootstrap") /\ (Goto(c, "useradd") \/ End(c))

UserAdd(c) ==
    LET a == Account(c)
    IN  /\ At(c, "useradd")
        /\ \/ Write(c, [a EXCEPT !.pw = IF @ = "no account" THEN "locked" ELSE @],
                    [conn[c] EXCEPT !.pc = "chpasswd"])
           \/ End(c)

ChPasswd(c) ==
    /\ At(c, "chpasswd")
    /\ \/ Write(c, [Account(c) EXCEPT !.pw = OwnerOf[conn[c].login]],
                [conn[c] EXCEPT !.pc = "sudoers"])
       \/ End(c)

\* With sudo the groups and the file are written, and the file may be found
\* bad only after.  Without, they are removed under set +e: a removal that
\* fails does not stop the script.
Sudoers(c) ==
    LET q == conn[c]
        with == [Account(c) EXCEPT !.sudo = TRUE, !.by = c, !.earned = Earned(q)]
        without == [Account(c) EXCEPT !.sudo = FALSE, !.by = c, !.earned = FALSE]
    IN  /\ At(c, "sudoers")
        /\ \/ /\ q.dec.linux > 0
              /\ Write(c, with, [q EXCEPT !.pc = "login"]) \/ Write(c, with, Over)
           \/ q.dec.linux > 0 /\ End(c)
           \/ q.dec.linux = 0 /\ Write(c, without, [q EXCEPT !.pc = "login"])
           \/ /\ q.dec.linux = 0 /\ Account(c).sudo
              /\ Set(c, [q EXCEPT !.kept = TRUE, !.pc = "login"])

\* The login as the user.  When it is refused, and there is a bootstrap
\* account, the account is provisioned once more.
LoginAsUser(c) ==
    LET q == conn[c]
    IN  /\ At(c, "login")
        /\ \/ /\ Account(c).pw = OwnerOf[q.login]
              /\ Set(c, [q EXCEPT !.pc = "dialled", !.as = "own"])
           \/ q.priv /\ ~q.retry /\ Set(c, [q EXCEPT !.retry = TRUE, !.pc = "bootstrap"])
           \/ End(c)

\* The channel loop takes the outcome when the user's session channel is there;
\* who left before leaves the login on the target behind.
OpenShell(c) == At(c, "dialled") /\ Goto(c, "shell")
UserLeaves(c) ==
    (At(c, "dialled") \/ At(c, "shell")) /\ End(c)

-----------------------------------------------------------------------------
(* Administrators, and time.                                               *)

\* A change of the tables; every handshake witnesses it.
Change(d) ==
    /\ edits < MaxEdits /\ begun + edits < MaxTurns /\ d # db
    /\ db' = d
    /\ conn' = [c \in Conns |-> Witness(d, conn[c])]
    /\ edits' = edits + 1
    /\ UNCHANGED <<machine, begun>>

Existing == {u \in Users : db.account[u] # "absent"}
Listed == {h \in Hosts : db.tier[h] # NoTier}

EditUser ==
    \E u \in Existing :
        \/ \E a \in {"enabled", "disabled"} : Change([db EXCEPT !.account[u] = a])
        \/ \E r \in Roles : Change([db EXCEPT !.role[u] = r])
        \/ \E r \in Roles : Change([db EXCEPT !.granted[u] = @ \ {r}])
        \/ \E r \in Roles : Change([db EXCEPT !.granted[u] = @ \cup {r}])

DeleteUser ==
    \E u \in Existing :
        Change([db EXCEPT !.account[u] = "absent", !.granted[u] = {},
                          !.birthright = {b \in @ : b[1] # u},
                          !.grants = {g \in @ : g.user # u}])

EditRules ==
    \/ \E x \in RuleForms : Change([db EXCEPT !.rules = Inserted(@, {x})])
    \/ \E x \in RuleForms, r \in db.rules : Change([db EXCEPT !.rules = WithUpdate(@, r.id, x)])
    \/ \E r \in db.rules : Change([db EXCEPT !.rules = WithoutRule(@, r.id)])

EditTarget == \E h \in Listed, t \in Tiers : Change([db EXCEPT !.tier[h] = t])

DeleteTarget ==
    \E h \in Listed :
        Change([db EXCEPT !.tier[h] = NoTier, !.priv = @ \ {h},
                          !.birthright = {b \in @ : b[2] # h},
                          !.grants = {g \in @ : g.host # h}])

AssignBirthright ==
    \E u \in Existing, h \in Listed : Change([db EXCEPT !.birthright = @ \cup {<<u, h>>}])
RemoveBirthright == \E b \in db.birthright : Change([db EXCEPT !.birthright = @ \ {b}])

\* Decisions of the approval workflow (module Approval), and the end of a
\* grant's time.
Approve ==
    \E u \in Existing, h \in Listed, n \in 1 .. 2, b \in BOOLEAN :
        /\ \A g \in db.grants : g.user = u /\ g.host = h => g.at < n
        /\ Change([db EXCEPT !.grants = @ \cup
               {[user |-> u, host |-> h, at |-> n, sudo |-> b, active |-> TRUE]}])

GrantSudo ==
    \E g \in db.grants, b \in BOOLEAN :
        Change([db EXCEPT !.grants = (@ \ {g}) \cup {[g EXCEPT !.sudo = b]}])

GrantEnds ==
    \E g \in db.grants :
        \/ Change([db EXCEPT !.grants = @ \ {g}])
        \/ Change([db EXCEPT !.grants = (@ \ {g}) \cup {[g EXCEPT !.active = FALSE]}])

EditPrivileged ==
    \E h \in Listed :
        Change([db EXCEPT !.priv = IF h \in @ THEN @ \ {h} ELSE @ \cup {h}])

-----------------------------------------------------------------------------
Init ==
    /\ db \in InitialTables
    /\ machine \in InitialMachines
    /\ conn = [c \in Conns |-> Idle]
    /\ begun = 0 /\ edits = 0

Authorize(c) ==
    \/ Authenticate(c) \/ ResolveTarget(c) \/ BrowserRole(c) \/ ReadRoles(c)
    \/ DecideRole(c) \/ Verdict(c) \/ CheckBirthright(c) \/ CheckGrant(c) \/ CheckSudo(c)

Dial(c) ==
    \/ Handle(c) \/ Privileged(c) \/ Passthrough(c)
    \/ Bootstrap(c) \/ UserAdd(c) \/ ChPasswd(c) \/ Sudoers(c) \/ LoginAsUser(c)

Administer ==
    \/ EditUser \/ DeleteUser \/ EditRules \/ EditTarget \/ DeleteTarget
    \/ AssignBirthright \/ RemoveBirthright \/ Approve \/ GrantSudo \/ GrantEnds
    \/ EditPrivileged

Next ==
    \/ \E c \in Conns :
           Begin(c) \/ Authorize(c) \/ Dial(c) \/ OpenShell(c) \/ UserLeaves(c)
    \/ Administer

Spec == Init /\ [][Next]_vars

-----------------------------------------------------------------------------
(* Properties.                                                             *)

ConnectionType ==
    [pc : Handshake \cup {"handle", "privileged", "passthrough", "bootstrap", "useradd",
                          "chpasswd", "sudoers", "login", "dialled", "shell"},
     login : Logins, host : Hosts, via : {"native", "browser"}, right : BOOLEAN, pw : BOOLEAN,
     role : Roles \cup {""}, roles : SUBSET Roles, left : SUBSET Roles,
     dec : Decision, tier : Tiers \cup {NoTier},
     priv : BOOLEAN, retry : BOOLEAN, kept : BOOLEAN, as : {"", "own", "portal", "privileged"},
     open : BOOLEAN, had : SUBSET Roles, tiers : SUBSET (Tiers \cup {NoTier}),
     could : SUBSET Roles, lifts : SUBSET Roles, asRole : SUBSET Roles, byGroup : SUBSET Roles,
     granted : BOOLEAN, sudo : BOOLEAN]

\* Tables, machines and connections have their types, and a connection that is
\* past the look-up of its target holds a tier.
TypeOK ==
    /\ db \in Tables
    /\ machine \in [Hosts -> [Names -> Local]]
    /\ \A c \in Conns :
           \/ conn[c] \in {Idle, Over}
           \/ /\ conn[c] \in ConnectionType
              /\ conn[c].pc \notin {"auth", "target"} => conn[c].tier \in Tiers
    /\ begun \in 0 .. MaxConns /\ edits \in 0 .. MaxEdits

Authorized(c) == conn[c].pc \notin Handshake \cup {"idle", "over"}

\* A connection is authorized in nine queries, and everything it asks for may
\* change in between.  Still: its account was open when its password was
\* judged; a role the user had met a rule that reached a tier the target had;
\* and where, all along, the user's own role or a role of the user's groups
\* knew only rules that reach the target and demand approval, there was an
\* approval in force, or a birthright.
EntryIsEarned ==
    \A c \in Conns : Authorized(c) =>
        /\ conn[c].via = "native" => conn[c].open
        /\ conn[c].had \cap conn[c].could # {}
        /\ conn[c].asRole \cup conn[c].byGroup # {} => conn[c].granted

\* Sudo on a Linux machine follows the grants, whichever scripts overlap on an
\* account, however often they are repeated, and wherever one stops: it is
\* there only because it was due to the user of the connection that wrote it
\* last; and a connection that was granted none, and has had the account
\* synchronized, is on the machine with sudo only if another connection gave
\* it since, or the removal failed.
SudoFollowsGrants ==
    /\ \A h \in Hosts, n \in Names : machine[h][n].sudo => machine[h][n].earned
    /\ \A c \in Conns :
           /\ conn[c].pc \in {"dialled", "shell"} /\ conn[c].as = "own"
           /\ conn[c].priv /\ conn[c].dec.linux = 0 /\ ~conn[c].kept
           /\ Account(c).sudo
           => Account(c).by \in Conns \ {c}
=============================================================================
