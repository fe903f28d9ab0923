---------------------------- MODULE DeviceLogin ----------------------------
(***************************************************************************)
(* Sign-in and command authorization for network devices: the TACACS+      *)
(* server (internal/tacacs) and the RADIUS server (internal/radius), each  *)
(* with the policy engine inside.  Every request is served by a goroutine  *)
(* that reads users, groups, inventory, settings and rules in queries of   *)
(* its own, while administrators change them: a read is a step.  The       *)
(* password check is a call to the auth service.                           *)
(***************************************************************************)
EXTENDS Policy

CONSTANTS
    Users, NoUser,
    Logins,            \* what is typed as user name; NameOf and EmailOf are among them
    NameOf, EmailOf,   \* [Users -> Logins]; e-mails may be shared
    Directory,         \* users that come from LDAP or SAML
    Hosts,             \* devices, by the address they connect from
    KindOf,            \* [Hosts -> Kinds]
    ByUrlOnly,         \* hosts the inventory knows by web_url only
    Bootstrapped,      \* hosts with a privileged account in a safe
    DropUnknown,       \* PAM_TACACS_UNKNOWN_USER / PAM_RADIUS_UNKNOWN_USER = drop
    Commands,          \* command lines; << >> is a login to the shell
    Meaning,           \* what a device runs for a command line or a pattern
    Leaving,           \* the lines that leave a mode or the session
    Profiles, Rank,    \* FortiGate profiles and fortinetProfRank
    Inputs,            \* the requests devices may send, see Input
    Beside,            \* those that may be served beside another (a bound)
    InitialTables,     \* what the database may hold at first
    RuleForms,         \* what administrators write into the policies table
    Mappings,          \* role -> profile maps the settings may hold
    Workers,           \* goroutines
    MaxRequests, MaxEdits, MaxTurns   \* bounds: of each kind, of both together

ASSUME UsersAssumption ==
    /\ NoUser \notin Users
    /\ NameOf \in [Users -> Logins] /\ EmailOf \in [Users -> Logins]
    /\ \A u, v \in Users : NameOf[u] = NameOf[v] => u = v
    /\ Rank \in [Profiles -> Nat]

VARIABLES
    db,         \* the tables, see Tables
    live,       \* the role -> profile map the running TACACS+ server holds
    cache,      \* the RADIUS server's copy of radius_clients
    work,       \* [Workers -> the request a goroutine serves]
    requests, edits

vars == <<db, live, cache, work, requests, edits>>

\* "strict" clients must send a Message-Authenticator.
ClientRow == {"none", "on", "strict", "off"}

Tables == [account : [Users -> {"enabled", "disabled", "absent"}],
           role    : [Users -> Roles],                  \* users.role
           granted : [Users -> SUBSET Roles],           \* roles of the user's groups
           tier    : [Hosts -> Tiers \cup {NoTier}],    \* the inventory
           rules   : SUBSET Rule,
           mapping : Mappings,                          \* settings: tacacs_fortinet
           client  : [Hosts -> ClientRow]]              \* radius_clients

-----------------------------------------------------------------------------
(* Look-ups in tables d.                                                   *)

Enabled(d) == {u \in Users : d.account[u] = "enabled"}
Named(login) == {u \in Users : NameOf[u] = login}
Mailed(login) == {u \in Users : EmailOf[u] = login}

PortalUserExists(d, login) == Enabled(d) \cap (Named(login) \cup Mailed(login)) # {}

\* authorizeAdmin: the enabled account of that name, otherwise any enabled
\* account with that e-mail.
AuthorizeAdmin(d, login) ==
    IF Enabled(d) \cap Named(login) # {} THEN Enabled(d) \cap Named(login)
    ELSE Enabled(d) \cap Mailed(login)

UserInfo_NameOnly(d, login) == Enabled(d) \cap Named(login)

\* userInfo of the RADIUS server looks the same way.
UserInfo(d, login) ==
    IF Enabled(d) \cap Named(login) # {} THEN Enabled(d) \cap Named(login)
    ELSE Enabled(d) \cap Mailed(login)

\* FindByLoginID of the auth service: the account of that name whatever its
\* state, then an enabled directory account with that e-mail, then any.
FindByLoginID(d, login) ==
    LET present == {u \in Users : d.account[u] # "absent"}
        mailed == present \cap Mailed(login)
        trusted == mailed \cap Directory \cap Enabled(d)
    IN  IF present \cap Named(login) # {} THEN present \cap Named(login)
        ELSE IF trusted # {} THEN trusted ELSE mailed

\* The auth service's answer.  A password is the user whose it is, "device"
\* for the bootstrap password of the device, or "wrong".
AuthLogin(d, login, pass) == pass \in FindByLoginID(d, login) \cap Enabled(d)

EffectiveRoles(d, u) == {d.role[u]} \cup d.granted[u]

\* checkDevicePassword.
DevicePassword(host, pass) == host \in Bootstrapped /\ pass = "device"

\* isFortiGateHost.
IsFortiGateHost(d, host) == d.tier[host] # NoTier /\ KindOf[host] = "fortigate"

\* The built-in profile of a role.
FortinetAdminProf(r) == IF r \in {"admin", "secops"} THEN "super_admin" ELSE "prof_admin"

\* The configured profile, or the built-in one.
FortinetAdminProfForRole(map, r) == IF r \in DOMAIN map THEN map[r] ELSE FortinetAdminProf(r)

\* fortinetMappingRole: a role whose profile ranks lowest.
FortinetMappingRole(map, rs) ==
    LET rank(r) == Rank[FortinetAdminProfForRole(map, r)]
    IN  {r \in rs : \A s \in rs : rank(r) <= rank(s)}

\* privLevelForRole.
PrivLevelForRole(r) ==
    CASE r \in {"admin", "secops"} -> 15 [] r = "netops" -> 10 [] OTHER -> 1

-----------------------------------------------------------------------------
(* What a request remembers for the properties: whether its login was ever *)
(* known, or ever unknown, while it ran; whether nothing changed; which    *)
(* tiers its device had; which role, and which roles of their groups, the  *)
(* account of that name had all along whose rules refused the command all  *)
(* along.                                                                  *)

\* Whichever rule speaks for the role, it reaches all of the tiers and denies
\* the request's command.
Denying(d, q, tiers) ==
    {r \in Roles :
        /\ q.op = "author" /\ q.cmd # << >>
        /\ Governing(d.rules, r, KindOf[q.host]) # {}
        /\ \A x \in Governing(d.rules, r, KindOf[q.host]) :
               /\ \A t \in tiers : t <= x.tier
               /\ ~CommandAllowed(q.cmd, {}, x.deny)}

\* A password is the user whose it is, or the device's, or wrong; svc tells the
\* forms of a request apart: a START is CHAP, or carries the password, or waits
\* to be asked for it.
Input == [op : {"authen", "author", "radius"}, host : Hosts, login : Logins,
          pass : Users \cup {"", "device", "wrong"}, cmd : Commands,
          svc : {"pap", "ascii", "chap", "shell", "fortigate", "signed", "plain"}]

ASSUME DeviceAssumption ==
    /\ Inputs \subseteq Input
    /\ \A x \in Inputs : x.op = "authen" => x.svc \in {"pap", "ascii", "chap"}
    /\ "admin" \in Roles /\ {"super_admin", "prof_admin"} \subseteq Profiles
    /\ \A m \in Mappings : \A r \in DOMAIN m : m[r] \in Profiles
    /\ RuleForms \cup Seeds \subseteq RuleForm /\ IsFiniteSet(Seeds)
    /\ \A d \in InitialTables : d \in Tables /\ IsFiniteSet(d.rules)
    /\ MaxRequests \in Nat /\ MaxEdits \in Nat

Idle == [op |-> "idle"]

Request(x) ==
    [op |-> x.op, pc |-> "begin", host |-> x.host, login |-> x.login, pass |-> x.pass,
     cmd |-> x.cmd, svc |-> x.svc,
     beside |-> x \in Beside, ok |-> FALSE, user |-> NoUser, role |-> "", roles |-> {},
     left |-> {}, dec |-> NoDecision, tier |-> NoTier, copy |-> << >>, next |-> "",
     reply |-> "", level |-> 0, profile |-> "",
     calm |-> TRUE, known |-> FALSE, unknown |-> FALSE,
     tiers |-> {}, asRole |-> Roles, byGroup |-> Roles]

Running(w) == work[w].op # "idle" /\ work[w].pc # "done"

\* A request as it witnesses tables d.
Witness(d, q) ==
    LET us == Named(q.login)
        tiers == q.tiers \cup {d.tier[q.host]}
    IN  [q EXCEPT !.known = @ \/ PortalUserExists(d, q.login),
                  !.unknown = @ \/ ~PortalUserExists(d, q.login),
                  !.tiers = tiers,
                  !.asRole = {r \in @ \cap Denying(d, q, tiers) : \A u \in us : r = d.role[u]},
                  !.byGroup = {r \in @ \cap Denying(d, q, tiers) : \A u \in us : r \in d.granted[u]}]

Arrive(w, x, q, pc) ==
    /\ work[w].op = "idle" /\ requests < MaxRequests /\ requests + edits < MaxTurns
    /\ requests > 0 => x \in Beside /\ \A v \in Workers : work[v].op # "idle" => work[v].beside
    /\ work' = [work EXCEPT ![w] = [Witness(db, q) EXCEPT !.pc = pc]]
    /\ requests' = requests + 1
    /\ UNCHANGED <<db, live, cache, edits>>

At(w, op, pc) == work[w].op = op /\ work[w].pc = pc

\* The goroutine takes a step that touches nothing but its own request.
Set(w, q) == work' = [work EXCEPT ![w] = q] /\ UNCHANGED <<db, live, cache, requests, edits>>
Goto(w, pc) == Set(w, [work[w] EXCEPT !.pc = pc])
Answer(w, reply) == Set(w, [work[w] EXCEPT !.pc = "done", !.reply = reply])

\* refreshFortinetConfig: the settings are read ...
Refresh(w, next) ==
    Set(w, [work[w] EXCEPT !.copy = db.mapping, !.pc = "apply", !.next = next])

\* ... and replace the maps of the server, whoever else is using them.
ApplyFortinetConfig(w) ==
    LET stale == work[w].copy # db.mapping
    IN  /\ Running(w) /\ work[w].pc = "apply"
        /\ live' = work[w].copy
        /\ work' = [v \in Workers |->
               IF v = w THEN [work[w] EXCEPT !.pc = work[w].next, !.copy = << >>, !.next = "",
                                             !.calm = @ /\ ~stale]
               ELSE IF Running(v) /\ stale THEN [work[v] EXCEPT !.calm = FALSE] ELSE work[v]]
        /\ UNCHANGED <<db, cache, requests, edits>>

-----------------------------------------------------------------------------
(* The policy engine's loop, for a request at pc "rule".                   *)

DecideRole_First(w) ==
    LET q == work[w]
    IN  /\ Running(w) /\ q.pc = "rule"
        /\ \E r \in q.left :
               LET rs == Governing(db.rules, r, KindOf[q.host])
               IN  \/ /\ rs = {}
                      /\ Set(w, [q EXCEPT !.left = @ \ {r}])
                   \/ \E x \in rs : LET dec == Joined(q.dec, x, q.tier)
                         IN Set(w, [q EXCEPT !.left = IF dec.allowed THEN {} ELSE @ \ {r},
                                             !.dec = dec])

\* One role: its rule is looked up and joined to the decision.
DecideRole(w) ==
    LET q == work[w]
    IN  /\ Running(w) /\ q.pc = "rule"
        /\ \E r \in q.left :
               LET rs == Governing(db.rules, r, KindOf[q.host])
               IN  \/ /\ rs = {}
                      /\ Set(w, [q EXCEPT !.left = @ \ {r}])
                   \/ \E x \in rs :
                         Set(w, [q EXCEPT !.left = @ \ {r}, !.dec = Joined(@, x, q.tier)])

Decided(w) == Running(w) /\ work[w].pc = "rule" /\ work[w].left = {}

-----------------------------------------------------------------------------
(* TACACS+ authentication.                                                 *)

\* handleAuthen: CHAP is refused at once; a START without a password is
\* answered by a prompt.
AuthenStart(w) ==
    \E x \in Inputs :
        /\ x.op = "authen"
        /\ Arrive(w, x, [Request(x) EXCEPT !.reply = IF x.svc = "chap" THEN "fail" ELSE ""],
                  CASE x.svc = "pap" -> "device" [] x.svc = "ascii" -> "prompt" [] OTHER -> "done")

\* The CONTINUE with the password, or the device hangs up.
AuthenContinue(w) ==
    At(w, "authen", "prompt") /\ (Goto(w, "device") \/ Answer(w, "hung up"))

\* checkPassword: the device's own password comes first, for any user name.
AuthenDevice(w) ==
    LET q == work[w]
    IN  /\ At(w, "authen", "device")
        /\ IF DevicePassword(q.host, q.pass)
           THEN Set(w, [q EXCEPT !.ok = TRUE, !.pc = "again"])
           ELSE Goto(w, "exists")

\* checkPortalPassword: unknown users are not sent to the auth service.
AuthenExists(w) ==
    /\ At(w, "authen", "exists")
    /\ Goto(w, IF PortalUserExists(db, work[w].login) THEN "login" ELSE "again")

\* The auth service answers, or does not within eight seconds.
AuthenLogin(w) ==
    LET q == work[w]
    IN  /\ At(w, "authen", "login")
        /\ \/ Set(w, [q EXCEPT !.ok = AuthLogin(db, q.login, q.pass), !.pc = "again"])
           \/ Set(w, [q EXCEPT !.calm = FALSE, !.pc = "again"])

\* verifyAndReply: whether the user is known is read once more.  A user that
\* is not makes the device ask its own user list, by ERROR or by silence.
AuthenReply(w) ==
    LET q == work[w]
    IN  /\ At(w, "authen", "again")
        /\ \/ q.ok /\ IsFortiGateHost(db, q.host) /\ Goto(w, "note")
           \/ q.ok /\ ~IsFortiGateHost(db, q.host) /\ Answer(w, "pass")
           \/ ~q.ok /\ PortalUserExists(db, q.login) /\ Answer(w, "fail")
           \/ /\ ~q.ok /\ ~PortalUserExists(db, q.login)
              /\ Answer(w, IF DropUnknown THEN "silent" ELSE "error")

\* For the log line of a FortiGate login the maps are refreshed.
AuthenNote(w) ==
    LET q == work[w]
    IN  /\ At(w, "authen", "note")
        /\ \/ AuthorizeAdmin(db, q.login) # {} /\ Refresh(w, "granted")
           \/ AuthorizeAdmin(db, q.login) = {} /\ Goto(w, "granted")

AuthenGranted(w) == At(w, "authen", "granted") /\ Answer(w, "pass")

-----------------------------------------------------------------------------
(* TACACS+ authorization.                                                  *)

\* A command, or << >> for a login; the service= attribute may name FortiOS.
AuthorRequest(w) ==
    \E x \in Inputs : x.op = "author" /\ Arrive(w, x, Request(x), "exists")

\* handleAuthor: users of the device alone get ERROR.
AuthorExists(w) ==
    /\ At(w, "author", "exists")
    /\ IF PortalUserExists(db, work[w].login) THEN Goto(w, "nas") ELSE Answer(w, "error")

\* A FortiGate, by inventory or by service, takes its profile from the
\* settings; its administrators' login is not judged by the policies.
AuthorNas(w) ==
    LET q == work[w]
        fortinet == q.svc = "fortigate" \/ IsFortiGateHost(db, q.host)
    IN  /\ At(w, "author", "nas")
        /\ \/ fortinet /\ q.cmd = << >> /\ Refresh(w, "admin")
           \/ fortinet /\ q.cmd # << >> /\ Refresh(w, "row")
           \/ ~fortinet /\ Goto(w, "row")

\* authorizeAdmin.
AuthorAdmin(w) ==
    LET q == work[w]
    IN  /\ At(w, "author", "admin")
        /\ \/ AuthorizeAdmin(db, q.login) = {} /\ Answer(w, "fail")
           \/ \E u \in AuthorizeAdmin(db, q.login) :
                 Set(w, [q EXCEPT !.user = u, !.role = db.role[u], !.pc = "map"])

\* fortinetMappingRole, with the maps in memory.
AuthorMap(w) ==
    LET q == work[w]
    IN  /\ At(w, "author", "map")
        /\ \E r \in FortinetMappingRole(live, {q.role} \cup db.granted[q.user]) :
               Set(w, [q EXCEPT !.role = r, !.roles = {q.role} \cup db.granted[q.user],
                                !.pc = "refresh"])

\* fortinetAdminProfLive: the maps are read from the settings again, ...
AuthorRefresh(w) == At(w, "author", "refresh") /\ Refresh(w, "profile")

\* ... and the profile of the chosen role is looked up.
AuthorProfile(w) ==
    LET q == work[w]
    IN  /\ At(w, "author", "profile")
        /\ Set(w, [q EXCEPT !.pc = "done", !.reply = "pass",
                            !.profile = FortinetAdminProfForRole(live, q.role)])

\* authorize: the enabled account of that name; an e-mail is not accepted here.
AuthorRow(w) ==
    LET q == work[w]
        us == Enabled(db) \cap Named(q.login)
    IN  /\ At(w, "author", "row")
        /\ \/ us = {} /\ Answer(w, "fail")
           \/ \E u \in us : Set(w, [q EXCEPT !.user = u, !.role = db.role[u], !.pc = "roles"])

\* EffectiveRoles, of the role read before and of the groups now.
AuthorRoles(w) ==
    LET q == work[w]
        rs == {q.role} \cup db.granted[q.user]
    IN  /\ At(w, "author", "roles")
        /\ Set(w, [q EXCEPT !.roles = rs, !.left = rs, !.pc = "target"])

\* TargetMetaForHost.
AuthorTarget(w) ==
    LET q == work[w]
    IN  /\ At(w, "author", "target")
        /\ IF db.tier[q.host] = NoTier THEN Answer(w, "fail")
           ELSE Set(w, [q EXCEPT !.tier = db.tier[q.host], !.pc = "rule"])

\* The decision in hand: a login passes with it, a command has to be allowed
\* by its lists.  A Cisco login carries the level.
AuthorVerdict(w) ==
    LET q == work[w]
        lists == CommandAllowed(q.cmd, q.dec.allow, q.dec.deny)
    IN  /\ q.op = "author" /\ Decided(w)
        /\ \/ ~q.dec.allowed /\ Answer(w, "fail")
           \/ q.dec.allowed /\ q.cmd # << >> /\ ~lists /\ Answer(w, "fail")
           \/ q.dec.allowed /\ q.cmd # << >> /\ lists /\ Answer(w, "pass")
           \/ /\ q.dec.allowed /\ q.cmd = << >>
              /\ Set(w, [q EXCEPT !.pc = "done", !.reply = "pass",
                                 !.level = IF IsCiscoKind(KindOf[q.host]) /\ db.tier[q.host] # NoTier
                                           THEN EffectiveCiscoPrivilege(q.dec, q.role) ELSE 0])

-----------------------------------------------------------------------------
(* RADIUS.                                                                 *)

\* An Access-Request with a password and a Message-Authenticator, without
\* one, or with a CHAP response.
RadiusRequest(w) ==
    \E x \in Inputs : x.op = "radius" /\ Arrive(w, x, Request(x), "clients")

\* refreshIfStale: the table is read without the lock ...
RadiusClients(w) ==
    LET q == work[w]
    IN  /\ At(w, "radius", "clients")
        /\ IF cache.stale THEN Set(w, [q EXCEPT !.copy = db.client, !.pc = "install"])
           ELSE Goto(w, "client")

\* ... and installed under it, be it newer or older than what is there.
RadiusInstall(w) ==
    /\ At(w, "radius", "install")
    /\ cache' = [rows |-> work[w].copy, stale |-> FALSE]
    /\ work' = [work EXCEPT ![w].pc = "client", ![w].copy = << >>]
    /\ UNCHANGED <<db, live, requests, edits>>

\* A user the server calls unknown is left to the device, by silence.
Unknown(w) == Answer(w, IF DropUnknown THEN "silent" ELSE "fail")

\* Lookup and the checks of handleAuth.  Without a row the default secret
\* serves.  CHAP cannot be verified and counts as an unknown user.
RadiusClient(w) ==
    LET q == work[w]
        row == cache.rows[q.host]
    IN  /\ At(w, "radius", "client")
        /\ \/ row = "off" /\ Answer(w, "ignored")
           \/ row = "strict" /\ q.svc # "signed" /\ Answer(w, "fail")
           \/ row \in {"on", "none"} /\ q.svc = "chap" /\ Unknown(w)
           \/ /\ row # "off" /\ q.svc # "chap" /\ (row = "strict" => q.svc = "signed")
              /\ Goto(w, "device")

\* The device's own password signs in any user name, as an administrator.
RadiusDevice(w) ==
    LET q == work[w]
    IN  /\ At(w, "radius", "device")
        /\ IF DevicePassword(q.host, q.pass)
           THEN Set(w, [q EXCEPT !.role = "admin", !.roles = {"admin"}, !.left = {"admin"},
                                 !.pc = "target"])
           ELSE Goto(w, "info")

\* userInfo: the account whose role and groups the reply is made from.
RadiusInfo(w) ==
    LET q == work[w]
    IN  /\ At(w, "radius", "info")
        /\ \/ UserInfo(db, q.login) = {} /\ Unknown(w)
           \/ \E u \in UserInfo(db, q.login) :
                 Set(w, [q EXCEPT !.user = u, !.role = db.role[u], !.pc = "roles"])

RadiusRoles(w) ==
    LET q == work[w]
        rs == {q.role} \cup db.granted[q.user]
    IN  /\ At(w, "radius", "roles")
        /\ Set(w, [q EXCEPT !.roles = rs, !.left = rs, !.pc = "login"])

\* The auth service finds the account of the login by itself.
RadiusLogin(w) ==
    LET q == work[w]
    IN  /\ At(w, "radius", "login")
        /\ \/ AuthLogin(db, q.login, q.pass) /\ Goto(w, "target")
           \/ ~AuthLogin(db, q.login, q.pass) /\ Answer(w, "fail")
           \/ Set(w, [q EXCEPT !.calm = FALSE, !.pc = "done", !.reply = "fail"])

Accept(w, level) ==
    Set(w, [work[w] EXCEPT !.pc = "done", !.reply = "pass", !.level = level])

\* privilegeLevel: a device that is not listed by address gets the role's level.
RadiusTarget(w) ==
    LET q == work[w]
    IN  /\ At(w, "radius", "target")
        /\ IF db.tier[q.host] = NoTier \/ q.host \in ByUrlOnly
           THEN Accept(w, PrivLevelForRole(q.role))
           ELSE Set(w, [q EXCEPT !.tier = db.tier[q.host], !.pc = "rule"])

RadiusVerdict_AnyKind(w) ==
    LET q == work[w]
    IN  /\ q.op = "radius" /\ Decided(w)
        /\ Accept(w, IF q.dec.allowed THEN EffectiveCiscoPrivilege(q.dec, q.role)
                     ELSE PrivLevelForRole(q.role))

\* A policy that refuses does not refuse the login: the role's level is sent.
RadiusVerdict(w) ==
    LET q == work[w]
    IN  /\ q.op = "radius" /\ Decided(w)
        /\ Accept(w, IF q.dec.allowed /\ IsCiscoKind(KindOf[q.host])
                     THEN EffectiveCiscoPrivilege(q.dec, q.role)
                     ELSE PrivLevelForRole(q.role))

\* Thirty seconds pass.
CacheExpires ==
    /\ ~cache.stale
    /\ cache' = [cache EXCEPT !.stale = TRUE]
    /\ UNCHANGED <<db, live, work, requests, edits>>

Vendors == {"cisco", "juniper", "hp", "aruba", "mikrotik", "paloalto", "huawei",
            "fortinet", "f5", "checkpoint"}

\* The role tables of some vendors: junosClassForRole and its like.
RoleRights(vendor, r, level) ==
    \/ r \in {"admin", "secops"}
    \/ vendor \in {"juniper", "paloalto"} /\ r \notin {"netops", "viewer", "user"} /\ level >= 15

\* The reply of profileFor(vendor) makes the user a full administrator.
FullRights(vendor, r, level) ==
    CASE vendor \in {"cisco", "hp", "huawei", "checkpoint"} -> level >= 15
      [] vendor = "f5" -> r \in {"admin", "secops"} \/ level >= 15
      [] OTHER -> RoleRights(vendor, r, level)

-----------------------------------------------------------------------------
(* Administrators.                                                         *)

\* A change of the tables; every running request witnesses it.
Change(d) ==
    /\ edits < MaxEdits /\ requests + edits < MaxTurns /\ d # db
    /\ db' = d
    /\ work' = [w \in Workers |->
            IF Running(w) THEN [Witness(d, work[w]) EXCEPT !.calm = FALSE]
            ELSE IF work[w].op # "idle" THEN [work[w] EXCEPT !.calm = FALSE] ELSE work[w]]
    /\ edits' = edits + 1
    /\ UNCHANGED <<live, cache, requests>>

EditUser ==
    \E u \in Users :
        \/ \E a \in {"enabled", "disabled", "absent"} :
               db.account[u] # "absent" /\ Change([db EXCEPT !.account[u] = a])
        \/ \E r \in Roles : Change([db EXCEPT !.role[u] = r])
        \/ \E r \in Roles : Change([db EXCEPT !.granted[u] = @ \ {r}])
        \/ \E r \in Roles : Change([db EXCEPT !.granted[u] = @ \cup {r}])

EditRules ==
    \/ \E x \in RuleForms : Change([db EXCEPT !.rules = Inserted(@, {x})])
    \/ \E x \in RuleForms, r \in db.rules : Change([db EXCEPT !.rules = WithUpdate(@, r.id, x)])
    \/ \E r \in db.rules : Change([db EXCEPT !.rules = WithoutRule(@, r.id)])

PolicyServiceStarts == Change([db EXCEPT !.rules = Started(@)])

EditDevices ==
    \E h \in Hosts :
        \/ \E t \in {0, 3, NoTier} : Change([db EXCEPT !.tier[h] = t])
        \/ \E c \in ClientRow : Change([db EXCEPT !.client[h] = c])

SaveFortinet == \E m \in Mappings : Change([db EXCEPT !.mapping = m])

-----------------------------------------------------------------------------
Init ==
    /\ db \in InitialTables
    /\ live = db.mapping                                     \* main of tacacs-service
    /\ cache = [rows |-> [h \in Hosts |-> "none"], stale |-> TRUE]   \* NewClientStore
    /\ work = [w \in Workers |-> Idle]
    /\ requests = 0 /\ edits = 0

TacacsStep(w) ==
    \/ AuthenContinue(w) \/ AuthenDevice(w) \/ AuthenExists(w) \/ AuthenLogin(w)
    \/ AuthenReply(w) \/ AuthenNote(w) \/ AuthenGranted(w)
    \/ ApplyFortinetConfig(w)
    \/ AuthorExists(w) \/ AuthorNas(w) \/ AuthorAdmin(w) \/ AuthorMap(w) \/ AuthorRefresh(w)
    \/ AuthorProfile(w) \/ AuthorRow(w) \/ AuthorRoles(w) \/ AuthorTarget(w) \/ AuthorVerdict(w)

RadiusStep(w) ==
    \/ RadiusClients(w) \/ RadiusInstall(w) \/ RadiusClient(w) \/ RadiusDevice(w)
    \/ RadiusInfo(w) \/ RadiusRoles(w) \/ RadiusLogin(w) \/ RadiusTarget(w) \/ RadiusVerdict(w)

Administer ==
    EditUser \/ EditRules \/ PolicyServiceStarts \/ EditDevices \/ SaveFortinet

Next ==
    \/ \E w \in Workers :
           \/ AuthenStart(w) \/ AuthorRequest(w) \/ RadiusRequest(w)
           \/ TacacsStep(w) \/ RadiusStep(w) \/ DecideRole(w)
    \/ CacheExpires
    \/ Administer

Spec == Init /\ [][Next]_vars

-----------------------------------------------------------------------------
(* Properties.                                                             *)

Done(w) == work[w].op # "idle" /\ work[w].pc = "done"

\* Where a request may be, once it has begun.
Places == [authen |-> {"device", "prompt", "exists", "login", "again", "note", "granted",
                       "apply", "done"},
           author |-> {"exists", "nas", "admin", "map", "refresh", "profile", "row", "roles",
                       "target", "rule", "apply", "done"},
           radius |-> {"clients", "install", "client", "device", "info", "roles", "login",
                       "target", "rule", "done"}]

Place == {"begin"} \cup Places.authen \cup Places.author \cup Places.radius
Reply == {"", "pass", "fail", "error", "silent", "ignored", "hung up"}
Copy == {<< >>} \cup Mappings \cup [Hosts -> ClientRow]

RequestType ==
    [op : {"authen", "author", "radius"}, host : Hosts, login : Logins,
     pass : Users \cup {"", "device", "wrong"}, cmd : Commands,
     svc : {"pap", "ascii", "chap", "shell", "fortigate", "signed", "plain"},
     pc : Place, next : {"", "granted", "admin", "row", "profile"},
     beside : BOOLEAN, ok : BOOLEAN, user : Users \cup {NoUser},
     role : Roles \cup {""}, roles : SUBSET Roles, left : SUBSET Roles,
     dec : Decision, tier : Tiers \cup {NoTier},
     copy : Copy, reply : Reply,
     level : 0 .. 15, profile : Profiles \cup {""},
     calm : BOOLEAN, known : BOOLEAN, unknown : BOOLEAN,
     tiers : SUBSET (Tiers \cup {NoTier}), asRole : SUBSET Roles, byGroup : SUBSET Roles]

\* The tables, the two servers' copies and every request have their types; the
\* decision a request builds holds only what rules can hold.
TypeOK ==
    /\ db \in Tables
    /\ live \in Mappings
    /\ cache \in [rows : [Hosts -> ClientRow], stale : BOOLEAN]
    /\ \A w \in Workers : work[w] = Idle \/ work[w] \in RequestType
    /\ requests \in 0 .. MaxRequests /\ edits \in 0 .. MaxEdits

\* The rules that speak for a user's roles on a device: one per role that has
\* any, the closest, and only those that reach the device's tier.  Where two
\* are equally close either may speak.
Speaking(rs, host) ==
    LET ruled == {r \in rs : Governing(db.rules, r, KindOf[host]) # {}}
    IN  {{x \in {f[r] : r \in ruled} : db.tier[host] <= x.tier} :
            f \in {g \in [ruled -> db.rules] :
                      \A r \in ruled : g[r] \in Governing(db.rules, r, KindOf[host])}}

\* The rules xs let the device run what the line means.
Permits(xs, cmd) ==
    LET hit(ps) == \E p \in ps : LineBegins(Meaning[cmd], Meaning[p])
        allow == UNION {x.allow : x \in xs}
    IN  /\ xs # {}
        /\ \/ cmd = << >>
           \/ Meaning[cmd] \in Leaving
           \/ ~hit(UNION {x.deny : x \in xs}) /\ (allow = {} \/ hit(allow))

\* The highest level the rules xs configure, or the level of the role.
LevelOf(xs, r) ==
    IF \E x \in xs : x.cisco > 0
    THEN CHOOSE n \in 1 .. 15 : (\E x \in xs : x.cisco = n) /\ \A x \in xs : x.cisco <= n
    ELSE PrivLevelForRole(r)

AuthenFits(q) ==
    LET right == DevicePassword(q.host, q.pass) \/
                 (PortalUserExists(db, q.login) /\ AuthLogin(db, q.login, q.pass))
    IN  q.svc = "chap" \/ q.reply = "hung up" \/
        q.reply = (IF right THEN "pass"
                   ELSE IF PortalUserExists(db, q.login) THEN "fail"
                   ELSE IF DropUnknown THEN "silent" ELSE "error")

AuthorFits(q) ==
    LET us == Enabled(db) \cap Named(q.login)
        speaking == UNION {Speaking(EffectiveRoles(db, u), q.host) : u \in us}
        listed == db.tier[q.host] # NoTier
        fortinet == q.svc = "fortigate" \/ (listed /\ KindOf[q.host] = "fortigate")
        profiles == UNION {{FortinetAdminProfForRole(db.mapping, r) : r \in EffectiveRoles(db, u)}
                              : u \in AuthorizeAdmin(db, q.login)}
    IN  CASE ~PortalUserExists(db, q.login) -> q.reply = "error"
          [] PortalUserExists(db, q.login) /\ fortinet /\ q.cmd = << >> ->
                 q.reply = "pass" /\ q.profile \in profiles
                 /\ \E u \in AuthorizeAdmin(db, q.login) : \A r \in EffectiveRoles(db, u) :
                        Rank[q.profile] <= Rank[FortinetAdminProfForRole(db.mapping, r)]
          [] OTHER ->
                 \/ q.reply = "fail" /\ (us = {} \/ ~listed)
                 \/ \E xs \in speaking :
                       /\ listed
                       /\ q.reply = (IF Permits(xs, q.cmd) THEN "pass" ELSE "fail")
                       /\ q.reply = "pass" /\ q.cmd = << >> /\ Family[KindOf[q.host]] = "cisco" =>
                             q.level \in {LevelOf(xs, db.role[u]) : u \in us}

RadiusFits(q) ==
    q.reply = "pass" =>
        \/ DevicePassword(q.host, q.pass)
        \/ /\ AuthLogin(db, q.login, q.pass)
           /\ \E u \in UserInfo(db, q.login) :
                 \/ q.level = PrivLevelForRole(db.role[u])
                 \/ \E xs \in Speaking(EffectiveRoles(db, u), q.host) :
                       xs # {} /\ q.level = LevelOf(xs, db.role[u])

\* A request during which nothing was changed and the auth service answered is
\* answered as its inputs and the tables say: who is right, unknown or refused,
\* which commands the closest rules of all roles permit, abbreviated or not,
\* with which level, and with the least of the roles' FortiGate profiles.
AnswersFit ==
    \A w \in Workers :
        Done(w) /\ work[w].calm =>
            CASE work[w].op = "authen" -> AuthenFits(work[w])
              [] work[w].op = "author" -> AuthorFits(work[w])
              [] work[w].op = "radius" -> RadiusFits(work[w])

\* Accounts may be closed and opened while a request runs.  A login that had no
\* open account at any moment of it is not let in, but for the device's own
\* password; one that had an open account at every moment is judged here and
\* not left to the device's own user list.
RevocationHolds ==
    \A w \in Workers :
        LET q == work[w]
        IN  Done(w) =>
            /\ q.reply = "pass" /\ ~q.known =>
                   q.op # "author" /\ DevicePassword(q.host, q.pass)
            /\ ~q.unknown => /\ q.reply # "error"
                             /\ q.reply = "silent" => q.svc = "chap"

\* The rules are read role by role while they are edited, the user's role, the
\* groups and the device's tier before them.  A command does not pass when the
\* user's own role, or a role of the user's groups, had at every moment of the
\* request only rules that deny the command and reach each tier the device had.
StandingDenyHolds ==
    \A w \in Workers :
        Done(w) /\ work[w].reply = "pass" => work[w].asRole \cup work[w].byGroup = {}

\* Whatever the vendor, RADIUS makes a user a full administrator only through
\* an administrator's role or through level 15 in a rule for a Cisco device.
FullRightsEarned ==
    \A w \in Workers :
        LET q == work[w]
        IN  Done(w) /\ q.op = "radius" /\ q.reply = "pass" =>
            \A v \in Vendors : FullRights(v, q.role, q.level) =>
                \/ q.role \in {"admin", "secops"}
                \/ IsCiscoKind(KindOf[q.host]) /\ q.dec.cisco = 15 /\ q.dec.allowed
=============================================================================
