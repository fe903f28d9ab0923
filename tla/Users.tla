------------------------------- MODULE Users -------------------------------
(***************************************************************************)
(* Who may sign in: the users, groups and user_groups tables, the second   *)
(* factor, and what auth-service does to them (internal/auth, groups,      *)
(* ldap, cmd/auth-service): sign-in by password, by the directory and by   *)
(* SSO, enrolment of an authenticator, the administrators' edits, and the  *)
(* worker that imports the directory every five minutes.                   *)
(*                                                                         *)
(* Handlers hold no lock and, with two exceptions, no transaction: what a  *)
(* handler reads in one step may be gone when it writes in the next.       *)
(***************************************************************************)
EXTENDS Integers

CONSTANTS
    Users, Groups, Absent,
    Root,                   \* the administrator bootstrap creates
    Handlers,               \* requests auth-service works on at the same time
    MaxEdits, MaxSecrets    \* bounds

ASSUME UsersAssumption ==
    /\ Root \in Users
    /\ MaxEdits \in Nat /\ MaxSecrets \in Nat

VARIABLES
    user,       \* the users table
    group,      \* the groups table
    member,     \* the user_groups table
    policy,     \* the mfa_policy setting
    directory,  \* the directory: whom it knows, and in which groups
    call,       \* what a handler has read and not yet written
    sync,       \* the directory worker
    secrets,    \* TOTP secrets made so far
    issued,     \* the session token the last step issued, if it did
    edits

data == <<user, group, member, policy>>
vars == <<data, directory, call, sync, secrets, issued, edits>>

Role == {"admin", "user"}
DefaultRole == "user"
Source == {"local", "ldap", "saml"}
None == 0

UserRow == [role : Role, disabled : BOOLEAN, source : Source, locked : BOOLEAN,
            exempt : BOOLEAN, enabled : BOOLEAN, secret : 0..MaxSecrets]
\* What a sign-in keeps of the row it has loaded.
Flags == [disabled : BOOLEAN, exempt : BOOLEAN, enabled : BOOLEAN]

GroupRow == [role : Role, linked : BOOLEAN]
Policy == {"off", "optional", "required"}

\* "No row" is not a row.
ASSUME AbsentAssumption == Absent \notin UserRow /\ Absent \notin GroupRow

Idle == [op |-> "idle"]

Call ==
    {Idle}
    \cup [op : {"enable", "disable", "delete"}, u : Users]
    \cup [op : {"enrol"}, u : Users, secret : 1..MaxSecrets]
    \cup [op : {"update"}, u : Users, role : Role,
          locked : BOOLEAN, disabled : BOOLEAN, exempt : BOOLEAN]
    \cup [op : {"upsert"}, u : Users, source : {"ldap", "saml"}, role : Role,
          groups : SUBSET Groups]
    \cup [op : {"merge"}, u : Users, source : Source, groups : SUBSET Groups,
          flags : Flags]
    \cup [op : {"code"}, u : Users, obliged : BOOLEAN]

Sync ==
    [op : {"rest"}] \cup
    [op : {"groups", "users"}, groups : SUBSET Groups, users : SUBSET Users] \cup
    [op : {"upsert", "replace"}, users : SUBSET Users, u : Users,
     matched : SUBSET Groups, role : Role]

NoToken == [by |-> "none"]
Token == {NoToken} \cup [by : {"password", "enrolment", "saml"}, u : Users,
                         obliged : BOOLEAN, code : BOOLEAN]

TypeOK ==
    /\ user \in [Users -> UserRow \cup {Absent}]
    /\ group \in [Groups -> GroupRow \cup {Absent}]
    /\ member \subseteq Users \X Groups
    /\ policy \in Policy
    /\ directory \in [Users -> (SUBSET Groups) \cup {Absent}]
    /\ call \in [Handlers -> Call]
    /\ sync \in Sync
    /\ secrets \in 0..MaxSecrets
    /\ issued \in Token
    /\ edits \in 0..MaxEdits
    \* user_groups references both tables, ON DELETE CASCADE
    /\ \A m \in member : user[m[1]] # Absent /\ group[m[2]] # Absent

NewUser(role, source) ==
    [role |-> role, disabled |-> FALSE, source |-> source, locked |-> FALSE,
     exempt |-> FALSE, enabled |-> FALSE, secret |-> None]

Init ==
    /\ user = [u \in Users |-> IF u = Root THEN NewUser("admin", "local") ELSE Absent]
    /\ group \in [Groups -> {Absent, [role |-> "admin", linked |-> TRUE]}]
    /\ member = {}
    /\ policy = "required"
    /\ directory = [u \in Users |-> IF u = Root THEN Absent ELSE Groups]
    /\ call = [h \in Handlers |-> Idle]
    /\ sync = [op |-> "rest"]
    /\ secrets = 0
    /\ issued = NoToken
    /\ edits = 0

-----------------------------------------------------------------------------
(* The tables. *)

GroupsOf(u) == {g \in Groups : <<u, g>> \in member}
In(u, gs) == {u} \X gs

Edit == edits < MaxEdits /\ edits' = edits + 1

\* What tryLDAP, samlACSHandler and syncUserDN make of the groups the directory
\* names: the ones linked to it, and a role. admin wins; otherwise the last
\* group of the list does.
Matched(u) ==
    IF directory[u] = Absent THEN {}
    ELSE {g \in directory[u] : group[g] # Absent /\ group[g].linked}

RolesFrom(gs) ==
    LET roles == {group[g].role : g \in gs} IN
    IF "admin" \in roles THEN {"admin"} ELSE IF gs = {} THEN {DefaultRole} ELSE roles

\* INSERT ... ON CONFLICT(username) DO UPDATE
Upserted_Overwrites(row, role, source) ==
    IF row = Absent THEN NewUser(role, source)
    ELSE [row EXCEPT !.role = IF row.locked THEN row.role ELSE role, !.source = source]

Upserted_FirstRole(row, role, source) ==
    IF row = Absent THEN NewUser(role, source)
    ELSE IF row.source = "local" THEN row ELSE [row EXCEPT !.source = source]

Upserted(row, role, source) ==
    IF row = Absent THEN NewUser(role, source)
    ELSE IF row.source = "local" THEN row
    ELSE [row EXCEPT !.role = IF row.locked THEN row.role ELSE role,
                     !.source = source]

Merged_Unchecked(u, gs) == {member \cup In(u, gs)}

\* One INSERT per group; the first that meets a missing row ends it.
Merged(u, gs) ==
    LET there == {g \in gs : group[g] # Absent} IN
    IF user[u] = Absent THEN {member}
    ELSE IF there = gs THEN {member \cup In(u, gs)}
    ELSE {member \cup In(u, some) : some \in SUBSET there}

\* One transaction: all the groups or none.
Replaced(u, gs) ==
    IF user[u] = Absent \/ \E g \in gs : group[g] = Absent THEN member
    ELSE (member \ In(u, Groups)) \cup In(u, gs)

\* An UPDATE ... WHERE id = u, which changes nothing when u is gone.
UpdateRow(u, row) ==
    user' = IF user[u] = Absent THEN user ELSE [user EXCEPT ![u] = row]

Start(h, c) == call[h] = Idle /\ call' = [call EXCEPT ![h] = c]
Step(h, c) == call' = [call EXCEPT ![h] = c]
Answer(h) == Step(h, Idle)

-----------------------------------------------------------------------------
(* Signing in. *)

\* ldap.Client.Authenticate: the directory finds the user, by account name or by
\* mail address, takes the password and lists the groups.
Bound(u) == directory[u] # Absent

\* Provider.ParseACS: the identity provider's assertion is valid and names u.
Asserted(u) == directory[u] # Absent

\* mfa.Verify
RightCode(row, code) == row # Absent /\ code # None /\ code = row.secret

FlagsOf(row) ==
    [disabled |-> row.disabled, exempt |-> row.exempt, enabled |-> row.enabled]

\* tryLDAP, up to the upsert: the bind succeeds, the account has been imported.
DirectoryLogin(h, u) ==
    /\ Bound(u)
    /\ user[u] # Absent /\ user[u].source # "saml"
    /\ \E role \in RolesFrom(Matched(u)) :
          Start(h, [op |-> "upsert", u |-> u, source |-> "ldap", role |-> role,
                    groups |-> Matched(u)])
    /\ UNCHANGED <<data, directory, sync, secrets, edits>>

\* samlACSHandler, up to the upsert: whoever the identity provider names.
SamlLogin(h, u) ==
    /\ Asserted(u)
    /\ \E role \in RolesFrom(Matched(u)) :
          Start(h, [op |-> "upsert", u |-> u, source |-> "saml", role |-> role,
                    groups |-> Matched(u)])
    /\ UNCHANGED <<data, directory, sync, secrets, edits>>

UpsertExternal(h) ==
    LET c == call[h] IN
    /\ c.op = "upsert"
    /\ user' = [user EXCEPT ![c.u] = Upserted(@, c.role, c.source)]
    /\ Step(h, [op |-> "merge", u |-> c.u, source |-> c.source, groups |-> c.groups,
                flags |-> FlagsOf(user'[c.u])])
    /\ UNCHANGED <<group, member, policy, directory, sync, secrets, edits>>

\* tryLocal: the local password is right.
LocalLogin(h, u) ==
    /\ user[u] # Absent /\ user[u].source = "local" /\ ~user[u].disabled
    /\ Start(h, [op |-> "merge", u |-> u, source |-> "local", groups |-> {},
                 flags |-> FlagsOf(user[u])])
    /\ UNCHANGED <<data, directory, sync, secrets, edits>>

Issue(u, by, obliged, code) ==
    issued' = [by |-> by, u |-> u, obliged |-> obliged, code |-> code]

\* LoginMFADecisionForUser and ...ForDevice: the flags are those of the row that
\* was loaded, the secret is read now.
Decision_MissingSecret(flags, row, device) ==
    CASE flags.exempt \/ (IF device THEN ~flags.enabled ELSE policy = "off") -> "token"
      [] ~flags.enabled -> IF policy = "required" THEN "enrol" ELSE "token"
      [] row = Absent -> "refuse"
      [] OTHER -> IF row.secret # None THEN "code" ELSE "token"

Decision(flags, row, device) ==
    CASE flags.exempt \/ (IF device THEN ~flags.enabled ELSE policy = "off") -> "token"
      [] ~flags.enabled -> IF policy = "required" THEN "enrol" ELSE "token"
      [] row = Absent -> "refuse"
      [] row.secret # None -> "code"
      [] OTHER -> IF policy = "required" /\ ~device THEN "enrol" ELSE "token"

\* The memberships are merged, then the second factor is decided on.
Decide(h, device) ==
    LET c == call[h]
        decision == IF c.source = "saml" THEN "token"
                    ELSE IF c.flags.disabled THEN "refuse"
                    ELSE Decision(c.flags, user[c.u], device)
        obliged == policy = "required" /\ ~c.flags.exempt /\ ~device
                     /\ c.source # "saml"
    IN
    /\ c.op = "merge"
    /\ member' \in Merged(c.u, c.groups)
    /\ IF decision = "code"
       THEN Step(h, [op |-> "code", u |-> c.u, obliged |-> obliged])
       ELSE Answer(h)
    /\ IF decision = "token"
       THEN Issue(c.u, IF c.source = "saml" THEN "saml" ELSE "password", obliged, FALSE)
       ELSE issued' = NoToken
    /\ UNCHANGED <<user, group, policy, directory, sync, secrets, edits>>

\* The code of the request against the secret as it is now stored.
CheckCode(h, code) ==
    LET c == call[h] IN
    /\ c.op = "code"
    /\ IF RightCode(user[c.u], code)
       THEN Issue(c.u, "password", c.obliged, TRUE)
       ELSE issued' = NoToken
    /\ Answer(h)
    /\ UNCHANGED <<data, directory, sync, secrets, edits>>

-----------------------------------------------------------------------------
(* The second factor: POST /users/{id}/mfa/..., DELETE /users/{id}/mfa. *)

\* enroll: refused when enrolled; without a secret one is made, one that exists
\* is shown again and nothing is written.
Enrol(h, u) ==
    /\ user[u] # Absent /\ ~user[u].enabled
    /\ user[u].secret = None
    /\ secrets < MaxSecrets /\ secrets' = secrets + 1
    /\ Start(h, [op |-> "enrol", u |-> u, secret |-> secrets'])
    /\ UNCHANGED <<data, directory, sync, edits>>

\* SetMFASecret
SetSecret(h) ==
    LET c == call[h] IN
    /\ c.op = "enrol"
    /\ UpdateRow(c.u, [user[c.u] EXCEPT !.secret = c.secret, !.enabled = FALSE,
                                        !.exempt = FALSE])
    /\ Answer(h)
    /\ UNCHANGED <<group, member, policy, directory, sync, secrets, edits>>

\* verify: the code is right for the secret that is stored now.
Verify(h, u) ==
    /\ user[u] # Absent /\ user[u].secret # None
    /\ Start(h, [op |-> "enable", u |-> u])
    /\ UNCHANGED <<data, directory, sync, secrets, edits>>

\* EnableMFA; a caller that came with an enrolment token gets a session token.
Enable(h, enrolling) ==
    LET c == call[h] IN
    /\ c.op = "enable"
    /\ UpdateRow(c.u, [user[c.u] EXCEPT !.enabled = TRUE, !.exempt = FALSE])
    /\ IF enrolling /\ user[c.u] # Absent
       THEN Issue(c.u, "enrolment", TRUE, TRUE) ELSE issued' = NoToken
    /\ Answer(h)
    /\ UNCHANGED <<group, member, policy, directory, sync, secrets, edits>>

\* The user's own DELETE reads the policy first.
DisableOwn(h, u) ==
    /\ user[u] # Absent
    /\ policy # "required"
    /\ Start(h, [op |-> "disable", u |-> u])
    /\ UNCHANGED <<data, directory, sync, secrets, edits>>

Disable(h) ==
    LET c == call[h] IN
    /\ c.op = "disable"
    /\ UpdateRow(c.u, [user[c.u] EXCEPT !.secret = None, !.enabled = FALSE,
                                        !.exempt = FALSE])
    /\ Answer(h)
    /\ UNCHANGED <<group, member, policy, directory, sync, secrets, edits>>

\* An administrator's DELETE exempts, a reset does not touch the exemption.
ClearMFA(u, exempt) ==
    /\ Edit
    /\ user[u] # Absent
    /\ UpdateRow(u, [user[u] EXCEPT !.secret = None, !.enabled = FALSE,
                                    !.exempt = exempt \/ @])
    /\ UNCHANGED <<group, member, policy, directory, call, sync, secrets>>

SetPolicy(p) ==
    /\ Edit
    /\ policy' = p
    /\ UNCHANGED <<user, group, member, directory, call, sync, secrets>>

-----------------------------------------------------------------------------
(* Administration. *)

CreateUser(u, role) ==
    /\ Edit
    /\ user[u] = Absent
    /\ user' = [user EXCEPT ![u] = NewUser(role, "local")]
    /\ UNCHANGED <<group, member, policy, directory, call, sync, secrets>>

\* UpdateUser reads the row, merges the request into it and writes every column;
\* a new role is locked.
Requested(row) ==
    {[row EXCEPT !.role = role, !.locked = @ \/ role # row.role] : role \in Role}
    \cup {[row EXCEPT !.disabled = disabled] : disabled \in BOOLEAN}
    \cup {[row EXCEPT !.exempt = exempt] : exempt \in BOOLEAN}

ReadForUpdate(h, u) ==
    /\ Edit
    /\ user[u] # Absent
    /\ \E row \in Requested(user[u]) :
          Start(h, [op |-> "update", u |-> u, role |-> row.role, locked |-> row.locked,
                    disabled |-> row.disabled, exempt |-> row.exempt])
    /\ UNCHANGED <<data, directory, sync, secrets>>

Update(h) ==
    LET c == call[h] IN
    /\ c.op = "update"
    /\ UpdateRow(c.u, [user[c.u] EXCEPT !.role = c.role, !.locked = c.locked,
                                        !.disabled = c.disabled,
                                        !.exempt = c.exempt])
    /\ Answer(h)
    /\ UNCHANGED <<group, member, policy, directory, sync, secrets, edits>>

ActiveAdmin(u) == user[u] # Absent /\ user[u].role = "admin" /\ ~user[u].disabled

\* DeleteUser: the last active administrator and the caller's own account stay.
ReadForDelete(h, actor, u) ==
    /\ Edit
    /\ actor # u
    /\ user[actor] # Absent /\ user[u] # Absent
    /\ ActiveAdmin(u) => \E other \in Users \ {u} : ActiveAdmin(other)
    /\ Start(h, [op |-> "delete", u |-> u])
    /\ UNCHANGED <<data, directory, sync, secrets>>

Delete(h) ==
    LET c == call[h] IN
    /\ c.op = "delete"
    /\ user' = [user EXCEPT ![c.u] = Absent]
    /\ member' = member \ In(c.u, Groups)
    /\ Answer(h)
    /\ UNCHANGED <<group, policy, directory, sync, secrets, edits>>

CreateGroup(g) ==
    /\ Edit
    /\ group[g] = Absent
    /\ \E row \in GroupRow : group' = [group EXCEPT ![g] = row]
    /\ UNCHANGED <<user, member, policy, directory, call, sync, secrets>>

\* The form's ldap_dn replaces the stored one: left empty, it unlinks the group.
UpdateGroup(g) ==
    /\ Edit
    /\ group[g] # Absent
    /\ \E row \in GroupRow : group' = [group EXCEPT ![g] = row]
    /\ UNCHANGED <<user, member, policy, directory, call, sync, secrets>>

DeleteGroup(g) ==
    /\ Edit
    /\ group[g] # Absent
    /\ group' = [group EXCEPT ![g] = Absent]
    /\ member' = member \ (Users \X {g})
    /\ UNCHANGED <<user, policy, directory, call, sync, secrets>>

AddMember(u, g) ==
    /\ Edit
    /\ user[u] # Absent /\ group[g] # Absent
    /\ member' = member \cup {<<u, g>>}
    /\ UNCHANGED <<user, group, policy, directory, call, sync, secrets>>

RemoveMember(u, g) ==
    /\ Edit
    /\ member' = member \ {<<u, g>>}
    /\ UNCHANGED <<user, group, policy, directory, call, sync, secrets>>

-----------------------------------------------------------------------------
(* The directory, and the worker that imports it (executeLDAPSync). *)

DirectoryChanges(u) ==
    /\ Edit
    /\ \E gs \in SUBSET Groups : directory' = [directory EXCEPT ![u] = gs]
    /\ UNCHANGED <<data, call, sync, secrets>>

Known == {u \in Users : directory[u] # Absent}

Tick ==
    /\ sync.op = "rest"
    /\ sync' = [op |-> "groups", groups |-> Groups, users |-> Known]
    /\ UNCHANGED <<data, directory, call, secrets, edits>>

\* UpsertLDAP: the linked group gets the default role back; without one a group
\* is made, unless an unlinked group has its name.
SyncGroup(g) ==
    /\ sync.op = "groups" /\ g \in sync.groups
    /\ sync' = [sync EXCEPT !.groups = @ \ {g}]
    /\ group' = IF group[g] = Absent \/ group[g].linked
                THEN [group EXCEPT ![g] = [role |-> DefaultRole, linked |-> TRUE]]
                ELSE group
    /\ UNCHANGED <<user, member, policy, directory, call, secrets, edits>>

GroupsDone ==
    /\ sync.op = "groups" /\ sync.groups = {}
    /\ sync' = [sync EXCEPT !.op = "users"]
    /\ UNCHANGED <<data, directory, call, secrets, edits>>

\* syncUserDN: look the user up in the directory, its groups in the database.
SyncRead(u) ==
    /\ sync.op = "users" /\ u \in sync.users
    /\ \E role \in RolesFrom(Matched(u)) :
          sync' = [op |-> "upsert", users |-> sync.users \ {u}, u |-> u,
                   matched |-> Matched(u), role |-> role]
    /\ UNCHANGED <<data, directory, call, secrets, edits>>

\* The directory does not answer: the user is left for the next run.
SyncFails(u) ==
    /\ Edit
    /\ sync.op = "users" /\ u \in sync.users
    /\ sync' = [sync EXCEPT !.users = @ \ {u}]
    /\ UNCHANGED <<data, directory, call, secrets>>

NextUser == [op |-> "users", groups |-> {}, users |-> sync.users]

\* A local account of that name is left alone.
SyncUpsert ==
    /\ sync.op = "upsert"
    /\ IF user[sync.u] # Absent /\ user[sync.u].source = "local"
       THEN sync' = NextUser /\ UNCHANGED user
       ELSE /\ user' = [user EXCEPT ![sync.u] = Upserted(@, sync.role, "ldap")]
            /\ sync' = IF sync.matched = {} THEN NextUser
                       ELSE [sync EXCEPT !.op = "replace"]
    /\ UNCHANGED <<group, member, policy, directory, call, secrets, edits>>

SyncReplace ==
    /\ sync.op = "replace"
    /\ member' = Replaced(sync.u, sync.matched)
    /\ sync' = NextUser
    /\ UNCHANGED <<user, group, policy, directory, call, secrets, edits>>

SyncDone ==
    /\ sync.op = "users" /\ sync.users = {}
    /\ sync' = [op |-> "rest"]
    /\ UNCHANGED <<data, directory, call, secrets, edits>>

-----------------------------------------------------------------------------

Outside == \E u \in Users : DirectoryChanges(u) \/ SyncFails(u)

\* Only these issue session tokens.
Issuing ==
    \E h \in Handlers :
        \/ \E device \in BOOLEAN : Decide(h, device)
        \/ \E code \in 0..MaxSecrets : CheckCode(h, code)
        \/ \E enrolling \in BOOLEAN : Enable(h, enrolling)

Arrive ==
    \E h \in Handlers :
        \/ \E u \in Users : DirectoryLogin(h, u) \/ SamlLogin(h, u) \/ LocalLogin(h, u)
        \/ UpsertExternal(h)

SecondFactor ==
    \/ \E h \in Handlers :
        \/ \E u \in Users : Enrol(h, u) \/ Verify(h, u) \/ DisableOwn(h, u)
        \/ SetSecret(h)
        \/ Disable(h)
    \/ \E u \in Users, exempt \in BOOLEAN : ClearMFA(u, exempt)
    \/ \E p \in Policy : SetPolicy(p)

Administer ==
    \/ \E h \in Handlers :
        \/ \E u \in Users : ReadForUpdate(h, u)
        \/ Update(h)
        \/ \E actor, u \in Users : ReadForDelete(h, actor, u)
        \/ Delete(h)
    \/ \E u \in Users, role \in Role : CreateUser(u, role)
    \/ \E g \in Groups : CreateGroup(g) \/ UpdateGroup(g) \/ DeleteGroup(g)
    \/ \E u \in Users, g \in Groups : AddMember(u, g) \/ RemoveMember(u, g)

Import ==
    \/ Tick
    \/ \E g \in Groups : SyncGroup(g)
    \/ GroupsDone
    \/ \E u \in Users : SyncRead(u)
    \/ SyncUpsert \/ SyncReplace \/ SyncDone

Next ==
    \/ Issuing
    \/ /\ Arrive \/ SecondFactor \/ Administer \/ Import \/ Outside
       /\ issued' = NoToken

Spec == Init /\ [][Next]_vars

\* The ticker of runLDAPSyncWorker runs as long as the service does.
FairSpec == Spec /\ WF_vars(Import /\ issued' = NoToken)

-----------------------------------------------------------------------------
(* Properties. *)

\* Where the policy asked for a second factor and the user was not exempt when
\* the handler looked, no session token was issued on the password alone --
\* whatever was enrolled, reset, exempted or switched off while it worked
\* (loginHandler, LoginMFADecisionForUser).
TokensPassMFA == issued # NoToken /\ issued.obliged => issued.code

\* Signing in and the import leave local accounts alone, and the role an
\* administrator has set: only UpdateUser and DeleteUser end either, even when
\* the account was made, or the role set, between the handler's read and its
\* upsert (upsertExternalUser, syncUserDN).
LocalAndLockedStand ==
    [][\A u \in Users :
         user[u] # Absent /\ (Arrive \/ Import) =>
            /\ user[u].source = "local" => user'[u] = user[u]
            /\ user[u].locked => user'[u].role = user[u].role]_vars

\* Once the edits stop, the directory has the last word on who is in which of
\* its groups and on every role nobody has locked, however long a sign-in sat
\* on the groups it had read (ReplaceMemberships, MergeMemberships).
DirectoryWins ==
    <>[](\A u \in Known :
            user[u] # Absent /\ user[u].source # "local" =>
               /\ Matched(u) # {} => GroupsOf(u) = Matched(u)
               /\ ~user[u].locked => user[u].role \in RolesFrom(Matched(u)))

=============================================================================
