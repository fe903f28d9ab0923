----------------------------- MODULE TokenProofs -----------------------------
(***************************************************************************)
(* Proofs about session tokens, for every value of the constants: whom     *)
(* auth-service gives one (Users), and how long the gateway goes on        *)
(* accepting it (VerifyCache, as Cache, which promises GrantTimes).        *)
(***************************************************************************)
EXTENDS Users, GrantTimes, TLAPS

CONSTANTS Tokens, MaxSize, MaxTime, MaxLost

VARIABLES cached, putAt, now, lost

Cache == INSTANCE VerifyCache

-----------------------------------------------------------------------------
(* Users, groups and sign-in.                                              *)

\* What a call's operation tells of it.
LEMMA CallKinds ==
    ASSUME NEW c \in Call
    PROVE  /\ c.op \in {"enable", "disable", "delete"} => c.u \in Users
           /\ c.op = "enrol" => c.u \in Users /\ c.secret \in 1..MaxSecrets
           /\ c.op = "update" => /\ c.u \in Users /\ c.role \in Role
                                 /\ {c.locked, c.disabled, c.exempt} \subseteq BOOLEAN
           /\ c.op = "upsert" => /\ c.u \in Users /\ c.source \in {"ldap", "saml"}
                                 /\ c.role \in Role /\ c.groups \subseteq Groups
           /\ c.op = "merge" => /\ c.u \in Users /\ c.source \in Source
                                /\ c.groups \subseteq Groups /\ c.flags \in Flags
           /\ c.op = "code" => c.u \in Users /\ c.obliged \in BOOLEAN
BY DEF Call, Idle

\* What the worker holds at each of its places.
LEMMA SyncKinds ==
    ASSUME NEW s \in Sync
    PROVE  /\ s.op \in {"groups", "users"} =>
                  /\ s.groups \subseteq Groups /\ s.users \subseteq Users
                  /\ s = [op |-> s.op, groups |-> s.groups, users |-> s.users]
           /\ s.op \in {"upsert", "replace"} =>
                  /\ s.u \in Users /\ s.matched \subseteq Groups /\ s.role \in Role
                  /\ s.users \subseteq Users
                  /\ s = [op |-> s.op, users |-> s.users, u |-> s.u,
                          matched |-> s.matched, role |-> s.role]
BY DEF Sync

LEMMA IdleIsCall == Idle \in Call /\ NoToken \in Token
BY DEF Call, Token

\* The roles that come from groups the directory names.
LEMMA RolesAreRoles ==
    ASSUME TypeOK, NEW u \in Users, NEW role \in RolesFrom(Matched(u))
    PROVE  role \in Role /\ Matched(u) \subseteq Groups
<1>1. Matched(u) \subseteq Groups /\ \A g \in Matched(u) : group[g] \in GroupRow
  BY DEF Matched, TypeOK
<1>2. {group[g].role : g \in Matched(u)} \subseteq Role
  BY <1>1 DEF GroupRow
<1> QED
  BY <1>1, <1>2 DEF RolesFrom, Role, DefaultRole

LEMMA NewUserType ==
    ASSUME NEW role \in Role, NEW source \in Source
    PROVE  NewUser(role, source) \in UserRow
BY UsersAssumption DEF NewUser, UserRow, None

LEMMA UpsertedType ==
    ASSUME NEW row \in UserRow \cup {Absent}, NEW role \in Role, NEW source \in Source
    PROVE  Upserted(row, role, source) \in UserRow
<1>1. CASE row = Absent
  BY <1>1, NewUserType DEF Upserted
<1>2. CASE row # Absent
  BY <1>2 DEF Upserted, UserRow
<1> QED
  BY <1>1, <1>2

\* Rows that stay keep their memberships.
LEMMA CascadeKept ==
    ASSUME TypeOK, member' \subseteq member,
           \A u \in Users : user[u] # Absent => user'[u] # Absent,
           \A g \in Groups : group[g] # Absent => group'[g] # Absent
    PROVE  /\ member' \subseteq Users \X Groups
           /\ \A m \in member' : user'[m[1]] # Absent /\ group'[m[2]] # Absent
BY DEF TypeOK

\* UPDATE ... WHERE id = u, with a row.
LEMMA UpdateType ==
    ASSUME TypeOK, NEW u \in Users, NEW row, UpdateRow(u, row),
           user[u] # Absent => row \in UserRow
    PROVE  /\ user' \in [Users -> UserRow \cup {Absent}]
           /\ \A v \in Users : user[v] # Absent => user'[v] # Absent
BY AbsentAssumption DEF UpdateRow, TypeOK

LEMMA StepType ==
    ASSUME TypeOK, NEW h \in Handlers, NEW c \in Call, Step(h, c) \/ Start(h, c)
    PROVE  call' \in [Handlers -> Call]
BY DEF TypeOK, Step, Start

LEMMA AnswerType ==
    ASSUME TypeOK, NEW h \in Handlers, Answer(h)
    PROVE  call' \in [Handlers -> Call]
BY IdleIsCall, StepType DEF Answer

LEMMA ArriveType ==
    ASSUME TypeOK, Arrive, issued' = NoToken
    PROVE  TypeOK'
<1>t. issued' \in Token
  BY IdleIsCall
<1>1. ASSUME NEW h \in Handlers, NEW u \in Users, DirectoryLogin(h, u)
      PROVE  TypeOK'
  <2>1. PICK role \in RolesFrom(Matched(u)) :
           Start(h, [op |-> "upsert", u |-> u, source |-> "ldap", role |-> role,
                     groups |-> Matched(u)])
    BY <1>1 DEF DirectoryLogin
  <2>2. [op |-> "upsert", u |-> u, source |-> "ldap", role |-> role,
         groups |-> Matched(u)] \in Call
    BY RolesAreRoles DEF Call
  <2> QED
    BY <1>1, <1>t, <2>1, <2>2, StepType DEF DirectoryLogin, data, TypeOK
<1>2. ASSUME NEW h \in Handlers, NEW u \in Users, SamlLogin(h, u)
      PROVE  TypeOK'
  <2>1. PICK role \in RolesFrom(Matched(u)) :
           Start(h, [op |-> "upsert", u |-> u, source |-> "saml", role |-> role,
                     groups |-> Matched(u)])
    BY <1>2 DEF SamlLogin
  <2>2. [op |-> "upsert", u |-> u, source |-> "saml", role |-> role,
         groups |-> Matched(u)] \in Call
    BY RolesAreRoles DEF Call
  <2> QED
    BY <1>2, <1>t, <2>1, <2>2, StepType DEF SamlLogin, data, TypeOK
<1>3. ASSUME NEW h \in Handlers, NEW u \in Users, LocalLogin(h, u)
      PROVE  TypeOK'
  <2>1. FlagsOf(user[u]) \in Flags
    BY <1>3 DEF LocalLogin, FlagsOf, Flags, UserRow, TypeOK
  <2>2. [op |-> "merge", u |-> u, source |-> "local", groups |-> {},
         flags |-> FlagsOf(user[u])] \in Call
    BY <2>1 DEF Call, Source
  <2> QED
    BY <1>3, <1>t, <2>2, StepType DEF LocalLogin, data, TypeOK
<1>4. ASSUME NEW h \in Handlers, UpsertExternal(h)
      PROVE  TypeOK'
  <2> DEFINE c == call[h]
             row == Upserted(user[c.u], c.role, c.source)
  <2>1. /\ c \in Call /\ c.u \in Users /\ c.source \in Source /\ c.role \in Role
        /\ c.groups \subseteq Groups
    BY <1>4, CallKinds DEF UpsertExternal, TypeOK, Source
  <2>2. row \in UserRow
    BY <2>1, UpsertedType DEF TypeOK
  <2>3. user' = [user EXCEPT ![c.u] = row]
    BY <1>4 DEF UpsertExternal
  <2> HIDE DEF row
  <2>4. FlagsOf(user'[c.u]) \in Flags
    BY <2>1, <2>2, <2>3 DEF FlagsOf, Flags, UserRow, TypeOK
  <2>5. [op |-> "merge", u |-> c.u, source |-> c.source, groups |-> c.groups,
         flags |-> FlagsOf(user'[c.u])] \in Call
    BY <2>1, <2>4 DEF Call
  <2>6. call' \in [Handlers -> Call]
    BY <1>4, <2>5, StepType DEF UpsertExternal
  <2>7. /\ user' \in [Users -> UserRow \cup {Absent}]
        /\ \A v \in Users : user[v] # Absent => user'[v] # Absent
    BY <2>1, <2>2, <2>3, AbsentAssumption DEF TypeOK
  <2>8. UNCHANGED <<group, member, policy, directory, sync, secrets, edits>>
    BY <1>4 DEF UpsertExternal
  <2> QED
    BY <1>t, <2>6, <2>7, <2>8, CascadeKept DEF TypeOK
<1> QED
  BY <1>1, <1>2, <1>3, <1>4 DEF Arrive

\* Every answer of the login carries a token only where Token says so.
LEMMA IssuedType ==
    ASSUME NEW u \in Users, NEW by \in {"password", "enrolment", "saml"},
           NEW obliged \in BOOLEAN, NEW code \in BOOLEAN, Issue(u, by, obliged, code)
    PROVE  issued' \in Token
BY DEF Issue, Token

LEMMA MergedKept ==
    ASSUME TypeOK, NEW u \in Users, NEW gs \in SUBSET Groups,
           NEW result \in Merged(u, gs)
    PROVE  /\ result \subseteq Users \X Groups
           /\ \A m \in result : user[m[1]] # Absent /\ group[m[2]] # Absent
<1> DEFINE there == {g \in gs : group[g] # Absent}
<1>1. CASE user[u] = Absent
  BY <1>1 DEF Merged, TypeOK
<1>2. CASE user[u] # Absent
  <2>1. PICK some \in SUBSET there : result = member \cup In(u, some)
    BY <1>2 DEF Merged
  <2>2. \A m \in In(u, some) : /\ m \in Users \X Groups
                               /\ user[m[1]] # Absent /\ group[m[2]] # Absent
    BY <1>2, <2>1 DEF In
  <2> QED
    BY <2>1, <2>2 DEF TypeOK
<1> QED
  BY <1>1, <1>2

\* A handler that writes one row and nothing else of the tables.
LEMMA RowWrittenType ==
    ASSUME TypeOK, NEW u \in Users, NEW row,
           UpdateRow(u, row), user[u] # Absent => row \in UserRow,
           call' \in [Handlers -> Call], edits' \in 0..MaxEdits, issued' \in Token,
           UNCHANGED <<group, member, policy, directory, sync, secrets>>
    PROVE  TypeOK'
<1>1. /\ user' \in [Users -> UserRow \cup {Absent}]
      /\ \A v \in Users : user[v] # Absent => user'[v] # Absent
  BY UpdateType
<1> QED
  BY <1>1, CascadeKept DEF TypeOK

LEMMA IssuingType ==
    ASSUME TypeOK, Issuing
    PROVE  TypeOK'
<1>1. ASSUME NEW h \in Handlers, NEW device \in BOOLEAN, Decide(h, device)
      PROVE  TypeOK'
  <2> DEFINE c == call[h]
             obliged == policy = "required" /\ ~c.flags.exempt /\ ~device
                          /\ c.source # "saml"
  <2>1. c \in Call /\ c.u \in Users /\ c.groups \in SUBSET Groups
    BY <1>1, CallKinds DEF Decide, TypeOK
  <2>2. [op |-> "code", u |-> c.u, obliged |-> obliged] \in Call
    BY <2>1 DEF Call
  <2>3. Step(h, [op |-> "code", u |-> c.u, obliged |-> obliged]) \/ Answer(h)
    BY <1>1 DEF Decide
  <2>4. call' \in [Handlers -> Call]
    BY <2>2, <2>3, StepType, AnswerType
  <2>5. \/ \E by \in {"password", "saml"} : Issue(c.u, by, obliged, FALSE)
        \/ issued' = NoToken
    BY <1>1 DEF Decide
  <2>6. issued' \in Token
    BY <2>1, <2>5, IssuedType, IdleIsCall
  <2>7. member' \in Merged(c.u, c.groups)
    BY <1>1 DEF Decide
  <2>8. /\ member' \subseteq Users \X Groups
        /\ \A m \in member' : user[m[1]] # Absent /\ group[m[2]] # Absent
    BY <2>1, <2>7, MergedKept
  <2>9. UNCHANGED <<user, group, policy, directory, sync, secrets, edits>>
    BY <1>1 DEF Decide
  <2> QED
    BY <2>4, <2>6, <2>8, <2>9 DEF TypeOK
<1>2. ASSUME NEW h \in Handlers, NEW code \in 0..MaxSecrets, CheckCode(h, code)
      PROVE  TypeOK'
  <2>1. call[h].u \in Users /\ call[h].obliged \in BOOLEAN
    BY <1>2, CallKinds DEF CheckCode, TypeOK
  <2>2. \/ Issue(call[h].u, "password", call[h].obliged, TRUE)
        \/ issued' = NoToken
    BY <1>2 DEF CheckCode
  <2>3. issued' \in Token
    BY <2>1, <2>2, IssuedType, IdleIsCall
  <2> QED
    BY <1>2, <2>3, AnswerType DEF CheckCode, data, TypeOK
<1>3. ASSUME NEW h \in Handlers, NEW enrolling \in BOOLEAN, Enable(h, enrolling)
      PROVE  TypeOK'
  <2> DEFINE c == call[h]
             row == [user[c.u] EXCEPT !.enabled = TRUE, !.exempt = FALSE]
  <2>1. c.u \in Users
    BY <1>3, CallKinds DEF Enable, TypeOK
  <2>2. user[c.u] # Absent => row \in UserRow
    BY <2>1 DEF TypeOK, UserRow
  <2>3. UpdateRow(c.u, row)
    BY <1>3 DEF Enable
  <2>4. issued' \in Token
    <3>1. Issue(c.u, "enrolment", TRUE, TRUE) \/ issued' = NoToken
      BY <1>3 DEF Enable
    <3> QED
      BY <2>1, <3>1, IssuedType, IdleIsCall
  <2>5. UNCHANGED <<group, member, policy, directory, sync, secrets, edits>>
        /\ Answer(h)
    BY <1>3 DEF Enable
  <2>6. call' \in [Handlers -> Call] /\ edits' \in 0..MaxEdits
    BY <2>5, AnswerType DEF TypeOK
  <2> HIDE DEF row, c
  <2> QED
    BY <2>1, <2>2, <2>3, <2>4, <2>5, <2>6, RowWrittenType
<1> QED
  BY <1>1, <1>2, <1>3 DEF Issuing

\* The handlers that read the row for a change of the second factor, and the
\* updates that follow.
LEMMA SecondFactorType ==
    ASSUME TypeOK, SecondFactor, issued' = NoToken
    PROVE  TypeOK'
<1>t. issued' \in Token
  BY IdleIsCall
<1>1. ASSUME NEW h \in Handlers, NEW u \in Users, Enrol(h, u)
      PROVE  TypeOK'
  <2>1. secrets' \in 1..MaxSecrets
    BY <1>1, UsersAssumption DEF Enrol, TypeOK
  <2>2. [op |-> "enrol", u |-> u, secret |-> secrets'] \in Call
    BY <2>1 DEF Call
  <2>3. call' \in [Handlers -> Call]
    BY <1>1, <2>2, StepType DEF Enrol
  <2> QED
    BY <1>1, <1>t, <2>1, <2>3 DEF Enrol, data, TypeOK
<1>2. ASSUME NEW h \in Handlers, NEW u \in Users, Verify(h, u) \/ DisableOwn(h, u)
      PROVE  TypeOK'
  <2>1. PICK op \in {"enable", "disable"} : Start(h, [op |-> op, u |-> u])
    BY <1>2 DEF Verify, DisableOwn
  <2>2. [op |-> op, u |-> u] \in Call
    BY DEF Call
  <2>3. UNCHANGED <<data, directory, sync, secrets, edits>>
    BY <1>2 DEF Verify, DisableOwn
  <2> QED
    BY <1>t, <2>1, <2>2, <2>3, StepType DEF data, TypeOK
<1>3. ASSUME NEW h \in Handlers, SetSecret(h)
      PROVE  TypeOK'
  <2> DEFINE c == call[h]
             row == [user[c.u] EXCEPT !.secret = c.secret, !.enabled = FALSE,
                                      !.exempt = FALSE]
  <2>1. c.u \in Users /\ c.secret \in 1..MaxSecrets
    BY <1>3, CallKinds DEF SetSecret, TypeOK
  <2>2. user[c.u] # Absent => row \in UserRow
    <3>1. user[c.u] # Absent => user[c.u] \in UserRow
      BY <2>1 DEF TypeOK
    <3>2. c.secret \in 0..MaxSecrets
      BY <2>1
    <3> QED
      BY <3>1, <3>2 DEF UserRow
  <2>3. UpdateRow(c.u, row)
    BY <1>3 DEF SetSecret
  <2>4. /\ call' \in [Handlers -> Call] /\ edits' \in 0..MaxEdits
        /\ UNCHANGED <<group, member, policy, directory, sync, secrets>>
    <3>1. Answer(h) /\ UNCHANGED <<group, member, policy, directory, sync, secrets, edits>>
      BY <1>3 DEF SetSecret
    <3> QED
      BY <3>1, AnswerType DEF TypeOK
  <2> HIDE DEF row, c
  <2> QED
    BY <1>t, <2>1, <2>2, <2>3, <2>4, RowWrittenType
<1>4. ASSUME NEW h \in Handlers, Disable(h)
      PROVE  TypeOK'
  <2> DEFINE c == call[h]
             row == [user[c.u] EXCEPT !.secret = None, !.enabled = FALSE,
                                      !.exempt = FALSE]
  <2>1. c.u \in Users
    BY <1>4, CallKinds DEF Disable, TypeOK
  <2>2. user[c.u] # Absent => row \in UserRow
    <3>1. user[c.u] # Absent => user[c.u] \in UserRow
      BY <2>1 DEF TypeOK
    <3>2. None \in 0..MaxSecrets
      BY UsersAssumption DEF None
    <3> QED
      BY <3>1, <3>2 DEF UserRow
  <2>3. UpdateRow(c.u, row)
    BY <1>4 DEF Disable
  <2>4. /\ call' \in [Handlers -> Call] /\ edits' \in 0..MaxEdits
        /\ UNCHANGED <<group, member, policy, directory, sync, secrets>>
    <3>1. Answer(h) /\ UNCHANGED <<group, member, policy, directory, sync, secrets, edits>>
      BY <1>4 DEF Disable
    <3> QED
      BY <3>1, AnswerType DEF TypeOK
  <2> HIDE DEF row, c
  <2> QED
    BY <1>t, <2>1, <2>2, <2>3, <2>4, RowWrittenType
<1>5. ASSUME NEW u \in Users, NEW exempt \in BOOLEAN, ClearMFA(u, exempt)
      PROVE  TypeOK'
  <2> DEFINE row == [user[u] EXCEPT !.secret = None, !.enabled = FALSE,
                                    !.exempt = exempt \/ @]
  <2>1. user[u] # Absent => row \in UserRow
    <3>1. user[u] # Absent => user[u] \in UserRow
      BY DEF TypeOK
    <3>2. None \in 0..MaxSecrets
      BY UsersAssumption DEF None
    <3> QED
      BY <3>1, <3>2 DEF UserRow
  <2>2. UpdateRow(u, row)
    BY <1>5 DEF ClearMFA
  <2>3. /\ call' \in [Handlers -> Call] /\ edits' \in 0..MaxEdits
        /\ UNCHANGED <<group, member, policy, directory, sync, secrets>>
    BY <1>5, UsersAssumption DEF ClearMFA, Edit, TypeOK
  <2> HIDE DEF row
  <2> QED
    BY <1>t, <2>1, <2>2, <2>3, RowWrittenType
<1>6. ASSUME NEW p \in Policy, SetPolicy(p)
      PROVE  TypeOK'
  BY <1>6, <1>t, UsersAssumption DEF SetPolicy, Edit, TypeOK
<1> QED
  BY <1>1, <1>2, <1>3, <1>4, <1>5, <1>6 DEF SecondFactor

LEMMA AdministerType ==
    ASSUME TypeOK, Administer, issued' = NoToken
    PROVE  TypeOK'
<1>t. issued' \in Token
  BY IdleIsCall
<1>e. Edit => edits' \in 0..MaxEdits
  BY UsersAssumption DEF Edit, TypeOK
<1>1. ASSUME NEW h \in Handlers, NEW u \in Users, ReadForUpdate(h, u)
      PROVE  TypeOK'
  <2>1. PICK row \in Requested(user[u]) :
           Start(h, [op |-> "update", u |-> u, role |-> row.role, locked |-> row.locked,
                     disabled |-> row.disabled, exempt |-> row.exempt])
    BY <1>1 DEF ReadForUpdate
  <2>2. user[u] \in UserRow
    BY <1>1 DEF ReadForUpdate, TypeOK
  <2>3. /\ row.role \in Role /\ row.locked \in BOOLEAN
        /\ row.disabled \in BOOLEAN /\ row.exempt \in BOOLEAN
    <3>1. CASE \E role \in Role :
                  row = [user[u] EXCEPT !.role = role, !.locked = @ \/ role # user[u].role]
      BY <2>2, <3>1 DEF UserRow
    <3>2. CASE \E b \in BOOLEAN : \/ row = [user[u] EXCEPT !.disabled = b]
                                  \/ row = [user[u] EXCEPT !.exempt = b]
      BY <2>2, <3>2 DEF UserRow
    <3> QED
      BY <2>1, <3>1, <3>2 DEF Requested
  <2>4. [op |-> "update", u |-> u, role |-> row.role, locked |-> row.locked,
         disabled |-> row.disabled, exempt |-> row.exempt] \in Call
    BY <2>3 DEF Call
  <2>5. call' \in [Handlers -> Call]
    BY <2>1, <2>4, StepType
  <2>6. Edit /\ UNCHANGED <<data, directory, sync, secrets>>
    BY <1>1 DEF ReadForUpdate
  <2> QED
    BY <1>t, <1>e, <2>5, <2>6 DEF data, TypeOK
<1>2. ASSUME NEW h \in Handlers, Update(h)
      PROVE  TypeOK'
  <2> DEFINE c == call[h]
             row == [user[c.u] EXCEPT !.role = c.role, !.locked = c.locked,
                                      !.disabled = c.disabled, !.exempt = c.exempt]
  <2>1. /\ c.u \in Users /\ c.role \in Role
        /\ c.locked \in BOOLEAN /\ c.disabled \in BOOLEAN /\ c.exempt \in BOOLEAN
    BY <1>2, CallKinds DEF Update, TypeOK
  <2>2. user[c.u] # Absent => row \in UserRow
    <3>1. user[c.u] # Absent => user[c.u] \in UserRow
      BY <2>1 DEF TypeOK
    <3> QED
      BY <2>1, <3>1 DEF UserRow
  <2>3. UpdateRow(c.u, row)
    BY <1>2 DEF Update
  <2>4. /\ call' \in [Handlers -> Call] /\ edits' \in 0..MaxEdits
        /\ UNCHANGED <<group, member, policy, directory, sync, secrets>>
    <3>1. Answer(h) /\ UNCHANGED <<group, member, policy, directory, sync, secrets, edits>>
      BY <1>2 DEF Update
    <3> QED
      BY <3>1, AnswerType DEF TypeOK
  <2> HIDE DEF row, c
  <2> QED
    BY <1>t, <2>1, <2>2, <2>3, <2>4, RowWrittenType
<1>3. ASSUME NEW h \in Handlers, NEW actor \in Users, NEW u \in Users,
             ReadForDelete(h, actor, u)
      PROVE  TypeOK'
  <2>1. [op |-> "delete", u |-> u] \in Call
    BY DEF Call
  <2>2. /\ Start(h, [op |-> "delete", u |-> u]) /\ Edit
        /\ UNCHANGED <<data, directory, sync, secrets>>
    BY <1>3 DEF ReadForDelete
  <2> QED
    BY <1>t, <1>e, <2>1, <2>2, StepType DEF data, TypeOK
<1>4. ASSUME NEW h \in Handlers, Delete(h)
      PROVE  TypeOK'
  <2> DEFINE u == call[h].u
  <2>1. u \in Users
    BY <1>4, CallKinds DEF Delete, TypeOK
  <2>2. /\ user' = [user EXCEPT ![u] = Absent] /\ member' = member \ In(u, Groups)
        /\ Answer(h) /\ UNCHANGED <<group, policy, directory, sync, secrets, edits>>
    BY <1>4 DEF Delete
  <2>3. call' \in [Handlers -> Call]
    BY <2>2, AnswerType
  <2> HIDE DEF u
  <2>4. \A m \in member' : m \in member /\ m[1] # u
    BY <2>1, <2>2 DEF In, TypeOK
  <2> QED
    BY <1>t, <2>1, <2>2, <2>3, <2>4 DEF TypeOK
<1>5. ASSUME NEW u \in Users, NEW role \in Role, CreateUser(u, role)
      PROVE  TypeOK'
  <2>1. NewUser(role, "local") \in UserRow
    BY NewUserType DEF Source
  <2>2. /\ user' = [user EXCEPT ![u] = NewUser(role, "local")] /\ Edit
        /\ UNCHANGED <<group, member, policy, directory, call, sync, secrets>>
    BY <1>5 DEF CreateUser
  <2>3. /\ user' \in [Users -> UserRow \cup {Absent}]
        /\ \A v \in Users : user[v] # Absent => user'[v] # Absent
    BY <2>1, <2>2, AbsentAssumption DEF TypeOK
  <2> QED
    BY <1>t, <1>e, <2>2, <2>3, CascadeKept DEF TypeOK
<1>6. ASSUME NEW g \in Groups, CreateGroup(g) \/ UpdateGroup(g)
      PROVE  TypeOK'
  <2>1. PICK row \in GroupRow : group' = [group EXCEPT ![g] = row]
    BY <1>6 DEF CreateGroup, UpdateGroup
  <2>2. Edit /\ UNCHANGED <<user, member, policy, directory, call, sync, secrets>>
    BY <1>6 DEF CreateGroup, UpdateGroup
  <2>3. /\ group' \in [Groups -> GroupRow \cup {Absent}]
        /\ \A k \in Groups : group[k] # Absent => group'[k] # Absent
    BY <2>1, AbsentAssumption DEF TypeOK
  <2> QED
    BY <1>t, <1>e, <2>2, <2>3, CascadeKept DEF TypeOK
<1>7. ASSUME NEW g \in Groups, DeleteGroup(g)
      PROVE  TypeOK'
  <2>1. \A m \in member' : m \in member /\ m[2] # g
    BY <1>7 DEF DeleteGroup, TypeOK
  <2> QED
    BY <1>7, <1>t, <1>e, <2>1 DEF DeleteGroup, TypeOK
<1>8. ASSUME NEW u \in Users, NEW g \in Groups, AddMember(u, g) \/ RemoveMember(u, g)
      PROVE  TypeOK'
  <2>1. Edit /\ UNCHANGED <<user, group, policy, directory, call, sync, secrets>>
    BY <1>8 DEF AddMember, RemoveMember
  <2>2. \A m \in member' : \/ m \in member
                           \/ m = <<u, g>> /\ user[u] # Absent /\ group[g] # Absent
    BY <1>8 DEF AddMember, RemoveMember
  <2> QED
    BY <1>t, <1>e, <2>1, <2>2 DEF TypeOK
<1> QED
  BY <1>1, <1>2, <1>3, <1>4, <1>5, <1>6, <1>7, <1>8 DEF Administer

LEMMA ImportType ==
    ASSUME TypeOK, Import, issued' = NoToken
    PROVE  TypeOK'
<1>t. issued' \in Token
  BY IdleIsCall
<1>n. sync.op \in {"upsert", "replace"} => NextUser \in Sync
  BY SyncKinds DEF NextUser, Sync, TypeOK
<1>1. CASE Tick
  <2>1. sync' \in Sync
    BY <1>1 DEF Tick, Known, Sync
  <2> QED
    BY <1>1, <1>t, <2>1 DEF Tick, data, TypeOK
<1>2. ASSUME NEW g \in Groups, SyncGroup(g)
      PROVE  TypeOK'
  <2>1. sync' = [op |-> "groups", groups |-> sync.groups \ {g}, users |-> sync.users]
    <3>1. sync' = [sync EXCEPT !.groups = @ \ {g}] /\ sync.op = "groups"
      BY <1>2 DEF SyncGroup
    <3>2. sync = [op |-> sync.op, groups |-> sync.groups, users |-> sync.users]
      BY <3>1, SyncKinds DEF TypeOK
    <3> QED
      BY <3>1, <3>2
  <2>2. sync' \in Sync
    BY <1>2, <2>1, SyncKinds DEF SyncGroup, Sync, TypeOK
  <2>3. [role |-> DefaultRole, linked |-> TRUE] \in GroupRow
    BY DEF GroupRow, Role, DefaultRole
  <2>4. /\ group' \in [Groups -> GroupRow \cup {Absent}]
        /\ \A k \in Groups : group[k] # Absent => group'[k] # Absent
    BY <1>2, <2>3, AbsentAssumption DEF SyncGroup, TypeOK
  <2>5. UNCHANGED <<user, member, policy, directory, call, secrets, edits>>
    BY <1>2 DEF SyncGroup
  <2> QED
    BY <1>t, <2>2, <2>4, <2>5, CascadeKept DEF TypeOK
<1>3. CASE GroupsDone
  <2>1. sync' = [op |-> "users", groups |-> sync.groups, users |-> sync.users]
    <3>1. sync' = [sync EXCEPT !.op = "users"] /\ sync.op = "groups"
      BY <1>3 DEF GroupsDone
    <3>2. sync = [op |-> sync.op, groups |-> sync.groups, users |-> sync.users]
      BY <3>1, SyncKinds DEF TypeOK
    <3> QED
      BY <3>1, <3>2
  <2>2. sync' \in Sync
    BY <1>3, <2>1, SyncKinds DEF GroupsDone, Sync, TypeOK
  <2> QED
    BY <1>3, <1>t, <2>2 DEF GroupsDone, data, TypeOK
<1>4. ASSUME NEW u \in Users, SyncRead(u)
      PROVE  TypeOK'
  <2>1. PICK role \in RolesFrom(Matched(u)) :
           sync' = [op |-> "upsert", users |-> sync.users \ {u}, u |-> u,
                    matched |-> Matched(u), role |-> role]
    BY <1>4 DEF SyncRead
  <2>2. sync.users \subseteq Users
    BY <1>4, SyncKinds DEF SyncRead, TypeOK
  <2>3. sync' \in Sync
    BY <2>1, <2>2, RolesAreRoles DEF Sync
  <2> QED
    BY <1>4, <1>t, <2>3 DEF SyncRead, data, TypeOK
<1>5. CASE SyncUpsert
  <2> DEFINE row == Upserted(user[sync.u], sync.role, "ldap")
  <2>1. /\ sync.u \in Users /\ sync.role \in Role /\ sync.users \subseteq Users
        /\ sync.matched \subseteq Groups
        /\ sync = [op |-> sync.op, users |-> sync.users, u |-> sync.u,
                   matched |-> sync.matched, role |-> sync.role]
    BY <1>5, SyncKinds DEF SyncUpsert, TypeOK
  <2>2. row \in UserRow
    BY <2>1, UpsertedType DEF Source, TypeOK
  <2>3. user' = user \/ user' = [user EXCEPT ![sync.u] = row]
    BY <1>5 DEF SyncUpsert
  <2> HIDE DEF row
  <2>4. /\ user' \in [Users -> UserRow \cup {Absent}]
        /\ \A v \in Users : user[v] # Absent => user'[v] # Absent
    BY <2>1, <2>2, <2>3, AbsentAssumption DEF TypeOK
  <2>5. [sync EXCEPT !.op = "replace"]
          = [op |-> "replace", users |-> sync.users, u |-> sync.u,
             matched |-> sync.matched, role |-> sync.role]
    BY <2>1
  <2>6. [sync EXCEPT !.op = "replace"] \in Sync
    BY <2>1, <2>5 DEF Sync
  <2>7. sync' \in Sync
    BY <1>5, <1>n, <2>6 DEF SyncUpsert
  <2>8. UNCHANGED <<group, member, policy, directory, call, secrets, edits>>
    BY <1>5 DEF SyncUpsert
  <2> QED
    BY <1>t, <2>4, <2>7, <2>8, CascadeKept DEF TypeOK
<1>6. CASE SyncReplace
  <2>1. sync.u \in Users /\ sync.matched \subseteq Groups
    BY <1>6, SyncKinds DEF SyncReplace, TypeOK
  <2>2. member' = Replaced(sync.u, sync.matched) /\ sync' \in Sync
    BY <1>6, <1>n DEF SyncReplace
  <2>3. /\ member' \subseteq Users \X Groups
        /\ \A m \in member' : user[m[1]] # Absent /\ group[m[2]] # Absent
    <3>1. CASE user[sync.u] = Absent \/ \E g \in sync.matched : group[g] = Absent
      BY <2>2, <3>1 DEF Replaced, TypeOK
    <3>2. CASE ~(user[sync.u] = Absent \/ \E g \in sync.matched : group[g] = Absent)
      <4>1. member' = (member \ In(sync.u, Groups)) \cup In(sync.u, sync.matched)
        BY <2>2, <3>2 DEF Replaced
      <4> QED
        BY <2>1, <3>2, <4>1 DEF In, TypeOK
    <3> QED
      BY <3>1, <3>2
  <2>4. UNCHANGED <<user, group, policy, directory, call, secrets, edits>>
    BY <1>6 DEF SyncReplace
  <2> QED
    BY <1>t, <2>2, <2>3, <2>4 DEF TypeOK
<1>7. CASE SyncDone
  <2>1. sync' \in Sync
    BY <1>7 DEF SyncDone, Sync
  <2> QED
    BY <1>7, <1>t, <2>1 DEF SyncDone, data, TypeOK
<1> QED
  BY <1>1, <1>2, <1>3, <1>4, <1>5, <1>6, <1>7 DEF Import

LEMMA OutsideType ==
    ASSUME TypeOK, Outside, issued' = NoToken
    PROVE  TypeOK'
<1>t. issued' \in Token
  BY IdleIsCall
<1>e. Edit => edits' \in 0..MaxEdits
  BY UsersAssumption DEF Edit, TypeOK
<1>1. ASSUME NEW u \in Users, DirectoryChanges(u)
      PROVE  TypeOK'
  <2>1. directory' \in [Users -> (SUBSET Groups) \cup {Absent}]
    BY <1>1 DEF DirectoryChanges, TypeOK
  <2> QED
    BY <1>1, <1>t, <1>e, <2>1 DEF DirectoryChanges, data, TypeOK
<1>2. ASSUME NEW u \in Users, SyncFails(u)
      PROVE  TypeOK'
  <2>1. sync' = [op |-> "users", groups |-> sync.groups, users |-> sync.users \ {u}]
    <3>1. sync' = [sync EXCEPT !.users = @ \ {u}] /\ sync.op = "users"
      BY <1>2 DEF SyncFails
    <3>2. sync = [op |-> sync.op, groups |-> sync.groups, users |-> sync.users]
      BY <3>1, SyncKinds DEF TypeOK
    <3> QED
      BY <3>1, <3>2
  <2>2. sync' \in Sync
    BY <1>2, <2>1, SyncKinds DEF SyncFails, Sync, TypeOK
  <2> QED
    BY <1>2, <1>t, <1>e, <2>2 DEF SyncFails, data, TypeOK
<1> QED
  BY <1>1, <1>2 DEF Outside

\* user_groups never holds a row of a user or a group that is gone, and every
\* column, call and token keeps its type: what the cascades of DeleteUser and
\* DeleteGroup and the check of MergeMemberships are for.
THEOREM UsersTypeCorrect == Spec => []TypeOK
<1>1. Init => TypeOK
  <2> SUFFICES ASSUME Init PROVE TypeOK
    OBVIOUS
  <2>1. user \in [Users -> UserRow \cup {Absent}]
    BY NewUserType DEF Init, Role, Source
  <2>2. group \in [Groups -> GroupRow \cup {Absent}]
    <3>1. [role |-> "admin", linked |-> TRUE] \in GroupRow
      BY DEF GroupRow, Role
    <3> QED
      BY <3>1 DEF Init
  <2>3. call \in [Handlers -> Call] /\ issued \in Token /\ sync \in Sync
    BY IdleIsCall DEF Init, Sync
  <2>4. secrets \in 0..MaxSecrets /\ edits \in 0..MaxEdits
    BY UsersAssumption DEF Init
  <2> QED
    BY <2>1, <2>2, <2>3, <2>4 DEF Init, TypeOK, Policy
<1>2. TypeOK /\ [Next]_vars => TypeOK'
  <2> SUFFICES ASSUME TypeOK, [Next]_vars PROVE TypeOK'
    OBVIOUS
  <2>1. CASE Next
    BY <2>1, IssuingType, ArriveType, SecondFactorType, AdministerType, ImportType,
       OutsideType DEF Next
  <2>2. CASE UNCHANGED vars
    BY <2>2 DEF vars, data, TypeOK
  <2> QED
    BY <2>1, <2>2
<1> QED
  BY <1>1, <1>2, PTL DEF Spec

\* The second factor cannot be passed by on what changes under the handler: the
\* policy is read once, with the stored secret, in the step that decides.
THEOREM SecondFactorHolds == Spec => []TokensPassMFA
<1>1. Init => TokensPassMFA
  BY DEF Init, TokensPassMFA
<1>2. [Next]_vars /\ TokensPassMFA => TokensPassMFA'
  <2> SUFFICES ASSUME [Next]_vars, TokensPassMFA PROVE TokensPassMFA'
    OBVIOUS
  <2>1. ASSUME NEW h \in Handlers, NEW device \in BOOLEAN, Decide(h, device)
        PROVE  TokensPassMFA'
    <3> DEFINE c == call[h]
               obliged == policy = "required" /\ ~c.flags.exempt /\ ~device
                            /\ c.source # "saml"
               decision == IF c.source = "saml" THEN "token"
                           ELSE IF c.flags.disabled THEN "refuse"
                           ELSE Decision(c.flags, user[c.u], device)
    <3>1. obliged => decision # "token"
      BY DEF Decision
    <3>2. \/ decision = "token" /\ \E by \in {"saml", "password"} :
                                       Issue(c.u, by, obliged, FALSE)
          \/ issued' = NoToken
      BY <2>1 DEF Decide
    <3> HIDE DEF decision, obliged
    <3> QED
      BY <3>1, <3>2 DEF Issue, TokensPassMFA
  <2>2. ASSUME NEW h \in Handlers, NEW code \in 0..MaxSecrets, CheckCode(h, code)
        PROVE  TokensPassMFA'
    BY <2>2 DEF CheckCode, Issue, TokensPassMFA
  <2>3. ASSUME NEW h \in Handlers, NEW enrolling \in BOOLEAN, Enable(h, enrolling)
        PROVE  TokensPassMFA'
    BY <2>3 DEF Enable, Issue, TokensPassMFA
  <2>4. CASE issued' = NoToken \/ UNCHANGED vars
    BY <2>4 DEF vars, TokensPassMFA
  <2> QED
    BY <2>1, <2>2, <2>3, <2>4 DEF Next, Issuing
<1> QED
  BY <1>1, <1>2, PTL DEF Spec

\* What an upsert does to a row that is there.
LEMMA UpsertedStands ==
    ASSUME NEW row \in UserRow, NEW role, NEW source
    PROVE  /\ row.source = "local" => Upserted(row, role, source) = row
           /\ row.locked => Upserted(row, role, source).role = row.role
BY AbsentAssumption DEF Upserted, UserRow

\* However long a sign-in or the worker sat on what it had read, its upsert
\* spares a local account and a role an administrator has set: the row it
\* compares with is the one of the statement itself.
THEOREM LocalAndLockedAreSpared == Spec => LocalAndLockedStand
<1>1. ASSUME TypeOK, [Next]_vars, NEW u \in Users, user[u] # Absent, Arrive \/ Import
      PROVE  /\ user[u].source = "local" => user'[u] = user[u]
             /\ user[u].locked => user'[u].role = user[u].role
  <2>1. user[u] \in UserRow
    BY <1>1 DEF TypeOK
  <2>2. CASE user' = user
    BY <2>2
  <2>3. ASSUME NEW v \in Users, NEW role, NEW source,
               user' = [user EXCEPT ![v] = Upserted(user[v], role, source)]
        PROVE  /\ user[u].source = "local" => user'[u] = user[u]
               /\ user[u].locked => user'[u].role = user[u].role
    <3>1. user'[u] = user[u] \/ user'[u] = Upserted(user[u], role, source)
      BY <1>1, <2>3 DEF TypeOK
    <3> QED
      BY <2>1, <3>1, UpsertedStands
  <2>4. ASSUME NEW h \in Handlers, UpsertExternal(h)
        PROVE  \E v \in Users, role \in Role, source \in Source :
                  user' = [user EXCEPT ![v] = Upserted(user[v], role, source)]
    BY <1>1, <2>4, CallKinds DEF UpsertExternal, TypeOK, Source
  <2>5. CASE SyncUpsert
    <3>1. sync.u \in Users
      BY <1>1, <2>5, SyncKinds DEF SyncUpsert, TypeOK
    <3>2. \/ user' = user
          \/ user' = [user EXCEPT ![sync.u] = Upserted(user[sync.u], sync.role, "ldap")]
      BY <2>5 DEF SyncUpsert
    <3> QED
      BY <2>2, <2>3, <3>1, <3>2
  <2>6. CASE Arrive /\ user' # user
    BY <2>3, <2>4, <2>6
       DEF Arrive, DirectoryLogin, SamlLogin, LocalLogin, data
  <2>7. CASE Import /\ user' # user
    BY <2>5, <2>7
       DEF Import, Tick, SyncGroup, GroupsDone, SyncRead, SyncReplace, SyncDone, data
  <2> QED
    BY <1>1, <2>2, <2>6, <2>7
<1>2. TypeOK /\ [Next]_vars =>
         [\A u \in Users : user[u] # Absent /\ (Arrive \/ Import) =>
             /\ user[u].source = "local" => user'[u] = user[u]
             /\ user[u].locked => user'[u].role = user[u].role]_vars
  BY <1>1
<1> QED
  BY <1>2, UsersTypeCorrect, PTL DEF Spec, LocalAndLockedStand

-----------------------------------------------------------------------------
(* The verify cache, on the assumption its module makes of its constants.  *)

LEMMA CacheIdleType ==
    ASSUME Cache!VerifyCacheAssumption
    PROVE  Cache!Idle \in Cache!Locals
<1>1. Cache!AnyToken \in Tokens
  BY DEF Cache!VerifyCacheAssumption, Cache!AnyToken
<1> QED
  BY <1>1 DEF Cache!Idle, Cache!Locals

\* Making room only ever drops entries.
LEMMA RoomShrinks ==
    ASSUME NEW room \in Cache!Room
    PROVE  room \subseteq cached
<1>1. room \in {Cache!Cleared(cached \ E) : E \in Cache!Evictions} \cup {cached}
  BY DEF Cache!Room
<1>2. CASE room = cached
  BY <1>2
<1>3. CASE room \in {Cache!Cleared(cached \ E) : E \in Cache!Evictions}
  <2>1. PICK E \in Cache!Evictions : room = Cache!Cleared(cached \ E)
    BY <1>3
  <2> QED
    BY <2>1 DEF Cache!Cleared
<1> QED
  BY <1>1, <1>2, <1>3

\* A lookup finds the time of an entry that is there, or nothing.
LEMMA FoundType ==
    ASSUME Cache!TypeOK, NEW t \in Tokens
    PROVE  /\ Cache!Found(t) \in {Cache!Null} \cup Nat
           /\ Cache!Found(t) # Cache!Null => t \in cached /\ Cache!Found(t) = putAt[t]
BY DEF Cache!TypeOK, Cache!Found

\* Moving a request on, to any of its places, keeps its type.
LEMMA GotoType ==
    ASSUME Cache!TypeOK, NEW r \in Requests, Cache!Goto(r, "ok") \/ Cache!Goto(r,
           "unauthorized")
                                                \/ Cache!Goto(r, "unreachable")
    PROVE  request' \in [Requests -> Cache!Locals]
BY DEF Cache!TypeOK, Cache!Goto, Cache!Locals

\* A step leaves every variable in its type.
LEMMA CacheTypeStep ==
    ASSUME Cache!VerifyCacheAssumption, Cache!TypeOK, [Cache!Next]_Cache!vars
    PROVE  Cache!TypeOK'
<1> USE DEF Cache!VerifyCacheAssumption
<1>1. ASSUME NEW r \in Requests, NEW t \in Tokens, Cache!Lookup(r, t)
      PROVE  Cache!TypeOK'
  <2> DEFINE hit == Cache!Found(t) # Cache!Null /\ Cache!Fresh(Cache!Found(t), now)
             local == [pc |-> IF hit THEN "granted" ELSE "verify", tok |-> t,
                       began |-> now, seen |-> Cache!Found(t),
                       via |-> IF hit THEN "cache" ELSE "auth"]
  <2>1. Cache!Found(t) \in {Cache!Null} \cup Nat
    BY FoundType
  <2>2. local \in Cache!Locals
    BY <2>1 DEF Cache!Locals, Cache!TypeOK
  <2>3. request' = [request EXCEPT ![r] = local]
    BY <1>1 DEF Cache!Lookup
  <2> HIDE DEF local
  <2> QED
    BY <1>1, <2>2, <2>3 DEF Cache!TypeOK, Cache!Lookup
<1>2. ASSUME NEW r \in Requests, Cache!Answer(r)
      PROVE  Cache!TypeOK'
  <2>1. request' \in [Requests -> Cache!Locals]
    BY <1>2, GotoType DEF Cache!Answer
  <2>2. request[r].tok \in Tokens
    BY DEF Cache!TypeOK, Cache!Locals
  <2> QED
    BY <1>2, <2>1, <2>2 DEF Cache!TypeOK, Cache!Answer
<1>3. ASSUME NEW r \in Requests, Cache!CallFails(r)
      PROVE  Cache!TypeOK'
  <2>1. request' \in [Requests -> Cache!Locals]
    BY <1>3, GotoType DEF Cache!CallFails
  <2> QED
    BY <1>3, <2>1 DEF Cache!TypeOK, Cache!CallFails
<1>4. ASSUME NEW r \in Requests, Cache!PutClaims(r)
      PROVE  Cache!TypeOK'
  <2>1. request[r].tok \in Tokens
    BY DEF Cache!TypeOK, Cache!Locals
  <2>2. cached' \subseteq Tokens
    BY <1>4, <2>1, RoomShrinks DEF Cache!TypeOK, Cache!PutClaims
  <2>3. request' \in [Requests -> Cache!Locals]
    BY <1>4 DEF Cache!TypeOK, Cache!PutClaims, Cache!Grant, Cache!Locals
  <2>4. putAt' \in [Tokens -> Nat]
    BY <1>4, <2>1 DEF Cache!TypeOK, Cache!PutClaims
  <2> QED
    BY <1>4, <2>2, <2>3, <2>4 DEF Cache!TypeOK, Cache!PutClaims
<1>5. ASSUME NEW r \in Requests, Cache!Refuse(r)
      PROVE  Cache!TypeOK'
  BY <1>5, CacheIdleType DEF Cache!TypeOK, Cache!Refuse
<1>6. ASSUME NEW r \in Requests, Cache!FallBack(r)
      PROVE  Cache!TypeOK'
  <2>1. request' \in [Requests -> Cache!Locals]
    <3>1. CASE Cache!Grant(r, "stale")
      BY <3>1 DEF Cache!TypeOK, Cache!Grant, Cache!Locals
    <3>2. CASE request' = [request EXCEPT ![r] = Cache!Idle]
      BY <3>2, CacheIdleType DEF Cache!TypeOK
    <3> QED
      BY <1>6, <3>1, <3>2 DEF Cache!FallBack
  <2> QED
    BY <1>6, <2>1 DEF Cache!TypeOK, Cache!FallBack
<1>7. ASSUME NEW r \in Requests, Cache!Serve(r)
      PROVE  Cache!TypeOK'
  BY <1>7, CacheIdleType DEF Cache!TypeOK, Cache!Serve
<1>8. CASE Cache!CollectGarbage
  BY <1>8 DEF Cache!TypeOK, Cache!CollectGarbage
<1>9. CASE Cache!Restart
  BY <1>9, CacheIdleType DEF Cache!TypeOK, Cache!Restart
<1>10. CASE Cache!Tick
  BY <1>10 DEF Cache!TypeOK, Cache!Tick
<1>11. CASE UNCHANGED Cache!vars
  BY <1>11 DEF Cache!TypeOK, Cache!vars
<1> QED
  BY <1>1, <1>2, <1>3, <1>4, <1>5, <1>6, <1>7, <1>8, <1>9, <1>10, <1>11
     DEF Cache!Next

\* The cache, the goroutines and the clock keep their types.
THEOREM CacheTypeCorrect ==
    ASSUME Cache!VerifyCacheAssumption
    PROVE  Cache!Spec => []Cache!TypeOK
<1>1. Cache!Init => Cache!TypeOK
  BY CacheIdleType DEF Cache!Init, Cache!TypeOK
<1>2. Cache!TypeOK /\ [Cache!Next]_Cache!vars => Cache!TypeOK'
  BY CacheTypeStep
<1> QED
  BY <1>1, <1>2, PTL DEF Cache!Spec

-----------------------------------------------------------------------------

\* The clauses of TimelyInv about one request.
RequestTimely(r) ==
    ~Cache!At(r, "idle") =>
        /\ request[r].began <= now
        /\ now <= request[r].began + Timeout
        /\ request[r].seen # Cache!Null =>
              request[r].seen < Exp[request[r].tok] + Timeout
        /\ Cache!At(r, "ok") => request[r].began < Exp[request[r].tok]

GrantTimely(r) ==
    Cache!At(r, "granted")
        => request[r].began < Exp[request[r].tok] + Cache!Grace(request[r].via)

\* A request the step leaves alone stays in time if the clock stands still.
LEMMA OthersUndisturbed ==
    ASSUME Cache!TimelyInv, NEW r \in Requests, request'[r] = request[r], now' = now
    PROVE  RequestTimely(r)' /\ GrantTimely(r)'
BY DEF Cache!TimelyInv, Cache!RequestsAreTimely, Cache!GrantsAreTimely, RequestTimely,
       GrantTimely, Cache!At

LEMMA IdleIsTimely ==
    ASSUME NEW r \in Requests, request'[r] = Cache!Idle
    PROVE  RequestTimely(r)' /\ GrantTimely(r)'
BY DEF RequestTimely, GrantTimely, Cache!At, Cache!Idle

\* It suffices to look at each entry and each request after the step.
LEMMA Assemble ==
    ASSUME Cache!EntriesAreTimely',
           \A r \in Requests : RequestTimely(r)' /\ GrantTimely(r)'
    PROVE  Cache!TimelyInv'
BY DEF Cache!TimelyInv, Cache!RequestsAreTimely, Cache!GrantsAreTimely,
    RequestTimely, GrantTimely

LEMMA TimelyStep ==
    ASSUME Cache!VerifyCacheAssumption,
           Cache!TypeOK, Cache!TypeOK', Cache!TimelyInv, [Cache!Next]_Cache!vars
    PROVE  Cache!TimelyInv'
<1> USE DEF Cache!VerifyCacheAssumption
<1>e. ASSUME UNCHANGED <<cached, putAt>>
      PROVE  Cache!EntriesAreTimely'
  BY <1>e DEF Cache!TimelyInv, Cache!EntriesAreTimely
<1>s. ASSUME NEW r \in Requests, UNCHANGED now,
             \A q \in Requests \ {r} : request'[q] = request[q],
             Cache!EntriesAreTimely', RequestTimely(r)', GrantTimely(r)'
      PROVE  Cache!TimelyInv'
  <2>1. \A q \in Requests : RequestTimely(q)' /\ GrantTimely(q)'
    BY <1>s, OthersUndisturbed
  <2> QED
    BY <1>s, <2>1, Assemble
<1>1. ASSUME NEW r \in Requests, NEW t \in Tokens, Cache!Lookup(r, t)
      PROVE  Cache!TimelyInv'
  <2>1. /\ request'[r].tok = t /\ request'[r].began = now
        /\ request'[r].seen = Cache!Found(t)
        /\ request'[r].pc \in {"granted", "verify"}
        /\ request'[r].pc = "granted" =>
              request'[r].via = "cache" /\ Cache!Found(t) # Cache!Null
                  /\ Cache!Fresh(Cache!Found(t), now)
    BY <1>1 DEF Cache!Lookup, Cache!TypeOK
  <2>2. Cache!Found(t) # Cache!Null
        => Cache!Found(t) \in Nat /\ Cache!Found(t) < Exp[t] + Timeout
    BY FoundType DEF Cache!TimelyInv, Cache!EntriesAreTimely, Cache!TypeOK
  <2>3. RequestTimely(r)'
    BY <1>1, <2>1, <2>2 DEF RequestTimely, Cache!At, Cache!Lookup, Cache!TypeOK
  <2>4. GrantTimely(r)'
    BY <2>1, <2>2 DEF GrantTimely, Cache!At, Cache!Grace, Cache!Fresh, Cache!TypeOK
  <2> QED
    BY <1>1, <1>e, <1>s, <2>3, <2>4 DEF Cache!Lookup, Cache!TypeOK
<1>2. ASSUME NEW r \in Requests, Cache!Answer(r)
      PROVE  Cache!TimelyInv'
  <2>1. \/ /\ request'[r] = [request[r] EXCEPT !.pc = "ok"]
           /\ now < Exp[request[r].tok]
        \/ request'[r] = [request[r] EXCEPT !.pc = "unauthorized"]
    BY <1>2 DEF Cache!Answer, Cache!Goto, Cache!VerifyToken, Cache!TypeOK
  <2>2. request[r] \in Cache!Locals /\ RequestTimely(r)
    BY DEF Cache!TypeOK, Cache!TimelyInv, Cache!RequestsAreTimely, RequestTimely
  <2>3. RequestTimely(r)' /\ GrantTimely(r)'
    BY <1>2, <2>1, <2>2 DEF RequestTimely, GrantTimely, Cache!At, Cache!Locals,
        Cache!Answer, Cache!TypeOK
  <2> QED
    BY <1>2, <1>e, <1>s, <2>3 DEF Cache!Answer, Cache!Goto, Cache!TypeOK
<1>3. ASSUME NEW r \in Requests, Cache!CallFails(r)
      PROVE  Cache!TimelyInv'
  <2>1. request'[r] = [request[r] EXCEPT !.pc = "unreachable"]
    BY <1>3 DEF Cache!CallFails, Cache!Goto, Cache!TypeOK
  <2>2. request[r] \in Cache!Locals /\ RequestTimely(r)
    BY DEF Cache!TypeOK, Cache!TimelyInv, Cache!RequestsAreTimely, RequestTimely
  <2>3. RequestTimely(r)' /\ GrantTimely(r)'
    BY <1>3, <2>1, <2>2 DEF RequestTimely, GrantTimely, Cache!At, Cache!Locals,
        Cache!CallFails, Cache!TypeOK
  <2> QED
    BY <1>3, <1>e, <1>s, <2>3 DEF Cache!CallFails, Cache!Goto, Cache!TypeOK
<1>4. ASSUME NEW r \in Requests, Cache!PutClaims(r)
      PROVE  Cache!TimelyInv'
  <2>1. request'[r] = [request[r] EXCEPT !.pc = "granted", !.via = "auth"]
    BY <1>4 DEF Cache!PutClaims, Cache!Grant, Cache!TypeOK
  <2>2. request[r] \in Cache!Locals /\ RequestTimely(r)
    BY DEF Cache!TypeOK, Cache!TimelyInv, Cache!RequestsAreTimely, RequestTimely
  <2>3. request[r].began < Exp[request[r].tok] /\ now < Exp[request[r].tok] + Timeout
    BY <1>4, <2>2 DEF RequestTimely, Cache!PutClaims, Cache!At, Cache!Locals,
        Cache!TypeOK
  <2>4. RequestTimely(r)' /\ GrantTimely(r)'
    BY <1>4, <2>1, <2>2, <2>3
       DEF RequestTimely, GrantTimely, Cache!Grace, Cache!At, Cache!Locals,
           Cache!PutClaims, Cache!TypeOK
  <2>5. cached' \subseteq cached \cup {request[r].tok}
    BY <1>4, RoomShrinks DEF Cache!PutClaims
  <2>6. Cache!EntriesAreTimely'
    BY <1>4, <2>2, <2>3, <2>5
       DEF Cache!EntriesAreTimely, Cache!TimelyInv, Cache!PutClaims, Cache!Locals,
           Cache!TypeOK
  <2> QED
    BY <1>4, <1>s, <2>4, <2>6 DEF Cache!PutClaims, Cache!Grant, Cache!TypeOK
<1>5. ASSUME NEW r \in Requests, Cache!Refuse(r)
      PROVE  Cache!TimelyInv'
  <2>1. request'[r] = Cache!Idle
    BY <1>5 DEF Cache!Refuse, Cache!TypeOK
  <2> QED
    BY <1>5, <1>e, <1>s, <2>1, IdleIsTimely DEF Cache!Refuse, Cache!TypeOK
<1>6. ASSUME NEW r \in Requests, Cache!FallBack(r)
      PROVE  Cache!TimelyInv'
  <2>1. RequestTimely(r)' /\ GrantTimely(r)'
    <3>1. CASE Cache!Usable(request[r].seen, request[r].began) /\ Cache!Grant(r,
          "stale")
      <4>1. request'[r] = [request[r] EXCEPT !.pc = "granted", !.via = "stale"]
        BY <3>1 DEF Cache!Grant, Cache!TypeOK
      <4>2. request[r] \in Cache!Locals /\ RequestTimely(r)
        BY DEF Cache!TypeOK, Cache!TimelyInv, Cache!RequestsAreTimely, RequestTimely
      <4> QED
        BY <1>6, <3>1, <4>1, <4>2
           DEF RequestTimely, GrantTimely, Cache!Grace, Cache!Usable, Cache!At,
               Cache!Locals, Cache!FallBack, Cache!TypeOK
    <3>2. CASE request' = [request EXCEPT ![r] = Cache!Idle]
      BY <3>2, IdleIsTimely DEF Cache!TypeOK
    <3> QED
      BY <1>6, <3>1, <3>2 DEF Cache!FallBack
  <2>2. \A q \in Requests \ {r} : request'[q] = request[q]
    BY <1>6 DEF Cache!FallBack, Cache!Grant, Cache!TypeOK
  <2> QED
    BY <1>6, <1>e, <1>s, <2>1, <2>2 DEF Cache!FallBack
<1>7. ASSUME NEW r \in Requests, Cache!Serve(r)
      PROVE  Cache!TimelyInv'
  <2>1. request'[r] = Cache!Idle
    BY <1>7 DEF Cache!Serve, Cache!TypeOK
  <2> QED
    BY <1>7, <1>e, <1>s, <2>1, IdleIsTimely DEF Cache!Serve, Cache!TypeOK
<1>8. CASE Cache!CollectGarbage
  <2>1. Cache!EntriesAreTimely'
    BY <1>8 DEF Cache!CollectGarbage, Cache!TimelyInv, Cache!EntriesAreTimely
  <2> QED
    BY <1>8, <2>1, OthersUndisturbed, Assemble DEF Cache!CollectGarbage
<1>9. CASE Cache!Restart
  <2>1. Cache!EntriesAreTimely'
    BY <1>9 DEF Cache!Restart, Cache!EntriesAreTimely
  <2> QED
    BY <1>9, <2>1, IdleIsTimely, Assemble DEF Cache!Restart
<1>10. CASE Cache!Tick
  <2>1. ASSUME NEW r \in Requests
        PROVE  RequestTimely(r)' /\ GrantTimely(r)'
    <3>1. request[r] \in Cache!Locals /\ RequestTimely(r) /\ GrantTimely(r)
      BY DEF Cache!TypeOK, Cache!TimelyInv, Cache!RequestsAreTimely, RequestTimely,
             Cache!GrantsAreTimely, GrantTimely
    <3> QED
      BY <1>10, <3>1 DEF Cache!Tick, RequestTimely, GrantTimely, Cache!At,
          Cache!Locals, Cache!TypeOK
  <2> QED
    BY <1>10, <1>e, <2>1, Assemble DEF Cache!Tick
<1>11. CASE UNCHANGED Cache!vars
  BY <1>11, <1>e, OthersUndisturbed, Assemble DEF Cache!vars
<1> QED
  BY <1>1, <1>2, <1>3, <1>4, <1>5, <1>6, <1>7, <1>8, <1>9, <1>10, <1>11
     DEF Cache!Next

\* However requests overlap, answers get lost and entries are put, evicted,
\* collected or forgotten, a token opens the door past its expiry for no
\* longer than one call's timeout and one cache (or stale) period.
THEOREM TokensExpire ==
    ASSUME Cache!VerifyCacheAssumption
    PROVE  Cache!Spec => []GrantsAreTimely
<1>1. Cache!Init => Cache!TimelyInv
  BY DEF Cache!Init, Cache!TimelyInv, Cache!EntriesAreTimely,
      Cache!RequestsAreTimely, Cache!GrantsAreTimely,
         Cache!At, Cache!Idle
<1>2. Cache!TypeOK /\ Cache!TypeOK' /\ Cache!TimelyInv /\ [Cache!Next]_Cache!vars
      => Cache!TimelyInv'
  BY TimelyStep
<1>3. Cache!TimelyInv => GrantsAreTimely
  BY DEF Cache!TimelyInv, Cache!GrantsAreTimely, GrantsAreTimely, Cache!At, At,
      Cache!Grace, Grace
<1> QED
  BY <1>1, <1>2, <1>3, CacheTypeCorrect, PTL DEF Cache!Spec
=============================================================================
