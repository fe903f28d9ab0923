-------------------------- MODULE DeviceLoginProofs --------------------------
(***************************************************************************)
(* Proofs about DeviceLogin: its types, that a closed account is let in at *)
(* no moment, that a standing denial is never missed, that RADIUS makes    *)
(* nobody a full administrator who has not earned it, and that a request   *)
(* nobody disturbs is answered as the tables say.                          *)
(***************************************************************************)
EXTENDS DeviceLogin, FiniteSetTheorems, FunctionTheorems, WellFoundedInduction, TLAPS

-----------------------------------------------------------------------------
(* The policies table: new ids, forms and defaults.                        *)

\* Every non-empty set of naturals has a least element.
LEMMA Least ==
    ASSUME NEW T, T \subseteq Nat, T # {}
    PROVE  \E n \in T : \A m \in T : n <= m
<1> DEFINE R == OpToRel(<, Nat)
<1>1. PICK n \in T : \A m \in T : ~ (<<m, n>> \in R)
  <2>1. IsWellFoundedOn(R, Nat)
    BY NatLessThanWellFounded, Zenon
  <2> HIDE DEF R
  <2> QED
    BY <2>1, WFMin
<1>2. \A m \in Nat, k \in Nat : m < k => <<m, k>> \in R
  BY DEF OpToRel
<1>3. ASSUME NEW m \in T PROVE n <= m
  <2>1. ~ (m < n)
    BY <1>1, <1>2
  <2> QED
    BY <2>1
<1> QED
  BY <1>3

\* A finite set of naturals has a greatest element.  Otherwise take a set
\* without a bound that has as few elements as possible, and one element out
\* of it: what is left has a bound.
LEMMA Bounded ==
    ASSUME NEW S, IsFiniteSet(S), S \subseteq Nat
    PROVE  \E b \in Nat : \A n \in S : n <= b
<1> DEFINE Endless(T) == ~ \E b \in Nat : \A n \in T : n <= b
           Sizes == {Cardinality(T) : T \in {U \in SUBSET S : Endless(U)}}
<1>1. \A T \in SUBSET S : IsFiniteSet(T) /\ Cardinality(T) \in Nat
  BY FS_Subset, FS_CardinalityType
<1> SUFFICES ASSUME Endless(S) PROVE FALSE
  OBVIOUS
<1>2. PICK k \in Sizes : \A m \in Sizes : k <= m
  <2>1. Sizes \subseteq Nat /\ Sizes # {}
    BY <1>1
  <2> QED
    BY <2>1, Least
<1>3. PICK T \in SUBSET S : Endless(T) /\ Cardinality(T) = k
  BY <1>2
<1>4. PICK x \in T : TRUE
  BY <1>3
<1>5. Cardinality(T \ {x}) = k - 1 /\ k \in Nat
  BY <1>1, <1>3, FS_RemoveElement
<1>6. PICK b \in Nat : \A n \in T \ {x} : n <= b
  <2>1. ~ Endless(T \ {x})
    <3>1. Endless(T \ {x}) => Cardinality(T \ {x}) \in Sizes
      OBVIOUS
    <3> QED
      BY <1>2, <1>5, <3>1
  <2> QED
    BY <2>1
<1>7. x \in Nat /\ \A n \in T : n <= IF b < x THEN x ELSE b
  BY <1>6, <1>3
<1> QED
  BY <1>3, <1>7

LEMMA Greatest ==
    ASSUME NEW S, IsFiniteSet(S), S \subseteq Nat, S # {}
    PROVE  \E n \in S : \A m \in S : m <= n
<1> DEFINE Bounds == {b \in Nat : \A m \in S : m <= b}
<1>1. PICK b \in Bounds : \A c \in Bounds : b <= c
  BY Bounded, Least
<1>2. CASE b \in S
  BY <1>1, <1>2
<1>3. CASE b \notin S
  <2>1. PICK s \in S : TRUE
    OBVIOUS
  <2>2. b - 1 \in Nat /\ \A m \in S : m <= b - 1
    BY <1>1, <1>3, <2>1
  <2> QED
    BY <1>1, <2>2
<1> QED
  BY <1>2, <1>3

\* A form becomes a rule under any id.
LEMMA FormMakesRule ==
    ASSUME NEW rows \in SUBSET Rule, IsFiniteSet(rows), NEW id \in Nat, NEW form \in RuleForm
    PROVE  WithRule(rows, id, form) \subseteq Rule /\ IsFiniteSet(WithRule(rows, id, form))
<1> DEFINE r == [id |-> id, role |-> form.role, kind |-> form.kind, tier |-> form.tier,
                 approval |-> form.approval, allow |-> form.allow, deny |-> form.deny,
                 linux |-> form.linux, cisco |-> IosLevel(form.cisco)]
<1>1. IosLevel(form.cisco) \in 0 .. 15
  BY DEF IosLevel, RuleForm
<1>2. r \in Rule
  BY <1>1 DEF Rule, RuleForm
<1>3. WithRule(rows, id, form) = rows \cup {r}
  BY DEF WithRule
<1> HIDE DEF r
<1>4. IsFiniteSet(rows \cup {r})
  BY FS_AddElement
<1> QED
  BY <1>2, <1>3, <1>4

\* A finite set of forms is inserted under ids that are drawn.
LEMMA InsertedRules ==
    ASSUME NEW rows \in SUBSET Rule, IsFiniteSet(rows),
           NEW forms \in SUBSET RuleForm, IsFiniteSet(forms)
    PROVE  Inserted(rows, forms) \in SUBSET Rule /\ IsFiniteSet(Inserted(rows, forms))
<1> DEFINE ids == {0} \cup {r.id : r \in rows}
           IsTop(n) == \A r \in rows : r.id <= n
           top == CHOOSE n \in ids : IsTop(n)
           IsNumbering(f) == \A x, y \in forms : f[x] = f[y] => x = y
           nr == CHOOSE f \in [forms -> 1 .. Cardinality(forms)] : IsNumbering(f)
           New(x) == WithRule({}, top + nr[x], x)
<1>1. top \in Nat
  <2>1. ids \subseteq Nat /\ ids # {}
    BY DEF Rule
  <2>2. IsFiniteSet(ids)
    <3> DEFINE used == {r.id : r \in rows}
               f == [r \in rows |-> r.id]
    <3>1. f \in Surjection(rows, used)
      BY DEF Surjection
    <3>2. IsFiniteSet(used)
      <4> HIDE DEF used, f
      <4> QED
        BY <3>1, FS_Surjection
    <3>3. IsFiniteSet(used \cup {0})
      <4> HIDE DEF used
      <4> QED
        BY <3>2, FS_AddElement
    <3>4. ids = used \cup {0}
      OBVIOUS
    <3> QED
      BY <3>3, <3>4
  <2>3. \E n \in ids : IsTop(n)
    <3>1. \A r \in rows : r.id \in ids
      OBVIOUS
    <3>2. \E n \in ids : \A m \in ids : m <= n
      <4> HIDE DEF ids
      <4> QED
        BY <2>1, <2>2, Greatest
    <3> QED
      BY <3>1, <3>2
  <2>4. top \in ids
    BY <2>3
  <2> QED
    BY <2>1, <2>4
<1>2. \A x \in forms : nr[x] \in Nat
  <2>1. ExistsBijection(forms, 1 .. Cardinality(forms)) /\ Cardinality(forms) \in Nat
    BY FS_CardinalityType, Fun_ExistsBijSymmetric
  <2>2. \E f \in [forms -> 1 .. Cardinality(forms)] : IsNumbering(f)
    <3>1. PICK f : f \in Bijection(forms, 1 .. Cardinality(forms))
      BY <2>1 DEF ExistsBijection
    <3>2. f \in [forms -> 1 .. Cardinality(forms)] /\ IsInjective(f)
      BY <3>1 DEF Bijection, Injection
    <3> QED
      BY <3>2 DEF IsInjective
  <2>3. nr \in [forms -> 1 .. Cardinality(forms)]
    BY <2>2
  <2> QED
    BY <2>1, <2>3
<1>3. Inserted(rows, forms) = rows \cup UNION {New(x) : x \in forms}
  BY DEF Inserted
<1> HIDE DEF top, nr
<1>4. ASSUME NEW x \in forms PROVE New(x) \in SUBSET Rule /\ IsFiniteSet(New(x))
  <2> DEFINE id == top + nr[x]
  <2>1. id \in Nat
    BY <1>1, <1>2
  <2>2. IsFiniteSet({}) /\ {} \in SUBSET Rule
    BY FS_EmptySet
  <2> HIDE DEF id
  <2>3. WithRule({}, id, x) \in SUBSET Rule /\ IsFiniteSet(WithRule({}, id, x))
    BY <2>1, <2>2, FormMakesRule
  <2> QED
    BY <2>3 DEF id
<1>5. IsFiniteSet({New(x) : x \in forms})
  <2> DEFINE news == {New(x) : x \in forms}
             f == [x \in forms |-> New(x)]
  <2> HIDE DEF New
  <2>1. f \in Surjection(forms, news)
    BY DEF Surjection
  <2> HIDE DEF news, f
  <2>2. IsFiniteSet(news)
    BY <2>1, FS_Surjection
  <2> QED
    BY <2>2 DEF news
<1> HIDE DEF New
<1>6. IsFiniteSet(UNION {New(x) : x \in forms})
  <2> DEFINE news == {New(x) : x \in forms}
  <2>1. \A T \in news : IsFiniteSet(T)
    BY <1>4
  <2> HIDE DEF news
  <2>2. IsFiniteSet(news)
    BY <1>5 DEF news
  <2>3. IsFiniteSet(UNION news)
    BY <2>1, <2>2, FS_UNION
  <2> QED
    BY <2>3 DEF news
<1>7. IsFiniteSet(rows \cup UNION {New(x) : x \in forms})
  BY <1>6, FS_Union
<1>8. rows \cup UNION {New(x) : x \in forms} \in SUBSET Rule
  BY <1>4
<1> QED
  BY <1>3, <1>7, <1>8

\* A start of the policy service leaves a table of rules.
LEMMA StartedRules ==
    ASSUME NEW rows \in SUBSET Rule, IsFiniteSet(rows)
    PROVE  Started(rows) \in SUBSET Rule /\ IsFiniteSet(Started(rows))
<1>1. ASSUME NEW rs \in SUBSET Rule, IsFiniteSet(rs)
      PROVE  Seeded(rs) \in SUBSET Rule /\ IsFiniteSet(Seeded(rs))
  BY <1>1, InsertedRules, DeviceAssumption DEF Seeded
<1>2. ASSUME NEW rs \in SUBSET Rule, IsFiniteSet(rs)
      PROVE  WithUserRules(rs) \in SUBSET Rule /\ IsFiniteSet(WithUserRules(rs))
  <2> DEFINE forms == {s \in Seeds : s.role = "user"}
  <2>1. forms \in SUBSET RuleForm /\ IsFiniteSet(forms)
    BY DeviceAssumption, FS_Subset
  <2>2. WithUserRules(rs) = IF \E r \in rs : r.role = "user" THEN rs ELSE Inserted(rs, forms)
    BY DEF WithUserRules
  <2> HIDE DEF forms
  <2> QED
    BY <1>2, <2>1, <2>2, InsertedRules
<1>3. ASSUME NEW rs \in SUBSET Rule, IsFiniteSet(rs)
      PROVE  Migrated(rs) \in SUBSET Rule /\ IsFiniteSet(Migrated(rs))
  <2> DEFINE To(r) == IF r.role = "admin" /\ r.kind = "*" THEN [r EXCEPT !.tier = 3] ELSE r
             new == {To(r) : r \in rs}
             f == [r \in rs |-> To(r)]
  <2>1. \A r \in Rule : To(r) \in Rule
    BY DEF Rule, Tiers
  <2>2. Migrated(rs) = new
    BY DEF Migrated
  <2> HIDE DEF To
  <2>3. f \in Surjection(rs, new)
    BY DEF Surjection
  <2>4. new \in SUBSET Rule
    BY <2>1
  <2> HIDE DEF new, f
  <2> QED
    BY <1>3, <2>2, <2>3, <2>4, FS_Surjection
<1> QED
  BY <1>1, <1>2, <1>3 DEF Started

-----------------------------------------------------------------------------
(* The invariant.                                                          *)

\* The FortiGate login, which the rules do not judge.
Fortinet == {"admin", "map", "refresh", "profile"}

Placed(q) ==
    /\ q.pc \in Places[q.op]
    /\ q.pc = "apply" => q.next \in (IF q.op = "authen" THEN {"granted"}
                                     ELSE {"admin", "row", "profile"})
    /\ q.pc # "done" => q.reply = ""

Typed(q) ==
    /\ q \in RequestType
    /\ q.pc \in {"map", "roles"} => q.user \in Users /\ q.role \in Roles
    /\ q.pc = "apply" => q.copy \in Mappings
    /\ q.pc = "install" => q.copy \in [Hosts -> ClientRow]

\* The witnesses know the tables of now.
Fresh(d, q) ==
    /\ PortalUserExists(d, q.login) => q.known
    /\ ~PortalUserExists(d, q.login) => q.unknown
    /\ d.tier[q.host] \in q.tiers
    /\ q.asRole \cup q.byGroup \subseteq Denying(d, q, q.tiers)
    /\ \A u \in Named(q.login) : q.asRole \subseteq {d.role[u]} /\ q.byGroup \subseteq d.granted[u]

\* The login had an open account, or the password is the device's.
Entitled(q) == q.known \/ (q.op # "author" /\ DevicePassword(q.host, q.pass))

\* The lists collected so far refuse the command.
Refused(q) == ~CommandAllowed(q.cmd, {}, q.dec.deny)

\* Who is let in was known, who is sent to the device's own users was not.
Admitted(q) ==
    /\ q.op = "authen" /\ q.pc = "login" => q.known
    /\ q.op = "authen" /\ q.ok => Entitled(q)
    /\ q.op = "authen" /\ q.pc \in {"note", "granted", "apply"} => q.ok
    /\ q.op = "author" /\ q.pc \notin {"exists", "done"} => q.known
    /\ q.op = "radius" /\ q.pc \in {"roles", "login", "target", "rule"} => Entitled(q)
    /\ q.reply = "pass" => Entitled(q)
    /\ q.reply = "error" => q.unknown
    /\ q.reply = "silent" => q.unknown \/ q.svc = "chap"

\* What denies all along is among the roles still to be asked, or in the decision.
Judged(q) ==
    /\ q.asRole \cup q.byGroup # {} => q.op = "author" /\ q.cmd # << >>
    /\ q.op = "author" /\ (q.pc \in Fortinet \/ (q.pc = "apply" /\ q.next \in Fortinet)) =>
           q.cmd = << >>
    /\ q.op = "author" /\ q.pc = "roles" =>
           q.user \in Named(q.login) /\ q.asRole \subseteq {q.role}
    /\ q.op = "author" /\ q.pc = "target" => q.asRole \cup q.byGroup \subseteq q.left
    /\ q.op = "author" /\ q.pc = "rule" =>
           q.tier \in q.tiers /\ \A r \in q.asRole \cup q.byGroup : r \in q.left \/ Refused(q)
    /\ q.reply = "pass" => q.asRole \cup q.byGroup = {}

\* The rights in an answer of the RADIUS server.
Earned(q) ==
    \/ q.level < 15
    \/ q.role \in {"admin", "secops"}
    \/ IsCiscoKind(KindOf[q.host]) /\ q.dec.cisco = 15 /\ q.dec.allowed

Honest(q) ==
    /\ Placed(q) /\ Admitted(q) /\ Judged(q)
    /\ q.op = "radius" /\ q.reply = "pass" => Earned(q)

Sound(d, q) == Typed(q) /\ Honest(q) /\ (q.pc # "done" => Fresh(d, q))

DeviceInv ==
    /\ db \in Tables /\ IsFiniteSet(db.rules)
    /\ live \in Mappings
    /\ cache \in [rows : [Hosts -> ClientRow], stale : BOOLEAN]
    /\ DOMAIN work = Workers
    /\ \A w \in Workers : work[w] = Idle \/ Sound(db, work[w])
    /\ requests \in 0 .. MaxRequests /\ edits \in 0 .. MaxEdits

-----------------------------------------------------------------------------
(* A request's own steps.                                                  *)

\* The request r is q with the same input and the same witnesses.
Same(q, r) ==
    /\ r.op = q.op /\ r.host = q.host /\ r.login = q.login /\ r.pass = q.pass
    /\ r.cmd = q.cmd /\ r.svc = q.svc
    /\ r.known = q.known /\ r.unknown = q.unknown
    /\ r.tiers = q.tiers /\ r.asRole = q.asRole /\ r.byGroup = q.byGroup

LEMMA SameFresh ==
    ASSUME NEW d, NEW q, NEW r, Same(q, r), Fresh(d, q)
    PROVE  Fresh(d, r)
BY DEF Same, Fresh, Denying

\* A goroutine that is not idle.
LEMMA AtWork ==
    ASSUME DeviceInv, NEW w \in Workers, work[w].op # "idle"
    PROVE  Sound(db, work[w])
BY DEF DeviceInv, Idle

LEMMA DonePlaces == \A op \in {"authen", "author", "radius"} : "done" \in Places[op]
BY DEF Places

LEMMA ApplyPlaces == \A op \in {"authen", "author"} : "apply" \in Places[op]
BY DEF Places

\* One request takes a step, the others rest.
LEMMA StepSound ==
    ASSUME DeviceInv, NEW w \in Workers, NEW r, Sound(db, r), work' = [work EXCEPT ![w] = r],
           UNCHANGED <<db, requests, edits>>, live' \in Mappings,
           cache' \in [rows : [Hosts -> ClientRow], stale : BOOLEAN]
    PROVE  DeviceInv'
BY DEF DeviceInv

LEMMA SetSound ==
    ASSUME DeviceInv, NEW w \in Workers, NEW r, Set(w, r), Typed(r), Honest(r),
           Sound(db, work[w]), work[w].pc # "done", Same(work[w], r)
    PROVE  DeviceInv'
<1>1. Fresh(db, r)
  BY SameFresh DEF Sound
<1>2. Sound(db, r)
  BY <1>1 DEF Sound
<1>3. live \in Mappings /\ cache \in [rows : [Hosts -> ClientRow], stale : BOOLEAN]
  BY DEF DeviceInv
<1> QED
  BY <1>2, <1>3, StepSound DEF Set

LEMMA ReplyTyped ==
    ASSUME NEW q \in RequestType, NEW pc \in Place, NEW reply \in Reply
    PROVE  [q EXCEPT !.pc = pc, !.reply = reply] \in RequestType
BY DEF RequestType

LEMMA CopyTyped ==
    ASSUME NEW q \in RequestType, NEW pc \in Place, NEW copy \in Copy,
           NEW next \in {"", "granted", "admin", "row", "profile"}
    PROVE  [q EXCEPT !.copy = copy, !.pc = pc, !.next = next] \in RequestType
BY DEF RequestType

\* What a goroutine may go on to without anything but its place changed.
Allowed(q, pc) ==
    /\ pc \in Places[q.op] \ {"map", "roles", "install", "apply", "done"}
    /\ q.op = "authen" => (pc = "login" => q.known) /\ (pc \in {"note", "granted"} => q.ok)
    /\ q.op = "author" => q.known /\ (pc \in Fortinet => q.cmd = << >>)
                          /\ pc \in {"nas", "row"} \cup Fortinet
    /\ q.op = "radius" /\ pc \in {"login", "target", "rule"} => Entitled(q)

LEMMA GotoSound ==
    ASSUME DeviceInv, NEW w \in Workers, NEW pc \in Place, Goto(w, pc),
           Running(w), Allowed(work[w], pc)
    PROVE  DeviceInv'
<1> DEFINE q == work[w]
           r == [q EXCEPT !.pc = pc]
<1>1. Sound(db, q) /\ q.pc # "done"
  BY AtWork DEF Running
<1>2. q \in RequestType
  BY <1>1 DEF Sound, Typed
<1>3. r \in RequestType
  BY <1>2 DEF RequestType
<1>4. /\ Same(q, r) /\ r.pc = pc
      /\ r.ok = q.ok /\ r.reply = q.reply
  BY <1>2 DEF RequestType, Same
<1>5. Set(w, r)
  BY DEF Goto
<1> HIDE DEF r
<1>6. Honest(q) /\ Allowed(q, pc) /\ q.op \in {"authen", "author", "radius"}
  BY <1>1, <1>2 DEF Sound, RequestType
<1>7. pc \notin {"map", "roles", "install", "apply", "done"}
  BY <1>6 DEF Allowed
<1>8. Typed(r)
  BY <1>3, <1>4, <1>7 DEF Typed
<1>9. Placed(r)
  BY <1>1, <1>4, <1>6, <1>7 DEF Placed, Honest, Allowed, Same
<1>10. Admitted(r)
  BY <1>1, <1>4, <1>6, <1>7 DEF Admitted, Placed, Honest, Allowed, Same, Entitled
<1>11. Judged(r)
  BY <1>1, <1>4, <1>6, <1>7 DEF Judged, Placed, Honest, Allowed, Same, Fortinet
<1>12. Honest(r)
  BY <1>1, <1>4, <1>6, <1>9, <1>10, <1>11 DEF Honest, Placed
<1> QED
  BY <1>1, <1>4, <1>5, <1>8, <1>12, SetSound

\* An answer.
LEMMA AnswerSound ==
    ASSUME DeviceInv, NEW w \in Workers, Running(w),
           NEW reply \in {"pass", "fail", "error", "silent", "ignored", "hung up"},
           Answer(w, reply),
           reply = "pass" => /\ work[w].op # "radius" /\ Entitled(work[w])
                             /\ work[w].asRole \cup work[w].byGroup = {},
           reply = "error" => work[w].unknown,
           reply = "silent" => work[w].unknown \/ work[w].svc = "chap"
    PROVE  DeviceInv'
<1> DEFINE q == work[w]
           done == "done"
           r == [q EXCEPT !.pc = done, !.reply = reply]
<1>1. Sound(db, q) /\ q.pc # "done"
  BY AtWork DEF Running
<1>2. q \in RequestType
  BY <1>1 DEF Sound, Typed
<1>3. Set(w, r)
  BY DEF Answer
<1>4. done = "done" /\ done \in Place /\ reply \in Reply
  BY DEF Place, Places, Reply
<1> HIDE DEF done
<1>5. r \in RequestType
  BY <1>2, <1>4, ReplyTyped
<1>6. /\ Same(q, r) /\ r.pc = "done" /\ r.reply = reply
      /\ r.ok = q.ok
  BY <1>2, <1>4 DEF RequestType, Same
<1> HIDE DEF r
<1>7. Honest(q) /\ q.op \in {"authen", "author", "radius"}
  BY <1>1, <1>2 DEF Sound, RequestType
<1>8. Typed(r)
  BY <1>5, <1>6 DEF Typed
<1>9. Placed(r)
  BY <1>6, <1>7, DonePlaces DEF Placed, Same
<1>10. Admitted(r)
  BY <1>6, <1>7 DEF Admitted, Honest, Same, Entitled
<1>11. Judged(r)
  BY <1>6, <1>7 DEF Judged, Honest, Same, Fortinet
<1>12. Honest(r)
  BY <1>6, <1>7, <1>9, <1>10, <1>11 DEF Honest, Same
<1> QED
  BY <1>1, <1>3, <1>6, <1>8, <1>12, SetSound

\* The settings are read, to be applied next.
LEMMA RefreshSound ==
    ASSUME DeviceInv, NEW w \in Workers, Running(w),
           NEW next \in {"granted", "admin", "row", "profile"}, Refresh(w, next),
           \/ work[w].op = "authen" /\ work[w].ok /\ next = "granted"
           \/ /\ work[w].op = "author" /\ work[w].known /\ next \in {"admin", "row", "profile"}
              /\ next \in Fortinet => work[w].cmd = << >>
    PROVE  DeviceInv'
<1> DEFINE q == work[w]
           apply == "apply"
           copy == db.mapping
           r == [q EXCEPT !.copy = copy, !.pc = apply, !.next = next]
<1>1. Sound(db, q) /\ q.pc # "done"
  BY AtWork DEF Running
<1>2. q \in RequestType /\ copy \in Mappings
  BY <1>1 DEF Sound, Typed, DeviceInv, Tables
<1>3. Set(w, r)
  BY DEF Refresh
<1>4. apply = "apply" /\ apply \in Place /\ copy \in Copy
  BY <1>2 DEF Place, Places, Copy
<1> HIDE DEF apply, copy
<1>5. r \in RequestType
  BY <1>2, <1>4, CopyTyped
<1>6. /\ Same(q, r) /\ r.pc = "apply" /\ r.next = next /\ r.copy = copy
      /\ r.ok = q.ok /\ r.reply = q.reply
  BY <1>2, <1>4 DEF RequestType, Same
<1> HIDE DEF r
<1>7. Honest(q) /\ q.op \in {"authen", "author", "radius"}
  BY <1>1, <1>2 DEF Sound, RequestType
<1>8. Typed(r)
  BY <1>2, <1>5, <1>6 DEF Typed
<1>9. Placed(r)
  BY <1>1, <1>6, <1>7, ApplyPlaces DEF Placed, Same, Honest
<1>10. Admitted(r)
  BY <1>1, <1>6, <1>7 DEF Admitted, Honest, Placed, Same, Entitled
<1>11. Judged(r)
  BY <1>1, <1>6, <1>7 DEF Judged, Honest, Placed, Same, Fortinet
<1>12. Honest(r)
  BY <1>1, <1>6, <1>7, <1>9, <1>10, <1>11 DEF Honest, Placed, Same
<1> QED
  BY <1>1, <1>3, <1>6, <1>8, <1>12, SetSound

-----------------------------------------------------------------------------
(* TACACS+ authentication.                                                 *)

LEMMA OkTyped ==
    ASSUME NEW q \in RequestType, NEW pc \in Place, NEW b \in BOOLEAN
    PROVE  /\ [q EXCEPT !.ok = b, !.pc = pc] \in RequestType
           /\ [q EXCEPT !.calm = b, !.pc = pc] \in RequestType
<1>1. [q EXCEPT !.ok = b, !.pc = pc] \in RequestType
  BY DEF RequestType
<1>2. [q EXCEPT !.calm = b, !.pc = pc] \in RequestType
  BY DEF RequestType
<1> QED
  BY <1>1, <1>2

\* A password was judged, by the device's own or by the auth service.
LEMMA VerdictSound ==
    ASSUME DeviceInv, NEW w \in Workers, Running(w), work[w].op = "authen",
           NEW ok \in BOOLEAN, ok => Entitled(work[w]),
           \/ Set(w, [work[w] EXCEPT !.ok = ok, !.pc = "again"])
           \/ Set(w, [work[w] EXCEPT !.calm = ok, !.pc = "again"])
    PROVE  DeviceInv'
<1> DEFINE q == work[w]
           again == "again"
           r == [q EXCEPT !.ok = ok, !.pc = again]
           s == [q EXCEPT !.calm = ok, !.pc = again]
<1>1. Sound(db, q) /\ q.pc # "done"
  BY AtWork DEF Running
<1>2. q \in RequestType /\ Honest(q)
  BY <1>1 DEF Sound, Typed
<1>3. Set(w, r) \/ Set(w, s)
  OBVIOUS
<1>4. again = "again" /\ again \in Place /\ "again" \in Places["authen"]
  BY DEF Place, Places
<1> HIDE DEF again
<1>5. r \in RequestType /\ s \in RequestType
  BY <1>2, <1>4, OkTyped
<1>6. /\ Same(q, r) /\ r.pc = "again" /\ r.ok = ok /\ r.reply = q.reply
      /\ Same(q, s) /\ s.pc = "again" /\ s.ok = q.ok /\ s.reply = q.reply
  BY <1>2, <1>4 DEF RequestType, Same
<1> HIDE DEF r, s
<1>7. ASSUME NEW t \in {r, s}, Set(w, t) PROVE DeviceInv'
  <2>1. /\ Same(q, t) /\ t.pc = "again" /\ t.reply = q.reply /\ t \in RequestType
        /\ t.ok => Entitled(q)
    BY <1>2, <1>5, <1>6 DEF Honest, Admitted
  <2>2. Typed(t)
    BY <2>1 DEF Typed
  <2>3. Placed(t)
    BY <1>1, <1>2, <1>4, <2>1 DEF Placed, Same, Honest
  <2>4. Admitted(t)
    BY <1>1, <1>2, <2>1 DEF Admitted, Placed, Honest, Same, Entitled
  <2>5. Judged(t)
    BY <1>1, <1>2, <2>1 DEF Judged, Placed, Honest, Same
  <2>6. Honest(t)
    BY <2>1, <2>3, <2>4, <2>5 DEF Honest, Same
  <2> QED
    BY <1>1, <1>7, <2>1, <2>2, <2>6, SetSound
<1> QED
  BY <1>3, <1>7

\* Whoever the auth service lets in has an open account of that name or e-mail.
LEMMA LoginIsKnown ==
    ASSUME NEW d, NEW login, NEW pass, AuthLogin(d, login, pass)
    PROVE  PortalUserExists(d, login)
<1>1. pass \in Enabled(d) /\ pass \in FindByLoginID(d, login)
  BY DEF AuthLogin
<1>2. FindByLoginID(d, login) \subseteq Named(login) \cup Mailed(login)
  BY DEF FindByLoginID
<1> QED
  BY <1>1, <1>2 DEF PortalUserExists

LEMMA AuthenStepSound ==
    ASSUME DeviceInv, NEW w \in Workers,
           \/ AuthenContinue(w) \/ AuthenDevice(w) \/ AuthenExists(w) \/ AuthenLogin(w)
           \/ AuthenReply(w) \/ AuthenNote(w) \/ AuthenGranted(w)
    PROVE  DeviceInv'
<1> DEFINE q == work[w]
<1>1. q.op = "authen" /\ q.pc \in Places.authen \ {"apply", "done"}
  BY DEF AuthenContinue, AuthenDevice, AuthenExists, AuthenLogin, AuthenReply, AuthenNote,
         AuthenGranted, At, Places
<1>2. Running(w) /\ Sound(db, q)
  BY <1>1, AtWork DEF Running
<1>3. q \in RequestType /\ Honest(q) /\ Fresh(db, q)
  BY <1>2 DEF Sound, Typed, Running
<1>4. \A pc \in {"device", "exists", "again", "login", "note", "granted"} :
          /\ pc \in Place /\ pc \in Places["authen"]
          /\ pc \notin {"map", "roles", "install", "apply", "done"}
  BY DEF Place, Places
<1>5. CASE AuthenContinue(w)
  <2>1. Goto(w, "device") \/ Answer(w, "hung up")
    BY <1>5 DEF AuthenContinue
  <2>2. Allowed(q, "device")
    BY <1>1, <1>4 DEF Allowed
  <2> QED
    BY <1>2, <1>4, <2>1, <2>2, GotoSound, AnswerSound
<1>6. CASE AuthenDevice(w)
  <2>1. CASE DevicePassword(q.host, q.pass)
    <3>1. Set(w, [q EXCEPT !.ok = TRUE, !.pc = "again"])
      BY <1>6, <2>1 DEF AuthenDevice
    <3>2. Entitled(q)
      BY <1>1, <2>1 DEF Entitled
    <3> QED
      BY <1>1, <1>2, <3>1, <3>2, VerdictSound
  <2>2. CASE ~DevicePassword(q.host, q.pass)
    <3>1. Goto(w, "exists")
      BY <1>6, <2>2 DEF AuthenDevice
    <3>2. Allowed(q, "exists")
      BY <1>1, <1>4 DEF Allowed
    <3> QED
      BY <1>2, <1>4, <3>1, <3>2, GotoSound
  <2> QED
    BY <2>1, <2>2
<1>7. CASE AuthenExists(w)
  <2>1. \/ PortalUserExists(db, q.login) /\ Goto(w, "login")
        \/ Goto(w, "again")
    BY <1>7 DEF AuthenExists
  <2>2. Allowed(q, "again") /\ (PortalUserExists(db, q.login) => Allowed(q, "login"))
    BY <1>1, <1>3, <1>4 DEF Allowed, Fresh
  <2> QED
    BY <1>2, <1>4, <2>1, <2>2, GotoSound
<1>8. CASE AuthenLogin(w)
  <2> DEFINE ok == AuthLogin(db, q.login, q.pass)
  <2>1. \/ Set(w, [q EXCEPT !.ok = ok, !.pc = "again"])
        \/ Set(w, [q EXCEPT !.calm = FALSE, !.pc = "again"])
    BY <1>8 DEF AuthenLogin
  <2>2. ok \in BOOLEAN /\ (ok => Entitled(q))
    BY <1>3, LoginIsKnown DEF AuthLogin, Entitled, Fresh
  <2> HIDE DEF ok
  <2>3. CASE Set(w, [q EXCEPT !.ok = ok, !.pc = "again"])
    BY <1>1, <1>2, <2>2, <2>3, VerdictSound
  <2>4. CASE Set(w, [q EXCEPT !.calm = FALSE, !.pc = "again"])
    BY <1>1, <1>2, <2>4, VerdictSound
  <2> QED
    BY <2>1, <2>3, <2>4
<1>9. CASE AuthenReply(w)
  <2>1. \/ q.ok /\ Goto(w, "note")
        \/ q.ok /\ Answer(w, "pass")
        \/ Answer(w, "fail")
        \/ ~PortalUserExists(db, q.login) /\ (Answer(w, "silent") \/ Answer(w, "error"))
    BY <1>9 DEF AuthenReply
  <2>2. q.ok => Allowed(q, "note")
    BY <1>1, <1>4 DEF Allowed
  <2>3. /\ q.ok => Entitled(q) /\ q.asRole \cup q.byGroup = {}
        /\ ~PortalUserExists(db, q.login) => q.unknown
    BY <1>1, <1>3 DEF Honest, Admitted, Judged, Fresh
  <2> QED
    BY <1>1, <1>2, <1>4, <2>1, <2>2, <2>3, GotoSound, AnswerSound
<1>10. CASE AuthenNote(w)
  <2>1. Refresh(w, "granted") \/ Goto(w, "granted")
    BY <1>10 DEF AuthenNote
  <2>2. q.ok
    BY <1>1, <1>3, <1>10 DEF AuthenNote, At, Honest, Admitted
  <2>3. Allowed(q, "granted")
    BY <1>1, <1>4, <2>2 DEF Allowed
  <2> QED
    BY <1>1, <1>2, <1>4, <2>1, <2>2, <2>3, GotoSound, RefreshSound
<1>11. CASE AuthenGranted(w)
  <2>1. Answer(w, "pass")
    BY <1>11 DEF AuthenGranted
  <2>2. Entitled(q) /\ q.asRole \cup q.byGroup = {}
    BY <1>1, <1>3, <1>11 DEF AuthenGranted, At, Honest, Admitted, Judged
  <2> QED
    BY <1>1, <1>2, <2>1, <2>2, AnswerSound
<1> QED
  BY <1>5, <1>6, <1>7, <1>8, <1>9, <1>10, <1>11

-----------------------------------------------------------------------------
(* The FortiGate maps.                                                     *)

LEMMA CalmTyped ==
    ASSUME NEW q \in RequestType, NEW b \in BOOLEAN
    PROVE  [q EXCEPT !.calm = b] \in RequestType
BY DEF RequestType

\* Whether the request ran undisturbed matters only to AnswersFit.
LEMMA CalmSound ==
    ASSUME NEW d, NEW q, Sound(d, q)
    PROVE  Sound(d, [q EXCEPT !.calm = FALSE])
<1> DEFINE r == [q EXCEPT !.calm = FALSE]
<1>1. q \in RequestType
  BY DEF Sound, Typed
<1>2. r \in RequestType
  BY <1>1, CalmTyped
<1>3. /\ Same(q, r) /\ r.pc = q.pc /\ r.ok = q.ok /\ r.user = q.user /\ r.role = q.role
      /\ r.left = q.left /\ r.dec = q.dec /\ r.tier = q.tier
      /\ r.copy = q.copy /\ r.next = q.next /\ r.reply = q.reply /\ r.level = q.level
  BY <1>1 DEF RequestType, Same
<1> HIDE DEF r
<1>4. Typed(r)
  BY <1>2, <1>3 DEF Sound, Typed
<1>5. Placed(r) /\ Admitted(r) /\ Judged(r)
  BY <1>3 DEF Sound, Honest, Placed, Admitted, Judged, Same, Entitled, Refused
<1>6. r.op = "radius" /\ r.reply = "pass" => Earned(r)
  BY <1>3 DEF Sound, Honest, Same, Earned
<1>7. r.pc # "done" => Fresh(d, r)
  BY <1>3, SameFresh DEF Sound
<1>8. Sound(d, r)
  BY <1>4, <1>5, <1>6, <1>7 DEF Sound, Honest
<1> QED
  BY <1>8 DEF r

LEMMA AppliedTyped ==
    ASSUME NEW q \in RequestType, NEW pc \in Place, NEW b \in BOOLEAN,
           NEW copy \in Copy, NEW next \in {"", "granted", "admin", "row", "profile"}
    PROVE  [q EXCEPT !.pc = pc, !.copy = copy, !.next = next, !.calm = b] \in RequestType
<1> DEFINE r == [q EXCEPT !.copy = copy, !.pc = pc, !.next = next]
<1>1. [q EXCEPT !.pc = pc, !.copy = copy, !.next = next, !.calm = b] = [r EXCEPT !.calm = b]
  OBVIOUS
<1>2. r \in RequestType
  BY CopyTyped
<1> HIDE DEF r
<1>3. [r EXCEPT !.calm = b] \in RequestType
  BY <1>2, CalmTyped
<1> QED
  BY <1>1, <1>3

LEMMA ApplySound ==
    ASSUME DeviceInv, NEW w \in Workers, ApplyFortinetConfig(w)
    PROVE  DeviceInv'
<1> DEFINE q == work[w]
           stale == q.copy # db.mapping
           calm == q.calm /\ ~stale
           next == q.next
           empty == << >>
           none == ""
           r == [q EXCEPT !.pc = next, !.copy = empty, !.next = none, !.calm = calm]
<1>1. q.pc = "apply" /\ q.op # "idle" /\ q.pc # "done"
  BY DEF ApplyFortinetConfig, Running
<1>2. Sound(db, q)
  BY <1>1, AtWork
<1>3. q \in RequestType /\ Honest(q) /\ Fresh(db, q) /\ live' \in Mappings
  BY <1>1, <1>2 DEF Sound, Typed, ApplyFortinetConfig
<1>4. \/ q.op = "authen" /\ next = "granted"
      \/ q.op = "author" /\ next \in {"admin", "row", "profile"}
  <2>1. q.op \in {"authen", "author", "radius"} /\ "apply" \notin Places["radius"]
    BY <1>3 DEF RequestType, Places
  <2>2. q.pc \in Places[q.op]
    BY <1>3 DEF Honest, Placed
  <2>3. /\ q.op = "authen" => q.next = "granted"
        /\ q.op = "author" => q.next \in {"admin", "row", "profile"}
    BY <1>1, <1>3 DEF Honest, Placed
  <2>4. q.op # "radius"
    BY <1>1, <2>1, <2>2
  <2> QED
    BY <2>1, <2>3, <2>4
<1>5. /\ next \in Place /\ next \in Places[q.op]
      /\ next \notin {"map", "roles", "install", "apply", "done"}
      /\ empty \in Copy /\ none = ""
  BY <1>4 DEF Place, Places, Copy
<1>6. /\ work'[w] = r
      /\ \A v \in Workers \ {w} : work'[v] \in {work[v], [work[v] EXCEPT !.calm = FALSE]}
  BY DEF ApplyFortinetConfig
<1>7. \A v \in Workers \ {w} : work'[v] = work[v] \/ work[v] # Idle
  BY DEF ApplyFortinetConfig, Running, Idle
<1>8. calm \in BOOLEAN
  OBVIOUS
<1> HIDE DEF calm, next, empty, none
<1>9. r \in RequestType
  BY <1>3, <1>5, <1>8, AppliedTyped
<1>10. Same(q, r) /\ r.pc = next /\ r.ok = q.ok /\ r.reply = q.reply
  BY <1>3 DEF RequestType, Same
<1> HIDE DEF r
<1>11. Typed(r)
  BY <1>5, <1>9, <1>10 DEF Typed
<1>12. Placed(r)
  BY <1>1, <1>3, <1>5, <1>10 DEF Placed, Honest, Same
<1>13. Admitted(r)
  BY <1>1, <1>3, <1>4, <1>10 DEF Admitted, Placed, Honest, Same, Entitled
<1>14. Judged(r)
  BY <1>1, <1>3, <1>4, <1>5, <1>10 DEF Judged, Placed, Honest, Same, Fortinet, next
<1>15. Sound(db, r)
  <2>1. r.op # "radius"
    BY <1>4, <1>10 DEF Same
  <2> QED
    BY <1>3, <1>10, <1>11, <1>12, <1>13, <1>14, <2>1, SameFresh DEF Sound, Honest
<1>16. ASSUME NEW v \in Workers PROVE work'[v] = Idle \/ Sound(db, work'[v])
  <2>1. work[v] = Idle \/ Sound(db, work[v])
    BY DEF DeviceInv
  <2> QED
    BY <1>6, <1>7, <1>15, <2>1, CalmSound
<1>17. DOMAIN work' = Workers /\ UNCHANGED <<db, cache, requests, edits>>
  BY DEF ApplyFortinetConfig
<1> QED
  BY <1>3, <1>16, <1>17 DEF DeviceInv

-----------------------------------------------------------------------------
(* TACACS+ authorization.                                                  *)

LEMMA UserTyped ==
    ASSUME NEW q \in RequestType, NEW pc \in Place, NEW u \in Users \cup {NoUser},
           NEW r \in Roles \cup {""}
    PROVE  [q EXCEPT !.user = u, !.role = r, !.pc = pc] \in RequestType
BY DEF RequestType

LEMMA MapTyped ==
    ASSUME NEW q \in RequestType, NEW pc \in Place, NEW r \in Roles \cup {""},
           NEW rs \in SUBSET Roles
    PROVE  [q EXCEPT !.role = r, !.roles = rs, !.pc = pc] \in RequestType
BY DEF RequestType

LEMMA ProfileTyped ==
    ASSUME NEW q \in RequestType, NEW pc \in Place, NEW reply \in Reply,
           NEW profile \in Profiles \cup {""}
    PROVE  [q EXCEPT !.pc = pc, !.reply = reply, !.profile = profile] \in RequestType
BY DEF RequestType

LEMMA RolesTyped ==
    ASSUME NEW q \in RequestType, NEW pc \in Place, NEW rs \in SUBSET Roles
    PROVE  [q EXCEPT !.roles = rs, !.left = rs, !.pc = pc] \in RequestType
BY DEF RequestType

LEMMA TierTyped ==
    ASSUME NEW q \in RequestType, NEW pc \in Place, NEW t \in Tiers \cup {NoTier}
    PROVE  [q EXCEPT !.tier = t, !.pc = pc] \in RequestType
BY DEF RequestType

LEMMA LevelTyped ==
    ASSUME NEW q \in RequestType, NEW pc \in Place, NEW reply \in Reply, NEW n \in 0 .. 15
    PROVE  [q EXCEPT !.pc = pc, !.reply = reply, !.level = n] \in RequestType
BY DEF RequestType

LEMMA LeftTyped ==
    ASSUME NEW q \in RequestType, NEW rs \in SUBSET Roles, NEW dec \in Decision
    PROVE  /\ [q EXCEPT !.left = rs] \in RequestType
           /\ [q EXCEPT !.left = rs, !.dec = dec] \in RequestType
<1>1. [q EXCEPT !.left = rs] \in RequestType
  BY DEF RequestType
<1>2. [q EXCEPT !.left = rs, !.dec = dec] \in RequestType
  BY DEF RequestType
<1> QED
  BY <1>1, <1>2

LEMMA PlaceTyped == \A op \in {"authen", "author", "radius"} : Places[op] \subseteq Place
BY DEF Places, Place

\* A request goes on, to a place that needs no copy.
LEMMA MovedSound ==
    ASSUME DeviceInv, NEW w \in Workers, Running(w), NEW r \in RequestType, Set(w, r),
           Same(work[w], r), r.reply = "",
           r.pc \in Places[r.op] \ {"apply", "install", "done"},
           r.pc \in {"map", "roles"} => r.user \in Users /\ r.role \in Roles,
           Admitted(r), Judged(r)
    PROVE  DeviceInv'
<1>1. Sound(db, work[w]) /\ work[w].pc # "done"
  BY AtWork DEF Running
<1>2. Typed(r)
  BY DEF Typed
<1>3. Placed(r)
  BY DEF Placed
<1>4. Honest(r)
  BY <1>3 DEF Honest
<1> QED
  BY <1>1, <1>2, <1>4, SetSound

LEMMA AuthorWaySound ==
    ASSUME DeviceInv, NEW w \in Workers,
           AuthorExists(w) \/ AuthorNas(w) \/ AuthorRefresh(w)
    PROVE  DeviceInv'
<1> DEFINE q == work[w]
<1>1. q.op = "author" /\ q.pc \in {"exists", "nas", "refresh"}
  BY DEF AuthorExists, AuthorNas, AuthorRefresh, At
<1>2. Running(w) /\ Sound(db, q)
  BY <1>1, AtWork DEF Running
<1>3. q \in RequestType /\ Honest(q) /\ Fresh(db, q)
  BY <1>2 DEF Sound, Typed, Running
<1>4. "nas" \in Place /\ "row" \in Place /\ "nas" \in Places["author"] /\ "row" \in Places["author"]
  BY DEF Place, Places
<1>5. CASE AuthorExists(w)
  <2>1. \/ PortalUserExists(db, q.login) /\ Goto(w, "nas")
        \/ ~PortalUserExists(db, q.login) /\ Answer(w, "error")
    BY <1>5 DEF AuthorExists
  <2>2. PortalUserExists(db, q.login) => Allowed(q, "nas")
    BY <1>1, <1>3, <1>4 DEF Allowed, Fresh, Fortinet
  <2>3. ~PortalUserExists(db, q.login) => q.unknown
    BY <1>3 DEF Fresh
  <2> QED
    BY <1>2, <1>4, <2>1, <2>2, <2>3, GotoSound, AnswerSound
<1>6. CASE AuthorNas(w)
  <2>1. \/ q.cmd = << >> /\ Refresh(w, "admin")
        \/ Refresh(w, "row")
        \/ Goto(w, "row")
    BY <1>6 DEF AuthorNas
  <2>2. q.known /\ "row" \notin Fortinet
    BY <1>1, <1>3, <1>6 DEF AuthorNas, At, Honest, Admitted, Fortinet
  <2>3. Allowed(q, "row")
    BY <1>1, <1>4, <2>2 DEF Allowed
  <2> QED
    BY <1>1, <1>2, <1>4, <2>1, <2>2, <2>3, GotoSound, RefreshSound
<1>7. CASE AuthorRefresh(w)
  <2>1. Refresh(w, "profile") /\ q.pc = "refresh"
    BY <1>7 DEF AuthorRefresh, At
  <2>2. q.known /\ q.cmd = << >>
    BY <1>1, <1>3, <2>1 DEF Honest, Admitted, Judged, Fortinet
  <2> QED
    BY <1>1, <1>2, <2>1, <2>2, RefreshSound
<1> QED
  BY <1>5, <1>6, <1>7

\* An account is chosen: for the FortiGate login, or to be judged.
LEMMA AuthorAccountSound ==
    ASSUME DeviceInv, NEW w \in Workers, AuthorAdmin(w) \/ AuthorRow(w)
    PROVE  DeviceInv'
<1> DEFINE q == work[w]
<1>1. q.op = "author" /\ q.pc \in {"admin", "row"}
  BY DEF AuthorAdmin, AuthorRow, At
<1>2. Running(w) /\ Sound(db, q)
  BY <1>1, AtWork DEF Running
<1>3. q \in RequestType /\ Honest(q) /\ Fresh(db, q) /\ db \in Tables
  BY <1>2 DEF Sound, Typed, Running, DeviceInv
<1>4. q.known /\ q.reply = ""
  BY <1>1, <1>3 DEF Honest, Admitted, Placed
<1>5. CASE Answer(w, "fail")
  BY <1>2, <1>5, AnswerSound
<1>6. ASSUME NEW u \in Users, NEW pc,
             \/ pc = "map" /\ q.cmd = << >>
             \/ pc = "roles" /\ u \in Named(q.login),
             Set(w, [q EXCEPT !.user = u, !.role = db.role[u], !.pc = pc])
      PROVE  DeviceInv'
  <2> DEFINE role == db.role[u]
             r == [q EXCEPT !.user = u, !.role = role, !.pc = pc]
  <2>1. role \in Roles
    BY <1>3 DEF Tables
  <2>2. /\ pc \in Place /\ pc \in Places["author"]
        /\ pc \notin {"apply", "install", "done", "exists", "target", "rule"}
    BY <1>6 DEF Place, Places
  <2>3. Set(w, r) /\ (pc = "roles" => q.asRole \subseteq {role})
    BY <1>3, <1>6 DEF Fresh
  <2> HIDE DEF role
  <2>4. r \in RequestType
    BY <1>3, <2>1, <2>2, UserTyped
  <2>5. /\ Same(q, r) /\ r.pc = pc /\ r.user = u /\ r.role = role
        /\ r.ok = q.ok /\ r.reply = ""
    BY <1>3, <1>4 DEF RequestType, Same
  <2> HIDE DEF r
  <2>6. Admitted(r)
    BY <1>1, <1>4, <2>5 DEF Admitted, Same
  <2>7. Judged(r)
    BY <1>1, <1>3, <1>6, <2>2, <2>3, <2>5 DEF Judged, Honest, Same, Fortinet
  <2> QED
    BY <1>1, <1>2, <2>1, <2>2, <2>3, <2>4, <2>5, <2>6, <2>7, MovedSound DEF Same
<1>7. CASE AuthorAdmin(w)
  <2>1. q.cmd = << >>
    BY <1>1, <1>3, <1>7 DEF AuthorAdmin, At, Honest, Judged, Fortinet
  <2>2. ASSUME NEW u \in AuthorizeAdmin(db, q.login),
               Set(w, [q EXCEPT !.user = u, !.role = db.role[u], !.pc = "map"])
        PROVE  DeviceInv'
    <3>1. u \in Users
      BY DEF AuthorizeAdmin, Enabled
    <3> QED
      BY <1>6, <2>1, <2>2, <3>1
  <2> QED
    BY <1>5, <1>7, <2>2 DEF AuthorAdmin
<1>8. CASE AuthorRow(w)
  <2>1. ASSUME NEW u \in Enabled(db) \cap Named(q.login),
               Set(w, [q EXCEPT !.user = u, !.role = db.role[u], !.pc = "roles"])
        PROVE  DeviceInv'
    <3>1. u \in Users /\ u \in Named(q.login)
      BY DEF Enabled
    <3> QED
      BY <1>6, <2>1, <3>1
  <2> QED
    BY <1>5, <1>8, <2>1 DEF AuthorRow
<1> QED
  BY <1>7, <1>8

\* A request passes, with a level or a profile.
LEMMA PassedSound ==
    ASSUME DeviceInv, NEW w \in Workers, Running(w), NEW r \in RequestType, Set(w, r),
           Same(work[w], r), r.pc = "done", r.reply = "pass",
           Entitled(work[w]), work[w].asRole \cup work[w].byGroup = {},
           r.op = "radius" => Earned(r)
    PROVE  DeviceInv'
<1> DEFINE q == work[w]
<1>1. Sound(db, q) /\ q.pc # "done"
  BY AtWork DEF Running
<1>2. r.op \in {"authen", "author", "radius"} /\ Entitled(r)
  BY DEF RequestType, Same, Entitled
<1>3. Typed(r)
  BY DEF Typed
<1>4. Placed(r)
  BY <1>2, DonePlaces DEF Placed
<1>5. Admitted(r)
  BY <1>2 DEF Admitted
<1>6. Judged(r)
  BY DEF Judged, Same, Fortinet
<1>7. Honest(r)
  BY <1>4, <1>5, <1>6 DEF Honest
<1> QED
  BY <1>1, <1>3, <1>7, SetSound

\* The role whose profile ranks lowest, and that profile.
LEMMA AuthorProfileSound ==
    ASSUME DeviceInv, NEW w \in Workers, AuthorMap(w) \/ AuthorProfile(w)
    PROVE  DeviceInv'
<1> DEFINE q == work[w]
<1>1. q.op = "author" /\ q.pc \in {"map", "profile"}
  BY DEF AuthorMap, AuthorProfile, At
<1>2. Running(w) /\ Sound(db, q)
  BY <1>1, AtWork DEF Running
<1>3. q \in RequestType /\ Honest(q) /\ Typed(q) /\ db \in Tables /\ live \in Mappings
  BY <1>2 DEF Sound, Typed, Running, DeviceInv
<1>4. q.known /\ q.reply = "" /\ q.cmd = << >>
  BY <1>1, <1>3 DEF Honest, Admitted, Placed, Judged, Fortinet
<1>5. CASE AuthorMap(w)
  <2> DEFINE rs == {q.role} \cup db.granted[q.user]
             refresh == "refresh"
  <2>1. rs \subseteq Roles
    BY <1>3, <1>5 DEF Typed, AuthorMap, At, Tables
  <2>2. PICK role \in rs : Set(w, [q EXCEPT !.role = role, !.roles = rs, !.pc = refresh])
    BY <1>5 DEF AuthorMap, FortinetMappingRole
  <2> DEFINE r == [q EXCEPT !.role = role, !.roles = rs, !.pc = refresh]
  <2>3. refresh = "refresh" /\ refresh \in Place /\ refresh \in Places["author"]
    BY DEF Place, Places
  <2>4. Set(w, r) /\ role \in Roles
    BY <2>1, <2>2
  <2> HIDE DEF rs, refresh
  <2>5. r \in RequestType
    BY <1>3, <2>1, <2>3, <2>4, MapTyped
  <2>6. Same(q, r) /\ r.pc = "refresh" /\ r.reply = ""
    BY <1>3, <1>4, <2>3 DEF RequestType, Same
  <2> HIDE DEF r
  <2>7. Admitted(r)
    BY <1>1, <1>4, <2>6 DEF Admitted, Same
  <2>8. Judged(r)
    BY <1>1, <1>3, <1>4, <2>6 DEF Judged, Honest, Same
  <2>9. r.pc \in Places[r.op] \ {"apply", "install", "done"}
    BY <1>1, <2>3, <2>6 DEF Same
  <2> QED
    BY <1>2, <2>4, <2>5, <2>6, <2>7, <2>8, <2>9, MovedSound
<1>6. CASE AuthorProfile(w)
  <2> DEFINE profile == FortinetAdminProfForRole(live, q.role)
             done == "done"
             pass == "pass"
             r == [q EXCEPT !.pc = done, !.reply = pass, !.profile = profile]
  <2>1. profile \in Profiles
    BY <1>3, DeviceAssumption DEF FortinetAdminProfForRole, FortinetAdminProf
  <2>2. done = "done" /\ done \in Place /\ pass = "pass" /\ pass \in Reply
    BY DEF Place, Places, Reply
  <2>3. Set(w, r)
    BY <1>6 DEF AuthorProfile
  <2> HIDE DEF profile, done, pass
  <2>4. r \in RequestType
    BY <1>3, <2>1, <2>2, ProfileTyped
  <2>5. Same(q, r) /\ r.pc = "done" /\ r.reply = "pass"
    BY <1>3, <2>2 DEF RequestType, Same
  <2> HIDE DEF r
  <2>6. q.asRole \cup q.byGroup = {} /\ Entitled(q)
    BY <1>3, <1>4 DEF Honest, Judged, Entitled
  <2>7. r.op # "radius"
    BY <1>1, <2>5 DEF Same
  <2> QED
    BY <1>2, <2>3, <2>4, <2>5, <2>6, <2>7, PassedSound
<1> QED
  BY <1>5, <1>6

\* The roles to be asked, and the tier.
LEMMA AuthorRolesSound ==
    ASSUME DeviceInv, NEW w \in Workers, AuthorRoles(w) \/ AuthorTarget(w)
    PROVE  DeviceInv'
<1> DEFINE q == work[w]
<1>1. q.op = "author" /\ q.pc \in {"roles", "target"}
  BY DEF AuthorRoles, AuthorTarget, At
<1>2. Running(w) /\ Sound(db, q)
  BY <1>1, AtWork DEF Running
<1>3. q \in RequestType /\ Honest(q) /\ Typed(q) /\ Fresh(db, q) /\ db \in Tables
  BY <1>2 DEF Sound, Typed, Running, DeviceInv
<1>4. q.known /\ q.reply = "" /\ q.host \in Hosts
  BY <1>1, <1>3 DEF Honest, Admitted, Placed, RequestType
<1>5. CASE AuthorRoles(w)
  <2> DEFINE rs == {q.role} \cup db.granted[q.user]
             target == "target"
             r == [q EXCEPT !.roles = rs, !.left = rs, !.pc = target]
  <2>1. q.pc = "roles" /\ Set(w, r)
    BY <1>5 DEF AuthorRoles, At
  <2>2. rs \in SUBSET Roles
    BY <1>3, <2>1 DEF Typed, Tables
  <2>3. q.asRole \cup q.byGroup \subseteq rs
    BY <1>1, <1>3, <2>1 DEF Honest, Judged, Fresh
  <2>4. target = "target" /\ target \in Place /\ target \in Places["author"]
    BY DEF Place, Places
  <2> HIDE DEF rs, target
  <2>5. r \in RequestType
    BY <1>3, <2>2, <2>4, RolesTyped
  <2>6. Same(q, r) /\ r.pc = "target" /\ r.left = rs /\ r.reply = ""
    BY <1>3, <1>4, <2>4 DEF RequestType, Same
  <2> HIDE DEF r
  <2>7. Admitted(r)
    BY <1>1, <1>4, <2>6 DEF Admitted, Same
  <2>8. Judged(r)
    BY <1>1, <1>3, <2>3, <2>6 DEF Judged, Honest, Same, Fortinet
  <2>9. r.pc \in Places[r.op] \ {"apply", "install", "done"}
    BY <1>1, <2>4, <2>6 DEF Same
  <2> QED
    BY <1>2, <2>1, <2>5, <2>6, <2>7, <2>8, <2>9, MovedSound
<1>6. CASE AuthorTarget(w)
  <2> DEFINE tier == db.tier[q.host]
             rule == "rule"
             r == [q EXCEPT !.tier = tier, !.pc = rule]
  <2>1. q.pc = "target" /\ (Answer(w, "fail") \/ Set(w, r))
    BY <1>6 DEF AuthorTarget, At
  <2>2. tier \in Tiers \cup {NoTier} /\ tier \in q.tiers
    BY <1>3, <1>4 DEF Tables, Fresh
  <2>3. rule = "rule" /\ rule \in Place /\ rule \in Places["author"]
    BY DEF Place, Places
  <2> HIDE DEF tier, rule
  <2>4. r \in RequestType
    BY <1>3, <2>2, <2>3, TierTyped
  <2>5. Same(q, r) /\ r.pc = "rule" /\ r.tier = tier /\ r.left = q.left /\ r.reply = ""
    BY <1>3, <1>4, <2>3 DEF RequestType, Same
  <2> HIDE DEF r
  <2>6. Admitted(r)
    BY <1>1, <1>4, <2>5 DEF Admitted, Same
  <2>7. Judged(r)
    BY <1>1, <1>3, <2>1, <2>2, <2>5 DEF Judged, Honest, Same, Fortinet
  <2>8. r.pc \in Places[r.op] \ {"apply", "install", "done"}
    BY <1>1, <2>3, <2>5 DEF Same
  <2>9. CASE Set(w, r)
    BY <1>2, <2>4, <2>5, <2>6, <2>7, <2>8, <2>9, MovedSound
  <2>10. CASE Answer(w, "fail")
    BY <1>2, <2>10, AnswerSound
  <2> QED
    BY <2>1, <2>9, <2>10
<1> QED
  BY <1>5, <1>6

-----------------------------------------------------------------------------
(* The policies.                                                           *)

\* A longer deny list refuses no less, an allow list only refuses more.
LEMMA Refusals ==
    ASSUME NEW line, NEW allow, NEW deny, NEW more, ~CommandAllowed(line, {}, deny)
    PROVE  ~CommandAllowed(line, {}, deny \cup more) /\ ~CommandAllowed(line, allow, deny)
BY DEF CommandAllowed

LEMMA JoinedTyped ==
    ASSUME NEW dec \in Decision, NEW x \in Rule, NEW tier
    PROVE  Joined(dec, x, tier) \in Decision
BY DEF Joined, Decision, Rule, Larger

LEMMA LevelInRange ==
    ASSUME NEW dec \in Decision, NEW role
    PROVE  /\ EffectiveCiscoPrivilege(dec, role) \in 0 .. 15
           /\ PrivLevelForRole(role) \in 0 .. 15
<1>1. EffectiveCiscoPrivilege(dec, role) \in 0 .. 15
  BY DEF EffectiveCiscoPrivilege, CiscoPrivilegeFromRole, Decision
<1>2. PrivLevelForRole(role) \in 0 .. 15
  BY DEF PrivLevelForRole
<1> QED
  BY <1>1, <1>2

\* One role is asked.  A role that denies all along leaves its denial in the
\* decision, whichever of its rules speaks.
LEMMA DecideSound ==
    ASSUME DeviceInv, NEW w \in Workers, DecideRole(w)
    PROVE  DeviceInv'
<1> DEFINE q == work[w]
           standing == q.asRole \cup q.byGroup
<1>1. q.pc = "rule" /\ Running(w) /\ Sound(db, q)
  BY AtWork DEF DecideRole, Running
<1>2. q \in RequestType /\ Honest(q) /\ Fresh(db, q) /\ db \in Tables
  BY <1>1 DEF Sound, Typed, DeviceInv
<1>3. PICK role \in q.left :
          \/ /\ Governing(db.rules, role, KindOf[q.host]) = {}
             /\ Set(w, [q EXCEPT !.left = q.left \ {role}])
          \/ \E x \in Governing(db.rules, role, KindOf[q.host]) :
                Set(w, [q EXCEPT !.left = q.left \ {role}, !.dec = Joined(q.dec, x, q.tier)])
  BY DEF DecideRole
<1> DEFINE left == q.left \ {role}
<1>4. left \in SUBSET Roles /\ q.dec \in Decision /\ q.reply = ""
  BY <1>1, <1>2 DEF RequestType, Honest, Placed
<1>5. standing \subseteq Denying(db, q, q.tiers)
  BY <1>2 DEF Fresh
<1>6. q.op = "author" => /\ q.known /\ q.tier \in q.tiers
                         /\ \A r \in standing : r \in q.left \/ Refused(q)
  BY <1>1, <1>2 DEF Honest, Admitted, Judged
<1>7. ASSUME NEW r \in RequestType, Set(w, r), Same(q, r), r.pc = "rule", r.reply = "",
             r.tier = q.tier, r.left = left,
             q.op = "author" => \A s \in standing : s \in left \/ Refused(r)
      PROVE  DeviceInv'
  <2> HIDE DEF left, standing
  <2>1. q.op # "authen"
    <3>1. "rule" \notin Places["authen"]
      BY DEF Places
    <3> QED
      BY <1>1, <1>2, <3>1 DEF Honest, Placed
  <2>2. Admitted(r)
    BY <1>1, <1>2, <1>6, <1>7, <2>1 DEF Admitted, Honest, Same, Entitled
  <2>3. Judged(r)
    BY <1>1, <1>2, <1>6, <1>7 DEF Judged, Honest, Same, Fortinet, standing
  <2>4. r.pc \in Places[r.op] \ {"apply", "install", "done"}
    BY <1>1, <1>2, <1>7 DEF Same, Honest, Placed
  <2> QED
    BY <1>1, <1>7, <2>2, <2>3, <2>4, MovedSound
<1>8. CASE /\ Governing(db.rules, role, KindOf[q.host]) = {}
           /\ Set(w, [q EXCEPT !.left = q.left \ {role}])
  <2> DEFINE r == [q EXCEPT !.left = left]
  <2>1. Set(w, r) /\ role \notin standing
    BY <1>5, <1>8 DEF Denying
  <2> HIDE DEF left
  <2>2. r \in RequestType
    BY <1>2, <1>4, LeftTyped
  <2>3. /\ Same(q, r) /\ r.pc = q.pc /\ r.reply = q.reply /\ r.tier = q.tier
        /\ r.left = left /\ r.dec = q.dec
    BY <1>2 DEF RequestType, Same
  <2> HIDE DEF r
  <2>4. q.op = "author" => \A s \in standing : s \in left \/ Refused(r)
    BY <1>6, <2>1, <2>3 DEF Refused, Same, left
  <2> HIDE DEF standing
  <2> QED
    BY <1>1, <1>4, <1>7, <2>1, <2>2, <2>3, <2>4
<1>9. ASSUME NEW x \in Governing(db.rules, role, KindOf[q.host]),
             Set(w, [q EXCEPT !.left = q.left \ {role}, !.dec = Joined(q.dec, x, q.tier)])
      PROVE  DeviceInv'
  <2> DEFINE dec == Joined(q.dec, x, q.tier)
             r == [q EXCEPT !.left = left, !.dec = dec]
  <2>1. Set(w, r) /\ x \in Rule
    BY <1>2, <1>9 DEF Governing, Tables
  <2>2. dec \in Decision
    BY <1>4, <2>1, JoinedTyped
  <2>3. /\ q.tier <= x.tier => dec.deny = q.dec.deny \cup x.deny
        /\ ~(q.tier <= x.tier) => dec = q.dec
    BY DEF Joined
  <2> HIDE DEF left, dec
  <2>4. r \in RequestType
    BY <1>2, <1>4, <2>2, LeftTyped
  <2>5. /\ Same(q, r) /\ r.pc = q.pc /\ r.reply = q.reply /\ r.tier = q.tier
        /\ r.left = left /\ r.dec = dec
    BY <1>2 DEF RequestType, Same
  <2> HIDE DEF r
  <2>6. Refused(q) => Refused(r)
    BY <2>3, <2>5, Refusals DEF Refused, Same
  <2>7. q.op = "author" /\ role \in standing => Refused(r)
    <3> SUFFICES ASSUME q.op = "author", role \in standing PROVE Refused(r)
      OBVIOUS
    <3>1. q.tier <= x.tier /\ ~CommandAllowed(q.cmd, {}, x.deny)
      BY <1>5, <1>6 DEF Denying
    <3>2. ~CommandAllowed(q.cmd, {}, x.deny \cup q.dec.deny)
      BY <3>1, Refusals
    <3>3. r.dec.deny = x.deny \cup q.dec.deny /\ r.cmd = q.cmd
      BY <2>3, <2>5, <3>1 DEF Same
    <3> QED
      BY <3>2, <3>3 DEF Refused
  <2>8. q.op = "author" => \A s \in standing : s \in left \/ Refused(r)
    BY <1>6, <2>6, <2>7 DEF left
  <2> HIDE DEF standing
  <2> QED
    BY <1>1, <1>4, <1>7, <2>1, <2>4, <2>5, <2>8
<1> QED
  BY <1>3, <1>8, <1>9

\* Every role was asked: what passes now is denied by none of them all along.
LEMMA AuthorVerdictSound ==
    ASSUME DeviceInv, NEW w \in Workers, AuthorVerdict(w)
    PROVE  DeviceInv'
<1> DEFINE q == work[w]
           standing == q.asRole \cup q.byGroup
<1>1. q.op = "author" /\ q.pc = "rule" /\ q.left = {} /\ Running(w) /\ Sound(db, q)
  BY AtWork DEF AuthorVerdict, Decided, Running
<1>2. q \in RequestType /\ Honest(q) /\ q.dec \in Decision
  BY <1>1 DEF Sound, Typed, RequestType
<1>3. Entitled(q) /\ (standing # {} => q.cmd # << >> /\ Refused(q))
  BY <1>1, <1>2 DEF Honest, Admitted, Judged, Entitled
<1>4. CASE Answer(w, "fail")
  BY <1>1, <1>4, AnswerSound
<1>5. CASE CommandAllowed(q.cmd, q.dec.allow, q.dec.deny) /\ Answer(w, "pass")
  <2>1. standing = {}
    BY <1>3, <1>5, Refusals DEF Refused
  <2> QED
    BY <1>1, <1>3, <1>5, <2>1, AnswerSound
<1> DEFINE level == IF IsCiscoKind(KindOf[q.host]) /\ db.tier[q.host] # NoTier
                    THEN EffectiveCiscoPrivilege(q.dec, q.role) ELSE 0
           done == "done"
           pass == "pass"
           r == [q EXCEPT !.pc = done, !.reply = pass, !.level = level]
<1>6. CASE q.cmd = << >> /\ Set(w, r)
  <2>1. level \in 0 .. 15
    BY <1>2, LevelInRange
  <2>2. done = "done" /\ done \in Place /\ pass = "pass" /\ pass \in Reply
    BY DEF Place, Places, Reply
  <2> HIDE DEF level, done, pass
  <2>3. r \in RequestType
    BY <1>2, <2>1, <2>2, LevelTyped
  <2>4. Same(q, r) /\ r.pc = "done" /\ r.reply = "pass"
    BY <1>2, <2>2 DEF RequestType, Same
  <2>5. r.op # "radius"
    BY <1>1, <2>4 DEF Same
  <2> HIDE DEF r
  <2> QED
    BY <1>1, <1>3, <1>6, <2>3, <2>4, <2>5, PassedSound
<1> QED
  BY <1>4, <1>5, <1>6 DEF AuthorVerdict

-----------------------------------------------------------------------------
(* RADIUS.                                                                 *)

LEMMA ClientsTyped ==
    ASSUME NEW q \in RequestType, NEW pc \in Place, NEW copy \in Copy
    PROVE  [q EXCEPT !.copy = copy, !.pc = pc] \in RequestType
BY DEF RequestType

LEMMA ClientTyped ==
    ASSUME NEW q \in RequestType, NEW pc \in Place, NEW copy \in Copy
    PROVE  [q EXCEPT !.pc = pc, !.copy = copy] \in RequestType
BY DEF RequestType

\* The client table is read, and installed whatever was installed meanwhile.
LEMMA RadiusClientsSound ==
    ASSUME DeviceInv, NEW w \in Workers, RadiusClients(w) \/ RadiusInstall(w)
    PROVE  DeviceInv'
<1> DEFINE q == work[w]
<1>1. q.op = "radius" /\ q.pc \in {"clients", "install"}
  BY DEF RadiusClients, RadiusInstall, At
<1>2. Running(w) /\ Sound(db, q)
  BY <1>1, AtWork DEF Running
<1>3. q \in RequestType /\ Honest(q) /\ Typed(q) /\ Fresh(db, q) /\ db \in Tables
  BY <1>2 DEF Sound, Typed, Running, DeviceInv
<1>4. q.reply = ""
  BY <1>1, <1>3 DEF Honest, Placed
<1>5. /\ "install" \in Place /\ "install" \in Places["radius"]
      /\ "client" \in Place /\ "client" \in Places["radius"]
  BY DEF Place, Places
<1>6. CASE RadiusClients(w)
  <2> DEFINE copy == db.client
             install == "install"
             r == [q EXCEPT !.copy = copy, !.pc = install]
  <2>1. Set(w, r) \/ Goto(w, "client")
    BY <1>6 DEF RadiusClients
  <2>2. CASE Goto(w, "client")
    <3>1. Allowed(q, "client")
      BY <1>1, <1>5 DEF Allowed
    <3> QED
      BY <1>2, <1>5, <2>2, <3>1, GotoSound
  <2>3. CASE Set(w, r)
    <3>1. copy \in [Hosts -> ClientRow] /\ copy \in Copy
      BY <1>3 DEF Tables, Copy
    <3>2. install = "install" /\ install \in Place
      BY <1>5
    <3> HIDE DEF copy, install
    <3>3. r \in RequestType
      BY <1>3, <3>1, <3>2, ClientsTyped
    <3>4. Same(q, r) /\ r.pc = "install" /\ r.copy = copy /\ r.reply = ""
      BY <1>3, <1>4, <3>2 DEF RequestType, Same
    <3> HIDE DEF r
    <3>5. Typed(r)
      BY <3>1, <3>3, <3>4 DEF Typed
    <3>6. Placed(r) /\ Admitted(r) /\ Judged(r)
      BY <1>1, <1>3, <1>5, <3>4 DEF Placed, Admitted, Judged, Honest, Same
    <3>7. Honest(r)
      BY <3>4, <3>6 DEF Honest
    <3> QED
      BY <1>2, <2>3, <3>4, <3>5, <3>7, SetSound DEF Running
  <2> QED
    BY <2>1, <2>2, <2>3
<1>7. CASE RadiusInstall(w)
  <2> DEFINE client == "client"
             empty == << >>
             r == [q EXCEPT !.pc = client, !.copy = empty]
  <2>1. q.pc = "install" /\ q.copy \in [Hosts -> ClientRow]
    BY <1>3, <1>7 DEF RadiusInstall, At, Typed
  <2>2. cache' \in [rows : [Hosts -> ClientRow], stale : BOOLEAN]
    BY <1>7, <2>1 DEF RadiusInstall
  <2>3. work' = [work EXCEPT ![w] = r] /\ UNCHANGED <<db, live, requests, edits>>
    BY <1>7 DEF RadiusInstall, DeviceInv
  <2>4. client = "client" /\ client \in Place /\ empty \in Copy
    BY <1>5 DEF Copy
  <2> HIDE DEF client, empty
  <2>5. r \in RequestType
    BY <1>3, <2>4, ClientTyped
  <2>6. Same(q, r) /\ r.pc = "client" /\ r.reply = ""
    BY <1>3, <1>4, <2>4 DEF RequestType, Same
  <2> HIDE DEF r
  <2>7. Typed(r)
    BY <2>5, <2>6 DEF Typed
  <2>8. Placed(r) /\ Admitted(r) /\ Judged(r)
    BY <1>1, <1>3, <1>5, <2>6 DEF Placed, Admitted, Judged, Honest, Same
  <2>9. Sound(db, r)
    BY <1>3, <2>6, <2>7, <2>8, SameFresh DEF Sound, Honest
  <2>10. live' \in Mappings
    BY <2>3 DEF DeviceInv
  <2> QED
    BY <2>2, <2>3, <2>9, <2>10, StepSound
<1> QED
  BY <1>6, <1>7

\* The user the server calls unknown; CHAP counts as that.
LEMMA UnknownSound ==
    ASSUME DeviceInv, NEW w \in Workers, Running(w), Unknown(w),
           work[w].unknown \/ work[w].svc = "chap"
    PROVE  DeviceInv'
<1>1. Answer(w, "silent") \/ Answer(w, "fail")
  BY DEF Unknown
<1> QED
  BY <1>1, AnswerSound

LEMMA RadiusWaySound ==
    ASSUME DeviceInv, NEW w \in Workers, RadiusClient(w) \/ RadiusLogin(w)
    PROVE  DeviceInv'
<1> DEFINE q == work[w]
<1>1. q.op = "radius" /\ q.pc \in {"client", "login"}
  BY DEF RadiusClient, RadiusLogin, At
<1>2. Running(w) /\ Sound(db, q)
  BY <1>1, AtWork DEF Running
<1>3. q \in RequestType /\ Honest(q)
  BY <1>2 DEF Sound, Typed
<1>4. \A pc \in {"device", "target"} : pc \in Place /\ pc \in Places["radius"]
  BY DEF Place, Places
<1>5. CASE RadiusClient(w)
  <2>1. \/ Answer(w, "ignored") \/ Answer(w, "fail")
        \/ q.svc = "chap" /\ Unknown(w)
        \/ Goto(w, "device")
    BY <1>5 DEF RadiusClient
  <2>2. Allowed(q, "device")
    BY <1>1, <1>4 DEF Allowed
  <2> QED
    BY <1>2, <1>4, <2>1, <2>2, AnswerSound, UnknownSound, GotoSound
<1>6. CASE RadiusLogin(w)
  <2> DEFINE no == FALSE
             done == "done"
             fail == "fail"
             r == [q EXCEPT !.calm = no, !.pc = done, !.reply = fail]
  <2>1. Goto(w, "target") \/ Answer(w, "fail") \/ Set(w, r)
    BY <1>6 DEF RadiusLogin
  <2>2. q.pc = "login"
    BY <1>6 DEF RadiusLogin, At
  <2>3. Allowed(q, "target")
    BY <1>1, <1>3, <1>4, <2>2 DEF Allowed, Honest, Admitted
  <2>4. CASE Set(w, r)
    <3> DEFINE p == [q EXCEPT !.pc = done, !.reply = fail]
    <3>1. done = "done" /\ done \in Place /\ fail = "fail" /\ fail \in Reply /\ no \in BOOLEAN
      BY DEF Place, Places, Reply
    <3> HIDE DEF no, done, fail
    <3>2. p \in RequestType
      BY <1>3, <3>1, ReplyTyped
    <3>3. r = [p EXCEPT !.calm = no]
      OBVIOUS
    <3> HIDE DEF p
    <3>4. r \in RequestType
      BY <3>1, <3>2, <3>3, CalmTyped
    <3>5. Same(q, r) /\ r.pc = "done" /\ r.reply = "fail"
      BY <1>3, <3>1 DEF RequestType, Same
    <3> HIDE DEF r
    <3>6. Typed(r)
      BY <3>4, <3>5 DEF Typed
    <3>7. Placed(r) /\ Admitted(r) /\ Judged(r)
      BY <1>1, <1>3, <3>5, DonePlaces DEF Placed, Admitted, Judged, Honest, Same, Fortinet
    <3>8. Honest(r)
      BY <3>5, <3>7 DEF Honest
    <3> QED
      BY <1>2, <2>4, <3>5, <3>6, <3>8, SetSound DEF Running
  <2> QED
    BY <1>2, <1>4, <2>1, <2>3, <2>4, AnswerSound, GotoSound
<1> QED
  BY <1>5, <1>6

LEMMA RoleTyped ==
    ASSUME NEW q \in RequestType, NEW r \in Roles \cup {""}
    PROVE  [q EXCEPT !.role = r] \in RequestType
BY DEF RequestType

LEMMA AdminTyped ==
    ASSUME NEW q \in RequestType, NEW pc \in Place, NEW r \in Roles \cup {""},
           NEW rs \in SUBSET Roles
    PROVE  [q EXCEPT !.role = r, !.roles = rs, !.left = rs, !.pc = pc] \in RequestType
<1> DEFINE p == [q EXCEPT !.roles = rs, !.left = rs, !.pc = pc]
<1>1. [q EXCEPT !.role = r, !.roles = rs, !.left = rs, !.pc = pc] = [p EXCEPT !.role = r]
  OBVIOUS
<1>2. p \in RequestType
  BY RolesTyped
<1> HIDE DEF p
<1>3. [p EXCEPT !.role = r] \in RequestType
  BY <1>2, RoleTyped
<1> QED
  BY <1>1, <1>3

\* A request that RADIUS judges goes on, once it is entitled to.
LEMMA RadiusMoved ==
    ASSUME DeviceInv, NEW w \in Workers, Running(w), work[w].op = "radius",
           NEW r \in RequestType, Set(w, r), Same(work[w], r), r.reply = "",
           r.pc \in {"roles", "login", "target", "rule"}, Entitled(work[w]),
           r.pc = "roles" => r.user \in Users /\ r.role \in Roles
    PROVE  DeviceInv'
<1> DEFINE q == work[w]
<1>1. Honest(q)
  BY AtWork DEF Running, Sound
<1>2. r.op = "radius" /\ r.pc \in Places["radius"]
  BY DEF Same, Places
<1>3. Entitled(r)
  BY DEF Entitled, Same
<1>4. Admitted(r)
  BY <1>2, <1>3 DEF Admitted
<1>5. Judged(r)
  BY <1>1, <1>2 DEF Judged, Honest, Same
<1> QED
  BY <1>2, <1>4, <1>5, MovedSound

LEMMA RadiusAccountSound ==
    ASSUME DeviceInv, NEW w \in Workers, RadiusDevice(w) \/ RadiusInfo(w) \/ RadiusRoles(w)
    PROVE  DeviceInv'
<1> DEFINE q == work[w]
<1>1. q.op = "radius" /\ q.pc \in {"device", "info", "roles"}
  BY DEF RadiusDevice, RadiusInfo, RadiusRoles, At
<1>2. Running(w) /\ Sound(db, q)
  BY <1>1, AtWork DEF Running
<1>3. q \in RequestType /\ Honest(q) /\ Typed(q) /\ Fresh(db, q) /\ db \in Tables
  BY <1>2 DEF Sound, Typed, Running, DeviceInv
<1>4. q.reply = ""
  BY <1>1, <1>3 DEF Honest, Placed
<1>5. \A pc \in {"info", "roles", "login", "target"} : pc \in Place /\ pc \in Places["radius"]
  BY DEF Place, Places
<1>6. CASE RadiusDevice(w)
  <2> DEFINE role == "admin"
             rs == {"admin"}
             target == "target"
             r == [q EXCEPT !.role = role, !.roles = rs, !.left = rs, !.pc = target]
  <2>1. \/ DevicePassword(q.host, q.pass) /\ Set(w, r)
        \/ Goto(w, "info")
    BY <1>6 DEF RadiusDevice
  <2>2. Allowed(q, "info")
    BY <1>1, <1>5 DEF Allowed
  <2>3. CASE DevicePassword(q.host, q.pass) /\ Set(w, r)
    <3>1. role \in Roles /\ rs \in SUBSET Roles
      BY DeviceAssumption
    <3>2. target = "target" /\ target \in Place
      BY <1>5
    <3> HIDE DEF role, rs, target
    <3>3. r \in RequestType
      BY <1>3, <3>1, <3>2, AdminTyped
    <3>4. Same(q, r) /\ r.pc = "target" /\ r.reply = ""
      BY <1>3, <1>4, <3>2 DEF RequestType, Same
    <3>5. Entitled(q)
      BY <1>1, <2>3 DEF Entitled
    <3> HIDE DEF r
    <3> QED
      BY <1>1, <1>2, <2>3, <3>3, <3>4, <3>5, RadiusMoved
  <2> QED
    BY <1>2, <1>5, <2>1, <2>2, <2>3, GotoSound
<1>7. CASE RadiusInfo(w)
  <2>1. CASE UserInfo(db, q.login) = {} /\ Unknown(w)
    <3>1. ~PortalUserExists(db, q.login)
      BY <2>1 DEF UserInfo, PortalUserExists
    <3> QED
      BY <1>2, <1>3, <2>1, <3>1, UnknownSound DEF Fresh
  <2>2. ASSUME NEW u \in UserInfo(db, q.login),
               Set(w, [q EXCEPT !.user = u, !.role = db.role[u], !.pc = "roles"])
        PROVE  DeviceInv'
    <3> DEFINE role == db.role[u]
               roles == "roles"
               r == [q EXCEPT !.user = u, !.role = role, !.pc = roles]
    <3>1. u \in Users /\ PortalUserExists(db, q.login)
      BY DEF UserInfo, Enabled, PortalUserExists
    <3>2. role \in Roles /\ Entitled(q)
      BY <1>3, <3>1 DEF Tables, Fresh, Entitled
    <3>3. roles = "roles" /\ roles \in Place /\ Set(w, r)
      BY <1>5, <2>2
    <3> HIDE DEF role, roles
    <3>4. r \in RequestType
      BY <1>3, <3>1, <3>2, <3>3, UserTyped
    <3>5. Same(q, r) /\ r.pc = "roles" /\ r.user = u /\ r.role = role /\ r.reply = ""
      BY <1>3, <1>4, <3>3 DEF RequestType, Same
    <3> HIDE DEF r
    <3> QED
      BY <1>1, <1>2, <3>1, <3>2, <3>3, <3>4, <3>5, RadiusMoved
  <2> QED
    BY <1>7, <2>1, <2>2 DEF RadiusInfo
<1>8. CASE RadiusRoles(w)
  <2> DEFINE rs == {q.role} \cup db.granted[q.user]
             login == "login"
             r == [q EXCEPT !.roles = rs, !.left = rs, !.pc = login]
  <2>1. q.pc = "roles" /\ Set(w, r)
    BY <1>8 DEF RadiusRoles, At
  <2>2. rs \in SUBSET Roles
    BY <1>3, <2>1 DEF Typed, Tables
  <2>3. login = "login" /\ login \in Place
    BY <1>5
  <2> HIDE DEF rs, login
  <2>4. r \in RequestType
    BY <1>3, <2>2, <2>3, RolesTyped
  <2>5. Same(q, r) /\ r.pc = "login" /\ r.reply = ""
    BY <1>3, <1>4, <2>3 DEF RequestType, Same
  <2>6. Entitled(q)
    BY <1>1, <1>3, <2>1 DEF Honest, Admitted
  <2> HIDE DEF r
  <2> QED
    BY <1>1, <1>2, <2>1, <2>4, <2>5, <2>6, RadiusMoved
<1> QED
  BY <1>6, <1>7, <1>8

\* The answer with a level: full rights come from an administrator's role or
\* from level 15 in the decision of a Cisco device.
LEMMA RadiusLevelSound ==
    ASSUME DeviceInv, NEW w \in Workers, RadiusTarget(w) \/ RadiusVerdict(w)
    PROVE  DeviceInv'
<1> DEFINE q == work[w]
<1>1. q.op = "radius" /\ q.pc \in {"target", "rule"}
  BY DEF RadiusTarget, RadiusVerdict, Decided, At
<1>2. Running(w) /\ Sound(db, q)
  BY <1>1, AtWork DEF Running
<1>3. q \in RequestType /\ Honest(q) /\ db \in Tables /\ q.dec \in Decision /\ q.host \in Hosts
  BY <1>2 DEF Sound, Typed, DeviceInv, RequestType
<1>4. q.reply = "" /\ Entitled(q) /\ q.asRole \cup q.byGroup = {}
  BY <1>1, <1>3 DEF Honest, Placed, Admitted, Judged
<1>5. ASSUME NEW level \in 0 .. 15, Accept(w, level),
             \/ level < 15 \/ q.role \in {"admin", "secops"}
             \/ IsCiscoKind(KindOf[q.host]) /\ q.dec.cisco = 15 /\ q.dec.allowed
      PROVE  DeviceInv'
  <2> DEFINE done == "done"
             pass == "pass"
             r == [q EXCEPT !.pc = done, !.reply = pass, !.level = level]
  <2>1. done = "done" /\ done \in Place /\ pass = "pass" /\ pass \in Reply
    BY DEF Place, Places, Reply
  <2>2. Set(w, r)
    BY <1>5 DEF Accept
  <2> HIDE DEF done, pass
  <2>3. r \in RequestType
    BY <1>3, <2>1, LevelTyped
  <2>4. /\ Same(q, r) /\ r.pc = "done" /\ r.reply = "pass"
        /\ r.level = level /\ r.role = q.role /\ r.dec = q.dec
    BY <1>3, <2>1 DEF RequestType, Same
  <2> HIDE DEF r
  <2>5. Earned(r)
    BY <1>5, <2>4 DEF Earned, Same
  <2> QED
    BY <1>2, <1>4, <2>2, <2>3, <2>4, <2>5, PassedSound
<1>6. /\ PrivLevelForRole(q.role) \in 0 .. 15
      /\ PrivLevelForRole(q.role) < 15 \/ q.role \in {"admin", "secops"}
  BY <1>3, LevelInRange DEF PrivLevelForRole
<1>7. CASE RadiusTarget(w)
  <2> DEFINE tier == db.tier[q.host]
             rule == "rule"
             r == [q EXCEPT !.tier = tier, !.pc = rule]
  <2>1. Accept(w, PrivLevelForRole(q.role)) \/ Set(w, r)
    BY <1>7 DEF RadiusTarget
  <2>2. CASE Set(w, r)
    <3>1. tier \in Tiers \cup {NoTier}
      BY <1>3 DEF Tables
    <3>2. rule = "rule" /\ rule \in Place
      BY DEF Place, Places
    <3> HIDE DEF tier, rule
    <3>3. r \in RequestType
      BY <1>3, <3>1, <3>2, TierTyped
    <3>4. Same(q, r) /\ r.pc = "rule" /\ r.reply = ""
      BY <1>3, <1>4, <3>2 DEF RequestType, Same
    <3> HIDE DEF r
    <3> QED
      BY <1>1, <1>2, <1>4, <2>2, <3>3, <3>4, RadiusMoved
  <2> QED
    BY <1>5, <1>6, <2>1, <2>2
<1>8. CASE RadiusVerdict(w)
  <2> DEFINE cisco == EffectiveCiscoPrivilege(q.dec, q.role)
  <2>1. \/ Accept(w, PrivLevelForRole(q.role))
        \/ q.dec.allowed /\ IsCiscoKind(KindOf[q.host]) /\ Accept(w, cisco)
    BY <1>8 DEF RadiusVerdict
  <2>2. /\ cisco \in 0 .. 15
        /\ \/ cisco < 15 \/ q.role \in {"admin", "secops"}
           \/ q.dec.cisco = 15
    BY <1>3, LevelInRange DEF EffectiveCiscoPrivilege, CiscoPrivilegeFromRole, Decision
  <2> HIDE DEF cisco
  <2> QED
    BY <1>5, <1>6, <2>1, <2>2
<1> QED
  BY <1>7, <1>8

-----------------------------------------------------------------------------
(* Witnesses.                                                              *)

LEMMA KnownTyped ==
    ASSUME NEW q \in RequestType, NEW a \in BOOLEAN, NEW b \in BOOLEAN,
           NEW ts \in SUBSET (Tiers \cup {NoTier})
    PROVE  [q EXCEPT !.known = a, !.unknown = b, !.tiers = ts] \in RequestType
BY DEF RequestType

LEMMA StandingTyped ==
    ASSUME NEW q \in RequestType, NEW rs \in SUBSET Roles, NEW gs \in SUBSET Roles
    PROVE  [q EXCEPT !.asRole = rs, !.byGroup = gs] \in RequestType
BY DEF RequestType

\* A witness of tables d is the same request, knows d, and has no more
\* standing denials than before.
LEMMA Witnessed ==
    ASSUME NEW d \in Tables, NEW q \in RequestType, NEW r, r = Witness(d, q)
    PROVE  /\ r \in RequestType
           /\ r.op = q.op /\ r.host = q.host /\ r.login = q.login /\ r.pass = q.pass
           /\ r.cmd = q.cmd /\ r.svc = q.svc /\ r.pc = q.pc /\ r.ok = q.ok /\ r.user = q.user
           /\ r.role = q.role /\ r.left = q.left /\ r.dec = q.dec /\ r.tier = q.tier
           /\ r.copy = q.copy /\ r.next = q.next /\ r.reply = q.reply /\ r.level = q.level
           /\ q.known => r.known
           /\ q.unknown => r.unknown
           /\ q.tiers \subseteq r.tiers
           /\ r.asRole \subseteq q.asRole /\ r.byGroup \subseteq q.byGroup
           /\ Fresh(d, r)
<1> DEFINE us == Named(q.login)
           tiers == q.tiers \cup {d.tier[q.host]}
           known == q.known \/ PortalUserExists(d, q.login)
           unknown == q.unknown \/ ~PortalUserExists(d, q.login)
           rs == {x \in q.asRole \cap Denying(d, q, tiers) : \A u \in us : x = d.role[u]}
           gs == {x \in q.byGroup \cap Denying(d, q, tiers) : \A u \in us : x \in d.granted[u]}
           p == [q EXCEPT !.known = known, !.unknown = unknown, !.tiers = tiers]
<1>1. /\ known \in BOOLEAN /\ unknown \in BOOLEAN /\ tiers \in SUBSET (Tiers \cup {NoTier})
      /\ rs \in SUBSET Roles /\ gs \in SUBSET Roles
  <2>1. q.host \in Hosts /\ q.tiers \in SUBSET (Tiers \cup {NoTier})
    BY DEF RequestType
  <2>2. d.tier[q.host] \in Tiers \cup {NoTier}
    BY <2>1 DEF Tables
  <2>3. q.asRole \subseteq Roles /\ q.byGroup \subseteq Roles
    BY DEF RequestType
  <2>4. q.known \in BOOLEAN /\ q.unknown \in BOOLEAN
    BY DEF RequestType
  <2> QED
    BY <2>1, <2>2, <2>3, <2>4
<1>2. r = [p EXCEPT !.asRole = rs, !.byGroup = gs]
  BY DEF Witness
<1>3. /\ tiers = q.tiers \cup {d.tier[q.host]}
      /\ known = (q.known \/ PortalUserExists(d, q.login))
      /\ unknown = (q.unknown \/ ~PortalUserExists(d, q.login))
      /\ rs \subseteq q.asRole /\ gs \subseteq q.byGroup
      /\ rs \cup gs \subseteq Denying(d, q, tiers)
      /\ \A u \in Named(q.login) : rs \subseteq {d.role[u]} /\ gs \subseteq d.granted[u]
  OBVIOUS
<1> HIDE DEF tiers, known, unknown, rs, gs
<1>4. p \in RequestType
  BY <1>1, KnownTyped
<1>5. r = [q EXCEPT !.known = known, !.unknown = unknown, !.tiers = tiers,
                    !.asRole = rs, !.byGroup = gs]
  BY <1>2
<1> HIDE DEF p
<1>6. r \in RequestType
  BY <1>1, <1>2, <1>4, StandingTyped
<1>7. /\ r.op = q.op /\ r.host = q.host /\ r.login = q.login /\ r.pass = q.pass
      /\ r.cmd = q.cmd /\ r.svc = q.svc /\ r.pc = q.pc /\ r.ok = q.ok /\ r.user = q.user
      /\ r.role = q.role /\ r.left = q.left /\ r.dec = q.dec /\ r.tier = q.tier
      /\ r.copy = q.copy /\ r.next = q.next /\ r.reply = q.reply /\ r.level = q.level
  BY <1>5 DEF RequestType
<1>8. /\ r.known = known /\ r.unknown = unknown /\ r.tiers = tiers
      /\ r.asRole = rs /\ r.byGroup = gs
  BY <1>5 DEF RequestType
<1>9. Denying(d, r, tiers) = Denying(d, q, tiers)
  BY <1>7 DEF Denying
<1>10. Fresh(d, r)
  BY <1>3, <1>7, <1>8, <1>9 DEF Fresh
<1> QED
  BY <1>3, <1>6, <1>7, <1>8, <1>10

\* Whatever the tables become, a running request stays sound.
LEMMA WitnessSound ==
    ASSUME NEW d \in Tables, NEW q, Typed(q), Honest(q), q.pc # "done"
    PROVE  Sound(d, Witness(d, q))
<1> DEFINE r == Witness(d, q)
<1>1. q \in RequestType
  BY DEF Typed
<1>2. /\ r \in RequestType
      /\ r.op = q.op /\ r.host = q.host /\ r.login = q.login /\ r.pass = q.pass
      /\ r.cmd = q.cmd /\ r.svc = q.svc /\ r.pc = q.pc /\ r.ok = q.ok /\ r.user = q.user
      /\ r.role = q.role /\ r.left = q.left /\ r.dec = q.dec /\ r.tier = q.tier
      /\ r.copy = q.copy /\ r.next = q.next /\ r.reply = q.reply /\ r.level = q.level
      /\ q.known => r.known
      /\ q.unknown => r.unknown
      /\ q.tiers \subseteq r.tiers
      /\ r.asRole \subseteq q.asRole /\ r.byGroup \subseteq q.byGroup
      /\ Fresh(d, r)
  BY <1>1, Witnessed
<1> HIDE DEF r
<1>3. Typed(r)
  BY <1>2 DEF Typed
<1>4. Placed(r)
  BY <1>2 DEF Honest, Placed
<1>5. Admitted(r)
  BY <1>2 DEF Honest, Admitted, Entitled
<1>6. Judged(r)
  BY <1>2 DEF Honest, Judged, Refused
<1>7. r.op = "radius" /\ r.reply = "pass" => Earned(r)
  BY <1>2 DEF Honest, Earned
<1>8. Sound(d, r)
  BY <1>2, <1>3, <1>4, <1>5, <1>6, <1>7 DEF Sound, Honest
<1> QED
  BY <1>8 DEF r

LEMMA ChangeSound ==
    ASSUME DeviceInv, NEW d \in Tables, IsFiniteSet(d.rules), Change(d)
    PROVE  DeviceInv'
<1>1. db' = d /\ UNCHANGED <<live, cache, requests>>
  BY DEF Change
<1>2. edits' \in 0 .. MaxEdits
  BY DeviceAssumption DEF Change, DeviceInv
<1>3. DOMAIN work' = Workers
  BY DEF Change
<1>4. ASSUME NEW w \in Workers
      PROVE  work'[w] = Idle \/ Sound(d, work'[w])
  <2> DEFINE q == work[w]
  <2>1. q = Idle \/ Sound(db, q)
    BY DEF DeviceInv
  <2>2. CASE Running(w)
    <3>1. work'[w] = [Witness(d, q) EXCEPT !.calm = FALSE]
      BY <2>2 DEF Change
    <3>2. Typed(q) /\ Honest(q) /\ q.pc # "done"
      BY <2>1, <2>2 DEF Running, Idle, Sound
    <3> QED
      BY <3>1, <3>2, WitnessSound, CalmSound
  <2>3. CASE ~Running(w) /\ q.op # "idle"
    <3>1. work'[w] = [q EXCEPT !.calm = FALSE]
      BY <2>3 DEF Change
    <3>2. Sound(d, q)
      BY <2>1, <2>3 DEF Running, Idle, Sound
    <3> QED
      BY <3>1, <3>2, CalmSound
  <2>4. CASE ~Running(w) /\ q.op = "idle"
    <3>1. work'[w] = q
      BY <2>4 DEF Change
    <3>2. ~Sound(db, q)
      BY <2>4 DEF Sound, Typed, RequestType
    <3> QED
      BY <2>1, <3>1, <3>2
  <2> QED
    BY <2>2, <2>3, <2>4
<1> QED
  BY <1>1, <1>2, <1>3, <1>4 DEF DeviceInv

-----------------------------------------------------------------------------
(* Requests arrive.                                                        *)

LEMMA RequestTyped ==
    ASSUME NEW x \in Input
    PROVE  Request(x) \in RequestType
<1> DEFINE Ops == {"authen", "author", "radius"}
           Passwords == Users \cup {"", "device", "wrong"}
           Forms == {"pap", "ascii", "chap", "shell", "fortigate", "signed", "plain"}
           Nexts == {"", "granted", "admin", "row", "profile"}
           RoleOrNone == Roles \cup {""}
           ProfileOrNone == Profiles \cup {""}
           none == ""
           begin == "begin"
           beside == x \in Beside
           r == [op |-> x.op, pc |-> begin, host |-> x.host, login |-> x.login, pass |-> x.pass,
                 cmd |-> x.cmd, svc |-> x.svc, beside |-> beside, ok |-> FALSE,
                 user |-> NoUser, role |-> none, roles |-> {}, left |-> {}, dec |-> NoDecision,
                 tier |-> NoTier, copy |-> << >>, next |-> none, reply |-> none, level |-> 0,
                 profile |-> none, calm |-> TRUE, known |-> FALSE, unknown |-> FALSE,
                 tiers |-> {}, asRole |-> Roles, byGroup |-> Roles]
<1>1. RequestType = [op : Ops, host : Hosts, login : Logins, pass : Passwords, cmd : Commands,
                     svc : Forms, pc : Place, next : Nexts, beside : BOOLEAN, ok : BOOLEAN,
                     user : Users \cup {NoUser}, role : RoleOrNone, roles : SUBSET Roles,
                     left : SUBSET Roles, dec : Decision, tier : Tiers \cup {NoTier},
                     copy : Copy, reply : Reply, level : 0 .. 15, profile : ProfileOrNone,
                     calm : BOOLEAN, known : BOOLEAN, unknown : BOOLEAN,
                     tiers : SUBSET (Tiers \cup {NoTier}), asRole : SUBSET Roles,
                     byGroup : SUBSET Roles]
  BY DEF RequestType
<1>2. /\ x.op \in Ops /\ x.host \in Hosts /\ x.login \in Logins /\ x.pass \in Passwords
      /\ x.cmd \in Commands /\ x.svc \in Forms
  BY DEF Input
<1>3. /\ none \in Nexts /\ none \in RoleOrNone /\ none \in ProfileOrNone
      /\ none \in Reply /\ begin \in Place /\ << >> \in Copy /\ beside \in BOOLEAN
  BY DEF Reply, Place, Copy
<1>4. NoDecision \in Decision
  BY DEF NoDecision, Decision
<1>5. Request(x) = r
  BY DEF Request
<1> HIDE DEF Ops, Passwords, Forms, Nexts, RoleOrNone, ProfileOrNone, none, begin, beside
<1>6. r \in RequestType
  BY <1>1, <1>2, <1>3, <1>4
<1> QED
  BY <1>5, <1>6

LEMMA AnsweredTyped ==
    ASSUME NEW q \in RequestType, NEW reply \in Reply
    PROVE  [q EXCEPT !.reply = reply] \in RequestType
BY DEF RequestType

LEMMA GoneTyped ==
    ASSUME NEW q \in RequestType, NEW pc \in Place
    PROVE  [q EXCEPT !.pc = pc] \in RequestType
BY DEF RequestType

\* Where a request begins; CHAP is answered at once.
Begun(op, pc, reply) ==
    \/ op = "authen" /\ pc \in {"device", "prompt"} /\ reply = ""
    \/ op = "authen" /\ pc = "done" /\ reply \in {"", "fail"}
    \/ op = "author" /\ pc = "exists" /\ reply = ""
    \/ op = "radius" /\ pc = "clients" /\ reply = ""

LEMMA BegunPlaces ==
    ASSUME NEW op, NEW pc, NEW reply, Begun(op, pc, reply)
    PROVE  pc \in Place /\ pc \in Places[op]
<1>1. op \in {"authen", "author", "radius"}
  BY DEF Begun
<1>2. /\ {"device", "prompt", "done"} \subseteq Places["authen"]
      /\ "exists" \in Places["author"] /\ "clients" \in Places["radius"]
  BY DEF Places
<1>3. pc \in Places[op]
  BY <1>2 DEF Begun
<1> QED
  BY <1>1, <1>3, PlaceTyped

LEMMA BegunSound ==
    ASSUME NEW d \in Tables, NEW p \in RequestType, NEW pc, p.ok = FALSE,
           Begun(p.op, pc, p.reply)
    PROVE  Sound(d, [Witness(d, p) EXCEPT !.pc = pc])
<1> DEFINE q == Witness(d, p)
           r == [q EXCEPT !.pc = pc]
<1>1. pc \in Place /\ pc \in Places[p.op]
  BY BegunPlaces
<1>2. q \in RequestType /\ Fresh(d, q) /\ q.op = p.op /\ q.ok = p.ok /\ q.reply = p.reply
  BY Witnessed
<1> HIDE DEF q
<1>3. r \in RequestType
  BY <1>1, <1>2, GoneTyped
<1>4. Same(q, r) /\ r.pc = pc /\ r.ok = FALSE /\ r.reply = p.reply
  BY <1>2 DEF RequestType, Same
<1> HIDE DEF r
<1>5. r.op = p.op /\ Fresh(d, r)
  BY <1>2, <1>4, SameFresh DEF Same
<1>6. Typed(r)
  BY <1>3, <1>4 DEF Typed, Begun
<1>7. Placed(r)
  BY <1>1, <1>4, <1>5 DEF Placed, Begun
<1>8. Admitted(r)
  BY <1>4, <1>5 DEF Admitted, Begun
<1>9. Judged(r)
  BY <1>4, <1>5 DEF Judged, Fresh, Denying, Fortinet, Begun
<1>10. Sound(d, r)
  BY <1>4, <1>5, <1>6, <1>7, <1>8, <1>9 DEF Sound, Honest, Begun
<1> QED
  BY <1>10 DEF r, q

LEMMA ArriveSound ==
    ASSUME DeviceInv, NEW w \in Workers, NEW x, NEW p \in RequestType, NEW pc,
           Arrive(w, x, p, pc), p.ok = FALSE, Begun(p.op, pc, p.reply)
    PROVE  DeviceInv'
<1>1. Sound(db, [Witness(db, p) EXCEPT !.pc = pc])
  BY BegunSound DEF DeviceInv
<1>2. work' = [work EXCEPT ![w] = [Witness(db, p) EXCEPT !.pc = pc]]
  BY DEF Arrive
<1>3. requests' \in 0 .. MaxRequests
  BY DeviceAssumption DEF Arrive, DeviceInv
<1>4. UNCHANGED <<db, live, cache, edits>>
  BY DEF Arrive
<1> QED
  BY <1>1, <1>2, <1>3, <1>4 DEF DeviceInv

LEMMA ArrivalSound ==
    ASSUME DeviceInv, NEW w \in Workers,
           AuthenStart(w) \/ AuthorRequest(w) \/ RadiusRequest(w)
    PROVE  DeviceInv'
<1>1. ASSUME NEW x \in Inputs
      PROVE  Request(x) \in RequestType /\ Request(x).op = x.op
             /\ Request(x).ok = FALSE /\ Request(x).reply = ""
  <2>1. x \in Input
    BY DeviceAssumption
  <2> QED
    BY <2>1, RequestTyped DEF Request
<1>2. CASE AuthenStart(w)
  <2>1. PICK x \in Inputs :
            /\ x.op = "authen"
            /\ Arrive(w, x, [Request(x) EXCEPT !.reply = IF x.svc = "chap" THEN "fail" ELSE ""],
                      CASE x.svc = "pap" -> "device" [] x.svc = "ascii" -> "prompt"
                        [] OTHER -> "done")
    BY <1>2 DEF AuthenStart
  <2> DEFINE reply == IF x.svc = "chap" THEN "fail" ELSE ""
             pc == CASE x.svc = "pap" -> "device" [] x.svc = "ascii" -> "prompt"
                     [] OTHER -> "done"
             q == Request(x)
             p == [q EXCEPT !.reply = reply]
  <2>2. Arrive(w, x, p, pc)
    BY <2>1
  <2>3. reply \in Reply /\ Begun("authen", pc, reply)
    BY DEF Reply, Begun
  <2>4. q \in RequestType /\ q.op = "authen" /\ q.ok = FALSE
    BY <1>1, <2>1
  <2> HIDE DEF q, pc, reply
  <2>5. p \in RequestType
    BY <2>3, <2>4, AnsweredTyped
  <2>6. p.op = "authen" /\ p.ok = FALSE /\ p.reply = reply
    BY <2>4 DEF RequestType
  <2> HIDE DEF p
  <2> QED
    BY <2>2, <2>3, <2>5, <2>6, ArriveSound
<1>3. CASE AuthorRequest(w)
  <2>1. PICK x \in Inputs : x.op = "author" /\ Arrive(w, x, Request(x), "exists")
    BY <1>3 DEF AuthorRequest
  <2>2. Begun("author", "exists", "")
    BY DEF Begun
  <2> QED
    BY <1>1, <2>1, <2>2, ArriveSound
<1>4. CASE RadiusRequest(w)
  <2>1. PICK x \in Inputs : x.op = "radius" /\ Arrive(w, x, Request(x), "clients")
    BY <1>4 DEF RadiusRequest
  <2>2. Begun("radius", "clients", "")
    BY DEF Begun
  <2> QED
    BY <1>1, <2>1, <2>2, ArriveSound
<1> QED
  BY <1>2, <1>3, <1>4

-----------------------------------------------------------------------------
(* Administrators, and the whole.                                          *)

LEMMA UsersEdited ==
    ASSUME NEW d \in Tables, NEW u \in Users
    PROVE  /\ \A a \in {"enabled", "disabled", "absent"} : [d EXCEPT !.account[u] = a] \in Tables
           /\ \A r \in Roles : [d EXCEPT !.role[u] = r] \in Tables
           /\ \A rs \in SUBSET Roles : [d EXCEPT !.granted[u] = rs] \in Tables
           /\ \A a : [d EXCEPT !.account[u] = a].rules = d.rules
           /\ \A r : [d EXCEPT !.role[u] = r].rules = d.rules
           /\ \A rs : [d EXCEPT !.granted[u] = rs].rules = d.rules
BY DEF Tables

LEMMA DevicesEdited ==
    ASSUME NEW d \in Tables, NEW h \in Hosts
    PROVE  /\ \A t \in Tiers \cup {NoTier} : [d EXCEPT !.tier[h] = t] \in Tables
           /\ \A c \in ClientRow : [d EXCEPT !.client[h] = c] \in Tables
           /\ \A t : [d EXCEPT !.tier[h] = t].rules = d.rules
           /\ \A c : [d EXCEPT !.client[h] = c].rules = d.rules
BY DEF Tables

LEMMA SettingsEdited ==
    ASSUME NEW d \in Tables
    PROVE  /\ \A m \in Mappings : [d EXCEPT !.mapping = m] \in Tables
           /\ \A m : [d EXCEPT !.mapping = m].rules = d.rules
           /\ \A rs \in SUBSET Rule : [d EXCEPT !.rules = rs] \in Tables
           /\ \A rs : [d EXCEPT !.rules = rs].rules = rs
BY DEF Tables

\* New tables, in which only users, devices or settings differ.
LEMMA EditSound ==
    ASSUME DeviceInv, NEW d \in Tables, d.rules = db.rules, Change(d)
    PROVE  DeviceInv'
BY ChangeSound DEF DeviceInv

LEMMA RulesSound ==
    ASSUME DeviceInv, NEW rs \in SUBSET Rule, IsFiniteSet(rs), Change([db EXCEPT !.rules = rs])
    PROVE  DeviceInv'
<1> DEFINE d == [db EXCEPT !.rules = rs]
<1>1. d \in Tables /\ d.rules = rs
  BY SettingsEdited DEF DeviceInv
<1>2. Change(d)
  OBVIOUS
<1> HIDE DEF d
<1> QED
  BY <1>1, <1>2, ChangeSound

LEMMA AdministerSound ==
    ASSUME DeviceInv, Administer
    PROVE  DeviceInv'
<1>1. db \in Tables /\ db.rules \in SUBSET Rule /\ IsFiniteSet(db.rules)
  BY DEF DeviceInv, Tables
<1>2. CASE EditUser
  <2>1. PICK u \in Users :
            \/ \E a \in {"enabled", "disabled", "absent"} : Change([db EXCEPT !.account[u] = a])
            \/ \E r \in Roles : Change([db EXCEPT !.role[u] = r])
            \/ \E rs \in SUBSET Roles : Change([db EXCEPT !.granted[u] = rs])
    <3>1. PICK u \in Users :
              \/ \E a \in {"enabled", "disabled", "absent"} :
                     db.account[u] # "absent" /\ Change([db EXCEPT !.account[u] = a])
              \/ \E r \in Roles : Change([db EXCEPT !.role[u] = r])
              \/ \E r \in Roles : Change([db EXCEPT !.granted[u] = db.granted[u] \ {r}])
              \/ \E r \in Roles : Change([db EXCEPT !.granted[u] = db.granted[u] \cup {r}])
      BY <1>2 DEF EditUser
    <3>2. db.granted[u] \in SUBSET Roles
      BY <1>1 DEF Tables
    <3>3. \A r \in Roles : /\ db.granted[u] \ {r} \in SUBSET Roles
                           /\ db.granted[u] \cup {r} \in SUBSET Roles
      BY <3>2
    <3> QED
      BY <3>1, <3>3
  <2>2. ASSUME NEW a \in {"enabled", "disabled", "absent"}, Change([db EXCEPT !.account[u] = a])
        PROVE  DeviceInv'
    BY <1>1, <2>2, UsersEdited, EditSound
  <2>3. ASSUME NEW r \in Roles, Change([db EXCEPT !.role[u] = r])
        PROVE  DeviceInv'
    BY <1>1, <2>3, UsersEdited, EditSound
  <2>4. ASSUME NEW rs \in SUBSET Roles, Change([db EXCEPT !.granted[u] = rs])
        PROVE  DeviceInv'
    BY <1>1, <2>4, UsersEdited, EditSound
  <2> QED
    BY <2>1, <2>2, <2>3, <2>4
<1>3. CASE EditRules
  <2>1. ASSUME NEW x \in RuleForms, Change([db EXCEPT !.rules = Inserted(db.rules, {x})])
        PROVE  DeviceInv'
    <3>1. {x} \in SUBSET RuleForm /\ IsFiniteSet({x})
      BY DeviceAssumption, FS_Singleton
    <3>2. Inserted(db.rules, {x}) \in SUBSET Rule /\ IsFiniteSet(Inserted(db.rules, {x}))
      BY <1>1, <3>1, InsertedRules
    <3> QED
      BY <2>1, <3>2, RulesSound
  <2>2. ASSUME NEW x \in RuleForms, NEW r \in db.rules,
               Change([db EXCEPT !.rules = WithUpdate(db.rules, r.id, x)])
        PROVE  DeviceInv'
    <3> DEFINE others == {s \in db.rules : s.id # r.id}
    <3>1. r.id \in Nat /\ x \in RuleForm
      BY <1>1, DeviceAssumption DEF Rule
    <3>2. others \in SUBSET Rule /\ IsFiniteSet(others)
      BY <1>1, FS_Subset
    <3>3. WithUpdate(db.rules, r.id, x) = WithRule(others, r.id, x)
      BY DEF WithUpdate
    <3> HIDE DEF others
    <3>4. /\ WithUpdate(db.rules, r.id, x) \in SUBSET Rule
          /\ IsFiniteSet(WithUpdate(db.rules, r.id, x))
      BY <3>1, <3>2, <3>3, FormMakesRule
    <3> QED
      BY <2>2, <3>4, RulesSound
  <2>3. ASSUME NEW r \in db.rules, Change([db EXCEPT !.rules = WithoutRule(db.rules, r.id)])
        PROVE  DeviceInv'
    <3>1. WithoutRule(db.rules, r.id) \in SUBSET Rule /\ IsFiniteSet(WithoutRule(db.rules, r.id))
      BY <1>1, FS_Subset DEF WithoutRule
    <3> QED
      BY <2>3, <3>1, RulesSound
  <2> QED
    BY <1>3, <2>1, <2>2, <2>3 DEF EditRules
<1>4. CASE PolicyServiceStarts
  <2>1. Started(db.rules) \in SUBSET Rule /\ IsFiniteSet(Started(db.rules))
    BY <1>1, StartedRules
  <2> QED
    BY <1>4, <2>1, RulesSound DEF PolicyServiceStarts
<1>5. CASE EditDevices
  <2>1. {0, 3, NoTier} \subseteq Tiers \cup {NoTier}
    BY DEF Tiers
  <2>2. ASSUME NEW h \in Hosts, NEW t \in {0, 3, NoTier}, Change([db EXCEPT !.tier[h] = t])
        PROVE  DeviceInv'
    BY <1>1, <2>1, <2>2, DevicesEdited, EditSound
  <2>3. ASSUME NEW h \in Hosts, NEW c \in ClientRow, Change([db EXCEPT !.client[h] = c])
        PROVE  DeviceInv'
    BY <1>1, <2>3, DevicesEdited, EditSound
  <2> QED
    BY <1>5, <2>2, <2>3 DEF EditDevices
<1>6. CASE SaveFortinet
  <2>1. ASSUME NEW m \in Mappings, Change([db EXCEPT !.mapping = m])
        PROVE  DeviceInv'
    BY <1>1, <2>1, SettingsEdited, EditSound
  <2> QED
    BY <1>6, <2>1 DEF SaveFortinet
<1> QED
  BY <1>2, <1>3, <1>4, <1>5, <1>6 DEF Administer

LEMMA DeviceInitial == Init => DeviceInv
<1> SUFFICES ASSUME Init PROVE DeviceInv
  OBVIOUS
<1>1. db \in Tables /\ IsFiniteSet(db.rules)
  BY DeviceAssumption DEF Init
<1>2. live \in Mappings
  BY <1>1 DEF Init, Tables
<1>3. cache \in [rows : [Hosts -> ClientRow], stale : BOOLEAN]
  BY DEF Init, ClientRow
<1>4. DOMAIN work = Workers /\ \A w \in Workers : work[w] = Idle
  BY DEF Init
<1>5. requests \in 0 .. MaxRequests /\ edits \in 0 .. MaxEdits
  BY DeviceAssumption DEF Init
<1> QED
  BY <1>1, <1>2, <1>3, <1>4, <1>5 DEF DeviceInv

LEMMA DeviceStep == DeviceInv /\ [Next]_vars => DeviceInv'
<1> SUFFICES ASSUME DeviceInv, [Next]_vars PROVE DeviceInv'
  OBVIOUS
<1>1. ASSUME NEW w \in Workers, TacacsStep(w) PROVE DeviceInv'
  BY <1>1, AuthenStepSound, ApplySound, AuthorWaySound, AuthorAccountSound, AuthorProfileSound,
     AuthorRolesSound, AuthorVerdictSound DEF TacacsStep
<1>2. ASSUME NEW w \in Workers, RadiusStep(w) PROVE DeviceInv'
  BY <1>2, RadiusClientsSound, RadiusWaySound, RadiusAccountSound, RadiusLevelSound
     DEF RadiusStep
<1>3. ASSUME NEW w \in Workers, AuthenStart(w) \/ AuthorRequest(w) \/ RadiusRequest(w)
      PROVE  DeviceInv'
  BY <1>3, ArrivalSound
<1>4. CASE CacheExpires
  BY <1>4 DEF CacheExpires, DeviceInv
<1>5. CASE Administer
  BY <1>5, AdministerSound
<1>6. CASE UNCHANGED vars
  BY <1>6 DEF vars, DeviceInv
<1> QED
  BY <1>1, <1>2, <1>3, <1>4, <1>5, <1>6, DecideSound DEF Next

\* The inductive invariant behind the theorems below, for any number of
\* goroutines, users, devices, rules and changes.
THEOREM DeviceInvariant == Spec => []DeviceInv
<1>1. Init => DeviceInv
  BY DeviceInitial
<1>2. DeviceInv /\ [Next]_vars => DeviceInv'
  BY DeviceStep
<1> QED
  BY <1>1, <1>2, PTL DEF Spec

-----------------------------------------------------------------------------

\* The tables, the servers' copies of them and every request keep their types:
\* no rule that administrators write or a start of the policy service inserts,
\* no answer and no copy taken from the settings leaves its range.
THEOREM DeviceTypeCorrect == Spec => []TypeOK
<1>1. DeviceInv => TypeOK
  BY DEF DeviceInv, TypeOK, Sound, Typed
<1> QED
  BY <1>1, DeviceInvariant, PTL

\* Whatever administrators do to accounts while verifyAndReply, handleAuthor or
\* handleAuth serve a request: who had no open account at any moment of it is
\* let in only by the device's own password, and who had one at every moment is
\* not sent to the device's own user list.
THEOREM ClosedAccountsStayOut == Spec => []RevocationHolds
<1>1. DeviceInv => RevocationHolds
  <2> SUFFICES ASSUME DeviceInv, NEW w \in Workers, Done(w)
               PROVE  LET q == work[w]
                      IN  /\ q.reply = "pass" /\ ~q.known =>
                                 q.op # "author" /\ DevicePassword(q.host, q.pass)
                          /\ ~q.unknown => /\ q.reply # "error"
                                           /\ q.reply = "silent" => q.svc = "chap"
    BY DEF RevocationHolds
  <2>1. Sound(db, work[w])
    BY AtWork DEF Done
  <2>2. Admitted(work[w])
    BY <2>1 DEF Sound, Honest
  <2> QED
    BY <2>2 DEF Admitted, Entitled
<1> QED
  BY <1>1, DeviceInvariant, PTL

\* However the rules, roles, groups and tiers are edited between the queries of
\* Decide: a command that a role of the user denied at every moment of the
\* request does not pass.
THEOREM StandingDenialsHold == Spec => []StandingDenyHolds
<1>1. DeviceInv => StandingDenyHolds
  <2> SUFFICES ASSUME DeviceInv, NEW w \in Workers, Done(w), work[w].reply = "pass"
               PROVE  work[w].asRole \cup work[w].byGroup = {}
    BY DEF StandingDenyHolds
  <2>1. Sound(db, work[w])
    BY AtWork DEF Done
  <2> QED
    BY <2>1 DEF Sound, Honest, Judged
<1> QED
  BY <1>1, DeviceInvariant, PTL

\* The vendor profiles of RADIUS (profileFor) make a full administrator only of
\* an administrator's role, or of level 15 in a rule for a Cisco device.
THEOREM FullRightsAreEarned == Spec => []FullRightsEarned
<1>1. DeviceInv => FullRightsEarned
  <2> SUFFICES ASSUME DeviceInv, NEW w \in Workers, Done(w), work[w].op = "radius",
                      work[w].reply = "pass", NEW v \in Vendors,
                      FullRights(v, work[w].role, work[w].level)
               PROVE  \/ work[w].role \in {"admin", "secops"}
                      \/ /\ IsCiscoKind(KindOf[work[w].host])
                         /\ work[w].dec.cisco = 15 /\ work[w].dec.allowed
    BY DEF FullRightsEarned
  <2>1. Sound(db, work[w])
    BY AtWork DEF Done
  <2>2. Earned(work[w]) /\ work[w].level \in 0 .. 15
    BY <2>1 DEF Sound, Honest, Typed, RequestType
  <2>3. work[w].level >= 15 \/ work[w].role \in {"admin", "secops"}
    BY DEF FullRights, RoleRights
  <2> QED
    BY <2>2, <2>3 DEF Earned
<1> QED
  BY <1>1, DeviceInvariant, PTL

-----------------------------------------------------------------------------
(* Requests nobody disturbs.  What such a request has read is what the     *)
(* tables say now (Exact), so its answer is what they say, too (Fits).     *)

\* What a device runs is told apart as the canonical spelling tells it.
ReadAsMeant ==
    \A c \in Commands \ {<< >>} :
        /\ SessionControl(c) <=> Meaning[c] \in Leaving
        /\ \A p \in Patterns :
               LineBegins(Canonical[c], Canonical[p]) <=> LineBegins(Meaning[c], Meaning[p])

\* Speaking, of tables d.
SpeakingIn(d, rs, host) ==
    LET ruled == {r \in rs : Governing(d.rules, r, KindOf[host]) # {}}
    IN  {{x \in {f[r] : r \in ruled} : d.tier[host] <= x.tier} :
            f \in {g \in [ruled -> d.rules] :
                      \A r \in ruled : g[r] \in Governing(d.rules, r, KindOf[host])}}

\* A decision is the sum of the rules xs.
SumsUp(dec, xs) ==
    /\ dec.allowed <=> xs # {}
    /\ dec.allow = UNION {x.allow : x \in xs}
    /\ dec.deny = UNION {x.deny : x \in xs}
    /\ \A x \in xs : x.cisco <= dec.cisco
    /\ dec.cisco = 0 \/ \E x \in xs : x.cisco = dec.cisco

\* The roles of the account were asked, or are yet to be.
Chosen(d, us, q) == q.user \in us /\ q.role = d.role[q.user]
Listed(d, q) == q.roles = EffectiveRoles(d, q.user) /\ q.left \subseteq q.roles
Heard(d, q) == \E xs \in SpeakingIn(d, q.roles \ q.left, q.host) : SumsUp(q.dec, xs)
Decides(d, q) ==
    /\ q.pc \in {"login", "target"} => q.left = q.roles
    /\ q.pc = "rule" => q.tier = d.tier[q.host] /\ q.tier # NoTier /\ Heard(d, q)
    /\ q.pc \notin {"rule", "done"} => q.dec = NoDecision

Right(d, q) ==
    DevicePassword(q.host, q.pass) \/
    (PortalUserExists(d, q.login) /\ AuthLogin(d, q.login, q.pass))

\* The answers, request by request.
AuthenAnswered(d, q) ==
    \/ q.svc = "chap" \/ q.reply = "hung up"
    \/ Right(d, q) /\ q.reply = "pass"
    \/ ~Right(d, q) /\ PortalUserExists(d, q.login) /\ q.reply = "fail"
    \/ /\ ~Right(d, q) /\ ~PortalUserExists(d, q.login)
       /\ q.reply = IF DropUnknown THEN "silent" ELSE "error"

OnFortiGate(d, q) == q.svc = "fortigate" \/ IsFortiGateHost(d, q.host)

Profiled(d, q) ==
    \E u \in AuthorizeAdmin(d, q.login) :
        \E r \in FortinetMappingRole(d.mapping, EffectiveRoles(d, u)) :
            q.profile = FortinetAdminProfForRole(d.mapping, r)

Ruled(d, q) ==
    \E u \in Enabled(d) \cap Named(q.login) :
        \E xs \in SpeakingIn(d, EffectiveRoles(d, u), q.host) :
            /\ Permits(xs, q.cmd) => q.reply = "pass"
            /\ ~Permits(xs, q.cmd) => q.reply = "fail"
            /\ q.reply = "pass" /\ q.cmd = << >> /\ IsCiscoKind(KindOf[q.host]) =>
                   q.level = LevelOf(xs, d.role[u])

AuthorAnswered(d, q) ==
    \/ ~PortalUserExists(d, q.login) /\ q.reply = "error"
    \/ /\ PortalUserExists(d, q.login) /\ OnFortiGate(d, q) /\ q.cmd = << >>
       /\ q.reply = "pass" /\ Profiled(d, q)
    \/ /\ PortalUserExists(d, q.login) /\ ~(OnFortiGate(d, q) /\ q.cmd = << >>)
       /\ \/ /\ q.reply = "fail"
             /\ Enabled(d) \cap Named(q.login) = {} \/ d.tier[q.host] = NoTier
          \/ d.tier[q.host] # NoTier /\ Ruled(d, q)

RadiusAnswered(d, q) ==
    q.reply = "pass" =>
        \/ DevicePassword(q.host, q.pass)
        \/ /\ AuthLogin(d, q.login, q.pass)
           /\ \E u \in UserInfo(d, q.login) :
                 \/ q.level = PrivLevelForRole(d.role[u])
                 \/ \E xs \in SpeakingIn(d, EffectiveRoles(d, u), q.host) :
                       xs # {} /\ q.level = LevelOf(xs, d.role[u])

AuthenExact(d, q) ==
    /\ q.pc \in {"device", "prompt", "exists", "login"} => ~q.ok
    /\ q.pc \in {"exists", "login"} => ~DevicePassword(q.host, q.pass)
    /\ q.pc = "login" => PortalUserExists(d, q.login)
    /\ q.pc = "again" => (q.ok <=> Right(d, q))
    /\ q.pc \in {"note", "apply", "granted"} => Right(d, q)
    /\ q.pc = "done" => AuthenAnswered(d, q)

\* Where an authorization is, or goes once the settings are applied.
Heading(q) == IF q.pc = "apply" THEN q.next ELSE q.pc

AuthorExact(d, lv, q) ==
    /\ q.pc \notin {"exists", "done"} => PortalUserExists(d, q.login)
    /\ q.pc = "apply" => q.copy = d.mapping
    /\ q.pc \in Fortinet => lv = d.mapping
    /\ Heading(q) \in Fortinet => q.cmd = << >> /\ OnFortiGate(d, q)
    /\ Heading(q) \in {"row", "roles", "target", "rule"} =>
           ~(q.cmd = << >> /\ OnFortiGate(d, q))
    /\ q.pc = "map" => Chosen(d, AuthorizeAdmin(d, q.login), q)
    /\ Heading(q) \in {"refresh", "profile"} =>
           /\ q.user \in AuthorizeAdmin(d, q.login)
           /\ q.role \in FortinetMappingRole(d.mapping, EffectiveRoles(d, q.user))
    /\ q.pc \in {"roles", "target", "rule"} => Chosen(d, Enabled(d) \cap Named(q.login), q)
    /\ q.pc \in {"target", "rule"} => Listed(d, q)
    /\ Decides(d, q)
    /\ q.pc = "done" => AuthorAnswered(d, q)

\* A device's own password is answered for any user.
RadiusExact(d, q) ==
    /\ q.pc \in {"clients", "install", "client", "device"} => q.dec = NoDecision
    /\ ~DevicePassword(q.host, q.pass) =>
           /\ q.pc \in {"roles", "login", "target", "rule"} => Chosen(d, UserInfo(d, q.login), q)
           /\ q.pc \in {"login", "target", "rule"} => Listed(d, q)
           /\ q.pc \in {"target", "rule"} => AuthLogin(d, q.login, q.pass)
           /\ Decides(d, q)
    /\ q.pc = "done" => RadiusAnswered(d, q)

Exact(d, lv, q) ==
    CASE q.op = "authen" -> AuthenExact(d, q)
      [] q.op = "author" -> AuthorExact(d, lv, q)
      [] q.op = "radius" -> RadiusExact(d, q)

CalmInv ==
    \A w \in Workers :
        work[w].op # "idle" /\ work[w].calm => Exact(db, live, work[w])

-----------------------------------------------------------------------------
(* The rules that speak.                                                   *)

LEMMA SpeakingNow ==
    ASSUME NEW rs, NEW host
    PROVE  SpeakingIn(db, rs, host) = Speaking(rs, host)
BY DEF SpeakingIn, Speaking

\* An exact answer is the one the property asks for.
LEMMA AnsweredFits ==
    ASSUME DeviceInv, NEW q \in RequestType, Exact(db, live, q), q.pc = "done"
    PROVE  /\ q.op = "authen" => AuthenFits(q)
           /\ q.op = "author" => AuthorFits(q)
           /\ q.op = "radius" => RadiusFits(q)
<1>1. ASSUME q.op = "authen" PROVE AuthenFits(q)
  <2>1. AuthenAnswered(db, q)
    BY <1>1 DEF Exact, AuthenExact
  <2> QED
    BY <2>1 DEF AuthenAnswered, AuthenFits, Right
<1>2. ASSUME q.op = "radius" PROVE RadiusFits(q)
  <2>1. RadiusAnswered(db, q)
    BY <1>2 DEF Exact, RadiusExact
  <2> QED
    BY <2>1, SpeakingNow DEF RadiusAnswered, RadiusFits
<1>3. ASSUME q.op = "author" PROVE AuthorFits(q)
  <2> DEFINE us == Enabled(db) \cap Named(q.login)
             speaking == UNION {Speaking(EffectiveRoles(db, u), q.host) : u \in us}
             listed == db.tier[q.host] # NoTier
             fortinet == q.svc = "fortigate" \/ (listed /\ KindOf[q.host] = "fortigate")
             profiles == UNION {{FortinetAdminProfForRole(db.mapping, r) :
                                    r \in EffectiveRoles(db, u)} :
                                u \in AuthorizeAdmin(db, q.login)}
             known == PortalUserExists(db, q.login)
             lowest == \E u \in AuthorizeAdmin(db, q.login) : \A r \in EffectiveRoles(db, u) :
                           Rank[q.profile] <= Rank[FortinetAdminProfForRole(db.mapping, r)]
             ruled == \E xs \in speaking :
                       /\ listed
                       /\ q.reply = (IF Permits(xs, q.cmd) THEN "pass" ELSE "fail")
                       /\ q.reply = "pass" /\ q.cmd = << >> /\ Family[KindOf[q.host]] = "cisco" =>
                             q.level \in {LevelOf(xs, db.role[u]) : u \in us}
  <2>1. AuthorAnswered(db, q)
    BY <1>3 DEF Exact, AuthorExact
  <2>2. fortinet <=> OnFortiGate(db, q)
    BY DEF OnFortiGate, IsFortiGateHost
  <2>3. Profiled(db, q) => q.profile \in profiles /\ lowest
    <3> SUFFICES ASSUME NEW u \in AuthorizeAdmin(db, q.login),
                        NEW r \in FortinetMappingRole(db.mapping, EffectiveRoles(db, u)),
                        q.profile = FortinetAdminProfForRole(db.mapping, r)
                 PROVE  q.profile \in profiles /\ lowest
      BY DEF Profiled
    <3>1. /\ r \in EffectiveRoles(db, u)
          /\ \A s \in EffectiveRoles(db, u) :
                Rank[q.profile] <= Rank[FortinetAdminProfForRole(db.mapping, s)]
      BY DEF FortinetMappingRole
    <3> QED
      BY <3>1
  <2>4. listed /\ Ruled(db, q) => ruled
    <3> SUFFICES ASSUME listed, NEW u \in us,
                        NEW xs \in SpeakingIn(db, EffectiveRoles(db, u), q.host),
                        Permits(xs, q.cmd) => q.reply = "pass",
                        ~Permits(xs, q.cmd) => q.reply = "fail",
                        q.reply = "pass" /\ q.cmd = << >> /\ IsCiscoKind(KindOf[q.host]) =>
                            q.level = LevelOf(xs, db.role[u])
                 PROVE  ruled
      BY DEF Ruled
    <3>1. xs \in speaking
      BY SpeakingNow
    <3> QED
      BY <3>1 DEF IsCiscoKind
  <2>5. /\ ~known => q.reply = "error"
        /\ known /\ fortinet /\ q.cmd = << >> =>
              q.reply = "pass" /\ q.profile \in profiles /\ lowest
        /\ known /\ ~(fortinet /\ q.cmd = << >>) =>
              (q.reply = "fail" /\ (us = {} \/ ~listed)) \/ ruled
    <3> HIDE DEF profiles, lowest, ruled, fortinet
    <3> QED
      BY <2>1, <2>2, <2>3, <2>4 DEF AuthorAnswered
  <2>6. AuthorFits(q) = CASE ~known -> q.reply = "error"
                          [] known /\ fortinet /\ q.cmd = << >> ->
                                 q.reply = "pass" /\ q.profile \in profiles /\ lowest
                          [] OTHER -> (q.reply = "fail" /\ (us = {} \/ ~listed)) \/ ruled
    BY DEF AuthorFits
  <2> HIDE DEF us, speaking, listed, fortinet, profiles, known, lowest, ruled
  <2> QED
    BY <2>5, <2>6
<1> QED
  BY <1>1, <1>2, <1>3

\* No role is asked yet.
LEMMA NobodySpeaks ==
    ASSUME NEW d, NEW host
    PROVE  {} \in SpeakingIn(d, {}, host) /\ SumsUp(NoDecision, {})
<1> DEFINE ruled == {r \in {} : Governing(d.rules, r, KindOf[host]) # {}}
           f == [r \in ruled |-> NoDecision]
           xs == {x \in {f[r] : r \in ruled} : d.tier[host] <= x.tier}
<1>1. f \in {g \in [ruled -> d.rules] : \A r \in ruled : g[r] \in Governing(d.rules, r, KindOf[host])}
  OBVIOUS
<1>2. xs = {}
  OBVIOUS
<1>3. xs \in SpeakingIn(d, {}, host)
  BY <1>1 DEF SpeakingIn
<1> QED
  BY <1>2, <1>3 DEF SumsUp, NoDecision

\* A role without a rule adds nothing.
LEMMA SilentRole ==
    ASSUME NEW d, NEW host, NEW rs, NEW r, Governing(d.rules, r, KindOf[host]) = {}
    PROVE  SpeakingIn(d, rs \cup {r}, host) = SpeakingIn(d, rs, host)
<1>1. {s \in rs \cup {r} : Governing(d.rules, s, KindOf[host]) # {}}
        = {s \in rs : Governing(d.rules, s, KindOf[host]) # {}}
  OBVIOUS
<1> DEFINE Sets(ruled) ==
               {{x \in {f[s] : s \in ruled} : d.tier[host] <= x.tier} :
                   f \in {g \in [ruled -> d.rules] :
                             \A s \in ruled : g[s] \in Governing(d.rules, s, KindOf[host])}}
<1>2. ASSUME NEW T
      PROVE  SpeakingIn(d, T, host) = Sets({s \in T : Governing(d.rules, s, KindOf[host]) # {}})
  BY DEF SpeakingIn
<1> HIDE DEF Sets
<1> QED
  BY <1>1, <1>2

\* A role with a rule adds the rule, if it reaches the device's tier.
LEMMA RoleSpeaks ==
    ASSUME NEW d, NEW host, NEW rs, NEW r, r \notin rs, NEW xs \in SpeakingIn(d, rs, host),
           NEW x \in Governing(d.rules, r, KindOf[host])
    PROVE  /\ d.tier[host] <= x.tier => xs \cup {x} \in SpeakingIn(d, rs \cup {r}, host)
           /\ ~(d.tier[host] <= x.tier) => xs \in SpeakingIn(d, rs \cup {r}, host)
<1> DEFINE Rules(s) == Governing(d.rules, s, KindOf[host])
           ruled == {s \in rs : Rules(s) # {}}
           more == {s \in rs \cup {r} : Rules(s) # {}}
           Reach(y) == d.tier[host] <= y.tier
<1>1. PICK f \in [ruled -> d.rules] :
          /\ \A s \in ruled : f[s] \in Rules(s)
          /\ xs = {y \in {f[s] : s \in ruled} : Reach(y)}
  BY DEF SpeakingIn
<1> DEFINE g == [s \in more |-> IF s = r THEN x ELSE f[s]]
           ys == {y \in {g[s] : s \in more} : Reach(y)}
<1>2. more = ruled \cup {r} /\ r \notin ruled
  OBVIOUS
<1>3. \A s : Rules(s) \subseteq d.rules
  BY DEF Governing
<1>4. x \in Rules(r)
  OBVIOUS
<1>5. ys \in SpeakingIn(d, rs \cup {r}, host)
  <2>1. g \in [more -> d.rules] /\ \A s \in more : g[s] \in Rules(s)
    <3> HIDE DEF Rules, more, ruled
    <3> QED
      BY <1>1, <1>2, <1>3, <1>4
  <2> HIDE DEF g
  <2> QED
    BY <2>1 DEF SpeakingIn
<1>6. {g[s] : s \in more} = {f[s] : s \in ruled} \cup {x}
  <2> HIDE DEF Rules, more, ruled
  <2>1. /\ \A s \in ruled : g[s] = f[s]
        /\ g[r] = x
    BY <1>2
  <2> HIDE DEF g
  <2> QED
    BY <1>2, <2>1
<1> HIDE DEF g, more, ruled, Rules
<1>7. /\ Reach(x) => ys = xs \cup {x}
      /\ ~Reach(x) => ys = xs
  BY <1>1, <1>6
<1> HIDE DEF ys
<1> QED
  BY <1>5, <1>7

\* The rules of a set that speaks are rules, and they reach the device.
LEMMA SpeakersAreRules ==
    ASSUME NEW d \in Tables, NEW host, NEW rs, NEW xs \in SpeakingIn(d, rs, host)
    PROVE  xs \subseteq Rule
<1>1. PICK f \in [{r \in rs : Governing(d.rules, r, KindOf[host]) # {}} -> d.rules] :
          xs = {x \in {f[r] : r \in {s \in rs : Governing(d.rules, s, KindOf[host]) # {}}} :
                   d.tier[host] <= x.tier}
  BY DEF SpeakingIn
<1>2. d.rules \subseteq Rule
  BY DEF Tables
<1> QED
  BY <1>1, <1>2

\* The sum of one rule more.
LEMMA SumGrows ==
    ASSUME NEW dec \in Decision, NEW xs \in SUBSET Rule, SumsUp(dec, xs), NEW x \in Rule, NEW tier,
           tier <= x.tier
    PROVE  SumsUp(Joined(dec, x, tier), xs \cup {x})
<1> DEFINE sum == Joined(dec, x, tier)
<1>1. /\ sum.allowed = TRUE /\ sum.allow = dec.allow \cup x.allow
      /\ sum.deny = dec.deny \cup x.deny /\ sum.cisco = Larger(dec.cisco, x.cisco)
  BY DEF Joined
<1>2. dec.cisco \in Int /\ x.cisco \in Int /\ x.cisco >= 0 /\ \A y \in xs : y.cisco \in Int
  BY DEF Decision, Rule
<1> HIDE DEF sum
<1>3. sum.allowed <=> xs \cup {x} # {}
  BY <1>1
<1>4. sum.allow = UNION {y.allow : y \in xs \cup {x}}
  BY <1>1 DEF SumsUp
<1>5. sum.deny = UNION {y.deny : y \in xs \cup {x}}
  BY <1>1 DEF SumsUp
<1>6. \A y \in xs \cup {x} : y.cisco <= sum.cisco
  BY <1>1, <1>2 DEF SumsUp, Larger
<1>7. sum.cisco = 0 \/ \E y \in xs \cup {x} : y.cisco = sum.cisco
  BY <1>1, <1>2 DEF SumsUp, Larger
<1>8. SumsUp(sum, xs \cup {x})
  BY <1>3, <1>4, <1>5, <1>6, <1>7 DEF SumsUp
<1> QED
  BY <1>8 DEF sum

\* The level of the sum is the highest of the rules, or the role's.
LEMMA LevelIsHighest ==
    ASSUME NEW dec \in Decision, NEW xs \in SUBSET Rule, SumsUp(dec, xs), NEW r
    PROVE  EffectiveCiscoPrivilege(dec, r) = LevelOf(xs, r)
<1>1. dec.cisco \in 0 .. 15 /\ \A x \in xs : x.cisco \in 0 .. 15
  BY DEF Decision, Rule
<1>2. CASE dec.cisco > 0
  <2> DEFINE Highest(n) == (\E x \in xs : x.cisco = n) /\ \A x \in xs : x.cisco <= n
  <2>1. \E x \in xs : x.cisco > 0
    BY <1>1, <1>2 DEF SumsUp
  <2>2. Highest(dec.cisco) /\ dec.cisco \in 1 .. 15
    BY <1>1, <1>2 DEF SumsUp
  <2>3. \A n \in 1 .. 15 : Highest(n) => n = dec.cisco
    BY <1>1, <2>2
  <2>4. (CHOOSE n \in 1 .. 15 : Highest(n)) = dec.cisco
    <3> HIDE DEF Highest
    <3> QED
      BY <2>2, <2>3
  <2> QED
    BY <1>2, <2>1, <2>4 DEF LevelOf, EffectiveCiscoPrivilege
<1>3. CASE ~(dec.cisco > 0)
  <2>1. ~ \E x \in xs : x.cisco > 0
    BY <1>1, <1>3 DEF SumsUp
  <2> QED
    BY <1>3, <2>1 DEF LevelOf, EffectiveCiscoPrivilege, CiscoPrivilegeFromRole, PrivLevelForRole
<1> QED
  BY <1>2, <1>3

\* What the lists of the sum admit is what the rules permit.
LEMMA SumPermits ==
    ASSUME ReadAsMeant, NEW cmd \in Commands \ {<< >>}, NEW dec, NEW xs \in SUBSET Rule,
           SumsUp(dec, xs)
    PROVE  dec.allowed /\ CommandAllowed(cmd, dec.allow, dec.deny) <=> Permits(xs, cmd)
<1> DEFINE Read(p) == LineBegins(Canonical[cmd], Canonical[p])
           Meant(p) == LineBegins(Meaning[cmd], Meaning[p])
           allow == UNION {x.allow : x \in xs}
           deny == UNION {x.deny : x \in xs}
<1>1. allow \subseteq Patterns /\ deny \subseteq Patterns
  BY DEF Rule
<1>2. dec.allow = allow /\ dec.deny = deny /\ (dec.allowed <=> xs # {})
  BY DEF SumsUp
<1>3. CommandAllowed(cmd, allow, deny)
        <=> SessionControl(cmd) \/ (~(\E p \in deny : Read(p))
                                    /\ (allow = {} \/ \E p \in allow : Read(p)))
  BY DEF CommandAllowed
<1>4. Permits(xs, cmd)
        <=> xs # {} /\ (Meaning[cmd] \in Leaving \/ (~(\E p \in deny : Meant(p))
                                    /\ (allow = {} \/ \E p \in allow : Meant(p))))
  BY DEF Permits
<1>5. /\ SessionControl(cmd) <=> Meaning[cmd] \in Leaving
      /\ \A p \in Patterns : Read(p) <=> Meant(p)
  BY DEF ReadAsMeant
<1> HIDE DEF Read, Meant, allow, deny
<1> QED
  BY <1>1, <1>2, <1>3, <1>4, <1>5

-----------------------------------------------------------------------------
(* Its steps.                                                              *)

\* Everything but the place and the answer.
Keeps(q, r) ==
    /\ Same(q, r) /\ r.calm = q.calm /\ r.ok = q.ok /\ r.user = q.user /\ r.role = q.role
    /\ r.roles = q.roles /\ r.left = q.left /\ r.dec = q.dec /\ r.tier = q.tier

LEMMA GotoKeeps ==
    ASSUME NEW q \in RequestType, NEW pc
    PROVE  Keeps(q, [q EXCEPT !.pc = pc]) /\ [q EXCEPT !.pc = pc].pc = pc
BY DEF RequestType, Keeps, Same

\* One request takes a step.
LEMMA CalmStep ==
    ASSUME DeviceInv, CalmInv, NEW w \in Workers, NEW r, work' = [work EXCEPT ![w] = r],
           UNCHANGED <<db, live>>, r.calm => Exact(db, live, r)
    PROVE  CalmInv'
<1> SUFFICES ASSUME NEW v \in Workers, work'[v].op # "idle", work'[v].calm
             PROVE  Exact(db, live, work'[v])
  BY DEF CalmInv
<1>1. work'[v] = IF v = w THEN r ELSE work[v]
  BY DEF DeviceInv
<1> QED
  BY <1>1 DEF CalmInv

LEMMA Current ==
    ASSUME DeviceInv, CalmInv, NEW w \in Workers, work[w].op # "idle"
    PROVE  /\ Sound(db, work[w]) /\ work[w] \in RequestType /\ Placed(work[w])
           /\ db \in Tables
           /\ work[w].calm => Exact(db, live, work[w])
<1>1. Sound(db, work[w])
  BY AtWork
<1> QED
  BY <1>1 DEF Sound, Typed, Honest, CalmInv, DeviceInv

LEMMA RightStays ==
    ASSUME NEW d, NEW q, NEW r, Same(q, r)
    PROVE  /\ Right(d, r) <=> Right(d, q)
           /\ OnFortiGate(d, r) <=> OnFortiGate(d, q)
BY DEF Right, OnFortiGate, Same

\* TACACS+ authentication.
LEMMA AuthenCalm ==
    ASSUME DeviceInv, CalmInv, NEW w \in Workers,
           \/ AuthenContinue(w) \/ AuthenDevice(w) \/ AuthenExists(w) \/ AuthenLogin(w)
           \/ AuthenReply(w) \/ AuthenGranted(w)
    PROVE  CalmInv'
<1> DEFINE q == work[w]
<1>1. q.op = "authen" /\ q.pc \in {"prompt", "device", "exists", "login", "again", "granted"}
  BY DEF AuthenContinue, AuthenDevice, AuthenExists, AuthenLogin, AuthenReply,
         AuthenGranted, At
<1>2. q \in RequestType /\ (q.calm => AuthenExact(db, q))
  BY <1>1, Current DEF Exact
<1>3. ASSUME NEW r, Set(w, r), r.op = "authen", r.calm => AuthenExact(db, r)
      PROVE  CalmInv'
  BY <1>3, CalmStep DEF Set, Exact
<1>4. ASSUME NEW pc, Goto(w, pc), pc \in {"device", "exists", "login", "again"},
             q.calm => /\ ~q.ok
                       /\ pc \in {"exists", "login"} => ~DevicePassword(q.host, q.pass)
                       /\ pc = "login" => PortalUserExists(db, q.login)
                       /\ pc = "again" => ~Right(db, q)
      PROVE  CalmInv'
  <2> DEFINE r == [q EXCEPT !.pc = pc]
  <2>1. Set(w, r)
    BY <1>4 DEF Goto
  <2>2. Keeps(q, r) /\ r.pc = pc
    BY <1>2, GotoKeeps
  <2> HIDE DEF r
  <2>3. r.calm => AuthenExact(db, r)
    BY <1>4, <2>2, RightStays DEF AuthenExact, Keeps, Same
  <2> QED
    BY <1>1, <1>3, <2>1, <2>2, <2>3 DEF Keeps, Same
<1>5. ASSUME NEW reply, Answer(w, reply),
             q.calm => \/ reply = "hung up"
                       \/ Right(db, q) /\ reply = "pass"
                       \/ ~Right(db, q) /\ PortalUserExists(db, q.login) /\ reply = "fail"
                       \/ /\ ~Right(db, q) /\ ~PortalUserExists(db, q.login)
                          /\ reply = IF DropUnknown THEN "silent" ELSE "error"
      PROVE  CalmInv'
  <2> DEFINE done == "done"
             r == [q EXCEPT !.pc = done, !.reply = reply]
  <2>1. Set(w, r)
    BY <1>5 DEF Answer
  <2>2. done = "done"
    OBVIOUS
  <2> HIDE DEF done
  <2>3. Keeps(q, r) /\ r.pc = "done" /\ r.reply = reply
    BY <1>2, <2>2 DEF RequestType, Keeps, Same
  <2> HIDE DEF r
  <2>4. r.calm => AuthenAnswered(db, r)
    BY <1>5, <2>3, RightStays DEF AuthenAnswered, Keeps, Same
  <2>5. r.calm => AuthenExact(db, r)
    BY <2>3, <2>4 DEF AuthenExact
  <2> QED
    BY <1>1, <1>3, <2>1, <2>3, <2>5 DEF Keeps, Same
<1>6. CASE AuthenContinue(w)
  BY <1>2, <1>4, <1>5, <1>6 DEF AuthenContinue, AuthenExact, At
<1>7. CASE AuthenDevice(w)
  <2>1. CASE DevicePassword(q.host, q.pass)
    <3> DEFINE again == "again"
               r == [q EXCEPT !.ok = TRUE, !.pc = again]
    <3>1. Set(w, r) /\ again = "again"
      BY <1>7, <2>1 DEF AuthenDevice
    <3> HIDE DEF again
    <3>2. Same(q, r) /\ r.pc = "again" /\ r.ok = TRUE
      BY <1>2, <3>1 DEF RequestType, Same
    <3> HIDE DEF r
    <3>3. Right(db, r)
      BY <2>1, <3>2 DEF Right, Same
    <3> QED
      BY <1>1, <1>3, <3>1, <3>2, <3>3 DEF AuthenExact, Same
  <2>2. CASE ~DevicePassword(q.host, q.pass)
    <3>1. Goto(w, "exists") /\ q.pc = "device"
      BY <1>7, <2>2 DEF AuthenDevice, At
    <3> QED
      BY <1>2, <1>4, <2>2, <3>1 DEF AuthenExact
  <2> QED
    BY <2>1, <2>2
<1>8. CASE AuthenExists(w)
  <2>1. q.pc = "exists"
    BY <1>8 DEF AuthenExists, At
  <2>2. CASE PortalUserExists(db, q.login)
    <3>1. Goto(w, "login")
      BY <1>8, <2>2 DEF AuthenExists
    <3> QED
      BY <1>2, <1>4, <2>1, <2>2, <3>1 DEF AuthenExact
  <2>3. CASE ~PortalUserExists(db, q.login)
    <3>1. Goto(w, "again")
      BY <1>8, <2>3 DEF AuthenExists
    <3> QED
      BY <1>2, <1>4, <2>1, <2>3, <3>1 DEF AuthenExact, Right
  <2> QED
    BY <2>2, <2>3
<1>9. CASE AuthenLogin(w)
  <2>1. q.pc = "login"
    BY <1>9 DEF AuthenLogin, At
  <2> DEFINE ok == AuthLogin(db, q.login, q.pass)
             again == "again"
             a == [q EXCEPT !.ok = ok, !.pc = again]
             b == [q EXCEPT !.calm = FALSE, !.pc = again]
  <2>2. Set(w, a) \/ Set(w, b)
    BY <1>9 DEF AuthenLogin
  <2>3. again = "again" /\ ok \in BOOLEAN
    BY DEF AuthLogin
  <2>4. q.calm => (ok <=> Right(db, q))
    BY <1>2, <2>1 DEF AuthenExact, Right
  <2> HIDE DEF ok, again
  <2>5. Same(q, a) /\ a.calm = q.calm /\ a.pc = "again" /\ a.ok = ok
    BY <1>2, <2>3 DEF RequestType, Same
  <2>6. b.calm = FALSE /\ b.op = q.op
    BY <1>2 DEF RequestType
  <2> HIDE DEF a, b
  <2>7. a.calm => (a.ok <=> Right(db, a))
    BY <2>4, <2>5, RightStays, Zenon
  <2>8. a.calm => AuthenExact(db, a)
    BY <2>5, <2>7 DEF AuthenExact
  <2> QED
    BY <1>1, <1>3, <2>2, <2>5, <2>6, <2>8 DEF Same
<1>10. CASE AuthenReply(w)
  <2>1. q.pc = "again" /\ (q.calm => (q.ok <=> Right(db, q)))
    BY <1>2, <1>10 DEF AuthenReply, At, AuthenExact
  <2>2. CASE q.ok /\ Goto(w, "note")
    <3> DEFINE note == "note"
               r == [q EXCEPT !.pc = note]
    <3>1. Set(w, r) /\ note = "note"
      BY <2>2 DEF Goto
    <3> HIDE DEF note
    <3>2. Keeps(q, r) /\ r.pc = "note"
      BY <1>2, <3>1, GotoKeeps
    <3> HIDE DEF r
    <3>3. r.calm => Right(db, r)
      BY <2>1, <2>2, <3>2, RightStays DEF Keeps
    <3> QED
      BY <1>1, <1>3, <3>1, <3>2, <3>3 DEF Keeps, Same, AuthenExact
  <2>3. CASE q.ok /\ Answer(w, "pass")
    BY <1>5, <2>1, <2>3
  <2>4. CASE ~q.ok /\ PortalUserExists(db, q.login) /\ Answer(w, "fail")
    BY <1>5, <2>1, <2>4
  <2>5. CASE /\ ~q.ok /\ ~PortalUserExists(db, q.login)
             /\ Answer(w, IF DropUnknown THEN "silent" ELSE "error")
    BY <1>5, <2>1, <2>5
  <2> QED
    BY <1>10, <2>2, <2>3, <2>4, <2>5 DEF AuthenReply
<1>11. CASE AuthenGranted(w)
  BY <1>2, <1>5, <1>11 DEF AuthenGranted, AuthenExact, At
<1> QED
  BY <1>6, <1>7, <1>8, <1>9, <1>10, <1>11

\* The settings are read, and brought into force.
LEMMA RefreshCalm ==
    ASSUME DeviceInv, CalmInv, NEW w \in Workers, NEW next, Refresh(w, next),
           work[w].op \in {"authen", "author"},
           work[w].op = "authen" /\ work[w].calm => Right(db, work[w]),
           work[w].op = "author" /\ work[w].calm =>
               LET q == work[w]
               IN  /\ next \in {"admin", "row", "profile"}
                   /\ PortalUserExists(db, q.login) /\ q.dec = NoDecision
                   /\ next \in {"admin", "profile"} => q.cmd = << >> /\ OnFortiGate(db, q)
                   /\ next = "row" => ~(q.cmd = << >> /\ OnFortiGate(db, q))
                   /\ next = "profile" =>
                         /\ q.user \in AuthorizeAdmin(db, q.login)
                         /\ q.role \in FortinetMappingRole(db.mapping, EffectiveRoles(db, q.user))
    PROVE  CalmInv'
<1> DEFINE q == work[w]
           copy == db.mapping
           apply == "apply"
           r == [q EXCEPT !.copy = copy, !.pc = apply, !.next = next]
<1>1. q \in RequestType
  BY Current
<1>2. Set(w, r) /\ copy = db.mapping /\ apply = "apply"
  BY DEF Refresh
<1> HIDE DEF copy, apply
<1>3. Keeps(q, r) /\ r.pc = "apply" /\ r.next = next /\ r.copy = db.mapping
  BY <1>1, <1>2 DEF RequestType, Keeps, Same
<1> HIDE DEF r
<1>4. CASE q.op = "authen"
  <2>1. r.calm => AuthenExact(db, r)
    BY <1>3, <1>4, RightStays DEF AuthenExact, Keeps
  <2>2. r.op = "authen"
    BY <1>3, <1>4 DEF Keeps, Same
  <2> QED
    BY <1>2, <2>1, <2>2, CalmStep DEF Set, Exact
<1>5. CASE q.op = "author"
  <2>1. r.op = "author" /\ r.login = q.login /\ r.cmd = q.cmd
    BY <1>3, <1>5 DEF Keeps, Same
  <2>2. r.calm => AuthorExact(db, live, r)
    BY <1>3, <1>5, <2>1, RightStays DEF AuthorExact, Keeps, Decides, Heading, Fortinet
  <2> QED
    BY <1>2, <2>1, <2>2, CalmStep DEF Set, Exact
<1> QED
  BY <1>4, <1>5

\* What the server holds in memory matters to who goes on to read it.
LEMMA LiveStays ==
    ASSUME NEW d, NEW lv, NEW mv, NEW q, Exact(d, lv, q), q.op \in {"authen", "author", "radius"},
           q.pc = "done" \/ mv = d.mapping
    PROVE  Exact(d, mv, q)
<1>1. AuthorExact(d, lv, q) => AuthorExact(d, mv, q)
  BY DEF AuthorExact, Fortinet
<1> QED
  BY <1>1 DEF Exact

LEMMA ApplyCalm ==
    ASSUME DeviceInv, CalmInv, NEW w \in Workers, ApplyFortinetConfig(w)
    PROVE  CalmInv'
<1> DEFINE q == work[w]
           stale == q.copy # db.mapping
           calm == q.calm /\ ~stale
           next == q.next
           empty == << >>
           none == ""
           r == [q EXCEPT !.pc = next, !.copy = empty, !.next = none, !.calm = calm]
<1>1. q.pc = "apply" /\ q.op # "idle" /\ live' = q.copy /\ db' = db /\ DOMAIN work' = Workers
  BY DEF ApplyFortinetConfig, Running
<1>2. q \in RequestType /\ Placed(q) /\ (q.calm => Exact(db, live, q))
  BY <1>1, Current
<1>3. /\ work'[w] = r
      /\ \A v \in Workers \ {w} : stale /\ Running(v) => work'[v] = [work[v] EXCEPT !.calm = FALSE]
      /\ \A v \in Workers \ {w} : ~stale \/ ~Running(v) => work'[v] = work[v]
  BY DEF ApplyFortinetConfig
<1>4. /\ Same(q, r) /\ r.ok = q.ok /\ r.user = q.user /\ r.role = q.role /\ r.roles = q.roles
      /\ r.left = q.left /\ r.dec = q.dec /\ r.tier = q.tier /\ r.pc = next /\ r.calm = calm
  <2> HIDE DEF next, empty, none, calm
  <2> QED
    BY <1>2 DEF RequestType, Same
<1>5. r.calm => live' = db.mapping /\ q.calm
  BY <1>1, <1>4
<1> HIDE DEF r
<1>6. r.calm => Exact(db, live', r)
  <2> SUFFICES ASSUME r.calm PROVE Exact(db, live', r)
    OBVIOUS
  <2>1. q.op \in {"authen", "author", "radius"} /\ r.op = q.op
    BY <1>2, <1>4 DEF RequestType, Same
  <2>2. CASE q.op = "authen"
    <3>1. q.next = "granted"
      BY <1>1, <1>2, <2>2 DEF Placed
    <3>2. Right(db, r)
      BY <1>1, <1>2, <1>4, <1>5, <2>2, RightStays DEF Exact, AuthenExact
    <3> QED
      BY <1>4, <2>1, <2>2, <3>1, <3>2 DEF Exact, AuthenExact
  <2>3. CASE q.op = "author"
    <3>1. q.next \in {"admin", "row", "profile"}
      BY <1>1, <1>2, <2>3 DEF Placed
    <3>2. AuthorExact(db, live, q)
      BY <1>2, <1>5, <2>3 DEF Exact
    <3>3. r.login = q.login /\ r.cmd = q.cmd /\ r.user = q.user /\ r.role = q.role
          /\ r.dec = q.dec /\ (OnFortiGate(db, r) <=> OnFortiGate(db, q))
      BY <1>4, RightStays DEF Same
    <3>4. AuthorExact(db, live', r)
      BY <1>1, <1>4, <1>5, <3>1, <3>2, <3>3 DEF AuthorExact, Decides, Heading, Fortinet
    <3> QED
      BY <2>1, <2>3, <3>4 DEF Exact
  <2>4. CASE q.op = "radius"
    <3>1. "apply" \notin Places["radius"]
      BY DEF Places
    <3> QED
      BY <1>1, <1>2, <2>4, <3>1 DEF Placed
  <2> QED
    BY <2>1, <2>2, <2>3, <2>4
<1>7. SUFFICES ASSUME NEW v \in Workers, work'[v].op # "idle", work'[v].calm
               PROVE  Exact(db, live', work'[v])
  BY <1>1 DEF CalmInv
<1>8. CASE v # w
  <2>1. CASE stale /\ Running(v)
    <3>1. work'[v] = [work[v] EXCEPT !.calm = FALSE] /\ work[v].op # "idle"
      BY <1>3, <1>8, <2>1 DEF Running
    <3>2. work[v] \in RequestType
      BY <3>1, Current
    <3>3. work'[v].calm = FALSE
      BY <3>1, <3>2 DEF RequestType
    <3> QED
      BY <1>7, <3>3
  <2>2. CASE ~stale \/ ~Running(v)
    <3>1. work'[v] = work[v] /\ work[v].op # "idle" /\ work[v].calm
      BY <1>3, <1>7, <1>8, <2>2
    <3>2. work[v].op \in {"authen", "author", "radius"} /\ Exact(db, live, work[v])
      BY <3>1, Current DEF RequestType
    <3>3. work[v].pc = "done" \/ live' = db.mapping
      BY <1>1, <2>2, <3>1 DEF Running
    <3> QED
      BY <3>1, <3>2, <3>3, LiveStays
  <2> QED
    BY <2>1, <2>2
<1> QED
  BY <1>3, <1>6, <1>7, <1>8

LEMMA NoteCalm ==
    ASSUME DeviceInv, CalmInv, NEW w \in Workers, AuthenNote(w)
    PROVE  CalmInv'
<1> DEFINE q == work[w]
           granted == "granted"
           r == [q EXCEPT !.pc = granted]
<1>1. q.op = "authen" /\ q.pc = "note" /\ (Refresh(w, "granted") \/ Goto(w, "granted"))
  BY DEF AuthenNote, At
<1>2. q \in RequestType /\ (q.calm => Right(db, q))
  BY <1>1, Current DEF Exact, AuthenExact
<1>3. CASE Refresh(w, "granted")
  BY <1>1, <1>2, <1>3, RefreshCalm
<1>4. CASE Goto(w, "granted")
  <2>1. Set(w, r) /\ granted = "granted"
    BY <1>4 DEF Goto
  <2> HIDE DEF granted
  <2>2. Keeps(q, r) /\ r.pc = "granted"
    BY <1>2, <2>1, GotoKeeps
  <2> HIDE DEF r
  <2>3. r.calm => AuthenExact(db, r)
    BY <1>2, <2>2, RightStays DEF AuthenExact, Keeps
  <2> QED
    BY <1>1, <2>1, <2>2, <2>3, CalmStep DEF Set, Exact, Keeps, Same
<1> QED
  BY <1>1, <1>3, <1>4

\* TACACS+ authorization: an answer, and the way to the account.
LEMMA AuthorAnswerCalm ==
    ASSUME DeviceInv, CalmInv, NEW w \in Workers, NEW reply, Answer(w, reply),
           work[w].op = "author",
           work[w].calm =>
               LET q == work[w]
               IN   \/ ~PortalUserExists(db, q.login) /\ reply = "error"
                    \/ /\ PortalUserExists(db, q.login) /\ ~(OnFortiGate(db, q) /\ q.cmd = << >>)
                       /\ \/ /\ reply = "fail"
                             /\ \/ Enabled(db) \cap Named(q.login) = {}
                                \/ db.tier[q.host] = NoTier
                          \/ /\ db.tier[q.host] # NoTier
                             /\ reply = "pass" => q.cmd # << >>
                             /\ \E u \in Enabled(db) \cap Named(q.login) :
                                   \E xs \in SpeakingIn(db, EffectiveRoles(db, u), q.host) :
                                       /\ Permits(xs, q.cmd) => reply = "pass"
                                       /\ ~Permits(xs, q.cmd) => reply = "fail"
    PROVE  CalmInv'
<1> DEFINE q == work[w]
           done == "done"
           r == [q EXCEPT !.pc = done, !.reply = reply]
<1>1. q \in RequestType
  BY Current
<1>2. Set(w, r) /\ done = "done"
  BY DEF Answer
<1> HIDE DEF done
<1>3. Keeps(q, r) /\ r.pc = "done" /\ r.reply = reply
  BY <1>1, <1>2 DEF RequestType, Keeps, Same
<1> HIDE DEF r
<1>4. /\ r.op = "author" /\ r.login = q.login /\ r.cmd = q.cmd /\ r.host = q.host
      /\ (OnFortiGate(db, r) <=> OnFortiGate(db, q)) /\ r.calm = q.calm
  BY <1>3, RightStays DEF Keeps, Same
<1>5. r.calm => AuthorAnswered(db, r)
  BY <1>3, <1>4 DEF AuthorAnswered, Ruled
<1>6. r.calm => AuthorExact(db, live, r)
  BY <1>3, <1>5 DEF AuthorExact, Heading, Decides, Fortinet
<1> QED
  BY <1>2, <1>4, <1>6, CalmStep DEF Set, Exact

LEMMA AuthorWayCalm ==
    ASSUME DeviceInv, CalmInv, NEW w \in Workers,
           AuthorExists(w) \/ AuthorNas(w) \/ AuthorRefresh(w)
    PROVE  CalmInv'
<1> DEFINE q == work[w]
<1>1. q.op = "author" /\ q.pc \in {"exists", "nas", "refresh"}
  BY DEF AuthorExists, AuthorNas, AuthorRefresh, At
<1>2. q \in RequestType /\ (q.calm => AuthorExact(db, live, q))
  BY <1>1, Current DEF Exact
<1>3. ASSUME NEW pc \in {"nas", "row"}, Goto(w, pc),
             q.calm => /\ PortalUserExists(db, q.login)
                       /\ pc = "row" => ~(q.cmd = << >> /\ OnFortiGate(db, q))
      PROVE  CalmInv'
  <2> DEFINE r == [q EXCEPT !.pc = pc]
  <2>1. Set(w, r)
    BY <1>3 DEF Goto
  <2>2. Keeps(q, r) /\ r.pc = pc
    BY <1>2, GotoKeeps
  <2> HIDE DEF r
  <2>3. r.op = "author" /\ r.login = q.login /\ r.cmd = q.cmd /\ r.dec = q.dec /\ r.calm = q.calm
        /\ (OnFortiGate(db, r) <=> OnFortiGate(db, q))
    BY <1>1, <2>2, RightStays DEF Keeps, Same
  <2>4. r.calm => AuthorExact(db, live, r)
    BY <1>1, <1>2, <1>3, <2>2, <2>3 DEF AuthorExact, Heading, Decides, Fortinet
  <2> QED
    BY <2>1, <2>3, <2>4, CalmStep DEF Set, Exact
<1>4. CASE AuthorExists(w)
  <2>1. CASE PortalUserExists(db, q.login)
    BY <1>3, <1>4, <2>1 DEF AuthorExists
  <2>2. CASE ~PortalUserExists(db, q.login)
    BY <1>1, <1>4, <2>2, AuthorAnswerCalm DEF AuthorExists
  <2> QED
    BY <2>1, <2>2
<1>5. CASE AuthorNas(w)
  <2>1. q.calm => PortalUserExists(db, q.login) /\ q.dec = NoDecision
    BY <1>2, <1>5 DEF AuthorNas, At, AuthorExact, Decides
  <2>2. \/ OnFortiGate(db, q) /\ q.cmd = << >> /\ Refresh(w, "admin")
        \/ OnFortiGate(db, q) /\ q.cmd # << >> /\ Refresh(w, "row")
        \/ ~OnFortiGate(db, q) /\ Goto(w, "row")
    BY <1>5 DEF AuthorNas, OnFortiGate
  <2>3. CASE OnFortiGate(db, q) /\ q.cmd = << >> /\ Refresh(w, "admin")
    BY <1>1, <2>1, <2>3, RefreshCalm
  <2>4. CASE OnFortiGate(db, q) /\ q.cmd # << >> /\ Refresh(w, "row")
    BY <1>1, <2>1, <2>4, RefreshCalm
  <2> QED
    BY <1>3, <2>1, <2>2, <2>3, <2>4
<1>6. CASE AuthorRefresh(w)
  <2>1. q.pc = "refresh" /\ Refresh(w, "profile")
    BY <1>6 DEF AuthorRefresh, At
  <2>2. q.calm => /\ PortalUserExists(db, q.login) /\ q.dec = NoDecision
                  /\ q.cmd = << >> /\ OnFortiGate(db, q)
                  /\ q.user \in AuthorizeAdmin(db, q.login)
                  /\ q.role \in FortinetMappingRole(db.mapping, EffectiveRoles(db, q.user))
    BY <1>2, <2>1 DEF AuthorExact, Decides, Heading, Fortinet
  <2> QED
    BY <1>1, <2>1, <2>2, RefreshCalm
<1> QED
  BY <1>4, <1>5, <1>6

\* A step of an authorization that does not end it.
LEMMA AuthorMoves ==
    ASSUME DeviceInv, CalmInv, NEW w \in Workers, NEW r, Set(w, r), r.op = "author",
           r.calm => AuthorExact(db, live, r)
    PROVE  CalmInv'
BY CalmStep DEF Set, Exact

\* The login to a FortiGate: the account, its role, its profile.
LEMMA FortinetCalm ==
    ASSUME DeviceInv, CalmInv, NEW w \in Workers,
           AuthorAdmin(w) \/ AuthorMap(w) \/ AuthorProfile(w)
    PROVE  CalmInv'
<1> DEFINE q == work[w]
<1>1. q.op = "author" /\ q.pc \in {"admin", "map", "profile"}
  BY DEF AuthorAdmin, AuthorMap, AuthorProfile, At
<1>2. q \in RequestType /\ (q.calm => AuthorExact(db, live, q))
  BY <1>1, Current DEF Exact
<1>3. q.calm => /\ PortalUserExists(db, q.login) /\ q.dec = NoDecision
                /\ live = db.mapping /\ q.cmd = << >> /\ OnFortiGate(db, q)
  BY <1>1, <1>2 DEF AuthorExact, Decides, Heading, Fortinet
<1>4. CASE AuthorAdmin(w)
  <2>1. CASE AuthorizeAdmin(db, q.login) = {} /\ Answer(w, "fail")
    <3>1. ~PortalUserExists(db, q.login)
      BY <2>1 DEF AuthorizeAdmin, PortalUserExists
    <3> QED
      BY <1>1, <1>3, <2>1, <3>1, AuthorAnswerCalm
  <2>2. ASSUME NEW u \in AuthorizeAdmin(db, q.login),
               Set(w, [q EXCEPT !.user = u, !.role = db.role[u], !.pc = "map"])
        PROVE  CalmInv'
    <3> DEFINE role == db.role[u]
               map == "map"
               r == [q EXCEPT !.user = u, !.role = role, !.pc = map]
    <3>1. Set(w, r) /\ role = db.role[u] /\ map = "map"
      BY <2>2
    <3> HIDE DEF role, map
    <3>2. /\ Same(q, r) /\ r.calm = q.calm /\ r.dec = q.dec
          /\ r.pc = "map" /\ r.user = u /\ r.role = role
      BY <1>2, <3>1 DEF RequestType, Same
    <3> HIDE DEF r
    <3>3. /\ r.op = "author" /\ r.login = q.login /\ r.cmd = q.cmd
          /\ (OnFortiGate(db, r) <=> OnFortiGate(db, q))
      BY <1>1, <3>2, RightStays DEF Same
    <3>4. r.calm => AuthorExact(db, live, r)
      BY <1>3, <2>2, <3>1, <3>2, <3>3 DEF AuthorExact, Heading, Decides, Fortinet, Chosen
    <3> QED
      BY <3>1, <3>3, <3>4, AuthorMoves
  <2> QED
    BY <1>4, <2>1, <2>2 DEF AuthorAdmin
<1>5. CASE AuthorMap(w)
  <2> DEFINE rs == {q.role} \cup db.granted[q.user]
             refresh == "refresh"
  <2>1. PICK role \in FortinetMappingRole(live, rs) :
            Set(w, [q EXCEPT !.role = role, !.roles = rs, !.pc = refresh])
    BY <1>5 DEF AuthorMap
  <2> DEFINE r == [q EXCEPT !.role = role, !.roles = rs, !.pc = refresh]
  <2>2. Set(w, r) /\ refresh = "refresh" /\ q.pc = "map"
    BY <1>5, <2>1 DEF AuthorMap, At
  <2>3. q.calm => Chosen(db, AuthorizeAdmin(db, q.login), q)
    BY <1>2, <2>2 DEF AuthorExact
  <2>4. q.calm => q.user \in AuthorizeAdmin(db, q.login) /\ rs = EffectiveRoles(db, q.user)
    BY <2>3 DEF Chosen, EffectiveRoles
  <2> HIDE DEF rs, refresh
  <2>5. /\ Same(q, r) /\ r.calm = q.calm /\ r.dec = q.dec
        /\ r.pc = "refresh" /\ r.user = q.user /\ r.role = role
    BY <1>2, <2>2 DEF RequestType, Same
  <2> HIDE DEF r
  <2>6. /\ r.op = "author" /\ r.login = q.login /\ r.cmd = q.cmd
        /\ (OnFortiGate(db, r) <=> OnFortiGate(db, q))
    BY <1>1, <2>5, RightStays DEF Same
  <2>7. r.calm => AuthorExact(db, live, r)
    BY <1>3, <2>1, <2>4, <2>5, <2>6 DEF AuthorExact, Heading, Decides, Fortinet
  <2> QED
    BY <2>2, <2>6, <2>7, AuthorMoves
<1>6. CASE AuthorProfile(w)
  <2> DEFINE profile == FortinetAdminProfForRole(live, q.role)
             done == "done"
             pass == "pass"
             r == [q EXCEPT !.pc = done, !.reply = pass, !.profile = profile]
  <2>1. Set(w, r) /\ done = "done" /\ pass = "pass" /\ q.pc = "profile"
        /\ profile = FortinetAdminProfForRole(live, q.role)
    BY <1>6 DEF AuthorProfile, At
  <2> HIDE DEF profile, done, pass
  <2>2. Keeps(q, r) /\ r.pc = "done" /\ r.reply = "pass" /\ r.profile = profile
    BY <1>2, <2>1 DEF RequestType, Keeps, Same
  <2> HIDE DEF r
  <2>3. /\ r.op = "author" /\ r.login = q.login /\ r.cmd = q.cmd /\ r.calm = q.calm
        /\ (OnFortiGate(db, r) <=> OnFortiGate(db, q))
    BY <1>1, <2>2, RightStays DEF Keeps, Same
  <2>4. q.calm => /\ q.user \in AuthorizeAdmin(db, q.login)
                  /\ q.role \in FortinetMappingRole(db.mapping, EffectiveRoles(db, q.user))
    BY <1>2, <2>1 DEF AuthorExact, Heading
  <2>5. r.calm => Profiled(db, r)
    BY <1>3, <2>1, <2>2, <2>3, <2>4 DEF Profiled
  <2>6. r.calm => AuthorAnswered(db, r)
    BY <1>3, <2>2, <2>3, <2>5 DEF AuthorAnswered
  <2>7. r.calm => AuthorExact(db, live, r)
    BY <2>2, <2>6 DEF AuthorExact, Heading, Decides, Fortinet
  <2> QED
    BY <2>1, <2>3, <2>7, AuthorMoves
<1> QED
  BY <1>4, <1>5, <1>6

\* The account, its roles, the device's tier.
LEMMA AccountCalm ==
    ASSUME DeviceInv, CalmInv, NEW w \in Workers,
           AuthorRow(w) \/ AuthorRoles(w) \/ AuthorTarget(w)
    PROVE  CalmInv'
<1> DEFINE q == work[w]
           us == Enabled(db) \cap Named(q.login)
<1>1. q.op = "author" /\ q.pc \in {"row", "roles", "target"}
  BY DEF AuthorRow, AuthorRoles, AuthorTarget, At
<1>2. q \in RequestType /\ (q.calm => AuthorExact(db, live, q))
  BY <1>1, Current DEF Exact
<1>3. q.calm => /\ PortalUserExists(db, q.login) /\ q.dec = NoDecision
                /\ ~(q.cmd = << >> /\ OnFortiGate(db, q))
  BY <1>1, <1>2 DEF AuthorExact, Decides, Heading, Fortinet
<1>4. CASE AuthorRow(w)
  <2>1. CASE us = {} /\ Answer(w, "fail")
    BY <1>1, <1>3, <2>1, AuthorAnswerCalm
  <2>2. ASSUME NEW u \in us, Set(w, [q EXCEPT !.user = u, !.role = db.role[u], !.pc = "roles"])
        PROVE  CalmInv'
    <3> DEFINE role == db.role[u]
               roles == "roles"
               r == [q EXCEPT !.user = u, !.role = role, !.pc = roles]
    <3>1. Set(w, r) /\ role = db.role[u] /\ roles = "roles"
      BY <2>2
    <3> HIDE DEF role, roles
    <3>2. /\ Same(q, r) /\ r.calm = q.calm /\ r.dec = q.dec
          /\ r.pc = "roles" /\ r.user = u /\ r.role = role
      BY <1>2, <3>1 DEF RequestType, Same
    <3> HIDE DEF r
    <3>3. /\ r.op = "author" /\ r.login = q.login /\ r.cmd = q.cmd
          /\ (OnFortiGate(db, r) <=> OnFortiGate(db, q))
      BY <1>1, <3>2, RightStays DEF Same
    <3>4. r.calm => AuthorExact(db, live, r)
      BY <1>3, <3>1, <3>2, <3>3 DEF AuthorExact, Heading, Decides, Fortinet, Chosen
    <3> QED
      BY <3>1, <3>3, <3>4, AuthorMoves
  <2> QED
    BY <1>4, <2>1, <2>2 DEF AuthorRow
<1>5. CASE AuthorRoles(w)
  <2> DEFINE rs == {q.role} \cup db.granted[q.user]
             target == "target"
             r == [q EXCEPT !.roles = rs, !.left = rs, !.pc = target]
  <2>1. Set(w, r) /\ target = "target" /\ q.pc = "roles"
    BY <1>5 DEF AuthorRoles, At
  <2>2. q.calm => Chosen(db, us, q)
    BY <1>2, <2>1 DEF AuthorExact
  <2>3. q.calm => rs = EffectiveRoles(db, q.user)
    BY <2>2 DEF Chosen, EffectiveRoles
  <2> HIDE DEF rs, target
  <2>4. /\ Same(q, r) /\ r.calm = q.calm /\ r.dec = q.dec /\ r.user = q.user /\ r.role = q.role
        /\ r.pc = "target" /\ r.roles = rs /\ r.left = rs
    BY <1>2, <2>1 DEF RequestType, Same
  <2> HIDE DEF r
  <2>5. /\ r.op = "author" /\ r.login = q.login /\ r.cmd = q.cmd
        /\ (OnFortiGate(db, r) <=> OnFortiGate(db, q))
    BY <1>1, <2>4, RightStays DEF Same
  <2>6. r.calm => AuthorExact(db, live, r)
    BY <1>3, <2>2, <2>3, <2>4, <2>5 DEF AuthorExact, Heading, Decides, Fortinet, Chosen, Listed
  <2> QED
    BY <2>1, <2>5, <2>6, AuthorMoves
<1>6. CASE AuthorTarget(w)
  <2>1. CASE db.tier[q.host] = NoTier /\ Answer(w, "fail")
    BY <1>1, <1>3, <2>1, AuthorAnswerCalm
  <2>2. CASE db.tier[q.host] # NoTier /\ Set(w, [q EXCEPT !.tier = db.tier[q.host], !.pc = "rule"])
    <3> DEFINE tier == db.tier[q.host]
               rule == "rule"
               r == [q EXCEPT !.tier = tier, !.pc = rule]
    <3>1. Set(w, r) /\ tier = db.tier[q.host] /\ rule = "rule" /\ q.pc = "target"
      BY <1>6, <2>2 DEF AuthorTarget, At
    <3> HIDE DEF tier, rule
    <3>2. /\ Same(q, r) /\ r.calm = q.calm /\ r.dec = q.dec /\ r.user = q.user /\ r.role = q.role
          /\ r.roles = q.roles /\ r.left = q.left /\ r.pc = "rule" /\ r.tier = tier
      BY <1>2, <3>1 DEF RequestType, Same
    <3> HIDE DEF r
    <3>3. /\ r.op = "author" /\ r.login = q.login /\ r.cmd = q.cmd /\ r.host = q.host
          /\ (OnFortiGate(db, r) <=> OnFortiGate(db, q))
      BY <1>1, <3>2, RightStays DEF Same
    <3>4. q.calm => /\ Chosen(db, us, q) /\ Listed(db, q)
                    /\ q.left = q.roles
      BY <1>2, <3>1 DEF AuthorExact, Decides
    <3>5. q.calm => Heard(db, r)
      <4>1. q.calm => r.roles \ r.left = {} /\ r.dec = NoDecision
        BY <1>3, <3>2, <3>4
      <4> QED
        BY <4>1, NobodySpeaks DEF Heard
    <3>6. q.calm => Chosen(db, us, r) /\ Listed(db, r)
      BY <3>2, <3>4 DEF Chosen, Listed
    <3>7. r.calm => AuthorExact(db, live, r)
      BY <1>3, <2>2, <3>1, <3>2, <3>3, <3>5, <3>6
         DEF AuthorExact, Heading, Decides, Fortinet
    <3> QED
      BY <3>1, <3>3, <3>7, AuthorMoves
  <2> QED
    BY <1>6, <2>1, <2>2 DEF AuthorTarget
<1> QED
  BY <1>4, <1>5, <1>6

\* One role is asked, and its rule added to the sum.
LEMMA HearsOne ==
    ASSUME NEW d \in Tables, NEW q \in RequestType, NEW r \in RequestType, Same(q, r),
           Listed(d, q), Heard(d, q), q.tier = d.tier[q.host], NEW role \in q.left,
           r.user = q.user, r.roles = q.roles, r.left = q.left \ {role},
           \/ Governing(d.rules, role, KindOf[q.host]) = {} /\ r.dec = q.dec
           \/ \E x \in Governing(d.rules, role, KindOf[q.host]) : r.dec = Joined(q.dec, x, q.tier)
    PROVE  Listed(d, r) /\ Heard(d, r)
<1> DEFINE rs == q.roles \ q.left
<1>1. r.roles \ r.left = rs \cup {role} /\ role \notin rs /\ r.host = q.host
  BY DEF Listed, Same
<1>2. PICK xs \in SpeakingIn(d, rs, q.host) : SumsUp(q.dec, xs)
  BY DEF Heard
<1>3. xs \subseteq Rule /\ q.dec \in Decision
  BY SpeakersAreRules DEF RequestType
<1>4. Heard(d, r)
  <2> HIDE DEF rs
  <2>1. CASE Governing(d.rules, role, KindOf[q.host]) = {} /\ r.dec = q.dec
    BY <1>1, <1>2, <2>1, SilentRole DEF Heard
  <2>2. ASSUME NEW x \in Governing(d.rules, role, KindOf[q.host]), r.dec = Joined(q.dec, x, q.tier)
        PROVE  Heard(d, r)
    <3>1. x \in Rule
      BY DEF Governing, Tables
    <3>2. CASE q.tier <= x.tier
      <4>1. xs \cup {x} \in SpeakingIn(d, rs \cup {role}, q.host)
        BY <1>1, <1>2, <3>2, RoleSpeaks
      <4>2. SumsUp(r.dec, xs \cup {x})
        BY <1>2, <1>3, <2>2, <3>1, <3>2, SumGrows
      <4> QED
        BY <1>1, <4>1, <4>2 DEF Heard
    <3>3. CASE ~(q.tier <= x.tier)
      <4>1. xs \in SpeakingIn(d, rs \cup {role}, q.host)
        BY <1>1, <1>2, <3>3, RoleSpeaks
      <4>2. SumsUp(r.dec, xs)
        BY <1>2, <2>2, <3>3 DEF Joined
      <4> QED
        BY <1>1, <4>1, <4>2 DEF Heard
    <3> QED
      BY <3>2, <3>3
  <2> QED
    BY <2>1, <2>2
<1>5. Listed(d, r)
  BY DEF Listed
<1> QED
  BY <1>4, <1>5

\* The rules, one role after the other.
LEMMA DecideCalm ==
    ASSUME DeviceInv, CalmInv, NEW w \in Workers, DecideRole(w)
    PROVE  CalmInv'
<1> DEFINE q == work[w]
           kind == KindOf[q.host]
<1>1. q.pc = "rule" /\ q.op # "idle"
  BY DEF DecideRole, Running
<1>2. /\ q \in RequestType /\ db \in Tables /\ Placed(q)
      /\ q.calm => Exact(db, live, q)
  BY <1>1, Current
<1>3. PICK role \in q.left :
          \/ Governing(db.rules, role, kind) = {} /\ Set(w, [q EXCEPT !.left = q.left \ {role}])
          \/ \E x \in Governing(db.rules, role, kind) :
                Set(w, [q EXCEPT !.left = q.left \ {role}, !.dec = Joined(q.dec, x, q.tier)])
  BY DEF DecideRole
<1>4. PICK r \in RequestType :
          /\ Set(w, r) /\ Same(q, r) /\ r.calm = q.calm /\ r.user = q.user /\ r.role = q.role
          /\ r.roles = q.roles /\ r.tier = q.tier /\ r.pc = "rule" /\ r.left = q.left \ {role}
          /\ \/ Governing(db.rules, role, kind) = {} /\ r.dec = q.dec
             \/ \E x \in Governing(db.rules, role, kind) : r.dec = Joined(q.dec, x, q.tier)
  <2> DEFINE left == q.left \ {role}
  <2>1. left \in SUBSET Roles /\ q.dec \in Decision
    BY <1>2 DEF RequestType
  <2>2. CASE Governing(db.rules, role, kind) = {} /\ Set(w, [q EXCEPT !.left = left])
    <3> HIDE DEF left
    <3> DEFINE r == [q EXCEPT !.left = left]
    <3>1. r \in RequestType
      BY <1>2, <2>1, LeftTyped
    <3>2. /\ Same(q, r) /\ r.calm = q.calm /\ r.user = q.user /\ r.role = q.role
          /\ r.roles = q.roles /\ r.tier = q.tier /\ r.pc = q.pc /\ r.left = left
          /\ r.dec = q.dec
      BY <1>2 DEF RequestType, Same
    <3>3. Set(w, r)
      BY <2>2
    <3> HIDE DEF r
    <3> QED
      BY <1>1, <2>2, <3>1, <3>2, <3>3 DEF left
  <2>3. ASSUME NEW x \in Governing(db.rules, role, kind),
               Set(w, [q EXCEPT !.left = left, !.dec = Joined(q.dec, x, q.tier)])
        PROVE  \E r \in RequestType :
                   /\ Set(w, r) /\ Same(q, r) /\ r.calm = q.calm /\ r.user = q.user
                   /\ r.role = q.role /\ r.roles = q.roles /\ r.tier = q.tier /\ r.pc = "rule"
                   /\ r.left = left /\ r.dec = Joined(q.dec, x, q.tier)
    <3> HIDE DEF left
    <3> DEFINE dec == Joined(q.dec, x, q.tier)
               r == [q EXCEPT !.left = left, !.dec = dec]
    <3>1. x \in Rule
      BY <1>2 DEF Governing, Tables
    <3>2. dec \in Decision
      BY <2>1, <3>1, JoinedTyped
    <3>3. Set(w, r) /\ dec = Joined(q.dec, x, q.tier)
      BY <2>3
    <3> HIDE DEF dec
    <3>4. r \in RequestType
      BY <1>2, <2>1, <3>2, LeftTyped
    <3>5. /\ Same(q, r) /\ r.calm = q.calm /\ r.user = q.user /\ r.role = q.role
          /\ r.roles = q.roles /\ r.tier = q.tier /\ r.pc = q.pc /\ r.left = left
          /\ r.dec = dec
      BY <1>2 DEF RequestType, Same
    <3> HIDE DEF r
    <3> QED
      BY <1>1, <3>3, <3>4, <3>5
  <2> QED
    BY <1>3, <2>2, <2>3
<1>5. r.op = q.op /\ r.host = q.host /\ r.login = q.login /\ r.cmd = q.cmd /\ r.pass = q.pass
      /\ (OnFortiGate(db, r) <=> OnFortiGate(db, q))
  BY <1>4, RightStays DEF Same
<1>6. ASSUME Listed(db, q), Decides(db, q)
      PROVE  Listed(db, r) /\ Decides(db, r)
  <2>1. q.tier = db.tier[q.host] /\ q.tier # NoTier /\ Heard(db, q)
    BY <1>1, <1>6 DEF Decides
  <2>2. Listed(db, r) /\ Heard(db, r)
    BY <1>2, <1>4, <1>6, <2>1, HearsOne
  <2> QED
    BY <1>4, <1>5, <2>1, <2>2 DEF Decides
<1>7. r.calm => Exact(db, live, r)
  <2> SUFFICES ASSUME r.calm PROVE Exact(db, live, r)
    OBVIOUS
  <2>1. Exact(db, live, q) /\ q.op \in {"authen", "author", "radius"}
    BY <1>2, <1>4 DEF RequestType
  <2>2. CASE q.op = "author"
    <3>1. AuthorExact(db, live, q)
      BY <2>1, <2>2 DEF Exact
    <3>2. /\ PortalUserExists(db, q.login) /\ ~(q.cmd = << >> /\ OnFortiGate(db, q))
          /\ Chosen(db, Enabled(db) \cap Named(q.login), q) /\ Listed(db, q) /\ Decides(db, q)
      BY <1>1, <3>1 DEF AuthorExact, Heading
    <3>3. AuthorExact(db, live, r)
      BY <1>4, <1>5, <1>6, <3>2 DEF AuthorExact, Heading, Fortinet, Chosen
    <3> QED
      BY <1>5, <2>2, <3>3 DEF Exact
  <2>3. CASE q.op = "radius"
    <3>1. RadiusExact(db, q)
      BY <2>1, <2>3 DEF Exact
    <3>2. RadiusExact(db, r)
      BY <1>1, <1>4, <1>5, <1>6, <3>1 DEF RadiusExact, Chosen
    <3> QED
      BY <1>5, <2>3, <3>2 DEF Exact
  <2>4. CASE q.op = "authen"
    <3>1. "rule" \notin Places["authen"]
      BY DEF Places
    <3> QED
      BY <1>1, <1>2, <2>4, <3>1 DEF Placed
  <2> QED
    BY <2>1, <2>2, <2>3, <2>4
<1> QED
  BY <1>4, <1>7, CalmStep DEF Set

\* Every role was asked: the decision is the sum of rules that speak.
LEMMA SumOfAll ==
    ASSUME NEW d \in Tables, NEW q \in RequestType, Listed(d, q), Decides(d, q), q.pc = "rule",
           q.left = {}
    PROVE  \E xs \in SpeakingIn(d, EffectiveRoles(d, q.user), q.host) :
               xs \in SUBSET Rule /\ SumsUp(q.dec, xs)
<1>1. q.roles \ q.left = EffectiveRoles(d, q.user)
  BY DEF Listed
<1>2. \E xs \in SpeakingIn(d, EffectiveRoles(d, q.user), q.host) : SumsUp(q.dec, xs)
  BY <1>1 DEF Decides, Heard
<1> QED
  BY <1>2, SpeakersAreRules

LEMMA VerdictCalm ==
    ASSUME ReadAsMeant, DeviceInv, CalmInv, NEW w \in Workers, AuthorVerdict(w)
    PROVE  CalmInv'
<1> DEFINE q == work[w]
           us == Enabled(db) \cap Named(q.login)
           Sets == SpeakingIn(db, EffectiveRoles(db, q.user), q.host)
<1>1. q.op = "author" /\ q.pc = "rule" /\ q.left = {}
  BY DEF AuthorVerdict, Decided
<1>2. q \in RequestType /\ db \in Tables /\ (q.calm => AuthorExact(db, live, q))
  BY <1>1, Current DEF Exact
<1>3. q.calm => /\ PortalUserExists(db, q.login) /\ ~(q.cmd = << >> /\ OnFortiGate(db, q))
                /\ q.user \in us /\ q.role = db.role[q.user]
                /\ Listed(db, q) /\ Decides(db, q) /\ db.tier[q.host] # NoTier
  BY <1>1, <1>2 DEF AuthorExact, Heading, Chosen, Decides
<1>4. q.calm => \E xs \in Sets : xs \in SUBSET Rule /\ SumsUp(q.dec, xs)
  BY <1>1, <1>2, <1>3, SumOfAll
<1>5. q.cmd \in Commands /\ q.dec \in Decision
  BY <1>2 DEF RequestType
<1>6. ASSUME NEW xs \in SUBSET Rule, SumsUp(q.dec, xs)
      PROVE  /\ ~q.dec.allowed => ~Permits(xs, q.cmd)
             /\ q.cmd = << >> /\ q.dec.allowed => Permits(xs, q.cmd)
             /\ q.cmd # << >> /\ q.dec.allowed =>
                    (Permits(xs, q.cmd) <=> CommandAllowed(q.cmd, q.dec.allow, q.dec.deny))
  <2>1. q.dec.allowed <=> xs # {}
    BY <1>6 DEF SumsUp
  <2>2. CASE q.cmd = << >>
    BY <2>1, <2>2 DEF Permits
  <2>3. CASE q.cmd # << >>
    <3>1. q.cmd \in Commands \ {<< >>}
      BY <1>5, <2>3
    <3>2. q.dec.allowed /\ CommandAllowed(q.cmd, q.dec.allow, q.dec.deny) <=> Permits(xs, q.cmd)
      BY <1>6, <3>1, SumPermits
    <3> QED
      BY <2>3, <3>2
  <2> QED
    BY <2>2, <2>3
<1>7. ASSUME NEW reply, Answer(w, reply), reply = "pass" => q.cmd # << >>,
             \A xs \in SUBSET Rule : SumsUp(q.dec, xs) => /\ Permits(xs, q.cmd) => reply = "pass"
                                                          /\ ~Permits(xs, q.cmd) => reply = "fail"
      PROVE  CalmInv'
  <2>1. q.calm => \E u \in us :
            \E xs \in SpeakingIn(db, EffectiveRoles(db, u), q.host) :
                /\ Permits(xs, q.cmd) => reply = "pass"
                /\ ~Permits(xs, q.cmd) => reply = "fail"
    BY <1>3, <1>4, <1>7
  <2> QED
    BY <1>1, <1>3, <1>7, <2>1, AuthorAnswerCalm
<1>8. CASE ~q.dec.allowed /\ Answer(w, "fail")
  BY <1>6, <1>7, <1>8
<1>9. CASE /\ q.dec.allowed /\ q.cmd # << >> /\ ~CommandAllowed(q.cmd, q.dec.allow, q.dec.deny)
           /\ Answer(w, "fail")
  BY <1>6, <1>7, <1>9
<1>10. CASE /\ q.dec.allowed /\ q.cmd # << >> /\ CommandAllowed(q.cmd, q.dec.allow, q.dec.deny)
            /\ Answer(w, "pass")
  BY <1>6, <1>7, <1>10
<1> DEFINE level == IF IsCiscoKind(KindOf[q.host]) /\ db.tier[q.host] # NoTier
                    THEN EffectiveCiscoPrivilege(q.dec, q.role) ELSE 0
           done == "done"
           pass == "pass"
           r == [q EXCEPT !.pc = done, !.reply = pass, !.level = level]
<1>11. CASE q.dec.allowed /\ q.cmd = << >> /\ Set(w, r)
  <2>1. Set(w, r) /\ done = "done" /\ pass = "pass"
    BY <1>11
  <2>2. q.calm /\ IsCiscoKind(KindOf[q.host]) => level = EffectiveCiscoPrivilege(q.dec, q.role)
    BY <1>3
  <2> HIDE DEF level, done, pass
  <2>3. Keeps(q, r) /\ r.pc = "done" /\ r.reply = "pass" /\ r.level = level
    BY <1>2, <2>1 DEF RequestType, Keeps, Same
  <2> HIDE DEF r
  <2>4. /\ r.op = "author" /\ r.login = q.login /\ r.cmd = q.cmd /\ r.calm = q.calm
        /\ r.host = q.host /\ (OnFortiGate(db, r) <=> OnFortiGate(db, q))
    BY <1>1, <2>3, RightStays DEF Keeps, Same
  <2>5. r.calm => Ruled(db, r)
    <3> SUFFICES ASSUME q.calm PROVE Ruled(db, r)
      BY <2>4
    <3>1. PICK xs \in Sets : xs \in SUBSET Rule /\ SumsUp(q.dec, xs)
      BY <1>4
    <3>2. Permits(xs, q.cmd)
      BY <1>6, <1>11, <3>1
    <3>3. EffectiveCiscoPrivilege(q.dec, q.role) = LevelOf(xs, db.role[q.user])
      BY <1>3, <1>5, <3>1, LevelIsHighest
    <3>4. q.user \in us
      BY <1>3
    <3> QED
      BY <2>2, <2>3, <2>4, <3>1, <3>2, <3>3, <3>4 DEF Ruled
  <2>6. r.calm => AuthorAnswered(db, r)
    BY <1>3, <2>3, <2>4, <2>5 DEF AuthorAnswered
  <2>7. r.calm => AuthorExact(db, live, r)
    BY <2>3, <2>6 DEF AuthorExact, Heading, Decides, Fortinet
  <2> QED
    BY <2>1, <2>4, <2>7, AuthorMoves
<1> QED
  BY <1>8, <1>9, <1>10, <1>11 DEF AuthorVerdict

\* RADIUS.
LEMMA RadiusMoves ==
    ASSUME DeviceInv, CalmInv, NEW w \in Workers, NEW r, Set(w, r), r.op = "radius",
           r.calm => RadiusExact(db, r)
    PROVE  CalmInv'
BY CalmStep DEF Set, Exact

\* An answer that does not let in.
LEMMA RadiusRefuses ==
    ASSUME DeviceInv, CalmInv, NEW w \in Workers, work[w].op = "radius",
           NEW reply, reply # "pass", Answer(w, reply)
    PROVE  CalmInv'
<1> DEFINE q == work[w]
           done == "done"
           r == [q EXCEPT !.pc = done, !.reply = reply]
<1>1. q \in RequestType
  BY Current
<1>2. Set(w, r) /\ done = "done"
  BY DEF Answer
<1> HIDE DEF done
<1>3. Keeps(q, r) /\ r.pc = "done" /\ r.reply = reply
  BY <1>1, <1>2 DEF RequestType, Keeps, Same
<1> HIDE DEF r
<1>4. r.op = "radius" /\ RadiusExact(db, r)
  BY <1>3 DEF RadiusExact, RadiusAnswered, Decides, Keeps, Same
<1> QED
  BY <1>2, <1>4, RadiusMoves

\* An answer with a level.
LEMMA AcceptCalm ==
    ASSUME DeviceInv, CalmInv, NEW w \in Workers, work[w].op = "radius", NEW level,
           Accept(w, level),
           work[w].calm =>
               LET q == work[w]
               IN  \/ DevicePassword(q.host, q.pass)
                   \/ /\ AuthLogin(db, q.login, q.pass)
                      /\ \E u \in UserInfo(db, q.login) :
                            \/ level = PrivLevelForRole(db.role[u])
                            \/ \E xs \in SpeakingIn(db, EffectiveRoles(db, u), q.host) :
                                  xs # {} /\ level = LevelOf(xs, db.role[u])
    PROVE  CalmInv'
<1> DEFINE q == work[w]
           done == "done"
           pass == "pass"
           r == [q EXCEPT !.pc = done, !.reply = pass, !.level = level]
<1>1. q \in RequestType
  BY Current
<1>2. Set(w, r) /\ done = "done" /\ pass = "pass"
  BY DEF Accept
<1> HIDE DEF done, pass
<1>3. Keeps(q, r) /\ r.pc = "done" /\ r.level = level
  BY <1>1, <1>2 DEF RequestType, Keeps, Same
<1> HIDE DEF r
<1>4. /\ r.op = "radius" /\ r.login = q.login /\ r.host = q.host /\ r.pass = q.pass
      /\ r.calm = q.calm
  BY <1>3 DEF Keeps, Same
<1>5. r.calm => RadiusAnswered(db, r)
  BY <1>3, <1>4 DEF RadiusAnswered
<1>6. r.calm => RadiusExact(db, r)
  BY <1>3, <1>5 DEF RadiusExact, Decides
<1> QED
  BY <1>2, <1>4, <1>6, RadiusMoves

LEMMA ClientsCalm ==
    ASSUME DeviceInv, CalmInv, NEW w \in Workers,
           RadiusClients(w) \/ RadiusInstall(w) \/ RadiusClient(w)
    PROVE  CalmInv'
<1> DEFINE q == work[w]
<1>1. q.op = "radius" /\ q.pc \in {"clients", "install", "client"}
  BY DEF RadiusClients, RadiusInstall, RadiusClient, At
<1>2. q \in RequestType /\ (q.calm => RadiusExact(db, q))
  BY <1>1, Current DEF Exact
<1>3. q.calm => q.dec = NoDecision
  BY <1>1, <1>2 DEF RadiusExact
<1>4. ASSUME NEW r, r.op = "radius", r.calm = q.calm, r.dec = q.dec,
             r.pc \in {"clients", "install", "client", "device"}
      PROVE  r.calm => RadiusExact(db, r)
  BY <1>3, <1>4 DEF RadiusExact, Decides
<1>5. ASSUME NEW pc \in {"client", "device"}, Goto(w, pc)
      PROVE  CalmInv'
  <2> DEFINE r == [q EXCEPT !.pc = pc]
  <2>1. Set(w, r)
    BY <1>5 DEF Goto
  <2>2. Keeps(q, r) /\ r.pc = pc
    BY <1>2, GotoKeeps
  <2> HIDE DEF r
  <2> QED
    BY <1>1, <1>4, <2>1, <2>2, RadiusMoves DEF Keeps, Same
<1>6. CASE RadiusClients(w)
  <2> DEFINE copy == db.client
             install == "install"
             r == [q EXCEPT !.copy = copy, !.pc = install]
  <2>1. Set(w, r) \/ Goto(w, "client")
    BY <1>6 DEF RadiusClients
  <2>2. install = "install"
    OBVIOUS
  <2> HIDE DEF copy, install
  <2>3. r.op = q.op /\ r.calm = q.calm /\ r.dec = q.dec /\ r.pc = "install"
    BY <1>2, <2>2 DEF RequestType
  <2> HIDE DEF r
  <2> QED
    BY <1>1, <1>4, <1>5, <2>1, <2>3, RadiusMoves
<1>7. CASE RadiusInstall(w)
  <2> DEFINE copy == << >>
             client == "client"
             r == [q EXCEPT !.pc = client, !.copy = copy]
  <2>1. client = "client" /\ copy = << >> /\ w \in DOMAIN work
    BY DEF DeviceInv
  <2>2. work' = [[work EXCEPT ![w].pc = client] EXCEPT ![w].copy = copy] /\ UNCHANGED <<db, live>>
    BY <1>7, <2>1 DEF RadiusInstall
  <2> HIDE DEF copy, client
  <2>3. work' = [work EXCEPT ![w] = r]
    BY <2>1, <2>2
  <2>4. r.op = q.op /\ r.calm = q.calm /\ r.dec = q.dec /\ r.pc = "client"
    BY <1>2, <2>1 DEF RequestType
  <2> HIDE DEF r
  <2>5. r.calm => Exact(db, live, r)
    BY <1>1, <1>4, <2>4 DEF Exact
  <2> QED
    BY <2>2, <2>3, <2>5, CalmStep
<1>8. CASE RadiusClient(w)
  BY <1>1, <1>5, <1>8, RadiusRefuses DEF RadiusClient, Unknown
<1> QED
  BY <1>6, <1>7, <1>8

LEMMA RadiusAccountCalm ==
    ASSUME DeviceInv, CalmInv, NEW w \in Workers,
           RadiusDevice(w) \/ RadiusInfo(w) \/ RadiusRoles(w) \/ RadiusLogin(w)
    PROVE  CalmInv'
<1> DEFINE q == work[w]
           own == DevicePassword(q.host, q.pass)
<1>1. q.op = "radius" /\ q.pc \in {"device", "info", "roles", "login"}
  BY DEF RadiusDevice, RadiusInfo, RadiusRoles, RadiusLogin, At
<1>2. q \in RequestType /\ (q.calm => RadiusExact(db, q))
  BY <1>1, Current DEF Exact
<1>3. q.calm /\ ~own => /\ q.dec = NoDecision
                        /\ q.pc \in {"roles", "login"} => Chosen(db, UserInfo(db, q.login), q)
                        /\ q.pc = "login" => Listed(db, q) /\ q.left = q.roles
  BY <1>1, <1>2 DEF RadiusExact, Decides
<1>4. ASSUME NEW r, Same(q, r)
      PROVE  /\ r.op = "radius" /\ r.login = q.login /\ r.pass = q.pass /\ r.host = q.host
             /\ DevicePassword(r.host, r.pass) <=> own
  BY <1>1, <1>4 DEF Same
<1>5. ASSUME NEW pc \in {"info", "target"}, Goto(w, pc), pc = "info" \/ q.pc = "login",
             pc = "target" => AuthLogin(db, q.login, q.pass)
      PROVE  CalmInv'
  <2> DEFINE r == [q EXCEPT !.pc = pc]
  <2>1. Set(w, r)
    BY <1>5 DEF Goto
  <2>2. Keeps(q, r) /\ r.pc = pc
    BY <1>2, GotoKeeps
  <2> HIDE DEF r
  <2>3. r.calm /\ ~own /\ pc = "target" =>
            Chosen(db, UserInfo(db, q.login), r) /\ Listed(db, r) /\ r.left = r.roles
    BY <1>3, <1>5, <2>2 DEF Chosen, Listed, Keeps
  <2>4. r.calm => RadiusExact(db, r)
    BY <1>3, <1>4, <1>5, <2>2, <2>3 DEF RadiusExact, Decides, Keeps
  <2> QED
    BY <1>4, <2>1, <2>2, <2>4, RadiusMoves DEF Keeps
<1>6. CASE RadiusDevice(w)
  <2> DEFINE admin == "admin"
             roles == {"admin"}
             target == "target"
             r == [q EXCEPT !.role = admin, !.roles = roles, !.left = roles, !.pc = target]
  <2>1. (own /\ Set(w, r)) \/ Goto(w, "info")
    BY <1>6 DEF RadiusDevice
  <2>2. target = "target"
    OBVIOUS
  <2> HIDE DEF admin, roles, target
  <2>3. Same(q, r) /\ r.pc = "target"
    BY <1>2, <2>2 DEF RequestType, Same
  <2> HIDE DEF r
  <2>4. own => RadiusExact(db, r)
    BY <1>4, <2>3 DEF RadiusExact
  <2> QED
    BY <1>4, <1>5, <2>1, <2>3, <2>4, RadiusMoves
<1>7. CASE RadiusInfo(w)
  <2>1. CASE UserInfo(db, q.login) = {} /\ Unknown(w)
    BY <1>1, <2>1, RadiusRefuses DEF Unknown
  <2>2. ASSUME NEW u \in UserInfo(db, q.login),
               Set(w, [q EXCEPT !.user = u, !.role = db.role[u], !.pc = "roles"])
        PROVE  CalmInv'
    <3> DEFINE role == db.role[u]
               roles == "roles"
               r == [q EXCEPT !.user = u, !.role = role, !.pc = roles]
    <3>1. Set(w, r) /\ role = db.role[u] /\ roles = "roles"
      BY <2>2
    <3> HIDE DEF role, roles
    <3>2. Same(q, r) /\ r.calm = q.calm /\ r.dec = q.dec
          /\ r.pc = "roles" /\ r.user = u /\ r.role = role
      BY <1>2, <3>1 DEF RequestType, Same
    <3> HIDE DEF r
    <3>3. r.calm => RadiusExact(db, r)
      BY <1>3, <1>4, <2>2, <3>1, <3>2 DEF RadiusExact, Decides, Chosen
    <3> QED
      BY <1>4, <3>1, <3>2, <3>3, RadiusMoves
  <2> QED
    BY <1>7, <2>1, <2>2 DEF RadiusInfo
<1>8. CASE RadiusRoles(w)
  <2> DEFINE rs == {q.role} \cup db.granted[q.user]
             login == "login"
             r == [q EXCEPT !.roles = rs, !.left = rs, !.pc = login]
  <2>1. Set(w, r) /\ login = "login" /\ q.pc = "roles"
    BY <1>8 DEF RadiusRoles, At
  <2>2. q.calm /\ ~own => Chosen(db, UserInfo(db, q.login), q) /\ rs = EffectiveRoles(db, q.user)
    BY <1>3, <2>1 DEF Chosen, EffectiveRoles
  <2> HIDE DEF rs, login
  <2>3. /\ Same(q, r) /\ r.calm = q.calm /\ r.dec = q.dec /\ r.user = q.user /\ r.role = q.role
        /\ r.pc = "login" /\ r.roles = rs /\ r.left = rs
    BY <1>2, <2>1 DEF RequestType, Same
  <2> HIDE DEF r
  <2>4. r.calm => RadiusExact(db, r)
    BY <1>3, <1>4, <2>2, <2>3 DEF RadiusExact, Decides, Chosen, Listed
  <2> QED
    BY <1>4, <2>1, <2>3, <2>4, RadiusMoves
<1>9. CASE RadiusLogin(w)
  <2> DEFINE done == "done"
             fail == "fail"
             r == [q EXCEPT !.calm = FALSE, !.pc = done, !.reply = fail]
  <2>1. /\ q.pc = "login"
        /\ \/ AuthLogin(db, q.login, q.pass) /\ Goto(w, "target")
           \/ Answer(w, "fail")
           \/ Set(w, r)
    BY <1>9 DEF RadiusLogin, At
  <2> HIDE DEF done, fail
  <2>2. r.calm = FALSE /\ r.op = "radius"
    BY <1>1, <1>2 DEF RequestType
  <2> HIDE DEF r
  <2> QED
    BY <1>1, <1>5, <2>1, <2>2, RadiusRefuses, RadiusMoves
<1> QED
  BY <1>6, <1>7, <1>8, <1>9

LEMMA RadiusLevelCalm ==
    ASSUME DeviceInv, CalmInv, NEW w \in Workers, RadiusTarget(w) \/ RadiusVerdict(w)
    PROVE  CalmInv'
<1> DEFINE q == work[w]
           own == DevicePassword(q.host, q.pass)
<1>1. q.op = "radius" /\ q.pc \in {"target", "rule"}
  BY DEF RadiusTarget, RadiusVerdict, At, Decided
<1>2. q \in RequestType /\ db \in Tables /\ (q.calm => RadiusExact(db, q))
  BY <1>1, Current DEF Exact
<1>3. q.calm /\ ~own => /\ q.user \in UserInfo(db, q.login) /\ q.role = db.role[q.user]
                        /\ Listed(db, q) /\ Decides(db, q) /\ AuthLogin(db, q.login, q.pass)
  BY <1>1, <1>2 DEF RadiusExact, Chosen
<1>4. CASE Accept(w, PrivLevelForRole(q.role))
  BY <1>1, <1>3, <1>4, AcceptCalm
<1>5. CASE RadiusTarget(w)
  <2>1. CASE db.tier[q.host] # NoTier /\ Set(w, [q EXCEPT !.tier = db.tier[q.host], !.pc = "rule"])
    <3> DEFINE tier == db.tier[q.host]
               rule == "rule"
               r == [q EXCEPT !.tier = tier, !.pc = rule]
    <3>1. Set(w, r) /\ tier = db.tier[q.host] /\ rule = "rule" /\ q.pc = "target"
      BY <1>5, <2>1 DEF RadiusTarget, At
    <3> HIDE DEF tier, rule
    <3>2. /\ Same(q, r) /\ r.calm = q.calm /\ r.dec = q.dec /\ r.user = q.user /\ r.role = q.role
          /\ r.roles = q.roles /\ r.left = q.left /\ r.pc = "rule" /\ r.tier = tier
      BY <1>2, <3>1 DEF RequestType, Same
    <3> HIDE DEF r
    <3>3. r.op = "radius" /\ r.login = q.login /\ r.pass = q.pass /\ r.host = q.host
      BY <1>1, <3>2 DEF Same
    <3>4. q.calm /\ ~own => Heard(db, r)
      <4>1. q.calm /\ ~own => r.roles \ r.left = {} /\ r.dec = NoDecision
        BY <1>3, <3>1, <3>2 DEF Decides
      <4> QED
        BY <4>1, NobodySpeaks DEF Heard
    <3>5. r.calm => RadiusExact(db, r)
      BY <1>3, <2>1, <3>1, <3>2, <3>3, <3>4 DEF RadiusExact, Decides, Chosen, Listed
    <3> QED
      BY <3>1, <3>3, <3>5, RadiusMoves
  <2> QED
    BY <1>4, <1>5, <2>1 DEF RadiusTarget
<1>6. CASE RadiusVerdict(w)
  <2>1. CASE q.dec.allowed /\ Accept(w, EffectiveCiscoPrivilege(q.dec, q.role))
    <3> DEFINE level == EffectiveCiscoPrivilege(q.dec, q.role)
    <3>1. ASSUME q.calm, ~own
          PROVE  \E xs \in SpeakingIn(db, EffectiveRoles(db, q.user), q.host) :
                     xs # {} /\ level = LevelOf(xs, db.role[q.user])
      <4>1. q.pc = "rule" /\ q.left = {}
        BY <1>6 DEF RadiusVerdict, Decided
      <4>2. PICK xs \in SpeakingIn(db, EffectiveRoles(db, q.user), q.host) :
                xs \in SUBSET Rule /\ SumsUp(q.dec, xs)
        BY <1>2, <1>3, <3>1, <4>1, SumOfAll
      <4>3. q.dec \in Decision
        BY <1>2 DEF RequestType
      <4>4. level = LevelOf(xs, q.role)
        BY <4>2, <4>3, LevelIsHighest
      <4>5. xs # {}
        BY <2>1, <4>2 DEF SumsUp
      <4> QED
        BY <1>3, <3>1, <4>2, <4>4, <4>5
    <3>2. Accept(w, level)
      BY <2>1
    <3> HIDE DEF level
    <3> QED
      BY <1>1, <1>3, <3>1, <3>2, AcceptCalm
  <2>2. \/ q.dec.allowed /\ Accept(w, EffectiveCiscoPrivilege(q.dec, q.role))
        \/ Accept(w, PrivLevelForRole(q.role))
    BY <1>6 DEF RadiusVerdict
  <2> QED
    BY <1>4, <2>1, <2>2
<1> QED
  BY <1>5, <1>6

\* Requests arrive, and tables change.
LEMMA BegunCalm ==
    ASSUME DeviceInv, CalmInv, NEW w \in Workers, NEW x, NEW p \in RequestType, NEW pc,
           Arrive(w, x, p, pc), p.ok = FALSE, p.dec = NoDecision,
           \/ p.op = "authen" /\ pc \in {"device", "prompt"}
           \/ p.op = "authen" /\ pc = "done" /\ p.svc = "chap"
           \/ p.op = "author" /\ pc = "exists"
           \/ p.op = "radius" /\ pc = "clients"
    PROVE  CalmInv'
<1> DEFINE q == Witness(db, p)
           r == [q EXCEPT !.pc = pc]
<1>1. work' = [work EXCEPT ![w] = r] /\ UNCHANGED <<db, live>>
  BY DEF Arrive
<1>2. q \in RequestType /\ q.op = p.op /\ q.ok = p.ok /\ q.dec = p.dec /\ q.svc = p.svc
  BY Witnessed DEF DeviceInv
<1> HIDE DEF q
<1>3. r.op = p.op /\ r.ok = FALSE /\ r.dec = NoDecision /\ r.svc = p.svc /\ r.pc = pc
  BY <1>2 DEF RequestType
<1> HIDE DEF r
<1> SUFFICES Exact(db, live, r)
  BY <1>1, CalmStep
<1>4. CASE p.op = "authen" /\ pc \in {"device", "prompt"}
  <2>1. AuthenExact(db, r)
    BY <1>3, <1>4 DEF AuthenExact
  <2> QED
    BY <1>3, <1>4, <2>1 DEF Exact
<1>5. CASE p.op = "authen" /\ pc = "done" /\ p.svc = "chap"
  <2>1. AuthenExact(db, r)
    BY <1>3, <1>5 DEF AuthenExact, AuthenAnswered
  <2> QED
    BY <1>3, <1>5, <2>1 DEF Exact
<1>6. CASE p.op = "author" /\ pc = "exists"
  <2>1. AuthorExact(db, live, r)
    BY <1>3, <1>6 DEF AuthorExact, Heading, Fortinet, Decides
  <2> QED
    BY <1>3, <1>6, <2>1 DEF Exact
<1>7. CASE p.op = "radius" /\ pc = "clients"
  <2>1. RadiusExact(db, r)
    BY <1>3, <1>7 DEF RadiusExact, Decides
  <2> QED
    BY <1>3, <1>7, <2>1 DEF Exact
<1> QED
  BY <1>4, <1>5, <1>6, <1>7

LEMMA ArriveCalm ==
    ASSUME DeviceInv, CalmInv, NEW w \in Workers,
           AuthenStart(w) \/ AuthorRequest(w) \/ RadiusRequest(w)
    PROVE  CalmInv'
<1>1. ASSUME NEW x \in Inputs
      PROVE  /\ Request(x) \in RequestType /\ Request(x).op = x.op /\ Request(x).svc = x.svc
             /\ Request(x).ok = FALSE /\ Request(x).dec = NoDecision
  <2>1. x \in Input
    BY DeviceAssumption
  <2> QED
    BY <2>1, RequestTyped DEF Request
<1>2. CASE AuthenStart(w)
  <2>1. PICK x \in Inputs :
            /\ x.op = "authen"
            /\ Arrive(w, x, [Request(x) EXCEPT !.reply = IF x.svc = "chap" THEN "fail" ELSE ""],
                      CASE x.svc = "pap" -> "device" [] x.svc = "ascii" -> "prompt"
                        [] OTHER -> "done")
    BY <1>2 DEF AuthenStart
  <2> DEFINE reply == IF x.svc = "chap" THEN "fail" ELSE ""
             pc == CASE x.svc = "pap" -> "device" [] x.svc = "ascii" -> "prompt"
                     [] OTHER -> "done"
             q == Request(x)
             p == [q EXCEPT !.reply = reply]
  <2>2. Arrive(w, x, p, pc)
    BY <2>1
  <2>3. reply \in Reply
    BY DEF Reply
  <2>4. q \in RequestType /\ q.op = "authen" /\ q.ok = FALSE /\ q.svc = x.svc
        /\ q.dec = NoDecision
    BY <1>1, <2>1
  <2>5. x.svc \in {"pap", "ascii", "chap"}
    BY <2>1, DeviceAssumption DEF Input
  <2>6. pc \in {"device", "prompt"} \/ (pc = "done" /\ x.svc = "chap")
    BY <2>5
  <2> HIDE DEF q, pc, reply
  <2>7. p \in RequestType
    BY <2>3, <2>4, AnsweredTyped
  <2>8. p.op = "authen" /\ p.ok = FALSE /\ p.svc = x.svc /\ p.dec = NoDecision
    BY <2>4 DEF RequestType
  <2> HIDE DEF p
  <2> QED
    BY <2>2, <2>6, <2>7, <2>8, BegunCalm
<1>3. CASE AuthorRequest(w)
  <2>1. PICK x \in Inputs : x.op = "author" /\ Arrive(w, x, Request(x), "exists")
    BY <1>3 DEF AuthorRequest
  <2> QED
    BY <1>1, <2>1, BegunCalm
<1>4. CASE RadiusRequest(w)
  <2>1. PICK x \in Inputs : x.op = "radius" /\ Arrive(w, x, Request(x), "clients")
    BY <1>4 DEF RadiusRequest
  <2> QED
    BY <1>1, <2>1, BegunCalm
<1> QED
  BY <1>2, <1>3, <1>4

LEMMA ChangeCalm ==
    ASSUME DeviceInv, NEW d, Change(d)
    PROVE  CalmInv'
<1> SUFFICES ASSUME NEW w \in Workers, work'[w].op # "idle", work'[w].calm
             PROVE  FALSE
  BY DEF CalmInv
<1>1. CASE Running(w)
  <2>1. Sound(db, work[w]) /\ work'[w] = [Witness(d, work[w]) EXCEPT !.calm = FALSE]
    BY <1>1, AtWork DEF Change, Running
  <2> QED
    BY <2>1 DEF Witness, Sound, Typed, RequestType
<1>2. CASE ~Running(w) /\ work[w].op # "idle"
  <2>1. Sound(db, work[w]) /\ work'[w] = [work[w] EXCEPT !.calm = FALSE]
    BY <1>2, AtWork DEF Change
  <2> QED
    BY <2>1 DEF Sound, Typed, RequestType
<1>3. CASE ~Running(w) /\ work[w].op = "idle"
  BY <1>3 DEF Change
<1> QED
  BY <1>1, <1>2, <1>3

LEMMA AdministerCalm ==
    ASSUME DeviceInv, Administer
    PROVE  CalmInv'
<1>1. \E d : Change(d)
  BY DEF Administer, EditUser, EditRules, PolicyServiceStarts, EditDevices, SaveFortinet
<1> QED
  BY <1>1, ChangeCalm

LEMMA CalmHolds ==
    ASSUME ReadAsMeant, DeviceInv, CalmInv, [Next]_vars
    PROVE  CalmInv'
<1>1. ASSUME NEW w \in Workers, TacacsStep(w) PROVE CalmInv'
  BY <1>1, AuthenCalm, NoteCalm, ApplyCalm, AuthorWayCalm, FortinetCalm, AccountCalm, VerdictCalm
     DEF TacacsStep
<1>2. ASSUME NEW w \in Workers, RadiusStep(w) PROVE CalmInv'
  BY <1>2, ClientsCalm, RadiusAccountCalm, RadiusLevelCalm DEF RadiusStep
<1>3. CASE CacheExpires
  BY <1>3 DEF CacheExpires, CalmInv
<1>4. CASE UNCHANGED vars
  BY <1>4 DEF vars, CalmInv
<1> QED
  BY <1>1, <1>2, <1>3, <1>4, ArriveCalm, DecideCalm, AdministerCalm DEF Next

\* A request of handleAuthen, handleAuthor or handleAuth that nobody disturbs is
\* answered as the tables say, for any users, roles, rules and devices, whatever
\* other requests run beside it: the queries of one request add up to one look
\* at the tables.  The one thing asked of commands is that the canonical
\* spelling tells them apart as devices do.
THEOREM UndisturbedAnswersFit ==
    ASSUME ReadAsMeant
    PROVE  Spec => []AnswersFit
<1>1. Init => CalmInv
  <2> SUFFICES ASSUME Init PROVE CalmInv
    OBVIOUS
  <2>1. \A w \in Workers : work[w].op = "idle"
    BY DEF Init, Idle
  <2> QED
    BY <2>1 DEF CalmInv
<1>2. DeviceInv /\ CalmInv /\ [Next]_vars => CalmInv'
  BY CalmHolds
<1>3. DeviceInv /\ CalmInv => AnswersFit
  <2> SUFFICES ASSUME DeviceInv, CalmInv, NEW w \in Workers, Done(w), work[w].calm
               PROVE  CASE work[w].op = "authen" -> AuthenFits(work[w])
                        [] work[w].op = "author" -> AuthorFits(work[w])
                        [] work[w].op = "radius" -> RadiusFits(work[w])
    BY DEF AnswersFit
  <2> DEFINE q == work[w]
  <2>1. q \in RequestType /\ Exact(db, live, q) /\ q.pc = "done"
    BY Current DEF Done
  <2>2. /\ q.op = "authen" => AuthenFits(q)
        /\ q.op = "author" => AuthorFits(q)
        /\ q.op = "radius" => RadiusFits(q)
    BY <2>1, AnsweredFits
  <2>3. q.op \in {"authen", "author", "radius"}
    BY <2>1 DEF RequestType
  <2> QED
    BY <2>2, <2>3
<1> QED
  BY <1>1, <1>2, <1>3, DeviceInvariant, PTL DEF Spec

=============================================================================
