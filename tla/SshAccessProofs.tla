--------------------------- MODULE SshAccessProofs ---------------------------
(***************************************************************************)
(* Proofs about SshAccess: a connection's entry is earned, sudo follows the *)
(* grants, and everything keeps its type.                                  *)
(***************************************************************************)
EXTENDS SshAccess, FiniteSetTheorems, WellFoundedInduction, TLAPS

-----------------------------------------------------------------------------
(* The invariant: what a connection holds agrees with what it witnessed.   *)

Fields == {"pc", "login", "host", "via", "right", "pw", "role", "roles", "left", "dec",
           "tier", "priv", "retry", "kept", "as", "open", "had", "tiers", "could", "lifts",
           "asRole", "byGroup", "granted", "sudo"}

DecFields == {"allowed", "approval", "allow", "deny", "linux", "cisco"}

Dialling == {"handle", "privileged", "passthrough", "bootstrap", "useradd", "chpasswd",
             "sudoers", "login", "dialled", "shell"}

\* A connection that is neither idle nor over has all its fields.
Shape(q) ==
    /\ DOMAIN q = Fields /\ DOMAIN q.dec = DecFields
    /\ q.login \in Logins /\ q.host \in Hosts
    /\ q.pc \in Handshake \cup Dialling
    /\ q.via \in {"native", "browser"}

\* The witnesses know the tables of now.
Fresh(d, q) ==
    LET u == OwnerOf[q.login]
    IN  /\ d.account[u] = "enabled" => q.open
        /\ EffectiveRoles(d, u) \subseteq q.had
        /\ d.tier[q.host] \in q.tiers
        /\ \A x \in Reaching(d, q.host, q.tiers) :
               x.role \in q.could /\ (x.linux > 0 => x.role \in q.lifts)
        /\ q.asRole \subseteq {d.role[u]} /\ q.byGroup \subseteq d.granted[u]
        /\ q.asRole \cup q.byGroup \subseteq Demanding(d, q.host, q.tiers)
        /\ IsApproved(d, u, q.host) \/ <<u, q.host>> \in d.birthright => q.granted
        /\ ActiveSudoGranted(d, u, q.host) => q.sudo

\* What was read was witnessed.
Honest(q) ==
    /\ q.via = "native" /\ q.pc # "auth" => q.open
    /\ q.pc = "role" => q.via # "native"
    /\ q.pc = "roles" \/ (q.pc = "target" /\ q.via = "native") =>
           q.role \in q.had /\ q.asRole \subseteq {q.role}
    /\ q.pc \in {"role", "roles", "rule"} => q.tier \in q.tiers
    /\ q.pc = "rule" =>
           q.left \subseteq q.had /\ (q.dec.approval \/ q.asRole \cup q.byGroup \subseteq q.left)
    /\ q.dec.allowed => q.had \cap q.could # {}
    /\ q.dec.linux > 0 => Earned(q)
    /\ q.pc \in {"birthright", "grant", "sudo"} \cup Dialling => q.dec.allowed
    /\ q.pc \in {"sudo"} \cup Dialling =>
           (q.asRole \cup q.byGroup # {} => q.granted)

Sound(d, q) ==
    \/ q = Idle \/ q = Over
    \/ Shape(q) /\ (q.pc \in Handshake => Fresh(d, q)) /\ Honest(q)

ConnInv == DOMAIN conn = Conns /\ \A c \in Conns : Sound(db, conn[c])

-----------------------------------------------------------------------------
(* Administrators' changes, and the beginning.                             *)

\* What a witness w knows of the tables d, and what q knew before.
Learnt(d, q, w) ==
    LET u == OwnerOf[q.login]
        tiers == q.tiers \cup {d.tier[q.host]}
        reaching == Reaching(d, q.host, tiers)
    IN  /\ DOMAIN w = Fields
        /\ w.pc = q.pc /\ w.login = q.login /\ w.host = q.host /\ w.via = q.via
        /\ w.role = q.role /\ w.left = q.left /\ w.dec = q.dec /\ w.tier = q.tier
        /\ w.open = (q.open \/ d.account[u] = "enabled")
        /\ w.had = q.had \cup EffectiveRoles(d, u)
        /\ w.tiers = tiers
        /\ w.could = q.could \cup {x.role : x \in reaching}
        /\ w.lifts = q.lifts \cup {x.role : x \in {y \in reaching : y.linux > 0}}
        /\ w.asRole = q.asRole \cap {d.role[u]} \cap Demanding(d, q.host, tiers)
        /\ w.byGroup = q.byGroup \cap d.granted[u] \cap Demanding(d, q.host, tiers)
        /\ w.granted = (q.granted \/ IsApproved(d, u, q.host) \/ <<u, q.host>> \in d.birthright)
        /\ w.sudo = (q.sudo \/ ActiveSudoGranted(d, u, q.host))

LEMMA WitnessLearns ==
    ASSUME NEW d, NEW q, Shape(q), q.pc \in Handshake
    PROVE  Learnt(d, q, Witness(d, q))
BY DEF Witness, Shape, Fields, Learnt

\* After a change every handshake knows the new tables.
LEMMA WitnessFresh ==
    ASSUME NEW d, NEW q, Shape(q), NEW w, Learnt(d, q, w)
    PROVE  Shape(w) /\ Fresh(d, w)
<1>1. Shape(w)
  BY DEF Shape, Learnt
<1>2. Fresh(d, w)
  BY DEF Fresh, Learnt
<1> QED
  BY <1>1, <1>2

\* What was read before stays witnessed.
LEMMA WitnessHonest ==
    ASSUME NEW d, NEW q, Honest(q), NEW w, Learnt(d, q, w)
    PROVE  Honest(w)
<1>1. /\ w.pc = q.pc /\ w.via = q.via /\ w.role = q.role /\ w.left = q.left
      /\ w.dec = q.dec /\ w.tier = q.tier
      /\ q.open => w.open
      /\ q.had \subseteq w.had /\ q.tiers \subseteq w.tiers
      /\ q.could \subseteq w.could /\ q.lifts \subseteq w.lifts
      /\ w.asRole \subseteq q.asRole /\ w.byGroup \subseteq q.byGroup
      /\ q.granted => w.granted
      /\ q.sudo => w.sudo
  BY DEF Learnt
<1>2. Earned(q) => Earned(w)
  BY <1>1 DEF Earned
<1> QED
  BY <1>1, <1>2 DEF Honest

LEMMA WitnessSound ==
    ASSUME NEW d, NEW e, NEW q, Sound(d, q)
    PROVE  Sound(e, Witness(e, q))
<1>1. CASE q = Idle \/ q = Over
  BY <1>1 DEF Witness, Idle, Over, Handshake, Sound
<1>2. CASE Shape(q) /\ Honest(q) /\ q.pc \in Handshake
  BY <1>2, WitnessLearns, WitnessFresh, WitnessHonest DEF Sound
<1>3. CASE Shape(q) /\ Honest(q) /\ q.pc \notin Handshake
  BY <1>3 DEF Witness, Sound
<1> QED
  BY <1>1, <1>2, <1>3 DEF Sound

\* A connection begins sound.
LEMMA BeginSound ==
    ASSUME NEW d, NEW x \in Inputs
    PROVE  Sound(d, Witness(d, Connection(x)))
<1> DEFINE q == Connection(x)
<1>1. /\ x.login \in Logins /\ x.host \in Hosts /\ x.via \in {"native", "browser"}
  BY AccessAssumption
<1>2. Shape(q) /\ q.pc \in Handshake
  BY <1>1 DEF Connection, Shape, Fields, DecFields, NoDecision, Handshake
<1>3. /\ q.pc = (IF x.via = "native" THEN "auth" ELSE "target") /\ q.via = x.via
      /\ q.dec = NoDecision
  BY DEF Connection
<1> HIDE DEF q
<1>4. Honest(q)
  BY <1>1, <1>3 DEF Honest, NoDecision, Dialling
<1>5. Sound(d, Witness(d, q))
  BY <1>2, <1>4, WitnessLearns, WitnessFresh, WitnessHonest DEF Sound
<1> QED
  BY <1>5 DEF q

-----------------------------------------------------------------------------
(* Sign-in and authorization.                                              *)

\* A step of a connection changes nothing it has witnessed.
SameWitness(q, w) ==
    /\ DOMAIN w = Fields /\ w.login = q.login /\ w.host = q.host /\ w.via = q.via
    /\ w.open = q.open /\ w.had = q.had /\ w.tiers = q.tiers
    /\ w.could = q.could /\ w.lifts = q.lifts
    /\ w.asRole = q.asRole /\ w.byGroup = q.byGroup
    /\ w.granted = q.granted /\ w.sudo = q.sudo

LEMMA StepSound ==
    ASSUME NEW d, NEW q, Shape(q), q.pc \in Handshake => Fresh(d, q),
           NEW w, SameWitness(q, w), w.pc \in Handshake => q.pc \in Handshake,
           w.pc \in Handshake \cup Dialling, DOMAIN w.dec = DecFields, Honest(w)
    PROVE  Sound(d, w)
<1>1. Shape(w)
  BY DEF Shape, SameWitness
<1>2. w.pc \in Handshake => Fresh(d, w)
  BY DEF Fresh, SameWitness
<1> QED
  BY <1>1, <1>2 DEF Sound

LEMMA SetSound ==
    ASSUME ConnInv, NEW c \in Conns, NEW q, Set(c, q), Sound(db, q)
    PROVE  ConnInv'
BY DEF ConnInv, Set

LEMMA OverSound == \A d : Sound(d, Over)
BY DEF Sound

\* A step of the authorization ends the connection or leads on to the next.
Judged(c) ==
    \E w : /\ Set(c, w)
           /\ \/ w = Over
              \/ SameWitness(conn[c], w) /\ w.pc \notin {"login", "dialled", "shell"}

LEMMA MoveSound ==
    ASSUME ConnInv, NEW c \in Conns, conn[c].pc \in Handshake \cup Dialling,
           NEW w, Set(c, w), SameWitness(conn[c], w),
           w.pc \in Handshake => conn[c].pc \in Handshake,
           w.pc \in Handshake \cup {"handle"}, DOMAIN w.dec = DecFields, Honest(w)
    PROVE  ConnInv' /\ Judged(c)
<1>1. Sound(db, conn[c]) /\ conn[c] # Idle /\ conn[c] # Over
  BY DEF ConnInv, Idle, Over, Handshake, Dialling
<1>2. Sound(db, w)
  BY <1>1, StepSound DEF Sound, Dialling
<1>3. Judged(c)
  BY DEF Judged, Handshake
<1> QED
  BY <1>2, <1>3, SetSound

\* A handshake at work is sound.
LEMMA AtWork ==
    ASSUME ConnInv, NEW c \in Conns, conn[c].pc \in Handshake
    PROVE  Shape(conn[c]) /\ Fresh(db, conn[c]) /\ Honest(conn[c])
BY DEF ConnInv, Sound, Idle, Over, Handshake

LEMMA EndSound ==
    ASSUME ConnInv, NEW c \in Conns, End(c)
    PROVE  ConnInv' /\ Judged(c)
BY SetSound, OverSound DEF End, Judged

LEMMA AuthenticateSound ==
    ASSUME ConnInv, NEW c \in Conns, Authenticate(c)
    PROVE  ConnInv' /\ Judged(c)
<1> DEFINE q == conn[c]
           u == OwnerOf[q.login]
           w == [q EXCEPT !.role = db.role[u], !.pc = "target"]
<1>1. q.pc = "auth" /\ q.pc \in Handshake
  BY DEF Authenticate, At, Handshake
<1>2. Shape(q) /\ Fresh(db, q) /\ Honest(q)
  BY <1>1, AtWork
<1>3. CASE End(c)
  BY <1>3, EndSound
<1>4. CASE ~End(c)
  <2>1. Set(c, w) /\ db.account[u] = "enabled"
    BY <1>4 DEF Authenticate
  <2>2. SameWitness(q, w) /\ w.pc = "target" /\ w.role = db.role[u] /\ w.dec = q.dec
    BY <1>2 DEF Shape, SameWitness, Fields
  <2> HIDE DEF w
  <2>3. q.open /\ db.role[u] \in q.had /\ q.asRole \subseteq {db.role[u]}
    BY <1>2, <2>1 DEF Fresh, EffectiveRoles
  <2>4. Earned(q) => Earned(w)
    BY <2>2 DEF Earned, SameWitness
  <2>5. Honest(w)
    BY <1>2, <2>2, <2>3, <2>4 DEF Honest, SameWitness, Dialling
  <2>6. w.pc \in Handshake /\ DOMAIN w.dec = DecFields
    BY <1>2, <2>2 DEF Handshake, Shape
  <2> QED
    BY <1>1, <2>1, <2>2, <2>5, <2>6, MoveSound
<1> QED
  BY <1>3, <1>4

LEMMA ResolveTargetSound ==
    ASSUME ConnInv, NEW c \in Conns, ResolveTarget(c)
    PROVE  ConnInv' /\ Judged(c)
<1> DEFINE q == conn[c]
           next == IF q.via = "native" THEN "roles" ELSE "role"
           w == [q EXCEPT !.tier = db.tier[q.host], !.pc = next]
<1>1. q.pc = "target" /\ q.pc \in Handshake
  BY DEF ResolveTarget, At, Handshake
<1>2. Shape(q) /\ Fresh(db, q) /\ Honest(q)
  BY <1>1, AtWork
<1>3. CASE End(c)
  BY <1>3, EndSound
<1>4. CASE ~End(c)
  <2>1. Set(c, w)
    BY <1>4 DEF ResolveTarget
  <2>2. /\ SameWitness(q, w) /\ w.pc = next /\ w.tier = db.tier[q.host]
        /\ w.role = q.role /\ w.dec = q.dec
    BY <1>2 DEF Shape, SameWitness, Fields
  <2> HIDE DEF w
  <2>3. db.tier[q.host] \in q.tiers
    BY <1>2 DEF Fresh
  <2>4. Earned(q) => Earned(w)
    BY <2>2 DEF Earned, SameWitness
  <2>5. Honest(w)
    BY <1>1, <1>2, <2>2, <2>3, <2>4 DEF Honest, SameWitness, Dialling
  <2>6. w.pc \in Handshake /\ DOMAIN w.dec = DecFields
    BY <1>2, <2>2 DEF Handshake, Shape
  <2> QED
    BY <1>1, <2>1, <2>2, <2>5, <2>6, MoveSound
<1> QED
  BY <1>3, <1>4

LEMMA BrowserRoleSound ==
    ASSUME ConnInv, NEW c \in Conns, BrowserRole(c)
    PROVE  ConnInv' /\ Judged(c)
<1> DEFINE q == conn[c]
           u == OwnerOf[q.login]
           w == [q EXCEPT !.role = db.role[u], !.pc = "roles"]
<1>1. q.pc = "role" /\ q.pc \in Handshake
  BY DEF BrowserRole, At, Handshake
<1>2. Shape(q) /\ Fresh(db, q) /\ Honest(q)
  BY <1>1, AtWork
<1>3. CASE End(c)
  BY <1>3, EndSound
<1>4. CASE ~End(c)
  <2>1. Set(c, w)
    BY <1>4 DEF BrowserRole
  <2>2. /\ SameWitness(q, w) /\ w.pc = "roles" /\ w.tier = q.tier
        /\ w.role = db.role[u] /\ w.dec = q.dec
    BY <1>2 DEF Shape, SameWitness, Fields
  <2> HIDE DEF w
  <2>3. db.role[u] \in q.had /\ q.asRole \subseteq {db.role[u]}
    BY <1>2 DEF Fresh, EffectiveRoles
  <2>4. Earned(q) => Earned(w)
    BY <2>2 DEF Earned, SameWitness
  <2>5. Honest(w)
    BY <1>1, <1>2, <2>2, <2>3, <2>4 DEF Honest, SameWitness, Dialling
  <2>6. w.pc \in Handshake /\ DOMAIN w.dec = DecFields
    BY <1>2, <2>2 DEF Handshake, Shape
  <2> QED
    BY <1>1, <2>1, <2>2, <2>5, <2>6, MoveSound
<1> QED
  BY <1>3, <1>4

\* Every role that demanded approval all along is among those that are asked.
LEMMA ReadRolesSound ==
    ASSUME ConnInv, NEW c \in Conns, ReadRoles(c)
    PROVE  ConnInv' /\ Judged(c)
<1> DEFINE q == conn[c]
           u == OwnerOf[q.login]
           rs == {q.role} \cup db.granted[u]
           w == [q EXCEPT !.roles = rs, !.left = rs, !.pc = "rule"]
<1>1. q.pc = "roles" /\ q.pc \in Handshake
  BY DEF ReadRoles, At, Handshake
<1>2. Shape(q) /\ Fresh(db, q) /\ Honest(q)
  BY <1>1, AtWork
<1>3. Set(c, w)
  BY DEF ReadRoles
<1>4. /\ SameWitness(q, w) /\ w.pc = "rule" /\ w.tier = q.tier
      /\ w.left = rs /\ w.dec = q.dec
  BY <1>2 DEF Shape, SameWitness, Fields
<1> HIDE DEF w
<1>5. rs \subseteq q.had /\ q.asRole \cup q.byGroup \subseteq rs
  BY <1>1, <1>2 DEF Fresh, Honest, EffectiveRoles
<1>6. Earned(q) => Earned(w)
  BY <1>4 DEF Earned, SameWitness
<1>7. Honest(w)
  BY <1>1, <1>2, <1>4, <1>5, <1>6 DEF Honest, SameWitness, Dialling
<1>8. w.pc \in Handshake /\ DOMAIN w.dec = DecFields
  BY <1>2, <1>4 DEF Handshake, Shape
<1> QED
  BY <1>1, <1>3, <1>4, <1>7, <1>8, MoveSound

\* A rule that joins the decision was witnessed, and a role that demanded
\* approval all along makes the decision demand it.
LEMMA JoinedHonest ==
    ASSUME NEW d, NEW q, Shape(q), Fresh(d, q), Honest(q), q.pc = "rule",
           NEW r \in q.left, NEW x \in Governing(d.rules, r, KindOf[q.host]),
           NEW w, SameWitness(q, w), w.pc = "rule", w.tier = q.tier,
           w.left = q.left \ {r}, w.dec = Joined(q.dec, x, q.tier)
    PROVE  Honest(w) /\ DOMAIN w.dec = DecFields
<1>1. x \in d.rules /\ x.role = r /\ x \in Governing(d.rules, x.role, KindOf[q.host])
  BY DEF Governing
<1>2. q.tier \in q.tiers /\ r \in q.had
  BY DEF Honest
<1>3. q.tier <= x.tier => r \in q.could /\ (x.linux > 0 => r \in q.lifts)
  BY <1>1, <1>2 DEF Fresh, Reaching
<1>4. r \in q.asRole \cup q.byGroup => x.approval /\ q.tier <= x.tier
  BY <1>2 DEF Fresh, Demanding
<1>5. CASE q.tier <= x.tier
  <2>1. /\ w.dec.allowed /\ w.dec.approval = (q.dec.approval \/ x.approval)
        /\ w.dec.linux = Larger(q.dec.linux, x.linux) /\ DOMAIN w.dec = DecFields
    BY <1>5 DEF Joined, DecFields
  <2>2. w.had \cap w.could # {}
    BY <1>2, <1>3, <1>5 DEF SameWitness
  <2>3. w.dec.linux > 0 => Earned(w)
    <3>1. w.dec.linux > 0 => q.dec.linux > 0 \/ x.linux > 0
      BY <2>1 DEF Larger
    <3>2. Earned(q) => Earned(w)
      BY DEF Earned, SameWitness
    <3>3. x.linux > 0 => Earned(w)
      BY <1>2, <1>3, <1>5 DEF Earned, SameWitness
    <3> QED
      BY <3>1, <3>2, <3>3 DEF Honest
  <2>4. w.dec.approval \/ w.asRole \cup w.byGroup \subseteq w.left
    BY <1>4, <2>1 DEF Honest, SameWitness
  <2> QED
    BY <1>2, <2>1, <2>2, <2>3, <2>4 DEF Honest, SameWitness, Dialling
<1>6. CASE ~(q.tier <= x.tier)
  <2>1. w.dec = q.dec
    BY <1>6 DEF Joined
  <2>2. r \notin q.asRole \cup q.byGroup
    BY <1>4, <1>6
  <2>3. Earned(q) => Earned(w)
    BY DEF Earned, SameWitness
  <2> QED
    BY <2>1, <2>2, <2>3 DEF Honest, SameWitness, Dialling, Shape
<1> QED
  BY <1>5, <1>6

LEMMA DecideRoleSound ==
    ASSUME ConnInv, NEW c \in Conns, DecideRole(c)
    PROVE  ConnInv' /\ Judged(c)
<1> DEFINE q == conn[c]
<1>1. q.pc = "rule" /\ q.pc \in Handshake
  BY DEF DecideRole, At, Handshake
<1>2. Shape(q) /\ Fresh(db, q) /\ Honest(q)
  BY <1>1, AtWork
<1>3. PICK r \in q.left :
          \/ Governing(db.rules, r, KindOf[q.host]) = {} /\ Set(c, [q EXCEPT !.left = @ \ {r}])
          \/ \E x \in Governing(db.rules, r, KindOf[q.host]) :
                 Set(c, [q EXCEPT !.left = @ \ {r}, !.dec = Joined(@, x, q.tier)])
  BY DEF DecideRole
<1>4. CASE /\ Governing(db.rules, r, KindOf[q.host]) = {}
           /\ Set(c, [q EXCEPT !.left = @ \ {r}])
  <2> DEFINE w == [q EXCEPT !.left = @ \ {r}]
  <2>1. /\ SameWitness(q, w) /\ w.pc = "rule" /\ w.tier = q.tier
        /\ w.left = q.left \ {r} /\ w.dec = q.dec
    BY <1>1, <1>2 DEF Shape, SameWitness, Fields
  <2>2. Set(c, w)
    BY <1>4
  <2> HIDE DEF w
  <2>3. r \notin q.asRole \cup q.byGroup
    BY <1>2, <1>4 DEF Fresh, Demanding
  <2>4. Earned(q) => Earned(w)
    BY <2>1 DEF Earned, SameWitness
  <2>5. Honest(w)
    BY <1>1, <1>2, <2>1, <2>3, <2>4 DEF Honest, SameWitness, Dialling
  <2>6. w.pc \in Handshake /\ DOMAIN w.dec = DecFields
    BY <1>2, <2>1 DEF Handshake, Shape
  <2> QED
    BY <1>1, <2>1, <2>2, <2>5, <2>6, MoveSound
<1>5. ASSUME NEW x \in Governing(db.rules, r, KindOf[q.host]),
             Set(c, [q EXCEPT !.left = @ \ {r}, !.dec = Joined(@, x, q.tier)])
      PROVE  ConnInv' /\ Judged(c)
  <2> DEFINE w == [q EXCEPT !.left = @ \ {r}, !.dec = Joined(@, x, q.tier)]
  <2>1. /\ SameWitness(q, w) /\ w.pc = "rule" /\ w.tier = q.tier
        /\ w.left = q.left \ {r} /\ w.dec = Joined(q.dec, x, q.tier)
    BY <1>1, <1>2 DEF Shape, SameWitness, Fields
  <2>2. Set(c, w)
    BY <1>5
  <2> HIDE DEF w
  <2>3. Honest(w) /\ DOMAIN w.dec = DecFields
    BY <1>1, <1>2, <2>1, JoinedHonest
  <2> QED
    BY <1>1, <2>1, <2>2, <2>3, MoveSound
<1> QED
  BY <1>3, <1>4, <1>5

\* A handshake that goes on with what it holds.
LEMMA GotoSound ==
    ASSUME ConnInv, NEW c \in Conns, conn[c].pc \in Handshake \cup Dialling,
           NEW pc \in {"birthright", "grant", "sudo"}, Goto(c, pc),
           pc \in Handshake => conn[c].pc \in Handshake,
           conn[c].pc # "auth", conn[c].dec.allowed,
           pc \in {"birthright", "grant"} \/
               (conn[c].asRole \cup conn[c].byGroup # {} => conn[c].granted)
    PROVE  ConnInv' /\ Judged(c)
<1> DEFINE q == conn[c]
           w == [q EXCEPT !.pc = pc]
<1>1. Shape(q) /\ Honest(q)
  BY DEF ConnInv, Sound, Idle, Over, Handshake, Dialling
<1>2. SameWitness(q, w) /\ w.pc = pc /\ w.dec = q.dec
  BY <1>1 DEF Shape, SameWitness, Fields
<1>3. Set(c, w)
  BY DEF Goto
<1> HIDE DEF w
<1>4. Earned(q) => Earned(w)
  BY <1>2 DEF Earned, SameWitness
<1>5. Honest(w)
  BY <1>1, <1>2, <1>4 DEF Honest, SameWitness, Dialling
<1>6. w.pc \in Handshake /\ DOMAIN w.dec = DecFields
  BY <1>1, <1>2 DEF Handshake, Shape
<1> QED
  BY <1>2, <1>3, <1>5, <1>6, MoveSound

LEMMA VerdictSound ==
    ASSUME ConnInv, NEW c \in Conns,
           Verdict(c) \/ CheckBirthright(c) \/ CheckGrant(c)
    PROVE  ConnInv' /\ Judged(c)
<1> DEFINE q == conn[c]
<1>1. q.pc \in {"rule", "birthright", "grant"}
  BY DEF Verdict, CheckBirthright, CheckGrant, At
<1>2. Shape(q) /\ Fresh(db, q) /\ Honest(q)
  BY <1>1, AtWork DEF Handshake
<1>3. q.pc \in Handshake \cup Dialling /\ q.pc \in Handshake /\ q.pc # "auth"
  BY <1>1 DEF Handshake
<1>4. CASE Verdict(c)
  <2>0. q.pc = "rule" /\ q.left = {}
    BY <1>4 DEF Verdict, At
  <2>1. CASE ~q.dec.allowed /\ End(c)
    BY <2>1, EndSound
  <2>2. CASE q.dec.allowed /\ q.dec.approval /\ Goto(c, "birthright")
    BY <1>3, <2>2, GotoSound
  <2>3. CASE q.dec.allowed /\ ~q.dec.approval /\ Goto(c, "sudo")
    <3>1. q.asRole \cup q.byGroup = {}
      BY <1>2, <2>0, <2>3 DEF Honest
    <3> QED
      BY <1>3, <2>3, <3>1, GotoSound
  <2> QED
    BY <1>4, <2>1, <2>2, <2>3 DEF Verdict
<1>5. CASE CheckBirthright(c) \/ CheckGrant(c)
  <2>1. q.dec.allowed
    BY <1>2, <1>5 DEF CheckBirthright, CheckGrant, At, Honest
  <2>2. CASE Goto(c, "sudo") /\ q.granted
    BY <1>3, <2>1, <2>2, GotoSound
  <2>3. CASE Goto(c, "grant")
    BY <1>3, <2>1, <2>3, GotoSound
  <2>4. CASE End(c)
    BY <2>4, EndSound
  <2> QED
    BY <1>2, <1>5, <2>2, <2>3, <2>4 DEF CheckBirthright, CheckGrant, Fresh
<1> QED
  BY <1>4, <1>5

LEMMA CheckSudoSound ==
    ASSUME ConnInv, NEW c \in Conns, CheckSudo(c)
    PROVE  ConnInv' /\ Judged(c)
<1> DEFINE q == conn[c]
           linux == IsLinuxKind(KindOf[q.host])
           lifted == linux /\ ActiveSudoGranted(db, OwnerOf[q.login], q.host)
           dec == [q.dec EXCEPT !.linux = Larger(@, IF lifted THEN 1 ELSE 0),
                                !.allow = IF linux THEN {} ELSE @,
                                !.deny = IF linux THEN {} ELSE @]
           w == [q EXCEPT !.pc = "handle", !.dec = dec]
<1>1. q.pc = "sudo" /\ q.pc \in Handshake
  BY DEF CheckSudo, At, Handshake
<1>2. Shape(q) /\ Fresh(db, q) /\ Honest(q)
  BY <1>1, AtWork
<1>3. Set(c, w)
  BY <1>2 DEF CheckSudo, Shape, Fields
<1>4. /\ DOMAIN dec = DecFields /\ dec.allowed = q.dec.allowed
      /\ dec.linux = Larger(q.dec.linux, IF lifted THEN 1 ELSE 0)
  BY <1>2 DEF Shape, DecFields
<1> HIDE DEF dec
<1>5. SameWitness(q, w) /\ w.pc = "handle" /\ w.dec = dec
  BY <1>2 DEF Shape, SameWitness, Fields
<1> HIDE DEF w
<1>6. w.dec.linux > 0 => Earned(w)
  <2>1. w.dec.linux > 0 => q.dec.linux > 0 \/ lifted
    BY <1>4, <1>5 DEF Larger
  <2>2. lifted => q.sudo
    BY <1>2 DEF Fresh
  <2>3. Earned(q) => Earned(w)
    BY <1>5 DEF Earned, SameWitness
  <2> QED
    BY <1>2, <1>5, <2>1, <2>2, <2>3 DEF Honest, Earned, SameWitness
<1>7. Honest(w)
  BY <1>1, <1>2, <1>4, <1>5, <1>6 DEF Honest, SameWitness, Dialling
<1>8. w.pc \in {"handle"} /\ w.pc \notin Handshake
  BY <1>5 DEF Handshake
<1> QED
  BY <1>1, <1>3, <1>4, <1>5, <1>7, <1>8, MoveSound

LEMMA AuthorizeSound ==
    ASSUME ConnInv, NEW c \in Conns, Authorize(c)
    PROVE  ConnInv' /\ Judged(c)
BY AuthenticateSound, ResolveTargetSound, BrowserRoleSound, ReadRolesSound,
   DecideRoleSound, VerdictSound, CheckSudoSound DEF Authorize

-----------------------------------------------------------------------------
(* The login on the target.                                                *)

\* A connection under way to its shell ends, or keeps what it was given.
Dialled(q, w) ==
    \/ w = Over
    \/ w.pc \in Dialling /\ SameWitness(q, w) /\ w.dec = q.dec

Away(c) ==
    \E w : Dialled(conn[c], w) /\ conn' = [conn EXCEPT ![c] = w] /\ db' = db

LEMMA DiallingShape ==
    ASSUME ConnInv, NEW c \in Conns, conn[c].pc \in Dialling
    PROVE  /\ Shape(conn[c]) /\ Honest(conn[c]) /\ conn[c].pc \notin Handshake
BY DEF ConnInv, Sound, Idle, Over, Handshake, Dialling

LEMMA AwaySound ==
    ASSUME ConnInv, NEW c \in Conns, conn[c].pc \in Dialling, Away(c)
    PROVE  ConnInv'
<1> DEFINE q == conn[c]
<1>1. PICK w : Dialled(q, w) /\ conn' = [conn EXCEPT ![c] = w] /\ db' = db
  BY DEF Away
<1>2. Shape(q) /\ Honest(q) /\ q.pc \notin Handshake
  BY DiallingShape
<1>3. Sound(db, w)
  <2>1. CASE w = Over
    BY <2>1 DEF Sound
  <2>2. CASE w.pc \in Dialling /\ SameWitness(q, w) /\ w.dec = q.dec
    <3>1. Earned(q) => Earned(w)
      BY <2>2 DEF Earned, SameWitness
    <3>2. Honest(w)
      BY <1>2, <2>2, <3>1 DEF Honest, SameWitness, Dialling
    <3>3. w.pc \notin Handshake
      BY <2>2 DEF Handshake, Dialling
    <3> QED
      BY <1>2, <2>2, <3>2, <3>3, StepSound DEF Shape
  <2> QED
    BY <1>1, <2>1, <2>2 DEF Dialled
<1> QED
  BY <1>1, <1>3 DEF ConnInv

\* What a step on the way does to a connection.
LEMMA OnTheWay ==
    ASSUME NEW q, Shape(q), NEW pc \in Dialling, NEW v
    PROVE  /\ Dialled(q, [q EXCEPT !.pc = pc])
           /\ Dialled(q, [q EXCEPT !.priv = v, !.pc = pc])
           /\ Dialled(q, [q EXCEPT !.pc = pc, !.as = v])
           /\ Dialled(q, [q EXCEPT !.retry = v, !.pc = pc])
           /\ Dialled(q, [q EXCEPT !.kept = v, !.pc = pc])
BY DEF Dialled, SameWitness, Shape, Fields

LEMMA SetAway ==
    ASSUME NEW c, NEW w, Dialled(conn[c], w), Set(c, w) \/ \E a : Write(c, a, w)
    PROVE  Away(c)
BY DEF Away, Set, Write

LEMMA GotoAway ==
    ASSUME NEW c, Shape(conn[c]), \E pc \in Dialling : Goto(c, pc)
    PROVE  Away(c)
BY OnTheWay, SetAway DEF Goto

LEMMA DialAway ==
    ASSUME ConnInv, NEW c \in Conns, Dial(c) \/ OpenShell(c) \/ UserLeaves(c)
    PROVE  conn[c].pc \in Dialling /\ Away(c)
<1> DEFINE q == conn[c]
<1>1. q.pc \in Dialling
  BY DEF Dial, Handle, Privileged, Passthrough, Bootstrap, UserAdd, ChPasswd, Sudoers,
         LoginAsUser, OpenShell, UserLeaves, At, Dialling
<1>2. Shape(q)
  BY <1>1, DiallingShape
<1>d. {"handle", "privileged", "passthrough", "bootstrap", "useradd", "chpasswd",
       "sudoers", "login", "dialled", "shell"} \subseteq Dialling
  BY DEF Dialling
<1>3. ASSUME Set(c, Over) \/ \E a : Write(c, a, Over) PROVE Away(c)
  BY <1>3, SetAway DEF Dialled
<1>4. ASSUME Handle(c) PROVE Away(c)
  <2> DEFINE priv == q.host \in db.priv
             pc == FirstLogin(q, priv)
  <2>1. pc \in Dialling
    BY <1>d DEF FirstLogin
  <2>2. Set(c, Over) \/ Set(c, [q EXCEPT !.priv = priv, !.pc = pc])
    BY <1>4 DEF Handle, End
  <2> HIDE DEF priv, pc
  <2> QED
    BY <1>2, <1>3, <2>1, <2>2, OnTheWay, SetAway
<1>5. ASSUME Privileged(c) \/ Passthrough(c) PROVE Away(c)
  <2>1. \/ Set(c, Over) \/ Goto(c, "passthrough")
        \/ Set(c, [q EXCEPT !.pc = "dialled", !.as = "privileged"])
        \/ Set(c, [q EXCEPT !.pc = "dialled", !.as = "portal"])
    BY <1>5 DEF Privileged, Passthrough, End
  <2> QED
    BY <1>2, <1>3, <1>d, <2>1, OnTheWay, SetAway, GotoAway
<1>6. ASSUME Bootstrap(c) \/ OpenShell(c) PROVE Away(c)
  BY <1>2, <1>3, <1>6, <1>d, GotoAway DEF Bootstrap, OpenShell, End
<1>7. ASSUME UserAdd(c) \/ ChPasswd(c) PROVE Away(c)
  <2>1. \/ Set(c, Over)
        \/ \E a : Write(c, a, [q EXCEPT !.pc = "chpasswd"])
        \/ \E a : Write(c, a, [q EXCEPT !.pc = "sudoers"])
    BY <1>7 DEF UserAdd, ChPasswd, End
  <2> QED
    BY <1>2, <1>3, <1>d, <2>1, OnTheWay, SetAway
<1>8. ASSUME Sudoers(c) PROVE Away(c)
  <2>1. \/ Set(c, Over) \/ \E a : Write(c, a, Over)
        \/ \E a : Write(c, a, [q EXCEPT !.pc = "login"])
        \/ Set(c, [q EXCEPT !.kept = TRUE, !.pc = "login"])
    BY <1>8 DEF Sudoers, End
  <2> QED
    BY <1>2, <1>3, <1>d, <2>1, OnTheWay, SetAway
<1>9. ASSUME LoginAsUser(c) PROVE Away(c)
  <2>1. \/ Set(c, Over)
        \/ Set(c, [q EXCEPT !.pc = "dialled", !.as = "own"])
        \/ Set(c, [q EXCEPT !.retry = TRUE, !.pc = "bootstrap"])
    BY <1>9 DEF LoginAsUser, End
  <2> QED
    BY <1>2, <1>3, <1>d, <2>1, OnTheWay, SetAway
<1> QED
  BY <1>1, <1>3, <1>4, <1>5, <1>6, <1>7, <1>8, <1>9 DEF Dial, UserLeaves, End

-----------------------------------------------------------------------------
(* All steps.                                                              *)

LEMMA ChangeSound ==
    ASSUME ConnInv, NEW d, Change(d)
    PROVE  ConnInv'
BY WitnessSound DEF ConnInv, Change

LEMMA AdministerChanges == Administer => \E d : Change(d)
BY DEF Administer, EditUser, DeleteUser, EditRules, EditTarget, DeleteTarget,
       AssignBirthright, RemoveBirthright, Approve, GrantSudo, GrantEnds, EditPrivileged

LEMMA NextSound == ConnInv /\ [Next]_vars => ConnInv'
<1> SUFFICES ASSUME ConnInv, [Next]_vars PROVE ConnInv'
  OBVIOUS
<1>1. ASSUME NEW c \in Conns, Begin(c) PROVE ConnInv'
  <2>1. PICK x \in Inputs : conn' = [conn EXCEPT ![c] = Witness(db, Connection(x))]
    BY <1>1 DEF Begin
  <2>2. Sound(db, Witness(db, Connection(x)))
    BY BeginSound
  <2> QED
    BY <1>1, <2>1, <2>2 DEF ConnInv, Begin
<1>2. ASSUME NEW c \in Conns, Authorize(c) PROVE ConnInv'
  BY <1>2, AuthorizeSound
<1>3. ASSUME NEW c \in Conns, Dial(c) \/ OpenShell(c) \/ UserLeaves(c) PROVE ConnInv'
  BY <1>3, DialAway, AwaySound
<1>4. CASE Administer
  BY <1>4, AdministerChanges, ChangeSound
<1>5. CASE UNCHANGED vars
  BY <1>5 DEF vars, ConnInv
<1> QED
  BY <1>1, <1>2, <1>3, <1>4, <1>5 DEF Next

LEMMA InitSound == Init => ConnInv
BY DEF Init, ConnInv, Sound

\* Entry is earned, with any number of users, roles, rules, targets and
\* connections, and however often administrators change the tables between
\* the nine queries.
THEOREM EntryEarned == Spec => []EntryIsEarned
<1>1. ConnInv => EntryIsEarned
  <2> SUFFICES ASSUME ConnInv, NEW c \in Conns, Authorized(c)
               PROVE  /\ conn[c].via = "native" => conn[c].open
                      /\ conn[c].had \cap conn[c].could # {}
                      /\ conn[c].asRole \cup conn[c].byGroup # {} => conn[c].granted
    BY DEF EntryIsEarned
  <2>1. Shape(conn[c]) /\ Honest(conn[c]) /\ conn[c].pc \in Dialling
    BY DEF ConnInv, Sound, Idle, Over, Authorized, Shape
  <2> QED
    BY <2>1 DEF Honest, Dialling
<1> QED
  BY <1>1, InitSound, NextSound, PTL DEF Spec

-----------------------------------------------------------------------------
(* Sudo on the machines.                                                   *)

MachineInv ==
    /\ machine \in [Hosts -> [Names -> Local]]
    /\ \A h \in Hosts, n \in Names : machine[h][n].sudo => machine[h][n].earned

\* Of a connection that was given no sudo, from the end of its script on.
Withdrawn(c) ==
    /\ conn[c].pc = "login" \/ (conn[c].pc \in {"dialled", "shell"} /\ conn[c].as = "own")
    /\ conn[c].priv /\ conn[c].dec.linux = 0 /\ ~conn[c].kept
    => (Account(c).sudo => Account(c).by \in Conns \ {c})

SudoInv == MachineInv /\ \A c \in Conns : Withdrawn(c)

\* Sudo that is there after a step of connection c was there before and is
\* still of the connection it was of, or is of c.
OfBefore(c) ==
    \A h \in Hosts, n \in Names : machine'[h][n].sudo =>
        \/ machine'[h][n].by = c
        \/ machine[h][n].sudo /\ machine'[h][n].by = machine[h][n].by

LEMMA CellWritten ==
    ASSUME MachineInv, NEW c \in Conns, NEW h \in Hosts, NEW n \in Names, NEW a \in Local,
           machine' = [machine EXCEPT ![h][n] = a],
           a.sudo => a.earned,
           a.sudo => a.by = c \/ (machine[h][n].sudo /\ a.by = machine[h][n].by)
    PROVE  MachineInv' /\ OfBefore(c)
<1>1. /\ machine' \in [Hosts -> [Names -> Local]]
      /\ \A k \in Hosts, m \in Names :
             machine'[k][m] = IF k = h /\ m = n THEN a ELSE machine[k][m]
  BY DEF MachineInv
<1> QED
  BY <1>1 DEF MachineInv, OfBefore

LEMMA AwayWithdrawn ==
    ASSUME ConnInv, SudoInv, NEW c \in Conns, conn[c].pc \in Handshake \cup Dialling,
           NEW w, conn' = [conn EXCEPT ![c] = w], MachineInv', OfBefore(c),
           w = Over \/ SameWitness(conn[c], w), Withdrawn(c)'
    PROVE  SudoInv'
<1> SUFFICES ASSUME NEW k \in Conns, k # c PROVE Withdrawn(k)'
  BY DEF SudoInv
<1>1. conn'[k] = conn[k]
  BY DEF ConnInv
<1>2. CASE conn[k] = Idle \/ conn[k] = Over
  BY <1>1, <1>2 DEF Withdrawn, Idle, Over
<1>3. CASE Shape(conn[k])
  <2>1. conn[k].host \in Hosts /\ NameOf[conn[k].login] \in Names
    BY <1>3, AccessAssumption DEF Shape
  <2>2. Account(k)'.sudo => Account(k)'.by = c \/ (Account(k).sudo /\ Account(k)'.by = Account(k).by)
    BY <1>1, <2>1 DEF OfBefore, Account
  <2> QED
    BY <1>1, <2>2 DEF SudoInv, Withdrawn
<1> QED
  BY <1>2, <1>3 DEF ConnInv, Sound

\* A step that leaves the machines alone.
LEMMA SetWithdrawn ==
    ASSUME ConnInv, SudoInv, NEW c \in Conns, conn[c].pc \in Handshake \cup Dialling,
           NEW w, Set(c, w), w = Over \/ SameWitness(conn[c], w),
           w.pc \in {"login", "dialled", "shell"} =>
               \/ ~w.priv \/ w.kept
               \/ w.pc # "login" /\ w.as # "own"
               \/ /\ w.pc # "login" /\ conn[c].pc \in {"login", "dialled"}
                  /\ w.priv = conn[c].priv /\ w.dec = conn[c].dec /\ w.kept = conn[c].kept
                  /\ conn[c].pc = "dialled" => w.as = conn[c].as
    PROVE  SudoInv'
<1>1. conn' = [conn EXCEPT ![c] = w] /\ machine' = machine /\ conn'[c] = w
  BY DEF Set, ConnInv
<1>2. MachineInv' /\ OfBefore(c)
  BY <1>1 DEF SudoInv, MachineInv, OfBefore
<1>3. Withdrawn(c)'
  <2>1. CASE w = Over
    BY <1>1, <2>1 DEF Withdrawn, Over
  <2>2. CASE SameWitness(conn[c], w)
    <3>1. Account(c)' = Account(c)
      BY <1>1, <2>2 DEF Account, SameWitness
    <3> QED
      BY <1>1, <3>1 DEF Withdrawn, SudoInv
  <2> QED
    BY <2>1, <2>2
<1> QED
  BY <1>1, <1>2, <1>3, AwayWithdrawn

\* Authorization is no login.
LEMMA AuthorizeWithdrawn ==
    ASSUME ConnInv, SudoInv, NEW c \in Conns, Authorize(c)
    PROVE  SudoInv'
<1>1. conn[c].pc \in Handshake
  BY DEF Authorize, Authenticate, ResolveTarget, BrowserRole, ReadRoles, DecideRole,
         Verdict, CheckBirthright, CheckGrant, CheckSudo, At, Handshake
<1>2. PICK w : /\ Set(c, w)
               /\ \/ w = Over
                  \/ SameWitness(conn[c], w) /\ w.pc \notin {"login", "dialled", "shell"}
  BY AuthorizeSound DEF Judged
<1>3. w.pc \notin {"login", "dialled", "shell"}
  BY <1>2 DEF Over
<1> QED
  BY <1>1, <1>2, <1>3, SetWithdrawn

LEMMA EndWithdrawn ==
    ASSUME ConnInv, SudoInv, NEW c \in Conns, conn[c].pc \in Handshake \cup Dialling, End(c)
    PROVE  SudoInv'
BY SetWithdrawn DEF End, Over

\* The steps that leave the machines alone.
LEMMA DialWithdrawn ==
    ASSUME ConnInv, SudoInv, NEW c \in Conns,
           \/ Handle(c) \/ Privileged(c) \/ Passthrough(c) \/ Bootstrap(c)
           \/ LoginAsUser(c) \/ OpenShell(c) \/ UserLeaves(c)
    PROVE  SudoInv'
<1> DEFINE q == conn[c]
<1>1. q.pc \in Dialling /\ q.pc \in Handshake \cup Dialling
  BY DEF Handle, Privileged, Passthrough, Bootstrap, LoginAsUser, OpenShell, UserLeaves,
         At, Dialling
<1>2. Shape(q)
  BY <1>1, DiallingShape
<1>3. CASE End(c)
  BY <1>1, <1>3, EndWithdrawn
<1>4. CASE ~End(c) /\ Handle(c)
  <2> DEFINE priv == q.host \in db.priv
             w == [q EXCEPT !.priv = priv, !.pc = FirstLogin(q, priv)]
  <2>1. Set(c, w)
    BY <1>4 DEF Handle
  <2>2. w.pc = FirstLogin(q, priv) /\ w.priv = priv /\ SameWitness(q, w)
    BY <1>2 DEF SameWitness, Shape, Fields
  <2> HIDE DEF w, priv
  <2>3. w.pc \in {"login", "dialled", "shell"} => ~w.priv
    BY <2>2 DEF FirstLogin
  <2>4. SameWitness(q, w)
    BY <2>2
  <2> QED
    BY <1>1, <2>1, <2>3, <2>4, SetWithdrawn
<1>5. ASSUME NEW pc \in {"passthrough", "useradd"}, Goto(c, pc) PROVE SudoInv'
  <2> DEFINE w == [q EXCEPT !.pc = pc]
  <2>1. Set(c, w) /\ w.pc = pc /\ SameWitness(q, w)
    BY <1>2, <1>5 DEF Goto, SameWitness, Shape, Fields
  <2> HIDE DEF w
  <2> QED
    BY <1>1, <2>1, SetWithdrawn
<1>6. ASSUME NEW as \in {"privileged", "portal"},
             Set(c, [q EXCEPT !.pc = "dialled", !.as = as])
      PROVE  SudoInv'
  <2> DEFINE w == [q EXCEPT !.pc = "dialled", !.as = as]
  <2>1. Set(c, w) /\ w.pc = "dialled" /\ w.as = as /\ SameWitness(q, w)
    BY <1>2, <1>6 DEF SameWitness, Shape, Fields
  <2> HIDE DEF w
  <2> QED
    BY <1>1, <2>1, SetWithdrawn
<1>7. ASSUME ~End(c), LoginAsUser(c) PROVE SudoInv'
  <2>1. CASE Set(c, [q EXCEPT !.pc = "dialled", !.as = "own"])
    <3> DEFINE w == [q EXCEPT !.pc = "dialled", !.as = "own"]
    <3>1. /\ Set(c, w) /\ w.pc = "dialled" /\ SameWitness(q, w)
          /\ w.priv = q.priv /\ w.kept = q.kept /\ w.dec = q.dec /\ q.pc = "login"
      BY <1>2, <1>7, <2>1 DEF LoginAsUser, At, SameWitness, Shape, Fields
    <3> HIDE DEF w
    <3> QED
      BY <1>1, <3>1, SetWithdrawn
  <2>2. CASE Set(c, [q EXCEPT !.retry = TRUE, !.pc = "bootstrap"])
    <3> DEFINE w == [q EXCEPT !.retry = TRUE, !.pc = "bootstrap"]
    <3>1. Set(c, w) /\ w.pc = "bootstrap" /\ SameWitness(q, w)
      BY <1>2, <2>2 DEF SameWitness, Shape, Fields
    <3> HIDE DEF w
    <3> QED
      BY <1>1, <3>1, SetWithdrawn
  <2> QED
    BY <1>7, <2>1, <2>2 DEF LoginAsUser
<1>8. ASSUME OpenShell(c) PROVE SudoInv'
  <2> DEFINE w == [q EXCEPT !.pc = "shell"]
  <2>1. /\ Set(c, w) /\ w.pc = "shell" /\ SameWitness(q, w) /\ w.as = q.as
        /\ w.priv = q.priv /\ w.kept = q.kept /\ w.dec = q.dec /\ q.pc = "dialled"
    BY <1>2, <1>8 DEF OpenShell, Goto, At, SameWitness, Shape, Fields
  <2> HIDE DEF w
  <2> QED
    BY <1>1, <2>1, SetWithdrawn
<1> QED
  BY <1>3, <1>4, <1>5, <1>6, <1>7, <1>8
  DEF Privileged, Passthrough, Bootstrap, UserLeaves

\* The commands of the script.
LEMMA ScriptWithdrawn ==
    ASSUME ConnInv, SudoInv, NEW c \in Conns, UserAdd(c) \/ ChPasswd(c) \/ Sudoers(c)
    PROVE  SudoInv'
<1> DEFINE q == conn[c]
           h == q.host
           n == NameOf[q.login]
           a == Account(c)
<1>1. q.pc \in Dialling /\ q.pc \in Handshake \cup Dialling
  BY DEF UserAdd, ChPasswd, Sudoers, At, Dialling
<1>2. Shape(q) /\ Honest(q)
  BY <1>1, DiallingShape
<1>3. h \in Hosts /\ n \in Names /\ OwnerOf[q.login] \in Users
  BY <1>2, AccessAssumption DEF Shape
<1>4. a = machine[h][n] /\ a \in Local /\ (a.sudo => a.earned)
  BY <1>3 DEF Account, SudoInv, MachineInv
<1>5. CASE End(c)
  BY <1>1, <1>5, EndWithdrawn
<1> HIDE DEF a
<1>6. ASSUME NEW b \in Local, NEW w, Write(c, b, w), w = Over \/ SameWitness(q, w),
             b.sudo => b.earned, b.sudo => b.by = c \/ (a.sudo /\ b.by = a.by),
             w.pc \notin {"login", "dialled", "shell"} \/ ~b.sudo \/ ~(w.dec.linux = 0)
      PROVE  SudoInv'
  <2>1. machine' = [machine EXCEPT ![h][n] = b] /\ conn' = [conn EXCEPT ![c] = w]
    BY <1>6 DEF Write
  <2>2. MachineInv' /\ OfBefore(c)
    BY <1>3, <1>4, <1>6, <2>1, CellWritten DEF SudoInv
  <2>3. conn'[c] = w
    BY <2>1 DEF ConnInv
  <2>4. Withdrawn(c)'
    <3>1. CASE w = Over
      BY <2>3, <3>1 DEF Withdrawn, Over
    <3>2. CASE SameWitness(q, w)
      <4>1. Account(c)' = b
        BY <1>3, <2>1, <2>3, <3>2 DEF Account, SameWitness, SudoInv, MachineInv
      <4> QED
        BY <1>6, <2>3, <4>1 DEF Withdrawn
    <3> QED
      BY <1>6, <3>1, <3>2
  <2> QED
    BY <1>1, <1>6, <2>1, <2>2, <2>4, AwayWithdrawn
<1>7. CASE ~End(c) /\ UserAdd(c)
  <2> DEFINE b == [a EXCEPT !.pw = IF @ = "no account" THEN "locked" ELSE @]
             w == [q EXCEPT !.pc = "chpasswd"]
  <2>1. Write(c, b, w)
    BY <1>7 DEF UserAdd, a
  <2>2. b \in Local /\ b.sudo = a.sudo /\ b.by = a.by /\ b.earned = a.earned
    BY <1>4 DEF Local
  <2>3. SameWitness(q, w) /\ w.pc = "chpasswd"
    BY <1>2 DEF SameWitness, Shape, Fields
  <2> HIDE DEF b, w
  <2> QED
    BY <1>4, <1>6, <2>1, <2>2, <2>3
<1>8. CASE ~End(c) /\ ChPasswd(c)
  <2> DEFINE b == [a EXCEPT !.pw = OwnerOf[q.login]]
             w == [q EXCEPT !.pc = "sudoers"]
  <2>1. Write(c, b, w)
    BY <1>8 DEF ChPasswd, a
  <2>2. b \in Local /\ b.sudo = a.sudo /\ b.by = a.by /\ b.earned = a.earned
    BY <1>3, <1>4 DEF Local
  <2>3. SameWitness(q, w) /\ w.pc = "sudoers"
    BY <1>2 DEF SameWitness, Shape, Fields
  <2> HIDE DEF b, w
  <2> QED
    BY <1>4, <1>6, <2>1, <2>2, <2>3
<1>9. CASE ~End(c) /\ Sudoers(c)
  <2> DEFINE with == [a EXCEPT !.sudo = TRUE, !.by = c, !.earned = Earned(q)]
             without == [a EXCEPT !.sudo = FALSE, !.by = c, !.earned = FALSE]
             w == [q EXCEPT !.pc = "login"]
             kept == [q EXCEPT !.kept = TRUE, !.pc = "login"]
  <2>1. \/ q.dec.linux > 0 /\ (Write(c, with, w) \/ Write(c, with, Over))
        \/ q.dec.linux = 0 /\ Write(c, without, w)
        \/ Set(c, kept)
    BY <1>9 DEF Sudoers, a
  <2>2. q.dec.linux > 0 => Earned(q)
    BY <1>2 DEF Honest
  <2>3. Earned(q) \in BOOLEAN
    BY DEF Earned
  <2>4. /\ with \in Local /\ with.by = c /\ with.earned = Earned(q)
        /\ without \in Local /\ ~without.sudo
    BY <1>4, <2>3 DEF Local
  <2>5. /\ SameWitness(q, w) /\ w.pc = "login" /\ w.dec = q.dec
        /\ SameWitness(q, kept) /\ kept.pc = "login" /\ kept.kept
    BY <1>2 DEF SameWitness, Shape, Fields
  <2> HIDE DEF with, without, w, kept
  <2>6. Set(c, kept) => SudoInv'
    BY <1>1, <2>5, SetWithdrawn
  <2>7. q.dec.linux > 0 /\ Write(c, with, w) => SudoInv'
    BY <1>6, <2>2, <2>4, <2>5
  <2>8. q.dec.linux > 0 /\ Write(c, with, Over) => SudoInv'
    BY <1>6, <2>2, <2>4 DEF Over
  <2>9. Write(c, without, w) => SudoInv'
    BY <1>6, <2>4, <2>5
  <2> QED
    BY <2>1, <2>6, <2>7, <2>8, <2>9
<1> QED
  BY <1>5, <1>7, <1>8, <1>9

LEMMA LearntStays ==
    ASSUME NEW d, NEW q, NEW w, Learnt(d, q, w)
    PROVE  w.pc = q.pc
BY DEF Learnt

LEMMA ChangeWithdrawn ==
    ASSUME ConnInv, SudoInv, NEW d, Change(d)
    PROVE  SudoInv'
<1>1. MachineInv'
  BY DEF SudoInv, MachineInv, Change
<1>2. ASSUME NEW c \in Conns PROVE Withdrawn(c)'
  <2> DEFINE q == conn[c]
  <2>1. conn'[c] = Witness(d, q) /\ machine' = machine
    BY DEF Change
  <2>2. CASE q.pc \notin Handshake
    BY <2>1, <2>2 DEF Witness, Withdrawn, SudoInv, Account
  <2>3. CASE q.pc \in Handshake
    <3>1. Shape(q)
      BY <2>3, AtWork
    <3>2. Witness(d, q).pc = q.pc
      BY <2>3, <3>1, WitnessLearns, LearntStays
    <3> QED
      BY <2>1, <2>3, <3>2 DEF Withdrawn, Handshake
  <2> QED
    BY <2>2, <2>3
<1> QED
  BY <1>1, <1>2 DEF SudoInv

LEMMA BeginWithdrawn ==
    ASSUME ConnInv, SudoInv, NEW c \in Conns, Begin(c)
    PROVE  SudoInv'
<1>1. PICK x \in Inputs : conn' = [conn EXCEPT ![c] = Witness(db, Connection(x))]
  BY DEF Begin
<1>2. machine' = machine
  BY DEF Begin
<1>3. Witness(db, Connection(x)).pc \in {"auth", "target"}
  BY DEF Witness, Connection
<1>4. Withdrawn(c)'
  BY <1>1, <1>3 DEF Withdrawn, ConnInv
<1>5. ASSUME NEW k \in Conns, k # c PROVE Withdrawn(k)'
  BY <1>1, <1>2, <1>5 DEF Withdrawn, ConnInv, SudoInv, Account
<1> QED
  BY <1>2, <1>4, <1>5 DEF SudoInv, MachineInv

\* What the theorems about the machines rest on.
THEOREM SudoInvariant == Spec => [](ConnInv /\ SudoInv)
<1>1. Init => SudoInv
  <2> SUFFICES ASSUME Init PROVE SudoInv
    OBVIOUS
  <2>1. MachineInv
    BY AccessAssumption DEF Init, MachineInv, Local
  <2>2. ASSUME NEW c \in Conns PROVE Withdrawn(c)
    BY <2>2 DEF Init, Withdrawn, Idle
  <2> QED
    BY <2>1, <2>2 DEF SudoInv
<1>2. ConnInv /\ SudoInv /\ [Next]_vars => SudoInv'
  <2> SUFFICES ASSUME ConnInv, SudoInv, [Next]_vars PROVE SudoInv'
    OBVIOUS
  <2>1. CASE Administer
    BY <2>1, AdministerChanges, ChangeWithdrawn
  <2>2. CASE UNCHANGED vars
    BY <2>2 DEF vars, SudoInv, MachineInv, Withdrawn, Account
  <2> QED
    BY <2>1, <2>2, BeginWithdrawn, AuthorizeWithdrawn, DialWithdrawn, ScriptWithdrawn
    DEF Next, Dial
<1> QED
  BY <1>1, <1>2, InitSound, NextSound, PTL DEF Spec

\* Sudo on the machines follows the grants, with any number of users, machines
\* and overlapping scripts.
THEOREM SudoCorrect == Spec => []SudoFollowsGrants
<1>1. SudoInv => SudoFollowsGrants
  BY DEF SudoInv, MachineInv, SudoFollowsGrants, Withdrawn
<1> QED
  BY <1>1, SudoInvariant, PTL

-----------------------------------------------------------------------------
(* The rules: new ids.                                                     *)

\* Every non-empty set of naturals has a least element.
LEMMA Least ==
    ASSUME NEW T, T \subseteq Nat, T # {}
    PROVE  \E n \in T : \A m \in T : n <= m
<1> DEFINE R == OpToRel(<, Nat)
<1>1. PICK n \in T : \A m \in T : ~ (<<m, n>> \in R)
  <2>1. IsWellFoundedOn(R, Nat)
    BY NatLessThanWellFounded, Zenon
  <2> HIDE DEF R
  <2> QED
    BY <2>1, WFMin
<1>2. \A m \in Nat, k \in Nat : m < k => <<m, k>> \in R
  BY DEF OpToRel
<1>3. ASSUME NEW m \in T PROVE n <= m
  <2>1. ~ (m < n)
    BY <1>1, <1>2
  <2> QED
    BY <2>1
<1> QED
  BY <1>3

\* A finite set of naturals has a greatest element.  Otherwise take a set
\* without a bound that has as few elements as possible, and one element out
\* of it: what is left has a bound.
LEMMA Bounded ==
    ASSUME NEW S, IsFiniteSet(S), S \subseteq Nat
    PROVE  \E b \in Nat : \A n \in S : n <= b
<1> DEFINE Endless(T) == ~ \E b \in Nat : \A n \in T : n <= b
           Sizes == {Cardinality(T) : T \in {U \in SUBSET S : Endless(U)}}
<1>1. \A T \in SUBSET S : IsFiniteSet(T) /\ Cardinality(T) \in Nat
  BY FS_Subset, FS_CardinalityType
<1> SUFFICES ASSUME Endless(S) PROVE FALSE
  OBVIOUS
<1>2. PICK k \in Sizes : \A m \in Sizes : k <= m
  <2>1. Sizes \subseteq Nat /\ Sizes # {}
    BY <1>1
  <2> QED
    BY <2>1, Least
<1>3. PICK T \in SUBSET S : Endless(T) /\ Cardinality(T) = k
  BY <1>2
<1>4. PICK x \in T : TRUE
  BY <1>3
<1>5. Cardinality(T \ {x}) = k - 1 /\ k \in Nat
  BY <1>1, <1>3, FS_RemoveElement
<1>6. PICK b \in Nat : \A n \in T \ {x} : n <= b
  <2>1. ~ Endless(T \ {x})
    <3>1. Endless(T \ {x}) => Cardinality(T \ {x}) \in Sizes
      OBVIOUS
    <3> QED
      BY <1>2, <1>5, <3>1
  <2> QED
    BY <2>1
<1>7. x \in Nat /\ \A n \in T : n <= IF b < x THEN x ELSE b
  BY <1>6, <1>3
<1> QED
  BY <1>3, <1>7

LEMMA Greatest ==
    ASSUME NEW S, IsFiniteSet(S), S \subseteq Nat, S # {}
    PROVE  \E n \in S : \A m \in S : m <= n
<1> DEFINE Bounds == {b \in Nat : \A m \in S : m <= b}
<1>1. PICK b \in Bounds : \A c \in Bounds : b <= c
  BY Bounded, Least
<1>2. CASE b \in S
  BY <1>1, <1>2
<1>3. CASE b \notin S
  <2>1. PICK s \in S : TRUE
    OBVIOUS
  <2>2. b - 1 \in Nat /\ \A m \in S : m <= b - 1
    BY <1>1, <1>3, <2>1
  <2> QED
    BY <1>1, <2>2
<1> QED
  BY <1>2, <1>3

\* A form becomes a rule under any id.
LEMMA FormMakesRule ==
    ASSUME NEW rows \in SUBSET Rule, IsFiniteSet(rows), NEW id \in Nat, NEW form \in RuleForm
    PROVE  WithRule(rows, id, form) \subseteq Rule /\ IsFiniteSet(WithRule(rows, id, form))
<1> DEFINE r == [id |-> id, role |-> form.role, kind |-> form.kind, tier |-> form.tier,
                 approval |-> form.approval, allow |-> form.allow, deny |-> form.deny,
                 linux |-> form.linux, cisco |-> IosLevel(form.cisco)]
<1>1. IosLevel(form.cisco) \in 0 .. 15
  BY DEF IosLevel, RuleForm
<1>2. r \in Rule
  BY <1>1 DEF Rule, RuleForm
<1>3. WithRule(rows, id, form) = rows \cup {r}
  BY DEF WithRule
<1> HIDE DEF r
<1>4. IsFiniteSet(rows \cup {r})
  BY FS_AddElement
<1> QED
  BY <1>2, <1>3, <1>4

\* CreateRule: the id that is drawn is one.
LEMMA InsertedRules ==
    ASSUME NEW rows \in SUBSET Rule, IsFiniteSet(rows), NEW form \in RuleForm
    PROVE  Inserted(rows, {form}) \subseteq Rule /\ IsFiniteSet(Inserted(rows, {form}))
<1> DEFINE ids == {0} \cup {r.id : r \in rows}
           IsTop(n) == \A r \in rows : r.id <= n
           top == CHOOSE n \in ids : IsTop(n)
           IsNumbering(f) == \A x, y \in {form} : f[x] = f[y] => x = y
           nr == CHOOSE f \in [{form} -> 1 .. Cardinality({form})] : IsNumbering(f)
<1>1. top \in Nat
  <2>1. ids \subseteq Nat /\ ids # {}
    BY DEF Rule
  <2>2. IsFiniteSet(ids)
    <3> DEFINE used == {r.id : r \in rows}
               f == [r \in rows |-> r.id]
    <3>1. f \in Surjection(rows, used)
      BY DEF Surjection
    <3>2. IsFiniteSet(used)
      <4> HIDE DEF used, f
      <4> QED
        BY <3>1, FS_Surjection
    <3>3. IsFiniteSet(used \cup {0})
      <4> HIDE DEF used
      <4> QED
        BY <3>2, FS_AddElement
    <3>4. ids = used \cup {0}
      OBVIOUS
    <3> QED
      BY <3>3, <3>4
  <2>3. \E n \in ids : IsTop(n)
    <3>1. \A r \in rows : r.id \in ids
      OBVIOUS
    <3>2. \E n \in ids : \A m \in ids : m <= n
      <4> HIDE DEF ids
      <4> QED
        BY <2>1, <2>2, Greatest
    <3> QED
      BY <3>1, <3>2
  <2>4. top \in ids
    BY <2>3
  <2> QED
    BY <2>1, <2>4
<1>2. nr[form] \in Nat
  <2>1. Cardinality({form}) = 1
    BY FS_Singleton
  <2>2. [x \in {form} |-> 1] \in [{form} -> 1 .. Cardinality({form})]
    BY <2>1
  <2>3. nr \in [{form} -> 1 .. Cardinality({form})]
    BY <2>2
  <2> QED
    BY <2>1, <2>3
<1>3. Inserted(rows, {form}) = rows \cup UNION {WithRule({}, top + nr[x], x) : x \in {form}}
  BY DEF Inserted
<1> HIDE DEF top, nr
<1> DEFINE id == top + nr[form]
<1>4. Inserted(rows, {form}) = rows \cup WithRule({}, id, form)
  BY <1>3
<1>5. rows \cup WithRule({}, id, form) = WithRule(rows, id, form)
  BY DEF WithRule
<1>6. id \in Nat
  BY <1>1, <1>2
<1> HIDE DEF id
<1> QED
  BY <1>4, <1>5, <1>6, FormMakesRule

-----------------------------------------------------------------------------
(* Types.                                                                  *)

TablesTyped == db \in Tables /\ IsFiniteSet(db.rules)

Typed(q) ==
    \/ q \in {Idle, Over}
    \/ q \in ConnectionType /\ (q.pc \notin {"auth", "target"} => q.tier \in Tiers)

\* The machines are in SudoInv.
TypeInv ==
    /\ TablesTyped
    /\ DOMAIN conn = Conns /\ \A c \in Conns : Typed(conn[c])
    /\ begun \in 0 .. MaxConns /\ edits \in 0 .. MaxEdits

LEMMA IdleOver == Idle.pc = "idle" /\ Over.pc = "over"
BY DEF Idle, Over

\* A connection at a place of the handshake or the login has its type.
LEMMA WorkTyped ==
    ASSUME TypeInv, NEW c \in Conns, conn[c].pc \notin {"idle", "over"}
    PROVE  /\ conn[c] \in ConnectionType
           /\ conn[c].pc \notin {"auth", "target"} => conn[c].tier \in Tiers
           /\ conn[c].login \in Logins /\ conn[c].host \in Hosts
           /\ OwnerOf[conn[c].login] \in Users
<1>1. /\ conn[c] \in ConnectionType
      /\ conn[c].pc \notin {"auth", "target"} => conn[c].tier \in Tiers
  BY IdleOver DEF TypeInv, Typed
<1>2. conn[c].login \in Logins /\ conn[c].host \in Hosts
  BY <1>1 DEF ConnectionType
<1> QED
  BY <1>1, <1>2, AccessAssumption

\* What Witness makes of a connection in the handshake.
LEMMA WitnessForm ==
    ASSUME NEW q \in ConnectionType, NEW d, q.pc \in Handshake
    PROVE  Witness(d, q) =
               LET u == OwnerOf[q.login]
                   tiers == q.tiers \cup {d.tier[q.host]}
                   reaching == Reaching(d, q.host, tiers)
               IN  [q EXCEPT
                       !.open = q.open \/ d.account[u] = "enabled",
                       !.had = q.had \cup EffectiveRoles(d, u),
                       !.tiers = tiers,
                       !.could = q.could \cup {x.role : x \in reaching},
                       !.lifts = q.lifts \cup {x.role : x \in {y \in reaching : y.linux > 0}},
                       !.asRole = q.asRole \cap {d.role[u]} \cap Demanding(d, q.host, tiers),
                       !.byGroup = q.byGroup \cap d.granted[u] \cap Demanding(d, q.host, tiers),
                       !.granted = q.granted \/ IsApproved(d, u, q.host)
                                             \/ <<u, q.host>> \in d.birthright,
                       !.sudo = q.sudo \/ ActiveSudoGranted(d, u, q.host)]
BY DEF Witness

\* What a connection comes to witness.
LEMMA WitnessTyped ==
    ASSUME NEW d \in Tables, NEW q \in ConnectionType
    PROVE  /\ Witness(d, q) \in ConnectionType
           /\ Witness(d, q).pc = q.pc /\ Witness(d, q).tier = q.tier
<1> DEFINE u == OwnerOf[q.login]
           tiers == q.tiers \cup {d.tier[q.host]}
           reaching == Reaching(d, q.host, tiers)
           open == q.open \/ d.account[u] = "enabled"
           had == q.had \cup EffectiveRoles(d, u)
           could == q.could \cup {x.role : x \in reaching}
           lifts == q.lifts \cup {x.role : x \in {y \in reaching : y.linux > 0}}
           asRole == q.asRole \cap {d.role[u]} \cap Demanding(d, q.host, tiers)
           byGroup == q.byGroup \cap d.granted[u] \cap Demanding(d, q.host, tiers)
           granted == q.granted \/ IsApproved(d, u, q.host) \/ <<u, q.host>> \in d.birthright
           sudo == q.sudo \/ ActiveSudoGranted(d, u, q.host)
           w == [q EXCEPT !.open = open, !.had = had, !.tiers = tiers, !.could = could,
                          !.lifts = lifts, !.asRole = asRole, !.byGroup = byGroup,
                          !.granted = granted, !.sudo = sudo]
<1>1. q.host \in Hosts /\ u \in Users
  BY AccessAssumption DEF ConnectionType
<1>2. d.tier[q.host] \in Tiers \cup {NoTier} /\ EffectiveRoles(d, u) \subseteq Roles
  BY <1>1 DEF Tables, EffectiveRoles
<1>3. \A x \in reaching : x.role \in Roles
  BY DEF Reaching, Tables, Rule
<1>4. tiers \in SUBSET (Tiers \cup {NoTier}) /\ had \in SUBSET Roles
  BY <1>2 DEF ConnectionType
<1>5. could \in SUBSET Roles /\ lifts \in SUBSET Roles
  <2>1. q.could \subseteq Roles /\ q.lifts \subseteq Roles
    BY DEF ConnectionType
  <2> HIDE DEF reaching
  <2> QED
    BY <1>3, <2>1
<1>6. asRole \in SUBSET Roles /\ byGroup \in SUBSET Roles
  BY DEF ConnectionType
<1>7. open \in BOOLEAN /\ granted \in BOOLEAN /\ sudo \in BOOLEAN
  BY DEF ConnectionType
<1>8. ASSUME q.pc \in Handshake PROVE Witness(d, q) = w
  BY <1>8, WitnessForm, Zenon
<1> HIDE DEF open, had, tiers, could, lifts, asRole, byGroup, granted, sudo
<1>9. w \in ConnectionType /\ w.pc = q.pc /\ w.tier = q.tier
  <2>1. w \in ConnectionType
    BY <1>4, <1>5, <1>6, <1>7 DEF ConnectionType
  <2>2. w.pc = q.pc /\ w.tier = q.tier
    BY DEF ConnectionType
  <2> QED
    BY <2>1, <2>2
<1>10. q.pc \notin Handshake => Witness(d, q) = q
  BY DEF Witness
<1> HIDE DEF w
<1> QED
  BY <1>8, <1>9, <1>10

LEMMA BeginTyped ==
    ASSUME NEW x \in Inputs
    PROVE  Connection(x) \in ConnectionType /\ Connection(x).pc \in {"auth", "target"}
<1>1. x.login \in Logins /\ x.host \in Hosts /\ x.via \in {"native", "browser"}
      /\ x.right \in BOOLEAN /\ x.pw \in BOOLEAN
  BY AccessAssumption
<1>2. NoDecision \in Decision /\ NoTier \in Tiers \cup {NoTier}
  BY DEF NoDecision, Decision
<1> QED
  BY <1>1, <1>2 DEF Connection, ConnectionType, Handshake

Places == Handshake \cup Dialling

\* The connection at another place, and what steps write besides.
LEMMA MoveTyped ==
    ASSUME NEW q \in ConnectionType, NEW pc \in Places
    PROVE  /\ [q EXCEPT !.pc = pc] \in ConnectionType
           /\ [q EXCEPT !.pc = pc].pc = pc /\ [q EXCEPT !.pc = pc].tier = q.tier
<1>1. [q EXCEPT !.pc = pc] \in ConnectionType
  BY DEF ConnectionType, Places, Dialling
<1>2. [q EXCEPT !.pc = pc].pc = pc /\ [q EXCEPT !.pc = pc].tier = q.tier
  BY DEF ConnectionType, Places, Dialling
<1> QED
  BY <1>1, <1>2

LEMMA RoleTyped ==
    ASSUME NEW q \in ConnectionType, NEW pc \in Places, NEW r \in Roles
    PROVE  /\ [q EXCEPT !.role = r, !.pc = pc] \in ConnectionType
           /\ [q EXCEPT !.role = r, !.pc = pc].pc = pc /\ [q EXCEPT !.role = r, !.pc = pc].tier = q.tier
<1>1. [q EXCEPT !.role = r, !.pc = pc] \in ConnectionType
  BY DEF ConnectionType, Places, Dialling
<1>2. [q EXCEPT !.role = r, !.pc = pc].pc = pc /\ [q EXCEPT !.role = r, !.pc = pc].tier = q.tier
  BY DEF ConnectionType, Places, Dialling
<1> QED
  BY <1>1, <1>2

LEMMA LeftTyped ==
    ASSUME NEW q \in ConnectionType, NEW rs \in SUBSET Roles, NEW dec \in Decision
    PROVE  /\ [q EXCEPT !.left = rs] \in ConnectionType
           /\ [q EXCEPT !.left = rs].pc = q.pc /\ [q EXCEPT !.left = rs].tier = q.tier
           /\ [q EXCEPT !.left = rs, !.dec = dec] \in ConnectionType
           /\ [q EXCEPT !.left = rs, !.dec = dec].pc = q.pc /\ [q EXCEPT !.left = rs, !.dec = dec].tier = q.tier
<1>1. [q EXCEPT !.left = rs] \in ConnectionType
  BY DEF ConnectionType
<1>2. [q EXCEPT !.left = rs].pc = q.pc /\ [q EXCEPT !.left = rs].tier = q.tier
  BY DEF ConnectionType
<1>3. [q EXCEPT !.left = rs, !.dec = dec] \in ConnectionType
  BY DEF ConnectionType
<1>4. [q EXCEPT !.left = rs, !.dec = dec].pc = q.pc /\ [q EXCEPT !.left = rs, !.dec = dec].tier = q.tier
  BY DEF ConnectionType
<1> QED
  BY <1>1, <1>2, <1>3, <1>4

LEMMA DecTyped ==
    ASSUME NEW q \in ConnectionType, NEW pc \in Places, NEW dec \in Decision
    PROVE  /\ [q EXCEPT !.pc = pc, !.dec = dec] \in ConnectionType
           /\ [q EXCEPT !.pc = pc, !.dec = dec].pc = pc /\ [q EXCEPT !.pc = pc, !.dec = dec].tier = q.tier
<1>1. [q EXCEPT !.pc = pc, !.dec = dec] \in ConnectionType
  BY DEF ConnectionType, Places, Dialling
<1>2. [q EXCEPT !.pc = pc, !.dec = dec].pc = pc /\ [q EXCEPT !.pc = pc, !.dec = dec].tier = q.tier
  BY DEF ConnectionType, Places, Dialling
<1> QED
  BY <1>1, <1>2

LEMMA KeptTyped ==
    ASSUME NEW q \in ConnectionType, NEW pc \in Places, NEW b \in BOOLEAN
    PROVE  /\ [q EXCEPT !.kept = b, !.pc = pc] \in ConnectionType
           /\ [q EXCEPT !.kept = b, !.pc = pc].pc = pc /\ [q EXCEPT !.kept = b, !.pc = pc].tier = q.tier
<1>1. [q EXCEPT !.kept = b, !.pc = pc] \in ConnectionType
  BY DEF ConnectionType, Places, Dialling
<1>2. [q EXCEPT !.kept = b, !.pc = pc].pc = pc /\ [q EXCEPT !.kept = b, !.pc = pc].tier = q.tier
  BY DEF ConnectionType, Places, Dialling
<1> QED
  BY <1>1, <1>2

LEMMA RetryTyped ==
    ASSUME NEW q \in ConnectionType, NEW pc \in Places, NEW b \in BOOLEAN
    PROVE  /\ [q EXCEPT !.retry = b, !.pc = pc] \in ConnectionType
           /\ [q EXCEPT !.retry = b, !.pc = pc].pc = pc /\ [q EXCEPT !.retry = b, !.pc = pc].tier = q.tier
<1>1. [q EXCEPT !.retry = b, !.pc = pc] \in ConnectionType
  BY DEF ConnectionType, Places, Dialling
<1>2. [q EXCEPT !.retry = b, !.pc = pc].pc = pc /\ [q EXCEPT !.retry = b, !.pc = pc].tier = q.tier
  BY DEF ConnectionType, Places, Dialling
<1> QED
  BY <1>1, <1>2

LEMMA AsTyped ==
    ASSUME NEW q \in ConnectionType, NEW pc \in Places, NEW as \in {"own", "portal", "privileged"}
    PROVE  /\ [q EXCEPT !.pc = pc, !.as = as] \in ConnectionType
           /\ [q EXCEPT !.pc = pc, !.as = as].pc = pc /\ [q EXCEPT !.pc = pc, !.as = as].tier = q.tier
<1>1. [q EXCEPT !.pc = pc, !.as = as] \in ConnectionType
  BY DEF ConnectionType, Places, Dialling
<1>2. [q EXCEPT !.pc = pc, !.as = as].pc = pc /\ [q EXCEPT !.pc = pc, !.as = as].tier = q.tier
  BY DEF ConnectionType, Places, Dialling
<1> QED
  BY <1>1, <1>2

\* A connection takes a step.
LEMMA ConnTyped ==
    ASSUME TypeInv, NEW c \in Conns, NEW w, Typed(w), conn' = [conn EXCEPT ![c] = w],
           UNCHANGED <<db, begun, edits>>
    PROVE  TypeInv'
BY DEF TypeInv, TablesTyped

LEMMA SetTyped ==
    ASSUME TypeInv, NEW c \in Conns, NEW w, Set(c, w), Typed(w)
    PROVE  TypeInv'
BY ConnTyped DEF Set

LEMMA EndTyped ==
    ASSUME TypeInv, NEW c \in Conns, End(c)
    PROVE  TypeInv'
<1>1. Typed(Over)
  BY DEF Typed
<1> QED
  BY <1>1, SetTyped DEF End

\* A connection beyond the look-up of its target moves on.
LEMMA GotoTyped ==
    ASSUME TypeInv, NEW c \in Conns, NEW pc \in Places, Goto(c, pc),
           conn[c].pc \notin {"idle", "over", "auth", "target"}
    PROVE  TypeInv'
<1>1. conn[c] \in ConnectionType /\ conn[c].tier \in Tiers
  BY WorkTyped
<1>2. Typed([conn[c] EXCEPT !.pc = pc])
  BY <1>1, MoveTyped DEF Typed
<1> QED
  BY <1>2, SetTyped DEF Goto

LEMMA JoinedTyped ==
    ASSUME NEW dec \in Decision, NEW rule \in Rule, NEW tier
    PROVE  Joined(dec, rule, tier) \in Decision
BY DEF Joined, Larger, Decision, Rule

\* That a role is there when the groups are read follows from what was witnessed.
LEMMA AuthorizeTyped ==
    ASSUME TypeInv, ConnInv, NEW c \in Conns, Authorize(c)
    PROVE  TypeInv'
<1> DEFINE q == conn[c]
           u == OwnerOf[q.login]
<1>1. q.pc \in Handshake
  BY DEF Authorize, Authenticate, ResolveTarget, BrowserRole, ReadRoles, DecideRole,
         Verdict, CheckBirthright, CheckGrant, CheckSudo, At, Handshake
<1>2. /\ q \in ConnectionType /\ q.host \in Hosts /\ u \in Users
      /\ q.pc \notin {"auth", "target"} => q.tier \in Tiers
  BY <1>1, WorkTyped DEF Handshake
<1>3. /\ db.role[u] \in Roles /\ db.granted[u] \in SUBSET Roles
      /\ db.tier[q.host] \in Tiers \cup {NoTier} /\ db.rules \subseteq Rule
  BY <1>2 DEF TypeInv, TablesTyped, Tables
<1>4. {"target", "role", "roles", "rule", "birthright", "grant", "sudo", "handle"} \subseteq Places
  BY DEF Places, Handshake, Dialling
<1>5. CASE Authenticate(c)
  <2> DEFINE w == [q EXCEPT !.role = db.role[u], !.pc = "target"]
  <2>1. Set(c, w) \/ End(c)
    BY <1>5 DEF Authenticate
  <2>2. w \in ConnectionType /\ w.pc = "target"
    <3> DEFINE pc == "target"
               r == db.role[u]
    <3>1. pc \in Places /\ r \in Roles
      BY <1>3, <1>4
    <3> HIDE DEF pc, r
    <3>2. [q EXCEPT !.role = r, !.pc = pc] \in ConnectionType
      BY <1>2, <3>1, RoleTyped
    <3>3. [q EXCEPT !.role = r, !.pc = pc].pc = pc
      BY <1>2, <3>1, RoleTyped
    <3> QED
      BY <3>2, <3>3 DEF pc, r
  <2>3. Typed(w)
    BY <2>2 DEF Typed
  <2> HIDE DEF w
  <2> QED
    BY <2>1, <2>3, SetTyped, EndTyped
<1>6. CASE ResolveTarget(c)
  <2> DEFINE pc == IF q.via = "native" THEN "roles" ELSE "role"
             w == [q EXCEPT !.tier = db.tier[q.host], !.pc = pc]
  <2>1. End(c) \/ (db.tier[q.host] # NoTier /\ Set(c, w))
    BY <1>6, Zenon DEF ResolveTarget
  <2>2. pc \in Places
    BY <1>4
  <2> HIDE DEF pc
  <2>3. ASSUME db.tier[q.host] # NoTier PROVE Typed(w)
    <3>1. db.tier[q.host] \in Tiers
      BY <1>3, <2>3
    <3> QED
      <4>1. w \in ConnectionType
        BY <1>2, <2>2, <3>1 DEF ConnectionType, Places, Dialling
      <4>2. w.tier \in Tiers
        BY <1>2, <3>1 DEF ConnectionType
      <4> QED
        BY <4>1, <4>2 DEF Typed
  <2> HIDE DEF w
  <2> QED
    BY <2>1, <2>3, SetTyped, EndTyped
<1>7. CASE BrowserRole(c)
  <2> DEFINE w == [q EXCEPT !.role = db.role[u], !.pc = "roles"]
  <2>1. (Set(c, w) \/ End(c)) /\ q.pc = "role"
    BY <1>7 DEF BrowserRole, At
  <2>2. Typed(w)
    BY <1>2, <1>3, <1>4, <2>1, RoleTyped DEF Typed
  <2> HIDE DEF w
  <2> QED
    BY <2>1, <2>2, SetTyped, EndTyped
<1>8. CASE ReadRoles(c)
  <2> DEFINE rs == {q.role} \cup db.granted[u]
             w == [q EXCEPT !.roles = rs, !.left = rs, !.pc = "rule"]
  <2>1. Set(c, w) /\ q.pc = "roles"
    BY <1>8 DEF ReadRoles, At
  <2>2. rs \in SUBSET Roles
    <3>1. q.role \in q.had
      BY <2>1, IdleOver DEF ConnInv, Sound, Honest
    <3> QED
      BY <1>2, <1>3, <3>1 DEF ConnectionType
  <2> HIDE DEF rs
  <2>3. Typed(w)
    <3>1. "rule" \in Places
      BY <1>4
    <3>2. q.tier \in Tiers
      BY <1>2, <2>1
    <3> QED
      <4>1. w \in ConnectionType
        BY <1>2, <2>2, <3>1 DEF ConnectionType, Places, Dialling
      <4>2. w.tier \in Tiers
        BY <1>2, <3>2 DEF ConnectionType
      <4> QED
        BY <4>1, <4>2 DEF Typed
  <2> HIDE DEF w
  <2> QED
    BY <2>1, <2>3, SetTyped
<1>9. CASE DecideRole(c)
  <2>1. q.pc = "rule"
    BY <1>9 DEF DecideRole, At
  <2>2. PICK r \in q.left :
           \/ Set(c, [q EXCEPT !.left = @ \ {r}])
           \/ \E x \in Governing(db.rules, r, KindOf[q.host]) :
                  Set(c, [q EXCEPT !.left = @ \ {r}, !.dec = Joined(@, x, q.tier)])
    BY <1>9 DEF DecideRole
  <2> DEFINE left == q.left \ {r}
  <2>3. left \in SUBSET Roles /\ q.dec \in Decision
    BY <1>2 DEF ConnectionType
  <2>4. CASE Set(c, [q EXCEPT !.left = @ \ {r}])
    <3> DEFINE w == [q EXCEPT !.left = left]
    <3>1. Set(c, w)
      BY <2>4
    <3> HIDE DEF left
    <3>2. Typed(w)
      BY <1>2, <2>1, <2>3, LeftTyped DEF Typed
    <3> HIDE DEF w
    <3> QED
      BY <3>1, <3>2, SetTyped
  <2>5. ASSUME NEW x \in Governing(db.rules, r, KindOf[q.host]),
               Set(c, [q EXCEPT !.left = @ \ {r}, !.dec = Joined(@, x, q.tier)])
        PROVE  TypeInv'
    <3> DEFINE dec == Joined(q.dec, x, q.tier)
               w == [q EXCEPT !.left = left, !.dec = dec]
    <3>1. Set(c, w)
      BY <2>5
    <3>2. dec \in Decision
      <4>1. x \in Rule
        BY <1>3 DEF Governing
      <4> QED
        BY <2>3, <4>1, JoinedTyped
    <3> HIDE DEF left, dec
    <3>3. Typed(w)
      <4>1. w \in ConnectionType
        BY <1>2, <2>3, <3>2 DEF ConnectionType
      <4>2. w.tier \in Tiers
        BY <1>2, <2>1 DEF ConnectionType
      <4> QED
        BY <4>1, <4>2 DEF Typed
    <3> HIDE DEF w
    <3> QED
      BY <3>1, <3>3, SetTyped
  <2> QED
    BY <2>2, <2>4, <2>5
<1>10. CASE Verdict(c) \/ CheckBirthright(c) \/ CheckGrant(c)
  <2>1. \/ End(c)
        \/ Goto(c, "birthright") \/ Goto(c, "sudo") \/ Goto(c, "grant")
    BY <1>10 DEF Verdict, CheckBirthright, CheckGrant
  <2>2. q.pc \notin {"idle", "over", "auth", "target"}
    BY <1>10 DEF Verdict, CheckBirthright, CheckGrant, At
  <2> QED
    BY <1>4, <2>1, <2>2, EndTyped, GotoTyped
<1>11. CASE CheckSudo(c)
  <2> DEFINE linux == IsLinuxKind(KindOf[q.host])
             level == Larger(q.dec.linux,
                             IF linux /\ ActiveSudoGranted(db, u, q.host) THEN 1 ELSE 0)
             allow == IF linux THEN {} ELSE q.dec.allow
             deny == IF linux THEN {} ELSE q.dec.deny
             dec == [q.dec EXCEPT !.linux = level, !.allow = allow, !.deny = deny]
             w == [q EXCEPT !.pc = "handle", !.dec = dec]
  <2>1. q.dec \in Decision
    BY <1>2 DEF ConnectionType
  <2>2. level \in 0 .. 2 /\ allow \in SUBSET Patterns /\ deny \in SUBSET Patterns
    BY <2>1 DEF Decision, Larger
  <2>3. Set(c, [q EXCEPT !.pc = "handle", !.dec.linux = level, !.dec.allow = allow,
                         !.dec.deny = deny]) /\ q.pc = "sudo"
    BY <1>11 DEF CheckSudo, At
  <2> HIDE DEF level, allow, deny
  <2>4. dec \in Decision
    BY <2>1, <2>2 DEF Decision
  <2>5. Set(c, w)
    BY <1>2, <2>3 DEF ConnectionType
  <2> HIDE DEF dec
  <2>6. Typed(w)
    <3>1. "handle" \in Places
      BY <1>4
    <3>2. q.tier \in Tiers
      BY <1>2, <2>3
    <3> QED
      BY <1>2, <2>4, <3>1, <3>2, DecTyped, Zenon DEF Typed
  <2> HIDE DEF w
  <2> QED
    BY <2>5, <2>6, SetTyped
<1> QED
  BY <1>5, <1>6, <1>7, <1>8, <1>9, <1>10, <1>11 DEF Authorize

\* The login on the target.
LEMMA DialTyped ==
    ASSUME TypeInv, NEW c \in Conns, Dial(c) \/ OpenShell(c) \/ UserLeaves(c)
    PROVE  TypeInv'
<1> DEFINE q == conn[c]
<1>1. q.pc \in Dialling
  BY DEF Dial, OpenShell, UserLeaves, Handle, Privileged, Passthrough, Bootstrap, UserAdd,
         ChPasswd, Sudoers, LoginAsUser, At, Dialling
<1>2. q \in ConnectionType /\ q.tier \in Tiers
  BY <1>1, WorkTyped DEF Dialling
<1>3. q.pc \notin {"idle", "over", "auth", "target"}
  BY <1>1 DEF Dialling
<1>4. Dialling \subseteq Places
  BY DEF Places
<1>5. ASSUME NEW w, NEW a, Write(c, a, w), Typed(w) PROVE TypeInv'
  BY <1>5, ConnTyped DEF Write
<1>6. Typed(Over)
  BY DEF Typed
<1>7. CASE Handle(c)
  <2> DEFINE priv == q.host \in db.priv
             pc == FirstLogin(q, priv)
             w == [q EXCEPT !.priv = priv, !.pc = pc]
  <2>1. Set(c, w) \/ End(c)
    BY <1>7 DEF Handle
  <2>2. pc \in Places /\ priv \in BOOLEAN
    BY <1>4 DEF FirstLogin, Dialling
  <2> HIDE DEF priv, pc
  <2>3. Typed(w)
    <3>1. w \in ConnectionType
      BY <1>2, <2>2 DEF ConnectionType, Places, Dialling
    <3>2. w.tier \in Tiers
      BY <1>2 DEF ConnectionType
    <3> QED
      BY <3>1, <3>2 DEF Typed
  <2> HIDE DEF w
  <2> QED
    BY <2>1, <2>3, SetTyped, EndTyped
<1>8. CASE Privileged(c) \/ Passthrough(c)
  <2> DEFINE p == [q EXCEPT !.pc = "dialled", !.as = "privileged"]
             w == [q EXCEPT !.pc = "dialled", !.as = "portal"]
  <2>1. Set(c, p) \/ Set(c, w) \/ Goto(c, "passthrough") \/ End(c)
    BY <1>8 DEF Privileged, Passthrough
  <2>2. {"dialled", "passthrough"} \subseteq Places
    BY <1>4 DEF Dialling
  <2>3. Typed(p) /\ Typed(w)
    BY <1>2, <2>2, AsTyped, Zenon DEF Typed
  <2> HIDE DEF p, w
  <2> QED
    BY <1>3, <2>1, <2>2, <2>3, SetTyped, EndTyped, GotoTyped
<1>9. CASE Bootstrap(c) \/ OpenShell(c) \/ UserLeaves(c)
  <2>1. Goto(c, "useradd") \/ Goto(c, "shell") \/ End(c)
    BY <1>9 DEF Bootstrap, OpenShell, UserLeaves
  <2>2. {"useradd", "shell"} \subseteq Places
    BY <1>4 DEF Dialling
  <2> QED
    BY <1>3, <2>1, <2>2, EndTyped, GotoTyped
<1>10. CASE UserAdd(c) \/ ChPasswd(c)
  <2> DEFINE p == [q EXCEPT !.pc = "chpasswd"]
             w == [q EXCEPT !.pc = "sudoers"]
  <2>1. End(c) \/ \E a : Write(c, a, p) \/ Write(c, a, w)
    BY <1>10 DEF UserAdd, ChPasswd
  <2>2. {"chpasswd", "sudoers"} \subseteq Places
    BY <1>4 DEF Dialling
  <2>3. Typed(p) /\ Typed(w)
    BY <1>2, <2>2, MoveTyped DEF Typed
  <2> HIDE DEF p, w
  <2> QED
    BY <1>5, <2>1, <2>3, EndTyped
<1>11. CASE Sudoers(c)
  <2> DEFINE p == [q EXCEPT !.pc = "login"]
             w == [q EXCEPT !.kept = TRUE, !.pc = "login"]
  <2>1. End(c) \/ Set(c, w) \/ \E a : Write(c, a, p) \/ Write(c, a, Over)
    BY <1>11 DEF Sudoers
  <2>2. "login" \in Places
    BY <1>4 DEF Dialling
  <2>3. Typed(p) /\ Typed(w)
    BY <1>2, <2>2, MoveTyped, KeptTyped, Zenon DEF Typed
  <2> HIDE DEF p, w
  <2> QED
    BY <1>5, <1>6, <2>1, <2>3, SetTyped, EndTyped
<1>12. CASE LoginAsUser(c)
  <2> DEFINE p == [q EXCEPT !.pc = "dialled", !.as = "own"]
             w == [q EXCEPT !.retry = TRUE, !.pc = "bootstrap"]
  <2>1. End(c) \/ Set(c, p) \/ Set(c, w)
    BY <1>12 DEF LoginAsUser
  <2>2. {"dialled", "bootstrap"} \subseteq Places
    BY <1>4 DEF Dialling
  <2>3. Typed(p) /\ Typed(w)
    BY <1>2, <2>2, AsTyped, RetryTyped, Zenon DEF Typed
  <2> HIDE DEF p, w
  <2> QED
    BY <2>1, <2>3, SetTyped, EndTyped
<1> QED
  BY <1>7, <1>8, <1>9, <1>10, <1>11, <1>12 DEF Dial

\* Whatever the tables become, if they are tables.
LEMMA ChangeTyped ==
    ASSUME TypeInv, NEW d \in Tables, IsFiniteSet(d.rules), Change(d)
    PROVE  TypeInv'
<1>1. db' = d /\ begun' = begun /\ edits' = edits + 1 /\ edits < MaxEdits
  BY DEF Change
<1>2. begun' \in 0 .. MaxConns /\ edits' \in 0 .. MaxEdits
  BY <1>1, TablesAssumption DEF TypeInv
<1>3. ASSUME NEW c \in Conns PROVE Typed(conn'[c])
  <2>1. conn'[c] = Witness(d, conn[c]) /\ Typed(conn[c])
    BY DEF Change, TypeInv
  <2>2. CASE conn[c] \in {Idle, Over}
    <3>1. Witness(d, conn[c]) = conn[c]
      BY <2>2, IdleOver DEF Witness, Handshake
    <3> QED
      BY <2>1, <3>1
  <2>3. CASE conn[c] \notin {Idle, Over}
    <3>1. /\ conn[c] \in ConnectionType
          /\ conn[c].pc \notin {"auth", "target"} => conn[c].tier \in Tiers
      BY <2>1, <2>3 DEF Typed
    <3>2. /\ conn'[c] \in ConnectionType
          /\ conn'[c].pc = conn[c].pc /\ conn'[c].tier = conn[c].tier
      BY <2>1, <3>1, WitnessTyped
    <3> QED
      BY <3>1, <3>2 DEF Typed
  <2> QED
    BY <2>2, <2>3
<1>4. DOMAIN conn' = Conns
  BY DEF Change
<1> QED
  BY <1>1, <1>2, <1>3, <1>4 DEF TypeInv, TablesTyped

\* The accounts, their roles and groups.
LEMMA UserEdits ==
    ASSUME TypeInv, EditUser \/ DeleteUser
    PROVE  TypeInv'
<1>1. db \in Tables /\ IsFiniteSet(db.rules)
  BY DEF TypeInv, TablesTyped
<1>2. CASE EditUser
  <2>1. PICK u \in Users :
           \/ \E a \in {"enabled", "disabled"} : Change([db EXCEPT !.account[u] = a])
           \/ \E r \in Roles : Change([db EXCEPT !.role[u] = r])
           \/ \E r \in Roles : Change([db EXCEPT !.granted[u] = @ \ {r}])
           \/ \E r \in Roles : Change([db EXCEPT !.granted[u] = @ \cup {r}])
    BY <1>2 DEF EditUser, Existing
  <2>2. ASSUME NEW a \in {"enabled", "disabled"}
        PROVE  /\ [db EXCEPT !.account[u] = a] \in Tables
               /\ [db EXCEPT !.account[u] = a].rules = db.rules
    BY <1>1 DEF Tables
  <2>3. ASSUME NEW r \in Roles
        PROVE  /\ [db EXCEPT !.role[u] = r] \in Tables
               /\ [db EXCEPT !.role[u] = r].rules = db.rules
    BY <1>1 DEF Tables
  <2>4. ASSUME NEW r \in Roles
        PROVE  /\ [db EXCEPT !.granted[u] = @ \ {r}] \in Tables
               /\ [db EXCEPT !.granted[u] = @ \ {r}].rules = db.rules
    BY <1>1 DEF Tables
  <2>5. ASSUME NEW r \in Roles
        PROVE  /\ [db EXCEPT !.granted[u] = @ \cup {r}] \in Tables
               /\ [db EXCEPT !.granted[u] = @ \cup {r}].rules = db.rules
    BY <1>1 DEF Tables
  <2> QED
    BY <1>1, <2>1, <2>2, <2>3, <2>4, <2>5, ChangeTyped
<1>3. CASE DeleteUser
  <2>1. PICK u \in Users :
           Change([db EXCEPT !.account[u] = "absent", !.granted[u] = {},
                             !.birthright = {b \in @ : b[1] # u},
                             !.grants = {g \in @ : g.user # u}])
    BY <1>3 DEF DeleteUser, Existing
  <2> DEFINE d == [db EXCEPT !.account[u] = "absent", !.granted[u] = {},
                             !.birthright = {b \in @ : b[1] # u},
                             !.grants = {g \in @ : g.user # u}]
  <2>2. d \in Tables /\ d.rules = db.rules
    BY <1>1 DEF Tables
  <2> HIDE DEF d
  <2> QED
    BY <1>1, <2>1, <2>2, ChangeTyped DEF d
<1> QED
  BY <1>2, <1>3

\* The policies.
LEMMA RuleEdits ==
    ASSUME TypeInv, EditRules
    PROVE  TypeInv'
<1>1. db \in Tables /\ IsFiniteSet(db.rules) /\ db.rules \in SUBSET Rule
  BY DEF TypeInv, TablesTyped, Tables
<1>2. ASSUME NEW rs \in SUBSET Rule, IsFiniteSet(rs), Change([db EXCEPT !.rules = rs])
      PROVE  TypeInv'
  <2> DEFINE d == [db EXCEPT !.rules = rs]
  <2>1. d \in Tables /\ d.rules = rs
    BY <1>1 DEF Tables
  <2> HIDE DEF d
  <2> QED
    BY <1>2, <2>1, ChangeTyped DEF d
<1>3. ASSUME NEW x \in RuleForms, Change([db EXCEPT !.rules = Inserted(@, {x})])
      PROVE  TypeInv'
  <2>1. x \in RuleForm
    BY TablesAssumption
  <2>2. Inserted(db.rules, {x}) \in SUBSET Rule /\ IsFiniteSet(Inserted(db.rules, {x}))
    BY <1>1, <2>1, InsertedRules
  <2> QED
    BY <1>2, <1>3, <2>2
<1>4. ASSUME NEW x \in RuleForms, NEW r \in db.rules,
             Change([db EXCEPT !.rules = WithUpdate(@, r.id, x)])
      PROVE  TypeInv'
  <2> DEFINE rest == {y \in db.rules : y.id # r.id}
  <2>1. x \in RuleForm /\ r.id \in Nat
    BY <1>1, TablesAssumption DEF Rule
  <2>2. rest \in SUBSET Rule /\ IsFiniteSet(rest)
    BY <1>1, FS_Subset
  <2>3. WithUpdate(db.rules, r.id, x) = WithRule(rest, r.id, x)
    BY DEF WithUpdate
  <2> HIDE DEF rest
  <2>4. /\ WithUpdate(db.rules, r.id, x) \in SUBSET Rule
        /\ IsFiniteSet(WithUpdate(db.rules, r.id, x))
    BY <2>1, <2>2, <2>3, FormMakesRule
  <2> QED
    BY <1>2, <1>4, <2>4
<1>5. ASSUME NEW r \in db.rules, Change([db EXCEPT !.rules = WithoutRule(@, r.id)])
      PROVE  TypeInv'
  <2>1. /\ WithoutRule(db.rules, r.id) \in SUBSET Rule
        /\ IsFiniteSet(WithoutRule(db.rules, r.id))
    BY <1>1, FS_Subset DEF WithoutRule
  <2> QED
    BY <1>2, <1>5, <2>1
<1> QED
  BY <1>3, <1>4, <1>5 DEF EditRules

\* The inventory, the birthrights and the privileged accounts.
LEMMA TargetEdits ==
    ASSUME TypeInv,
           EditTarget \/ DeleteTarget \/ AssignBirthright \/ RemoveBirthright \/ EditPrivileged
    PROVE  TypeInv'
<1>1. db \in Tables /\ IsFiniteSet(db.rules)
  BY DEF TypeInv, TablesTyped
<1>2. CASE EditTarget
  <2>1. PICK h \in Hosts, t \in Tiers : Change([db EXCEPT !.tier[h] = t])
    BY <1>2 DEF EditTarget, Listed
  <2>2. [db EXCEPT !.tier[h] = t] \in Tables /\ [db EXCEPT !.tier[h] = t].rules = db.rules
    BY <1>1 DEF Tables
  <2> QED
    BY <1>1, <2>1, <2>2, ChangeTyped
<1>3. CASE DeleteTarget
  <2>1. PICK h \in Hosts :
           Change([db EXCEPT !.tier[h] = NoTier, !.priv = @ \ {h},
                             !.birthright = {b \in @ : b[2] # h},
                             !.grants = {g \in @ : g.host # h}])
    BY <1>3 DEF DeleteTarget, Listed
  <2> DEFINE d == [db EXCEPT !.tier[h] = NoTier, !.priv = @ \ {h},
                             !.birthright = {b \in @ : b[2] # h},
                             !.grants = {g \in @ : g.host # h}]
  <2>2. d \in Tables /\ d.rules = db.rules
    BY <1>1 DEF Tables
  <2> HIDE DEF d
  <2> QED
    BY <1>1, <2>1, <2>2, ChangeTyped DEF d
<1>4. ASSUME NEW bs \in SUBSET (Users \X Hosts), Change([db EXCEPT !.birthright = bs])
      PROVE  TypeInv'
  <2>1. [db EXCEPT !.birthright = bs] \in Tables /\ [db EXCEPT !.birthright = bs].rules = db.rules
    BY <1>1 DEF Tables
  <2> QED
    BY <1>1, <1>4, <2>1, ChangeTyped
<1>5. db.birthright \subseteq Users \X Hosts /\ db.priv \subseteq Hosts
  BY <1>1 DEF Tables
<1>6. CASE AssignBirthright
  BY <1>4, <1>5, <1>6 DEF AssignBirthright, Existing, Listed
<1>7. CASE RemoveBirthright
  BY <1>4, <1>5, <1>7 DEF RemoveBirthright
<1>8. CASE EditPrivileged
  <2>1. PICK h \in Hosts :
           Change([db EXCEPT !.priv = IF h \in @ THEN @ \ {h} ELSE @ \cup {h}])
    BY <1>8 DEF EditPrivileged, Listed
  <2> DEFINE hs == IF h \in db.priv THEN db.priv \ {h} ELSE db.priv \cup {h}
  <2>2. Change([db EXCEPT !.priv = hs])
    BY <2>1
  <2>3. hs \subseteq Hosts
    BY <1>5
  <2> HIDE DEF hs
  <2>4. [db EXCEPT !.priv = hs] \in Tables /\ [db EXCEPT !.priv = hs].rules = db.rules
    BY <1>1, <2>3 DEF Tables
  <2> QED
    BY <1>1, <2>2, <2>4, ChangeTyped
<1> QED
  BY <1>2, <1>3, <1>6, <1>7, <1>8

\* The approved requests.
LEMMA GrantEdits ==
    ASSUME TypeInv, Approve \/ GrantSudo \/ GrantEnds
    PROVE  TypeInv'
<1>1. db \in Tables /\ IsFiniteSet(db.rules) /\ db.grants \subseteq Grant
  BY DEF TypeInv, TablesTyped, Tables
<1>2. ASSUME NEW gs \in SUBSET Grant, Change([db EXCEPT !.grants = gs])
      PROVE  TypeInv'
  <2>1. [db EXCEPT !.grants = gs] \in Tables /\ [db EXCEPT !.grants = gs].rules = db.rules
    BY <1>1 DEF Tables
  <2> QED
    BY <1>1, <1>2, <2>1, ChangeTyped
<1>3. CASE Approve
  <2>1. PICK u \in Users, h \in Hosts, n \in 1 .. 2, b \in BOOLEAN :
           Change([db EXCEPT !.grants = @ \cup
               {[user |-> u, host |-> h, at |-> n, sudo |-> b, active |-> TRUE]}])
    BY <1>3 DEF Approve, Existing, Listed
  <2> DEFINE g == [user |-> u, host |-> h, at |-> n, sudo |-> b, active |-> TRUE]
  <2>2. g \in Grant
    BY DEF Grant
  <2>3. Change([db EXCEPT !.grants = db.grants \cup {g}])
    BY <2>1
  <2> HIDE DEF g
  <2> QED
    BY <1>1, <1>2, <2>2, <2>3
<1>4. ASSUME NEW g \in db.grants, NEW b \in BOOLEAN
      PROVE  [g EXCEPT !.sudo = b] \in Grant /\ [g EXCEPT !.active = b] \in Grant
  BY <1>1 DEF Grant
<1>5. CASE GrantSudo
  <2>1. PICK g \in db.grants, b \in BOOLEAN :
           Change([db EXCEPT !.grants = (@ \ {g}) \cup {[g EXCEPT !.sudo = b]}])
    BY <1>5 DEF GrantSudo
  <2> DEFINE gs == (db.grants \ {g}) \cup {[g EXCEPT !.sudo = b]}
  <2>2. gs \in SUBSET Grant
    BY <1>1, <1>4
  <2>3. Change([db EXCEPT !.grants = gs])
    BY <2>1
  <2> HIDE DEF gs
  <2> QED
    BY <1>2, <2>2, <2>3
<1>6. CASE GrantEnds
  BY <1>1, <1>2, <1>4, <1>6 DEF GrantEnds
<1> QED
  BY <1>3, <1>5, <1>6

LEMMA BeginsTyped ==
    ASSUME TypeInv, NEW c \in Conns, Begin(c)
    PROVE  TypeInv'
<1>1. PICK x \in Inputs : conn' = [conn EXCEPT ![c] = Witness(db, Connection(x))]
  BY DEF Begin
<1>2. Typed(Witness(db, Connection(x)))
  BY BeginTyped, WitnessTyped DEF TypeInv, TablesTyped, Typed
<1>3. begun' \in 0 .. MaxConns
  BY TablesAssumption DEF Begin, TypeInv
<1>4. UNCHANGED <<db, edits>>
  BY DEF Begin
<1> QED
  BY <1>1, <1>2, <1>3, <1>4 DEF TypeInv, TablesTyped

\* Tables, machines and connections keep their types, whatever rules the
\* administrators write.
THEOREM AccessTypeCorrect == Spec => []TypeOK
<1>1. Init => TypeInv
  <2> SUFFICES ASSUME Init PROVE TypeInv
    OBVIOUS
  <2>1. TablesTyped /\ MaxConns \in Nat /\ MaxEdits \in Nat
    BY TablesAssumption DEF Init, TablesTyped
  <2>2. DOMAIN conn = Conns /\ \A c \in Conns : Typed(conn[c])
    BY DEF Init, Typed
  <2> QED
    BY <2>1, <2>2 DEF Init, TypeInv
<1>2. TypeInv /\ ConnInv /\ [Next]_vars => TypeInv'
  <2> SUFFICES ASSUME TypeInv, ConnInv, [Next]_vars PROVE TypeInv'
    OBVIOUS
  <2>1. CASE Administer
    BY <2>1, UserEdits, RuleEdits, TargetEdits, GrantEdits DEF Administer
  <2>2. CASE UNCHANGED vars
    BY <2>2 DEF vars, TypeInv, TablesTyped
  <2> QED
    BY <2>1, <2>2, BeginsTyped, AuthorizeTyped, DialTyped DEF Next
<1>3. TypeInv /\ SudoInv => TypeOK
  BY DEF TypeInv, TablesTyped, Typed, SudoInv, MachineInv, TypeOK
<1> QED
  BY <1>1, <1>2, <1>3, SudoInvariant, PTL DEF Spec

=============================================================================
