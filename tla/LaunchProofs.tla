---------------------------- MODULE LaunchProofs ----------------------------
(***************************************************************************)
(* Proofs about Launch: its types, that every stored credential has an      *)
(* owner, that an acknowledged termination is final, that every tunnel is   *)
(* watched, and that a new session replaces the ones before it.             *)
(***************************************************************************)
EXTENDS Launch, TLAPS

Launches ==
    [op : {"launch"}, s : Sessions, seen : SUBSET Sessions, old : SUBSET Sessions,
     at : {"read", "supersede", "checkout", "store", "token", "insert", "unstore"}]
Purging ==
    [op : {"launch"}, s : Sessions, seen : SUBSET Sessions, old : SUBSET Sessions,
     at : {"purge"}, x : Sessions]
Endings == [op : {"end"}, at : {"ask", "end", "purge"}, x : Sessions]

\* What the place of a call tells of it.
LEMMA CallKinds ==
    ASSUME NEW k \in Call
    PROVE  /\ k = Idle => k.op = "idle"
           /\ k.op = "launch" /\ k.at # "purge" => k \in Launches
           /\ k.op = "launch" /\ k.at = "purge" => k \in Purging
           /\ k.op = "end" => k \in Endings
           /\ k = Idle \/ k.op \in {"launch", "end"}
BY DEF Call, Idle, Launches, Purging, Endings

LEMMA CallIs == Call = {Idle} \cup Launches \cup Purging \cup Endings
BY DEF Call, Launches, Purging, Endings

\* The tables keep their types.
StoreType ==
    /\ protocol \in Protocols
    /\ row \in [Sessions -> {"absent", "open", "ended"}]
    /\ creds \subseteq Sessions /\ token \subseteq Sessions
    /\ checkouts \subseteq Sessions /\ cut \subseteq Sessions
    /\ call \in [Handlers -> Call]
    /\ \A h \in Handlers : call[h].op = "launch" => call[h].at \in Steps(protocol)
    /\ kill \in [Sessions -> {"none", "asked", "acked"}]

ProxyType ==
    /\ recorded \subseteq Sessions
    /\ made \in [Sessions -> 0..MaxTunnels]
    /\ tunnels \in [Sessions -> 0..MaxTunnels]
    /\ dialing \subseteq Tunnel /\ live \subseteq Tunnel
    /\ serving \subseteq Tunnel /\ polling \subseteq Tunnel
    /\ closers \subseteq Closer
    /\ mu \in {"free", "stuck"}

LEMMA TypeParts == TypeOK <=> StoreType /\ ProxyType
BY DEF TypeOK, StoreType, ProxyType

\* A step of a handler's call.
LEMMA CallStep ==
    ASSUME StoreType, NEW h \in Handlers, NEW k \in Call,
           k.op = "launch" => k.at \in Steps(protocol),
           call' = [call EXCEPT ![h] = k], UNCHANGED <<protocol, proxy>>,
           row' \in [Sessions -> {"absent", "open", "ended"}],
           kill' \in [Sessions -> {"none", "asked", "acked"}],
           creds' \subseteq Sessions, token' \subseteq Sessions,
           checkouts' \subseteq Sessions, cut' \subseteq Sessions, ProxyType
    PROVE  StoreType' /\ ProxyType'
<1>1. StoreType'
  BY DEF StoreType
<1>2. ProxyType'
  BY DEF ProxyType, proxy
<1> QED
  BY <1>1, <1>2

LEMMA BeginType ==
    ASSUME StoreType, ProxyType, NEW h \in Handlers, NEW s \in Sessions,
           WebLaunch(h, s) \/ RdpLaunch(h, s) \/ DbLaunch(h, s) \/ SshLaunch(h, s)
    PROVE  StoreType' /\ ProxyType'
<1>1. PICK at \in {"read", "store"} : Begin(h, s, at) /\ at \in Steps(protocol)
  BY DEF WebLaunch, RdpLaunch, DbLaunch, SshLaunch, Steps
<1> DEFINE k == [op |-> "launch", at |-> at, s |-> s, seen |-> Open, old |-> {}]
<1>2. k \in Call /\ k.at = at
  BY DEF Call, Open
<1> HIDE DEF k
<1>3. call' = [call EXCEPT ![h] = k]
  BY <1>1 DEF Begin, k
<1> QED
  BY <1>1, <1>2, <1>3, CallStep DEF Begin, StoreType, store

LEMMA GotoType ==
    ASSUME StoreType, NEW h \in Handlers, call[h].op = "launch", call[h].at # "purge",
           NEW at \in {"read", "supersede", "checkout", "store", "token", "insert", "unstore"}
    PROVE  [call[h] EXCEPT !.at = at] \in Call /\ [call[h] EXCEPT !.at = at].at = at
<1>1. call[h] \in Launches
  BY CallKinds DEF StoreType
<1>2. [call[h] EXCEPT !.at = at] \in Launches /\ [call[h] EXCEPT !.at = at].at = at
  BY <1>1 DEF Launches
<1> QED
  BY <1>2, CallIs

LEMMA LaunchType ==
    ASSUME StoreType, ProxyType, NEW h \in Handlers, LaunchStep(h)
    PROVE  StoreType' /\ ProxyType'
<1> DEFINE k == call[h]
<1>0. /\ k \in Call /\ k.at \in Steps(protocol) /\ k.at # "purge" /\ k \in Launches
      /\ k.op = "launch"
  BY CallKinds DEF StoreType, LaunchStep, ReadOpen, Supersede, Superseded, Checkout, Refuse,
     StoreCredentials, StoreToken, StoreTokenFails, Insert, InsertFails, Unstore, At
<1>s. k.s \in Sessions /\ k.seen \subseteq Sessions /\ k.old \subseteq Sessions
  BY <1>0 DEF Launches
<1>i. Idle \in Call /\ Idle.op # "launch"
  BY DEF Idle, Call
<1>1. CASE ReadOpen(h)
  <2> DEFINE n == [k EXCEPT !.old = Open, !.at = "supersede"]
  <2>1. n \in Launches /\ n.at = "supersede"
    BY <1>0 DEF Launches, Open
  <2>2. call' = [call EXCEPT ![h] = n]
    BY <1>1 DEF ReadOpen, ToSupersede
  <2> HIDE DEF n
  <2>3. "supersede" \in Steps(protocol)
    BY <1>0, <1>1 DEF Steps, ReadOpen, At
  <2>4. n \in Call
    BY <2>1, CallIs
  <2>5. UNCHANGED <<protocol, row, creds, token, checkouts, kill, cut, proxy>>
    BY <1>1 DEF ReadOpen, store
  <2> QED
    BY <2>1, <2>2, <2>3, <2>4, <2>5, CallStep DEF StoreType
<1>2. CASE Supersede(h)
  <2>1. PICK x \in k.old :
           /\ row' = [row EXCEPT ![x] = "ended"]
           /\ call' = [call EXCEPT ![h] =
               IF row[x] = "open"
               THEN [op |-> "launch", at |-> "purge", s |-> @.s, seen |-> @.seen,
                     old |-> k.old \ {x}, x |-> x]
               ELSE [@ EXCEPT !.old = k.old \ {x}]]
    BY <1>2 DEF Supersede
  <2> DEFINE a == [op |-> "launch", at |-> "purge", s |-> k.s, seen |-> k.seen,
                   old |-> k.old \ {x}, x |-> x]
             b == [k EXCEPT !.old = k.old \ {x}]
             n == IF row[x] = "open" THEN a ELSE b
  <2>2. a \in Purging /\ b \in Launches /\ a.at = "purge" /\ b.at = k.at
    BY <1>0, <1>s DEF Purging, Launches
  <2>3. call' = [call EXCEPT ![h] = n]
    BY <2>1
  <2>4. "purge" \in Steps(protocol)
    BY <1>0, <1>2 DEF Steps, Supersede, At
  <2> HIDE DEF a, b
  <2>5. n \in Call /\ n.at \in Steps(protocol)
    BY <1>0, <2>2, <2>4, CallIs
  <2>6. row' \in [Sessions -> {"absent", "open", "ended"}]
    BY <1>s, <2>1 DEF StoreType
  <2> HIDE DEF n
  <2> QED
    BY <1>2, <2>3, <2>5, <2>6, CallStep DEF Supersede, StoreType
<1>3. ASSUME NEW at \in {"checkout", "store", "token", "insert", "unstore"},
             Goto(h, at), at \in Steps(protocol), UNCHANGED <<protocol, proxy>>,
             row' \in [Sessions -> {"absent", "open", "ended"}],
             kill' \in [Sessions -> {"none", "asked", "acked"}],
             creds' \subseteq Sessions, token' \subseteq Sessions,
             checkouts' \subseteq Sessions, cut' \subseteq Sessions
      PROVE  StoreType' /\ ProxyType'
  <2> DEFINE n == [k EXCEPT !.at = at]
  <2>1. n \in Call /\ n.at = at
    BY <1>0, GotoType
  <2>2. call' = [call EXCEPT ![h] = n]
    BY <1>3 DEF Goto
  <2> HIDE DEF n
  <2> QED
    BY <1>3, <2>1, <2>2, CallStep
<1>4. ASSUME Return(h), UNCHANGED <<protocol, proxy>>,
             row' \in [Sessions -> {"absent", "open", "ended"}],
             kill' \in [Sessions -> {"none", "asked", "acked"}],
             creds' \subseteq Sessions, token' \subseteq Sessions,
             checkouts' \subseteq Sessions, cut' \subseteq Sessions
      PROVE  StoreType' /\ ProxyType'
  BY <1>4, <1>i, CallStep DEF Return
<1>5. CASE Superseded(h) \/ Checkout(h) \/ Refuse(h)
  <2>1. "store" \in Steps(protocol)
        /\ (Superseded(h) => AfterSupersede \in Steps(protocol) \cap {"store", "checkout"})
    BY <1>0, <1>5, LaunchAssumption
    DEF Steps, AfterSupersede, StoreType, Superseded, Checkout, Refuse, At
  <2> QED
    BY <1>3, <1>4, <1>5, <1>s, <2>1
    DEF Superseded, Checkout, Refuse, Recorded, StoreType, store
<1>6. CASE StoreCredentials(h) \/ StoreToken(h) \/ StoreTokenFails(h)
  <2>1. "insert" \in Steps(protocol) /\ (protocol = "ssh" => "token" \in Steps(protocol))
    BY DEF Steps
  <2> QED
    BY <1>3, <1>4, <1>6, <1>s, <2>1
    DEF StoreCredentials, StoreToken, StoreTokenFails, StoreType
<1>7. CASE Insert(h) \/ InsertFails(h) \/ Unstore(h)
  <2>1. protocol = "ssh" => "unstore" \in Steps(protocol)
    BY DEF Steps
  <2> QED
    BY <1>3, <1>4, <1>7, <1>s, <2>1 DEF Insert, InsertFails, Unstore, StoreType
<1> QED
  BY <1>1, <1>2, <1>5, <1>6, <1>7 DEF LaunchStep

LEMMA EndType ==
    ASSUME StoreType, ProxyType, NEW h \in Handlers,
           \/ EndStep(h) \/ CutOff(h)
           \/ \E s \in Sessions : EndSession(h, s) \/ Terminate(h, s)
    PROVE  StoreType' /\ ProxyType'
<1> DEFINE k == call[h]
<1>0. k \in Call
  BY DEF StoreType
<1>i. Idle \in Call /\ Idle.op # "launch"
  BY DEF Idle, Call
<1>1. CASE \E s \in Sessions : EndSession(h, s) \/ Terminate(h, s)
  <2>1. PICK s \in Sessions, at \in {"end", "ask"} :
            call' = [call EXCEPT ![h] = [op |-> "end", at |-> at, x |-> s]]
    BY <1>1 DEF EndSession, Terminate
  <2>2. UNCHANGED <<protocol, row, creds, token, checkouts, kill, cut, proxy>>
    BY <1>1 DEF EndSession, Terminate, store
  <2> DEFINE n == [op |-> "end", at |-> at, x |-> s]
  <2>3. n \in Call /\ n.op = "end"
    BY DEF Call
  <2> HIDE DEF n
  <2>4. call' = [call EXCEPT ![h] = n]
    BY <2>1 DEF n
  <2> QED
    BY <2>2, <2>3, <2>4, CallStep DEF StoreType
<1>2. CASE AskProxies(h) \/ End(h)
  <2>1. k \in Endings
    BY <1>0, <1>2, CallKinds DEF AskProxies, End, At
  <2>2. PICK n : /\ n = Idle \/ \E at \in {"end", "purge"} : n = [k EXCEPT !.at = at]
                 /\ call' = [call EXCEPT ![h] = n]
    BY <1>2 DEF AskProxies, End, Goto, Return
  <2>3. n \in Call /\ n.op # "launch"
    BY <1>i, <2>1, <2>2, CallIs DEF Endings
  <2>4. k.x \in Sessions
    BY <2>1 DEF Endings
  <2>5. /\ row' \in [Sessions -> {"absent", "open", "ended"}]
        /\ kill' \in [Sessions -> {"none", "asked", "acked"}]
        /\ UNCHANGED <<protocol, creds, token, checkouts, cut, proxy>>
    BY <1>2, <2>4 DEF AskProxies, End, StoreType
  <2> QED
    BY <2>2, <2>3, <2>5, CallStep DEF StoreType
<1>3. CASE Purge(h)
  <2> DEFINE n == IF k.op = "end" THEN Idle
                  ELSE [op |-> "launch", at |-> "supersede", s |-> k.s, seen |-> k.seen,
                        old |-> k.old]
  <2>1. k \in Endings \/ k \in Purging
    BY <1>0, <1>3, CallIs DEF Purge, Launches
  <2>2. k \in Purging => "supersede" \in Steps(protocol)
    BY DEF StoreType, Purging, Steps
  <2>3. k \in Purging => [op |-> "launch", at |-> "supersede", s |-> k.s, seen |-> k.seen,
                          old |-> k.old] \in Launches
    BY DEF Purging, Launches
  <2>4. n \in Call /\ (n.op = "launch" => n.at \in Steps(protocol))
    <3>1. CASE k \in Endings
      BY <1>i, <3>1 DEF Endings
    <3>2. CASE k \in Purging
      BY <2>2, <2>3, <3>2, CallIs DEF Purging
    <3> QED
      BY <2>1, <3>1, <3>2
  <2>5. call' = [call EXCEPT ![h] = n] /\ creds' \subseteq creds
    BY <1>3 DEF Purge, Purged
  <2> HIDE DEF n
  <2> QED
    BY <1>3, <2>4, <2>5, CallStep DEF Purge, StoreType
<1>4. CASE CutOff(h)
  <2>1. cut' \subseteq Sessions
    <3>1. k.at = "purge" => k.x \in Sessions
      BY <1>0, <1>4, CallIs DEF CutOff, Launches, Purging, Endings
    <3> QED
      BY <1>4, <3>1 DEF CutOff, StoreType
  <2> QED
    BY <1>4, <1>i, <2>1, CallStep DEF CutOff, Return, StoreType, store
<1> QED
  BY <1>1, <1>2, <1>3, <1>4 DEF EndStep

\* The proxies keep the types.
LEMMA ProxySteps ==
    ASSUME StoreType, ProxyType, ProxyStep
    PROVE  StoreType' /\ ProxyType'
<1> USE LaunchAssumption
<1>c. ASSUME NEW c \in closers
      PROVE  /\ c.t[1] \in Sessions /\ c \in Closer
             /\ \A at \in {"row", "token", "creds", "ack"} : [c EXCEPT !.at = at] \in Closer
  <2>1. c \in Closer
    BY DEF ProxyType
  <2>2. c.t \in Sessions \X (1..MaxTunnels)
    BY <2>1 DEF Closer, Tunnel
  <2>3. c.t[1] \in Sessions
    BY <2>2
  <2>4. \A at \in {"row", "token", "creds", "ack"} : [c EXCEPT !.at = at] \in Closer
    BY <2>1 DEF Closer
  <2> QED
    BY <2>1, <2>3, <2>4
<1>t. ASSUME NEW t \in Tunnel
      PROVE  /\ t[1] \in Sessions /\ t[2] \in 1..MaxTunnels
             /\ \A by \in {"socket", "poller"} : [t |-> t, by |-> by, at |-> "map"] \in Closer
  BY DEF Tunnel, Closer
<1>1. ASSUME NEW s \in Sessions, LoadSession(s) \/ Relay(s) PROVE StoreType' /\ ProxyType'
  <2>1. made[s] + 1 \in 1..MaxTunnels /\ <<s, made[s] + 1>> \in Tunnel
    BY <1>1 DEF LoadSession, Relay, ProxyType, Tunnel
  <2>2. made' \in [Sessions -> 0..MaxTunnels] /\ dialing' \subseteq Tunnel /\ live' \subseteq Tunnel
    BY <1>1, <2>1 DEF LoadSession, Relay, ProxyType
  <2>3. UNCHANGED <<protocol, store, call, cut, tunnels, serving, polling, closers, recorded, mu>>
    BY <1>1 DEF LoadSession, Relay
  <2> QED
    BY <2>2, <2>3 DEF ProxyType, StoreType, store
<1>2. ASSUME NEW t \in Tunnel, DialFails(t) \/ Record(t) \/ Drop(t) \/ RelayEnds(t)
      PROVE  StoreType' /\ ProxyType'
  <2>1. /\ dialing' \subseteq Tunnel /\ live' \subseteq Tunnel /\ recorded' \subseteq Sessions
        /\ UNCHANGED <<protocol, store, call, cut, made, tunnels, serving, polling, closers, mu>>
    BY <1>2, <1>t DEF DialFails, Record, Drop, RelayEnds, ProxyType
  <2> QED
    BY <2>1 DEF ProxyType, StoreType, store
<1>3. ASSUME NEW t \in Tunnel, Register(t) PROVE StoreType' /\ ProxyType'
  <2>0. t[1] \in Sessions /\ t[2] \in 0..MaxTunnels
    BY DEF Tunnel
  <2>1. /\ tunnels' \in [Sessions -> 0..MaxTunnels] /\ mu' \in {"free", "stuck"}
        /\ dialing' \subseteq Tunnel /\ live' \subseteq Tunnel
        /\ serving' \subseteq Tunnel /\ polling' \subseteq Tunnel
    <3>1. CASE tunnels[t[1]] = 0
      BY <1>3, <2>0, <3>1 DEF Register, ProxyType
    <3>2. CASE tunnels[t[1]] # 0
      BY <1>3, <3>2 DEF Register, ProxyType
    <3> QED
      BY <3>1, <3>2
  <2>2. UNCHANGED <<protocol, store, call, cut, made, closers, recorded>>
    BY <1>3 DEF Register
  <2> QED
    BY <2>1, <2>2 DEF ProxyType, StoreType, store
<1>4. ASSUME NEW t \in Tunnel, SocketEnds(t) \/ Poll(t) PROVE StoreType' /\ ProxyType'
  <2>1. /\ serving' \subseteq Tunnel /\ polling' \subseteq Tunnel /\ live' \subseteq Tunnel
        /\ closers' \subseteq Closer
    BY <1>4, <1>t DEF SocketEnds, Poll, Close, ProxyType
  <2>2. UNCHANGED <<protocol, store, call, cut, made, dialing, tunnels, recorded, mu>>
    BY <1>4 DEF SocketEnds, Poll
  <2> QED
    BY <2>1, <2>2 DEF ProxyType, StoreType, store
<1>5. ASSUME NEW t \in Tunnel, WatchTermination(t) PROVE StoreType' /\ ProxyType'
  BY <1>5, <1>t DEF WatchTermination, ProxyType, StoreType, store
<1>6. ASSUME NEW c \in closers, CloseStep(c) PROVE StoreType' /\ ProxyType'
  <2>1. c.t[1] \in Sessions /\ closers' \subseteq Closer
    BY <1>6, <1>c
    DEF CloseStep, CloseMap, CloseRow, CloseToken, CloseCreds, Acknowledge, Moves, Ends, ProxyType
  <2>2. CASE CloseMap(c) \/ CloseRow(c)
    <3>1. /\ row' \in [Sessions -> {"absent", "open", "ended"}]
          /\ tunnels' \in [Sessions -> 0..MaxTunnels]
      BY <2>1, <2>2 DEF CloseMap, CloseRow, StoreType, ProxyType
    <3>2. UNCHANGED <<protocol, creds, token, checkouts, kill, call, cut, made, dialing,
                      live, serving, polling, recorded, mu>>
      BY <2>2 DEF CloseMap, CloseRow, Unchanged_Close
    <3> QED
      BY <2>1, <3>1, <3>2 DEF StoreType, ProxyType
  <2>3. CASE CloseToken(c) \/ CloseCreds(c) \/ Acknowledge(c)
    BY <2>1, <2>3
    DEF CloseToken, CloseCreds, Acknowledge, TokenGone, Emptied, Unchanged_Close,
        StoreType, ProxyType
  <2> QED
    BY <1>6, <2>2, <2>3 DEF CloseStep
<1> QED
  BY <1>1, <1>2, <1>3, <1>4, <1>5, <1>6 DEF ProxyStep

\* Every variable keeps its type, for any number of sessions, launches,
\* requests and tunnels.
THEOREM LaunchTypeCorrect == Spec => []TypeOK
<1>1. Init => TypeOK
  <2> SUFFICES ASSUME Init PROVE TypeOK
    OBVIOUS
  <2>1. call \in [Handlers -> Call] /\ \A h \in Handlers : call[h].op # "launch"
    BY DEF Init, Call, Idle
  <2> QED
    BY <2>1, LaunchAssumption DEF Init, TypeOK
<1>2. TypeOK /\ [Next]_vars => TypeOK'
  <2> SUFFICES ASSUME StoreType, ProxyType, [Next]_vars PROVE StoreType' /\ ProxyType'
    BY TypeParts DEF TypeOK, StoreType, ProxyType
  <2>1. CASE UNCHANGED vars
    BY <2>1 DEF vars, store, proxy, StoreType, ProxyType
  <2>2. CASE Next
    BY <2>2, BeginType, LaunchType, EndType, ProxySteps DEF Next
  <2> QED
    BY <2>1, <2>2
<1> QED
  BY <1>1, <1>2, PTL DEF Spec

-----------------------------------------------------------------------------
(* Owners of the secrets, and termination.                                 *)

Began(s) == row[s] # "absent"

\* A launch is alone with its session until the row is there, has not stored
\* credentials before it is its turn, and ends only sessions that began.
LaunchingInv ==
    \A h \in Handlers : call[h].op = "launch" =>
        /\ ~Began(call[h].s) /\ kill[call[h].s] = "none"
        /\ call[h].at \notin {"token", "insert", "unstore"} => call[h].s \notin creds
        /\ protocol \in {"rdp", "db"} /\ call[h].at \in {"store", "insert"}
               => call[h].s \in checkouts
        /\ \A x \in call[h].old : Began(x)
        /\ \A g \in Handlers : call[g].op = "launch" /\ call[g].s = call[h].s => g = h

EndingInv ==
    \A h \in Handlers :
        /\ call[h].op = "end" => Began(call[h].x)
        /\ call[h] # Idle /\ call[h].at = "purge" => row[call[h].x] = "ended"

\* The proxies and the administrators know sessions that began; from the row
\* on, a closer's session is ended, and at the acknowledgement its credentials
\* are gone.
ProxyInv ==
    /\ \A t \in dialing \cup serving \cup polling : Began(t[1])
    /\ \A s \in Sessions : kill[s] # "none" => Began(s)
    /\ \A c \in closers :
           /\ Began(c.t[1])
           /\ c.at \in {"token", "creds", "ack"} => row[c.t[1]] = "ended"
           /\ c.at = "ack" => c.t[1] \notin creds

LaunchInv ==
    LaunchingInv /\ EndingInv /\ ProxyInv /\ SecretsHaveOwner /\ AckMeansGone

LEMMA InvAt ==
    ASSUME TypeOK, LaunchInv, NEW h \in Handlers, call[h].op = "launch", call[h].at # "purge"
    PROVE  call[h] \in Launches /\ call[h].s \in Sessions /\ call[h] # Idle
<1>1. call[h] \in Launches /\ call[h] # Idle
  BY CallKinds DEF TypeOK, Idle
<1> QED
  BY <1>1 DEF Launches

\* A call begins.
LEMMA BeginInv ==
    ASSUME TypeOK, LaunchInv, NEW h \in Handlers, NEW s \in Sessions,
           WebLaunch(h, s) \/ RdpLaunch(h, s) \/ DbLaunch(h, s) \/ SshLaunch(h, s)
    PROVE  LaunchInv'
<1>1. PICK at \in {"read", "store"} :
          Begin(h, s, at) /\ (at = "store" => protocol = "ssh")
  BY DEF WebLaunch, RdpLaunch, DbLaunch, SshLaunch
<1> DEFINE k == [op |-> "launch", at |-> at, s |-> s, seen |-> Open, old |-> {}]
<1>2. call' = [call EXCEPT ![h] = k] /\ call[h] = Idle /\ Fresh(s)
  BY <1>1 DEF Begin
<1>3. UNCHANGED <<protocol, row, creds, token, checkouts, kill, cut, closers, dialing, serving,
                  polling>>
  BY <1>1 DEF Begin, store, proxy
<1>4. /\ call'[h] = k /\ k.op = "launch" /\ k.at = at /\ k.s = s /\ k.old = {}
      /\ \A g \in Handlers \ {h} : call'[g] = call[g]
  BY <1>2 DEF TypeOK
<1>5. ~Began(s) /\ kill[s] = "none" /\ s \notin creds /\ ~Launching(s)
  BY <1>2 DEF Fresh, Began, LaunchInv, ProxyInv
<1> HIDE DEF k
<1>6. LaunchingInv'
  BY <1>1, <1>3, <1>4, <1>5 DEF LaunchInv, LaunchingInv, Began, Launching
<1>7. EndingInv'
  BY <1>1, <1>3, <1>4 DEF LaunchInv, EndingInv, Began
<1>8. ProxyInv' /\ AckMeansGone'
  BY <1>3 DEF LaunchInv, ProxyInv, AckMeansGone, Began
<1>9. SecretsHaveOwner'
  <2>1. \A x : Launching(x) => Launching(x)'
    BY <1>2, <1>4 DEF Launching, Idle
  <2>2. \A x : Ending(x) => Ending(x)'
    BY <1>2, <1>4 DEF Ending
  <2> QED
    BY <1>3, <2>1, <2>2 DEF LaunchInv, SecretsHaveOwner, Settling
<1> QED
  BY <1>6, <1>7, <1>8, <1>9 DEF LaunchInv

\* A launch goes on.
LEMMA GoesOn ==
    ASSUME TypeOK, LaunchInv, NEW h \in Handlers,
           call[h].op = "launch", call[h].at # "purge",
           NEW k, k.op = "launch", k.s = call[h].s, k.at # "purge", \A x \in k.old : Began(x),
           call' = [call EXCEPT ![h] = k],
           UNCHANGED <<protocol, row, kill, cut, closers, dialing, serving, polling>>,
           creds' \subseteq creds \cup {k.s}, checkouts \subseteq checkouts',
           k.at \notin {"token", "insert", "unstore"} => k.s \notin creds',
           protocol \in {"rdp", "db"} /\ (k.at \in {"store", "insert"} \/ k.s \in creds')
               => k.s \in checkouts'
    PROVE  LaunchInv'
<1>1. call'[h] = k /\ \A g \in Handlers \ {h} : call'[g] = call[g]
  BY DEF TypeOK
<1>2. ~Began(k.s) /\ kill[k.s] = "none"
  BY DEF LaunchInv, LaunchingInv
<1>3. LaunchingInv'
  <2> SUFFICES ASSUME NEW g \in Handlers, (call[g].op = "launch")'
               PROVE  (/\ ~Began(call[g].s) /\ kill[call[g].s] = "none"
                       /\ call[g].at \notin {"token", "insert", "unstore"} => call[g].s \notin creds
                       /\ protocol \in {"rdp", "db"} /\ call[g].at \in {"store", "insert"}
                              => call[g].s \in checkouts
                       /\ \A x \in call[g].old : Began(x)
                       /\ \A f \in Handlers : call[f].op = "launch" /\ call[f].s = call[g].s
                              => f = g)'
    BY DEF LaunchingInv
  <2>1. CASE g = h
    BY <1>1, <1>2, <2>1 DEF LaunchInv, LaunchingInv, Began
  <2>2. CASE g # h
    BY <1>1, <1>2, <2>2 DEF LaunchInv, LaunchingInv, Began
  <2> QED
    BY <2>1, <2>2
<1>4. EndingInv'
  BY <1>1 DEF LaunchInv, EndingInv, Began
<1>5. ProxyInv' /\ AckMeansGone'
  BY <1>2 DEF LaunchInv, ProxyInv, AckMeansGone, Began
<1>6. SecretsHaveOwner'
  <2>1. \A x : Launching(x) => Launching(x)'
    BY <1>1 DEF Launching
  <2>2. \A x : Ending(x) => Ending(x)'
    BY <1>1 DEF Ending
  <2>3. Launching(k.s)
    BY DEF Launching
  <2> QED
    BY <2>1, <2>2, <2>3 DEF LaunchInv, SecretsHaveOwner, Settling
<1> QED
  BY <1>3, <1>4, <1>5, <1>6 DEF LaunchInv

\* A launch returns, with a row or with nothing in the vault.
LEMMA Returns ==
    ASSUME TypeOK, LaunchInv, NEW h \in Handlers,
           call[h].op = "launch", call[h].at # "purge", Return(h),
           UNCHANGED <<protocol, checkouts, kill, cut, closers, dialing, serving, polling>>,
           creds' \subseteq creds,
           \/ row' = row /\ call[h].s \notin creds'
           \/ row' = [row EXCEPT ![call[h].s] = "open"]
    PROVE  LaunchInv'
<1> DEFINE s == call[h].s
<1>1. call'[h] = Idle /\ \A g \in Handlers \ {h} : call'[g] = call[g]
  BY DEF TypeOK, Return
<1>2. ~Began(s) /\ kill[s] = "none" /\ s \in Sessions
  BY InvAt DEF LaunchInv, LaunchingInv
<1>3. Idle.op = "idle"
  BY DEF Idle
<1>4. /\ \A x \in Sessions \ {s} : row'[x] = row[x]
      /\ row'[s] = row[s] \/ row'[s] = "open"
      /\ s \in creds' => row'[s] = "open"
  BY <1>2 DEF TypeOK
<1>5. \A x \in Sessions : Began(x) => Began(x)' /\ row'[x] = row[x]
  BY <1>2, <1>4 DEF Began
<1> HIDE DEF s
<1>6. LaunchingInv'
  <2> SUFFICES ASSUME NEW g \in Handlers, g # h, call[g].op = "launch"
               PROVE  (/\ ~Began(call[g].s) /\ kill[call[g].s] = "none"
                       /\ call[g].at \notin {"token", "insert", "unstore"} => call[g].s \notin creds
                       /\ protocol \in {"rdp", "db"} /\ call[g].at \in {"store", "insert"}
                              => call[g].s \in checkouts
                       /\ \A x \in call[g].old : Began(x)
                       /\ \A f \in Handlers : call[f].op = "launch" /\ call[f].s = call[g].s
                              => f = g)'
    BY <1>1, <1>3 DEF LaunchingInv
  <2>1. call[g].s # s /\ call[g].s \in Sessions /\ call[g].old \subseteq Sessions
    <3>1. call[g] \in Launches \/ call[g] \in Purging
      BY CallKinds DEF TypeOK
    <3> QED
      BY <3>1 DEF LaunchInv, LaunchingInv, Launches, Purging, s
  <2> QED
    BY <1>1, <1>3, <1>4, <1>5, <2>1 DEF LaunchInv, LaunchingInv, Began
<1>7. EndingInv'
  <2> SUFFICES ASSUME NEW g \in Handlers, g # h
               PROVE  (/\ call[g].op = "end" => Began(call[g].x)
                       /\ call[g] # Idle /\ call[g].at = "purge" => row[call[g].x] = "ended")'
    BY <1>1, <1>3 DEF EndingInv
  <2>1. call[g].op = "end" \/ (call[g] # Idle /\ call[g].at = "purge") => call[g].x \in Sessions
    BY CallIs DEF TypeOK, Launches, Purging, Endings, Idle
  <2> QED
    BY <1>1, <1>5, <2>1 DEF LaunchInv, EndingInv, Began
<1>8. ProxyInv' /\ AckMeansGone'
  <2>1. \A t \in dialing \cup serving \cup polling : t[1] \in Sessions
    BY DEF TypeOK, Tunnel
  <2>2. \A c \in closers : c.t[1] \in Sessions
    BY DEF TypeOK, Closer, Tunnel
  <2> QED
    BY <1>2, <1>5, <2>1, <2>2 DEF LaunchInv, ProxyInv, AckMeansGone, Began
<1>9. SecretsHaveOwner'
  <2>1. \A x : x # s /\ Launching(x) => Launching(x)'
    BY <1>1 DEF Launching, s
  <2>2. \A x : Ending(x) => Ending(x)'
    BY <1>1 DEF Ending
  <2>3. creds \subseteq Sessions
    BY DEF TypeOK
  <2> QED
    BY <1>4, <2>1, <2>2, <2>3 DEF LaunchInv, SecretsHaveOwner, Settling
<1> QED
  BY <1>6, <1>7, <1>8, <1>9 DEF LaunchInv

\* An old session is ended, its credentials are next.
LEMMA EndsOld ==
    ASSUME TypeOK, LaunchInv, NEW h \in Handlers, NEW x \in Sessions, row[x] = "open",
           call[h] # Idle, call[h].at # "purge",
           NEW k, k.at = "purge", k.x = x, k # Idle,
           \/ k.op = "end" /\ call[h].op = "end"
           \/ /\ k.op = "launch" /\ call[h].op = "launch"
              /\ k.s = call[h].s /\ k.old \subseteq call[h].old
              /\ call[h].at \notin {"token", "insert", "unstore"},
           call' = [call EXCEPT ![h] = k], row' = [row EXCEPT ![x] = "ended"],
           UNCHANGED <<protocol, creds, checkouts, kill, cut, closers, dialing, serving, polling>>
    PROVE  LaunchInv'
<1>1. call'[h] = k /\ \A g \in Handlers \ {h} : call'[g] = call[g]
  BY DEF TypeOK
<1>2. /\ \A y : y \in Sessions /\ y # x => row'[y] = row[y]
      /\ row'[x] = "ended"
  BY DEF TypeOK
<1>3. \A y \in Sessions : (Began(y)' <=> Began(y)) /\ (row[y] = "ended" => row'[y] = "ended")
  BY <1>2 DEF Began
<1>4. \A g \in Handlers :
          /\ call[g].op = "launch" => call[g].s \in Sessions /\ call[g].old \subseteq Sessions
          /\ call[g].op = "end" \/ (call[g] # Idle /\ call[g].at = "purge") => call[g].x \in Sessions
  BY CallIs DEF TypeOK, Launches, Purging, Endings, Idle
<1>5. LaunchingInv'
  <2> SUFFICES ASSUME NEW g \in Handlers, (call[g].op = "launch")'
               PROVE  (/\ ~Began(call[g].s) /\ kill[call[g].s] = "none"
                       /\ call[g].at \notin {"token", "insert", "unstore"} => call[g].s \notin creds
                       /\ protocol \in {"rdp", "db"} /\ call[g].at \in {"store", "insert"}
                              => call[g].s \in checkouts
                       /\ \A y \in call[g].old : Began(y)
                       /\ \A f \in Handlers : call[f].op = "launch" /\ call[f].s = call[g].s
                              => f = g)'
    BY DEF LaunchingInv
  <2>1. CASE g = h
    BY <1>1, <1>3, <1>4, <2>1 DEF LaunchInv, LaunchingInv
  <2>2. CASE g # h
    BY <1>1, <1>3, <1>4, <2>2 DEF LaunchInv, LaunchingInv
  <2> QED
    BY <2>1, <2>2
<1>6. EndingInv'
  BY <1>1, <1>2, <1>3, <1>4 DEF LaunchInv, EndingInv, Began
<1>7. ProxyInv' /\ AckMeansGone'
  <2>1. \A t \in dialing \cup serving \cup polling : t[1] \in Sessions
    BY DEF TypeOK, Tunnel
  <2>2. \A c \in closers : c.t[1] \in Sessions
    BY DEF TypeOK, Closer, Tunnel
  <2> QED
    BY <1>3, <2>1, <2>2 DEF LaunchInv, ProxyInv, AckMeansGone
<1>8. SecretsHaveOwner'
  <2>1. \A y : Launching(y) => Launching(y)'
    BY <1>1 DEF Launching
  <2>2. (\A y : Ending(y) => Ending(y)') /\ Ending(x)'
    BY <1>1 DEF Ending
  <2>3. creds \subseteq Sessions
    BY DEF TypeOK
  <2> QED
    BY <1>2, <2>1, <2>2, <2>3 DEF LaunchInv, SecretsHaveOwner, Settling
<1> QED
  BY <1>5, <1>6, <1>7, <1>8 DEF LaunchInv

LEMMA LaunchStepInv ==
    ASSUME TypeOK, LaunchInv, NEW h \in Handlers, LaunchStep(h)
    PROVE  LaunchInv'
<1> DEFINE k == call[h]
<1>0. k.op = "launch" /\ k.at # "purge"
  BY DEF LaunchStep, ReadOpen, Supersede, Superseded, Checkout, Refuse,
     StoreCredentials, StoreToken, StoreTokenFails, Insert, InsertFails, Unstore, At
<1>1. k \in Launches /\ k.s \in Sessions /\ k # Idle
  BY <1>0, InvAt
<1>2. /\ ~Began(k.s)
      /\ k.at \notin {"token", "insert", "unstore"} => k.s \notin creds
      /\ protocol \in {"rdp", "db"} /\ k.at \in {"store", "insert"} => k.s \in checkouts
      /\ \A x \in k.old : Began(x) /\ x \in Sessions
  BY <1>0, <1>1 DEF LaunchInv, LaunchingInv, Launches
<1>p. protocol \in {"web", "rdp", "ssh", "db"} /\ k.at \in Steps(protocol)
  BY <1>0, LaunchAssumption DEF TypeOK
<1>o. protocol \in {"rdp", "db"} => creds \subseteq checkouts
  BY DEF LaunchInv, SecretsHaveOwner
<1>g. \A at : /\ [k EXCEPT !.at = at].op = "launch" /\ [k EXCEPT !.at = at].s = k.s
              /\ [k EXCEPT !.at = at].old = k.old /\ [k EXCEPT !.at = at].at = at
  BY <1>0, <1>1 DEF Launches
<1>3. ASSUME NEW at, at # "purge", Goto(h, at),
             UNCHANGED <<protocol, row, kill, cut, closers, dialing, serving, polling>>,
             creds' \subseteq creds \cup {k.s}, checkouts \subseteq checkouts',
             at \notin {"token", "insert", "unstore"} => k.s \notin creds',
             protocol \in {"rdp", "db"} /\ (at \in {"store", "insert"} \/ k.s \in creds')
                 => k.s \in checkouts'
      PROVE  LaunchInv'
  <2> DEFINE n == [k EXCEPT !.at = at]
  <2>1. call' = [call EXCEPT ![h] = n]
    BY <1>3 DEF Goto
  <2>2. n.op = "launch" /\ n.s = k.s /\ n.at = at /\ n.old = k.old
    BY <1>g
  <2> HIDE DEF n
  <2> QED
    BY <1>0, <1>2, <1>3, <2>1, <2>2, GoesOn
<1>4. CASE ReadOpen(h)
  <2> DEFINE n == [k EXCEPT !.old = Open, !.at = "supersede"]
  <2>1. call' = [call EXCEPT ![h] = n]
    BY <1>4 DEF ReadOpen, ToSupersede
  <2>2. n.op = "launch" /\ n.s = k.s /\ n.at = "supersede" /\ n.old = Open
    BY <1>0, <1>1 DEF Launches
  <2>3. /\ UNCHANGED <<protocol, row, creds, checkouts, kill, cut, closers, dialing, serving,
                       polling>>
        /\ k.at = "read"
    BY <1>4 DEF ReadOpen, store, proxy, At
  <2>4. \A x \in Open : Began(x)
    BY DEF Open, Began
  <2> HIDE DEF n
  <2> QED
    BY <1>0, <1>2, <2>1, <2>2, <2>3, <2>4, GoesOn
<1>5. CASE Supersede(h)
  <2>1. PICK x \in k.old :
           /\ row' = [row EXCEPT ![x] = "ended"]
           /\ call' = [call EXCEPT ![h] =
               IF row[x] = "open"
               THEN [op |-> "launch", at |-> "purge", s |-> @.s, seen |-> @.seen,
                     old |-> k.old \ {x}, x |-> x]
               ELSE [@ EXCEPT !.old = k.old \ {x}]]
    BY <1>5 DEF Supersede
  <2>2. /\ UNCHANGED <<protocol, creds, checkouts, kill, cut, closers, dialing, serving, polling>>
        /\ k.at = "supersede"
    BY <1>5 DEF Supersede, proxy, At
  <2>3. CASE row[x] = "open"
    <3> DEFINE n == [op |-> "launch", at |-> "purge", s |-> k.s, seen |-> k.seen,
                     old |-> k.old \ {x}, x |-> x]
    <3>1. call' = [call EXCEPT ![h] = n]
      BY <2>1, <2>3
    <3>2. n.op = "launch" /\ n.s = k.s /\ n.at = "purge" /\ n.old \subseteq k.old /\ n.x = x
          /\ n # Idle
      BY DEF Idle
    <3> HIDE DEF n
    <3> QED
      BY <1>0, <1>1, <1>2, <2>1, <2>2, <2>3, <3>1, <3>2, EndsOld
  <2>4. CASE row[x] # "open"
    <3> DEFINE n == [k EXCEPT !.old = k.old \ {x}]
    <3>1. call' = [call EXCEPT ![h] = n]
      BY <2>1, <2>4
    <3>2. n.op = "launch" /\ n.s = k.s /\ n.at = "supersede" /\ n.old = k.old \ {x}
      BY <1>0, <1>1, <2>2 DEF Launches
    <3>3. row' = row
      BY <1>2, <2>1, <2>4 DEF TypeOK, Began
    <3> HIDE DEF n
    <3> QED
      BY <1>0, <1>2, <2>2, <3>1, <3>2, <3>3, GoesOn
  <2> QED
    BY <2>3, <2>4
<1>6. CASE Superseded(h)
  <2>1. AfterSupersede \in {"store", "checkout"}
        /\ (protocol \in {"rdp", "db"} => AfterSupersede = "checkout")
    BY DEF AfterSupersede
  <2> QED
    BY <1>2, <1>3, <1>6, <2>1 DEF Superseded, At, store, proxy
<1>7. CASE Checkout(h)
  BY <1>2, <1>3, <1>7 DEF Checkout, Recorded, At, proxy
<1>8. CASE Refuse(h)
  BY <1>0, <1>2, <1>8, Returns DEF Refuse, At, store, proxy
<1>9. CASE StoreCredentials(h)
  BY <1>2, <1>3, <1>9 DEF StoreCredentials, At, proxy
<1>10. CASE StoreToken(h)
  <2>1. protocol = "ssh"
    BY <1>10, <1>p DEF StoreToken, At, Steps
  <2> QED
    BY <1>2, <1>3, <1>10, <2>1 DEF StoreToken, At, proxy
<1>11. CASE StoreTokenFails(h) \/ Unstore(h)
  BY <1>0, <1>11, Returns DEF StoreTokenFails, Unstore, proxy
<1>12. CASE Insert(h)
  BY <1>0, <1>12, Returns DEF Insert, proxy
<1>13. CASE InsertFails(h)
  <2>1. CASE protocol = "ssh"
    BY <1>3, <1>13, <2>1 DEF InsertFails, proxy
  <2>2. CASE protocol # "ssh"
    BY <1>0, <1>13, <2>2, Returns DEF InsertFails, proxy
  <2> QED
    BY <2>1, <2>2
<1> QED
  BY <1>4, <1>5, <1>6, <1>7, <1>8, <1>9, <1>10, <1>11, <1>12, <1>13 DEF LaunchStep

\* A call that is cut off leaves what it was to take from the vault.
LEMMA CutOffInv ==
    ASSUME TypeOK, LaunchInv, NEW h \in Handlers, CutOff(h)
    PROVE  LaunchInv'
<1>1. /\ call'[h] = Idle /\ \A g \in Handlers \ {h} : call'[g] = call[g]
      /\ Idle.op = "idle"
  BY DEF CutOff, Return, TypeOK, Idle
<1>2. UNCHANGED <<protocol, row, creds, checkouts, kill, closers, dialing, serving, polling>>
  BY DEF CutOff, store, proxy
<1>3. /\ cut \subseteq cut'
      /\ call[h].at = "purge" => call[h].x \in cut'
      /\ call[h].op = "launch" /\ call[h].s \in creds => call[h].s \in cut'
  BY DEF CutOff
<1>4. LaunchingInv' /\ EndingInv'
  BY <1>1, <1>2 DEF LaunchInv, LaunchingInv, EndingInv, Began
<1>5. ProxyInv' /\ AckMeansGone'
  BY <1>2 DEF LaunchInv, ProxyInv, AckMeansGone, Began
<1>6. SecretsHaveOwner'
  <2> SUFFICES ASSUME NEW s \in creds
               PROVE  (\/ row[s] = "open" \/ Launching(s) \/ Ending(s) \/ Settling(s) \/ s \in cut
                       \/ protocol = "ssh" /\ row[s] = "ended")'
    BY <1>2 DEF LaunchInv, SecretsHaveOwner
  <2>1. Launching(s) => Launching(s)' \/ s \in cut'
    BY <1>1, <1>3 DEF Launching
  <2>2. Ending(s) => Ending(s)' \/ s \in cut'
    BY <1>1, <1>3 DEF Ending
  <2> QED
    BY <1>2, <1>3, <2>1, <2>2 DEF LaunchInv, SecretsHaveOwner, Settling
<1> QED
  BY <1>4, <1>5, <1>6 DEF LaunchInv

\* A call that ends a session begins, asks or returns.
LEMMA EndGoesOn ==
    ASSUME TypeOK, LaunchInv, NEW h \in Handlers, call[h].op # "launch",
           call[h] = Idle \/ call[h].at # "purge",
           NEW n, n = Idle \/ (n.op = "end" /\ n.at # "purge" /\ Began(n.x)),
           call' = [call EXCEPT ![h] = n],
           UNCHANGED <<protocol, row, creds, checkouts, cut, closers, dialing, serving, polling>>,
           kill' = kill \/ (call[h].op = "end" /\ kill' = [kill EXCEPT ![call[h].x] = "asked"])
    PROVE  LaunchInv'
<1>1. /\ call'[h] = n /\ \A g \in Handlers \ {h} : call'[g] = call[g]
      /\ Idle.op = "idle"
  BY DEF TypeOK, Idle
<1>2. \A s \in Sessions :
          kill'[s] # kill[s] => kill'[s] = "asked" /\ Began(s)
  BY DEF TypeOK, LaunchInv, EndingInv
<1>3. \A g \in Handlers : call[g].op = "launch" => call[g].s \in Sessions
  BY CallIs DEF TypeOK, Launches, Purging, Endings, Idle
<1>4. LaunchingInv'
  BY <1>1, <1>2, <1>3 DEF LaunchInv, LaunchingInv, Began
<1>5. EndingInv'
  BY <1>1 DEF LaunchInv, EndingInv, Began
<1>6. ProxyInv' /\ AckMeansGone'
  BY <1>2 DEF LaunchInv, ProxyInv, AckMeansGone, Began
<1>7. SecretsHaveOwner'
  <2>1. \A x : Launching(x) => Launching(x)'
    BY <1>1 DEF Launching
  <2>2. \A x : Ending(x) => Ending(x)'
    BY <1>1 DEF Ending
  <2> QED
    BY <2>1, <2>2 DEF LaunchInv, SecretsHaveOwner, Settling
<1> QED
  BY <1>4, <1>5, <1>6, <1>7 DEF LaunchInv

\* The credentials of an ended session are taken from the vault.
LEMMA PurgeInv ==
    ASSUME TypeOK, LaunchInv, NEW h \in Handlers, Purge(h)
    PROVE  LaunchInv'
<1> DEFINE k == call[h]
           x == k.x
           n == IF k.op = "end" THEN Idle
                ELSE [op |-> "launch", at |-> "supersede", s |-> k.s, seen |-> k.seen,
                      old |-> k.old]
<1>0. k # Idle /\ k.at = "purge" /\ x \in Sessions /\ row[x] = "ended"
      /\ k.op \in {"launch", "end"}
  BY CallIs DEF TypeOK, Launches, Purging, Endings, Purge, LaunchInv, EndingInv
<1>1. call' = [call EXCEPT ![h] = n]
  BY DEF Purge
<1>2. \/ n = Idle /\ k.op = "end"
      \/ /\ k.op = "launch"
         /\ n.op = "launch" /\ n.at = "supersede" /\ n.s = k.s /\ n.old = k.old /\ n # Idle
  BY <1>0 DEF Idle
<1> HIDE DEF n
<1>3. /\ call'[h] = n /\ \A g \in Handlers \ {h} : call'[g] = call[g]
      /\ Idle.op = "idle"
  BY <1>1 DEF TypeOK, Idle
<1>4. UNCHANGED <<protocol, row, checkouts, kill, cut, closers, dialing, serving, polling>>
  BY DEF Purge, proxy
<1>5. /\ creds' \subseteq creds
      /\ protocol = "ssh" \/ x \notin creds'
  BY DEF Purge, Purged
<1>6. LaunchingInv'
  <2> SUFFICES ASSUME NEW g \in Handlers, (call[g].op = "launch")'
               PROVE  (/\ ~Began(call[g].s) /\ kill[call[g].s] = "none"
                       /\ call[g].at \notin {"token", "insert", "unstore"} => call[g].s \notin creds
                       /\ protocol \in {"rdp", "db"} /\ call[g].at \in {"store", "insert"}
                              => call[g].s \in checkouts
                       /\ \A y \in call[g].old : Began(y)
                       /\ \A f \in Handlers : call[f].op = "launch" /\ call[f].s = call[g].s
                              => f = g)'
    BY DEF LaunchingInv
  <2>1. CASE g = h
    BY <1>0, <1>2, <1>3, <1>4, <1>5, <2>1 DEF LaunchInv, LaunchingInv, Began
  <2>2. CASE g # h
    BY <1>2, <1>3, <1>4, <1>5, <2>2 DEF LaunchInv, LaunchingInv, Began
  <2> QED
    BY <2>1, <2>2
<1>7. EndingInv'
  BY <1>2, <1>3, <1>4 DEF LaunchInv, EndingInv, Began
<1>8. ProxyInv' /\ AckMeansGone'
  BY <1>4, <1>5 DEF LaunchInv, ProxyInv, AckMeansGone, Began
<1>9. SecretsHaveOwner'
  <2> SUFFICES ASSUME NEW s \in creds'
               PROVE  (\/ row[s] = "open" \/ Launching(s) \/ Ending(s) \/ Settling(s) \/ s \in cut
                       \/ protocol = "ssh" /\ row[s] = "ended")'
    BY <1>4, <1>5 DEF LaunchInv, SecretsHaveOwner
  <2>1. Launching(s) => Launching(s)'
    BY <1>2, <1>3 DEF Launching
  <2>2. Ending(s) => Ending(s)' \/ (protocol = "ssh" /\ row[s] = "ended")
    BY <1>0, <1>3, <1>5 DEF Ending
  <2> QED
    BY <1>4, <1>5, <2>1, <2>2 DEF LaunchInv, SecretsHaveOwner, Settling
<1> QED
  BY <1>6, <1>7, <1>8, <1>9 DEF LaunchInv

LEMMA EndStepInv ==
    ASSUME TypeOK, LaunchInv, NEW h \in Handlers,
           EndStep(h) \/ \E s \in Sessions : EndSession(h, s) \/ Terminate(h, s)
    PROVE  LaunchInv'
<1> DEFINE k == call[h]
<1>i. Idle.op = "idle"
  BY DEF Idle
<1>1. ASSUME NEW s \in Sessions, EndSession(h, s) \/ Terminate(h, s) PROVE LaunchInv'
  <2>1. PICK at \in {"end", "ask"} :
            call' = [call EXCEPT ![h] = [op |-> "end", at |-> at, x |-> s]]
    BY <1>1 DEF EndSession, Terminate
  <2> DEFINE n == [op |-> "end", at |-> at, x |-> s]
  <2>2. n.op = "end" /\ n.at # "purge" /\ n.x = s
    OBVIOUS
  <2>3. call' = [call EXCEPT ![h] = n]
    BY <2>1
  <2> HIDE DEF n
  <2>4. /\ UNCHANGED <<protocol, row, creds, checkouts, kill, cut, closers, dialing, serving,
                       polling>>
        /\ k = Idle /\ Began(s)
    BY <1>1 DEF EndSession, Terminate, store, proxy, Began
  <2> QED
    BY <1>i, <2>2, <2>3, <2>4, EndGoesOn
<1>2. CASE AskProxies(h) \/ End(h)
  <2>1. k.op = "end" /\ k.at # "purge"
    BY <1>2 DEF AskProxies, End, At
  <2>2. k \in Endings /\ k.x \in Sessions /\ k # Idle /\ Began(k.x)
    BY <2>1, CallKinds DEF TypeOK, Endings, LaunchInv, EndingInv, Idle
  <2>3. \A at : /\ [k EXCEPT !.at = at].op = "end" /\ [k EXCEPT !.at = at].at = at
                /\ [k EXCEPT !.at = at].x = k.x /\ [k EXCEPT !.at = at] # Idle
    BY <2>2, <1>i DEF Endings
  <2>4. CASE AskProxies(h)
    <3> DEFINE n == [k EXCEPT !.at = "end"]
    <3>1. n.op = "end" /\ n.at # "purge" /\ n.x = k.x
      BY <2>3
    <3>2. call' = [call EXCEPT ![h] = n]
      BY <2>4 DEF AskProxies, Goto
    <3> HIDE DEF n
    <3>3. /\ UNCHANGED <<protocol, row, creds, checkouts, cut, closers, dialing, serving, polling>>
          /\ kill' = [kill EXCEPT ![k.x] = "asked"]
      BY <2>4 DEF AskProxies, proxy
    <3> QED
      BY <2>1, <2>2, <3>1, <3>2, <3>3, EndGoesOn
  <2>5. CASE End(h)
    <3>1. /\ UNCHANGED <<protocol, creds, checkouts, kill, cut, closers, dialing, serving, polling>>
          /\ row' = [row EXCEPT ![k.x] = "ended"]
      BY <2>5 DEF End, proxy
    <3>2. CASE row[k.x] = "open"
      <4> DEFINE n == [k EXCEPT !.at = "purge"]
      <4>1. n.op = "end" /\ n.at = "purge" /\ n.x = k.x /\ n # Idle
        BY <2>3
      <4>2. call' = [call EXCEPT ![h] = n]
        BY <2>5, <3>2 DEF End, Goto
      <4> HIDE DEF n
      <4> QED
        BY <2>1, <2>2, <3>1, <3>2, <4>1, <4>2, EndsOld
    <3>3. CASE row[k.x] # "open"
      <4>1. row' = row
        BY <2>2, <3>1, <3>3 DEF TypeOK, Began
      <4>2. call' = [call EXCEPT ![h] = Idle]
        BY <2>5, <3>3 DEF End, Return
      <4> QED
        BY <2>1, <2>2, <3>1, <4>1, <4>2, EndGoesOn
    <3> QED
      BY <3>2, <3>3
  <2> QED
    BY <1>2, <2>4, <2>5
<1> QED
  BY <1>1, <1>2, PurgeInv DEF EndStep

\* The proxies end sessions that began, and take secrets away.
LEMMA ProxyKeepsCalls ==
    ASSUME TypeOK, LaunchInv, UNCHANGED <<protocol, call, checkouts, cut>>, creds' \subseteq creds,
           \A s \in Sessions :
               /\ row'[s] = row[s] \/ (Began(s) /\ row'[s] = "ended")
               /\ kill'[s] = kill[s] \/ Began(s)
    PROVE  LaunchingInv' /\ EndingInv'
<1>1. \A g \in Handlers :
          /\ call[g].op = "launch" => call[g].s \in Sessions /\ call[g].old \subseteq Sessions
          /\ call[g].op = "end" \/ (call[g] # Idle /\ call[g].at = "purge") => call[g].x \in Sessions
  BY CallIs DEF TypeOK, Launches, Purging, Endings, Idle
<1>2. \A s \in Sessions : (Began(s)' <=> Began(s)) /\ (row[s] = "ended" => row'[s] = "ended")
  BY DEF Began
<1>3. LaunchingInv'
  BY <1>1, <1>2 DEF LaunchInv, LaunchingInv
<1>4. EndingInv'
  BY <1>1, <1>2 DEF LaunchInv, EndingInv
<1> QED
  BY <1>3, <1>4

\* Steps of the tunnels that leave the tables alone.
LEMMA TunnelInv ==
    ASSUME TypeOK, LaunchInv, UNCHANGED <<protocol, store, call, cut>>,
           \A t \in dialing' \cup serving' \cup polling' : Began(t[1]),
           closers \subseteq closers',
           \A c \in closers' \ closers : Began(c.t[1]) /\ c.at = "map"
    PROVE  LaunchInv'
<1>1. UNCHANGED <<protocol, row, creds, checkouts, kill, call, cut>>
  BY DEF store
<1>2. LaunchingInv' /\ EndingInv'
  BY <1>1, ProxyKeepsCalls
<1>3. ProxyInv' /\ AckMeansGone'
  BY <1>1 DEF LaunchInv, ProxyInv, AckMeansGone, Began
<1>4. SecretsHaveOwner'
  BY <1>1 DEF LaunchInv, SecretsHaveOwner, Settling, Launching, Ending
<1> QED
  BY <1>2, <1>3, <1>4 DEF LaunchInv

LEMMA WatchInv ==
    ASSUME TypeOK, LaunchInv, NEW t \in Tunnel, WatchTermination(t)
    PROVE  LaunchInv'
<1>1. t[1] \in Sessions /\ Began(t[1]) /\ protocol = "ssh"
  BY DEF WatchTermination, Tunnel, LaunchInv, ProxyInv
<1>2. UNCHANGED <<protocol, creds, checkouts, call, cut, dialing, serving, polling, closers>>
  BY DEF WatchTermination
<1>3. \A s \in Sessions :
          /\ row'[s] = row[s] \/ (Began(s) /\ row'[s] = "ended")
          /\ kill'[s] = kill[s] \/ (Began(s) /\ row'[s] = "ended")
  BY <1>1 DEF WatchTermination, TypeOK
<1>4. LaunchingInv' /\ EndingInv'
  BY <1>2, <1>3, ProxyKeepsCalls
<1>5. (\A k \in dialing \cup serving \cup polling : k[1] \in Sessions)
      /\ \A c \in closers : c.t[1] \in Sessions
  BY DEF TypeOK, Closer, Tunnel
<1>6. ProxyInv'
  BY <1>2, <1>3, <1>5 DEF LaunchInv, ProxyInv, Began
<1>7. AckMeansGone'
  BY <1>1, <1>2, <1>3 DEF LaunchInv, AckMeansGone
<1>8. SecretsHaveOwner'
  <2>1. creds \subseteq Sessions
    BY DEF TypeOK
  <2> QED
    BY <1>1, <1>2, <1>3, <2>1 DEF LaunchInv, SecretsHaveOwner, Settling, Launching, Ending
<1> QED
  BY <1>4, <1>6, <1>7, <1>8 DEF LaunchInv

\* One statement of closeSession: the call moves on to D, or is over.
LEMMA CloserMoves ==
    ASSUME TypeOK, LaunchInv, NEW c \in closers, NEW s, s = c.t[1], NEW D,
           UNCHANGED <<protocol, call, checkouts, cut, dialing, serving, polling>>,
           closers' = (closers \ {c}) \cup D, creds' \subseteq creds,
           \A x \in Sessions :
               /\ row'[x] = row[x] \/ (x = s /\ row'[x] = "ended")
               /\ kill'[x] = kill[x] \/ (x = s /\ c.at = "ack"),
           \A d \in D :
               /\ d.t = c.t
               /\ d.at \in {"token", "creds", "ack"} => row'[s] = "ended"
               /\ d.at = "ack" => s \notin creds',
           s \in creds' /\ (row'[s] # row[s] \/ c.at \in {"token", "creds"})
               => \E d \in D : d.at \in {"token", "creds"}
    PROVE  LaunchInv'
<1>1. /\ s \in Sessions /\ Began(s)
      /\ c.at \in {"token", "creds", "ack"} => row[s] = "ended"
      /\ c.at = "ack" => s \notin creds
  BY DEF TypeOK, Closer, Tunnel, LaunchInv, ProxyInv
<1>2. /\ \A k \in dialing \cup serving \cup polling : k[1] \in Sessions
      /\ \A k \in closers : k.t[1] \in Sessions
      /\ creds \subseteq Sessions
  BY DEF TypeOK, Closer, Tunnel
<1>3. LaunchingInv' /\ EndingInv'
  BY <1>1, ProxyKeepsCalls
<1>4. \A x \in Sessions : (row[x] = "ended" => row'[x] = "ended") /\ (Began(x) => Began(x)')
  BY DEF Began
<1>5. ProxyInv'
  <2>1. \A k \in closers' :
            /\ Began(k.t[1])'
            /\ k.at \in {"token", "creds", "ack"} => row'[k.t[1]] = "ended"
            /\ k.at = "ack" => k.t[1] \notin creds'
    <3> TAKE k \in closers'
    <3>1. CASE k \in closers
      BY <1>2, <1>4, <3>1 DEF LaunchInv, ProxyInv
    <3>2. CASE k \in D
      BY <1>1, <1>4, <3>2
    <3> QED
      BY <3>1, <3>2
  <2>2. \A x \in Sessions : kill'[x] # "none" => Began(x)'
    BY <1>1, <1>4 DEF LaunchInv, ProxyInv
  <2>3. \A k \in dialing' \cup serving' \cup polling' : Began(k[1])'
    BY <1>2, <1>4 DEF LaunchInv, ProxyInv
  <2> QED
    BY <2>1, <2>2, <2>3 DEF ProxyInv
<1>6. AckMeansGone'
  BY <1>1, <1>4 DEF LaunchInv, AckMeansGone
<1>7. SecretsHaveOwner'
  <2>1. \A x : (Launching(x)' <=> Launching(x)) /\ (Ending(x)' <=> Ending(x))
    BY DEF Launching, Ending
  <2>2. \A x : x # s /\ Settling(x) => Settling(x)'
    BY DEF Settling
  <2>3. s \in creds' /\ Settling(s) => Settling(s)'
    BY DEF Settling
  <2>4. s \in creds' /\ row'[s] # row[s] => Settling(s)'
    BY DEF Settling
  <2> QED
    BY <1>2, <2>1, <2>2, <2>3, <2>4 DEF LaunchInv, SecretsHaveOwner
<1> QED
  BY <1>3, <1>5, <1>6, <1>7 DEF LaunchInv

LEMMA CloseInv ==
    ASSUME TypeOK, LaunchInv, NEW c \in closers, CloseStep(c)
    PROVE  LaunchInv'
<1> DEFINE s == c.t[1]
           D(at) == {[c EXCEPT !.at = at]}
           Over == {}
<1>1. /\ s \in Sessions
      /\ c.at \in {"token", "creds", "ack"} => row[s] = "ended"
  BY DEF TypeOK, Closer, Tunnel, LaunchInv, ProxyInv
<1>2. \A at : [c EXCEPT !.at = at].t = c.t /\ [c EXCEPT !.at = at].at = at
  BY DEF TypeOK, Closer
<1>3. UNCHANGED <<protocol, call, checkouts, cut, dialing, serving, polling>>
  BY DEF CloseStep, CloseMap, CloseRow, CloseToken, CloseCreds, Acknowledge, Unchanged_Close
<1>4. closers \ {c} = (closers \ {c}) \cup Over /\ \A d \in Over : FALSE
  OBVIOUS
<1> HIDE DEF Over
<1>5. CASE CloseMap(c)
  <2>1. closers' = (closers \ {c}) \cup D("row") /\ UNCHANGED <<row, creds, kill>>
    BY <1>5 DEF CloseMap, Moves
  <2>2. c.at = "map" /\ \A d \in D("row") : d.t = c.t /\ d.at = "row"
    BY <1>2, <1>5 DEF CloseMap
  <2> HIDE DEF D
  <2> QED
    BY <1>3, <2>1, <2>2, CloserMoves
<1>6. CASE CloseRow(c)
  <2>0. c.at = "row" /\ UNCHANGED <<creds, kill>>
    BY <1>6 DEF CloseRow
  <2>1. CASE Retryable(s)
    <3>1. closers' = (closers \ {c}) \cup Over /\ row' = row
      BY <1>4, <1>6, <2>1 DEF CloseRow, AfterRow, Ends
    <3> QED
      BY <1>3, <1>4, <2>0, <3>1, CloserMoves
  <2>2. CASE ~Retryable(s)
    <3>1. closers' = (closers \ {c}) \cup D("token") /\ row' = [row EXCEPT ![s] = "ended"]
      BY <1>6, <2>2 DEF CloseRow, AfterRow, Moves
    <3>2. /\ \A d \in D("token") : d.t = c.t /\ d.at = "token"
          /\ \E d \in D("token") : d.at = "token"
      BY <1>2
    <3> HIDE DEF D
    <3>3. row'[s] = "ended" /\ \A x \in Sessions : row'[x] = row[x] \/ (x = s /\ row'[x] = "ended")
      BY <1>1, <3>1 DEF TypeOK
    <3> HIDE DEF s
    <3> QED
      BY <1>3, <2>0, <3>1, <3>2, <3>3, CloserMoves DEF s
  <2> QED
    BY <2>1, <2>2
<1>7. CASE CloseToken(c)
  <2>1. closers' = (closers \ {c}) \cup D("creds") /\ UNCHANGED <<row, creds, kill>>
    BY <1>7 DEF CloseToken, Moves
  <2>2. /\ c.at = "token" /\ row[s] = "ended"
        /\ \A d \in D("creds") : d.t = c.t /\ d.at = "creds"
        /\ \E d \in D("creds") : d.at = "creds"
    BY <1>1, <1>2, <1>7 DEF CloseToken
  <2> HIDE DEF D
  <2> QED
    BY <1>3, <2>1, <2>2, CloserMoves
<1>8. CASE CloseCreds(c)
  <2>1. closers' = (closers \ {c}) \cup D("ack") /\ UNCHANGED <<row, kill>> /\ creds' = creds \ {s}
    BY <1>8 DEF CloseCreds, Moves, Emptied
  <2>2. /\ c.at = "creds" /\ row[s] = "ended"
        /\ \A d \in D("ack") : d.t = c.t /\ d.at = "ack"
    BY <1>1, <1>2, <1>8 DEF CloseCreds
  <2> HIDE DEF D
  <2> QED
    BY <1>3, <2>1, <2>2, CloserMoves
<1>9. CASE Acknowledge(c)
  <2>1. closers' = (closers \ {c}) \cup Over /\ UNCHANGED <<row, creds>> /\ c.at = "ack"
    BY <1>4, <1>9 DEF Acknowledge, Ends
  <2>2. \A x \in Sessions : kill'[x] = kill[x] \/ x = s
    BY <1>1, <1>9 DEF Acknowledge, TypeOK
  <2> QED
    BY <1>3, <1>4, <2>1, <2>2, CloserMoves
<1> QED
  BY <1>5, <1>6, <1>7, <1>8, <1>9 DEF CloseStep

LEMMA ProxyStepInv ==
    ASSUME TypeOK, LaunchInv, ProxyStep
    PROVE  LaunchInv'
<1>0. \A t \in dialing \cup serving \cup polling : Began(t[1])
  BY DEF LaunchInv, ProxyInv
<1>1. ASSUME NEW s \in Sessions, LoadSession(s) \/ Relay(s) PROVE LaunchInv'
  <2>1. /\ UNCHANGED <<protocol, store, call, cut, serving, polling, closers>>
        /\ dialing' = dialing \/ (Began(s) /\ dialing' = dialing \cup {<<s, made[s] + 1>>})
    BY <1>1 DEF LoadSession, Relay, Began
  <2>2. \A t \in dialing' \cup serving' \cup polling' : Began(t[1])
    BY <1>0, <2>1
  <2> QED
    BY <2>1, <2>2, TunnelInv
<1>2. ASSUME NEW t \in Tunnel,
             DialFails(t) \/ Register(t) \/ Record(t) \/ Drop(t) \/ SocketEnds(t) \/ Poll(t)
                 \/ RelayEnds(t)
      PROVE  LaunchInv'
  <2>1. /\ UNCHANGED <<protocol, store, call, cut>>
        /\ dialing' \cup serving' \cup polling' \subseteq dialing \cup serving \cup polling
    BY <1>2 DEF DialFails, Register, Record, Drop, SocketEnds, Poll, RelayEnds
  <2>2. \/ closers' = closers
        \/ /\ t \in serving \cup polling
           /\ \E by \in {"socket", "poller"} :
                  closers' = closers \cup {[t |-> t, by |-> by, at |-> "map"]}
    BY <1>2 DEF DialFails, Register, Record, Drop, SocketEnds, Poll, RelayEnds, Close
  <2>3. closers \subseteq closers' /\ \A c \in closers' \ closers : Began(c.t[1]) /\ c.at = "map"
    BY <1>0, <2>2
  <2> QED
    BY <1>0, <2>1, <2>3, TunnelInv
<1> QED
  BY <1>1, <1>2, WatchInv, CloseInv DEF ProxyStep

LEMMA LaunchInitInv == Init => LaunchInv
<1> SUFFICES ASSUME Init PROVE LaunchInv
  OBVIOUS
<1>1. \A h \in Handlers : call[h] = Idle /\ Idle.op = "idle"
  BY DEF Init, Idle
<1>2. LaunchingInv /\ EndingInv
  BY <1>1 DEF LaunchingInv, EndingInv
<1>3. ProxyInv /\ SecretsHaveOwner /\ AckMeansGone
  BY DEF Init, ProxyInv, SecretsHaveOwner, AckMeansGone
<1> QED
  BY <1>2, <1>3 DEF LaunchInv

LEMMA LaunchNextInv ==
    ASSUME TypeOK, LaunchInv, [Next]_vars
    PROVE  LaunchInv'
<1>1. ASSUME NEW h \in Handlers, NEW s \in Sessions,
             \/ WebLaunch(h, s) \/ RdpLaunch(h, s) \/ SshLaunch(h, s) \/ DbLaunch(h, s)
             \/ EndSession(h, s) \/ Terminate(h, s)
      PROVE  LaunchInv'
  BY <1>1, BeginInv, EndStepInv
<1>2. ASSUME NEW h \in Handlers, LaunchStep(h) \/ EndStep(h) \/ CutOff(h)
      PROVE  LaunchInv'
  BY <1>2, LaunchStepInv, EndStepInv, CutOffInv
<1>3. CASE UNCHANGED vars
  <2>1. /\ UNCHANGED <<protocol, store, call, cut, dialing, serving, polling, closers>>
        /\ \A t \in dialing' \cup serving' \cup polling' : Began(t[1])
    BY <1>3 DEF vars, proxy, LaunchInv, ProxyInv
  <2> QED
    BY <2>1, TunnelInv
<1> QED
  BY <1>1, <1>2, <1>3, ProxyStepInv DEF Next

\* The theorems below rest on this one, or on the types alone.
THEOREM LaunchInvariant == Spec => []LaunchInv
<1>1. LaunchInv /\ TypeOK /\ [Next]_vars => LaunchInv'
  BY LaunchNextInv
<1> QED
  BY <1>1, LaunchInitInv, LaunchTypeCorrect, PTL DEF Spec

\* sessions.End, the taking back in the launches' error paths and closeSession
\* together: no stored password is forgotten but by a call that was cut off,
\* and none is in the vault that no checkout records.
THEOREM SecretsOwned == Spec => []SecretsHaveOwner
BY LaunchInvariant, PTL DEF LaunchInv

\* The order closeSession does things in: an administrator who reads that the
\* termination is acknowledged reads it of a session that is over.
THEOREM AcknowledgedIsOver == Spec => []AckMeansGone
BY LaunchInvariant, PTL DEF LaunchInv

-----------------------------------------------------------------------------
(* Tunnels and their pollers.                                              *)

\* The proxies' steps, seen from the map of tunnels.
LEMMA WatchedProxyStep ==
    ASSUME TypeOK, TunnelsAreWatched, ProxyStep
    PROVE  TunnelsAreWatched'
<1> DEFINE Leaving(t) == \E c \in closers : c.t = t /\ c.at = "map"
<1>0. /\ tunnels \in [Sessions -> 0..MaxTunnels]
      /\ \A t \in Tunnel : t[1] \in Sessions /\ t[2] \in 1..MaxTunnels /\ t = <<t[1], t[2]>>
  BY DEF TypeOK, Tunnel
<1>1. ASSUME UNCHANGED <<tunnels, polling>>, closers \subseteq closers'
      PROVE  TunnelsAreWatched'
  BY <1>1 DEF TunnelsAreWatched, Registered
<1>2. ASSUME NEW s \in Sessions, LoadSession(s) \/ Relay(s) PROVE TunnelsAreWatched'
  BY <1>1, <1>2 DEF LoadSession, Relay
<1>3. ASSUME NEW t \in Tunnel,
             DialFails(t) \/ Record(t) \/ Drop(t) \/ SocketEnds(t) \/ WatchTermination(t)
                 \/ RelayEnds(t)
      PROVE  TunnelsAreWatched'
  BY <1>1, <1>3 DEF DialFails, Record, Drop, SocketEnds, WatchTermination, RelayEnds, Close
<1>4. ASSUME NEW t \in Tunnel, Register(t) PROVE TunnelsAreWatched'
  <2>1. CASE tunnels[t[1]] = 0
    <3>1. /\ tunnels' = [tunnels EXCEPT ![t[1]] = t[2]]
          /\ polling' = polling \cup {t} /\ UNCHANGED closers
      BY <1>4, <2>1 DEF Register
    <3> SUFFICES ASSUME NEW u \in Tunnel, Registered(u)'
                 PROVE  u \in polling' \/ Leaving(u)'
      BY DEF TunnelsAreWatched
    <3>2. CASE u[1] = t[1]
      BY <1>0, <3>1, <3>2 DEF Registered
    <3>3. CASE u[1] # t[1]
      BY <1>0, <3>1, <3>3 DEF Registered, TunnelsAreWatched
    <3> QED
      BY <3>2, <3>3
  <2>2. CASE tunnels[t[1]] # 0
    BY <1>1, <1>4, <2>2 DEF Register
  <2> QED
    BY <2>1, <2>2
<1>5. ASSUME NEW t \in Tunnel, Poll(t) PROVE TunnelsAreWatched'
  <2>1. polling' = polling \ {t} /\ UNCHANGED tunnels /\ closers \subseteq closers'
    BY <1>5 DEF Poll, Close
  <2>2. tunnels[t[1]] = 0 \/ Leaving(t)'
    <3>1. tunnels[t[1]] = 0 \/ [t |-> t, by |-> "poller", at |-> "map"] \in closers'
      BY <1>5 DEF Poll, PollEnds, Close
    <3> QED
      BY <3>1
  <2> SUFFICES ASSUME NEW u \in Tunnel, Registered(u)
               PROVE  u \in polling' \/ Leaving(u)'
    BY <2>1 DEF TunnelsAreWatched, Registered
  <2>3. CASE u = t
    BY <1>0, <2>2, <2>3 DEF Registered
  <2>4. CASE u # t
    BY <2>1, <2>4 DEF TunnelsAreWatched
  <2> QED
    BY <2>3, <2>4
<1>6. ASSUME NEW c \in closers, CloseMap(c) PROVE TunnelsAreWatched'
  <2>1. /\ tunnels' = [tunnels EXCEPT ![c.t[1]] = 0]
        /\ polling' = polling /\ closers \ {c} \subseteq closers'
    BY <1>6 DEF CloseMap, Moves, Unchanged_Close
  <2> SUFFICES ASSUME NEW u \in Tunnel, Registered(u)'
               PROVE  u \in polling' \/ Leaving(u)'
    BY DEF TunnelsAreWatched
  <2>2. u[1] # c.t[1] /\ Registered(u)
    BY <1>0, <2>1 DEF Registered
  <2> QED
    BY <2>1, <2>2 DEF TunnelsAreWatched
<1>7. ASSUME NEW c \in closers,
             CloseRow(c) \/ CloseToken(c) \/ CloseCreds(c) \/ Acknowledge(c)
      PROVE  TunnelsAreWatched'
  <2>1. c.at # "map" /\ UNCHANGED <<tunnels, polling>> /\ closers \ {c} \subseteq closers'
    BY <1>7 DEF CloseRow, CloseToken, CloseCreds, Acknowledge, Moves, Ends, Unchanged_Close
  <2> QED
    BY <2>1 DEF TunnelsAreWatched, Registered
<1> QED
  BY <1>2, <1>3, <1>4, <1>5, <1>6, <1>7 DEF ProxyStep, CloseStep

\* What auth-service does goes on beside the proxies.
LEMMA HandlersLeaveProxies ==
    ASSUME NEW h \in Handlers,
           \/ \E s \in Sessions : \/ WebLaunch(h, s) \/ RdpLaunch(h, s) \/ SshLaunch(h, s)
                                  \/ DbLaunch(h, s) \/ EndSession(h, s) \/ Terminate(h, s)
           \/ LaunchStep(h) \/ EndStep(h) \/ CutOff(h)
    PROVE  UNCHANGED <<protocol, proxy>>
<1>1. CASE \E s \in Sessions : \/ WebLaunch(h, s) \/ RdpLaunch(h, s) \/ SshLaunch(h, s)
                               \/ DbLaunch(h, s) \/ EndSession(h, s) \/ Terminate(h, s)
  BY <1>1 DEF WebLaunch, RdpLaunch, SshLaunch, DbLaunch, EndSession, Terminate, Begin
<1>2. CASE LaunchStep(h)
  BY <1>2 DEF LaunchStep, ReadOpen, Supersede, Superseded, Checkout, Refuse,
     StoreCredentials, StoreToken, StoreTokenFails, Insert, InsertFails, Unstore
<1>3. CASE EndStep(h) \/ CutOff(h)
  BY <1>3 DEF EndStep, AskProxies, End, Purge, CutOff
<1> QED
  BY <1>1, <1>2, <1>3

\* pollTermination looks for its session, not its tunnel, in the map, and
\* closeSession takes out whatever is there: even so a tunnel that is
\* registered has a goroutine that will hear of a termination, or one that is
\* about to close it, for any number of reconnects.
THEOREM RegisteredIsWatched == Spec => []TunnelsAreWatched
<1>1. Init => TunnelsAreWatched
  BY DEF Init, TunnelsAreWatched, Registered, Tunnel
<1>2. TypeOK /\ TunnelsAreWatched /\ [Next]_vars => TunnelsAreWatched'
  <2> SUFFICES ASSUME TypeOK, TunnelsAreWatched, [Next]_vars PROVE TunnelsAreWatched'
    OBVIOUS
  <2>1. ASSUME UNCHANGED proxy PROVE TunnelsAreWatched'
    BY <2>1 DEF proxy, TunnelsAreWatched, Registered
  <2> QED
    BY <2>1, WatchedProxyStep, HandlersLeaveProxies DEF Next, vars
<1> QED
  BY <1>1, <1>2, LaunchTypeCorrect, PTL DEF Spec

-----------------------------------------------------------------------------
(* A new session replaces the old ones.                                    *)

\* A launch for which sessions were open when it began: they began, and once
\* they are read each is ended or among those still to be ended, of which none
\* is left when the launch goes on.
Replacing(k) ==
    /\ \A x \in k.seen : Began(x)
    /\ k.at # "read" => \A x \in k.seen : row[x] = "ended" \/ x \in k.old
    /\ k.at \notin {"read", "supersede", "purge"} => k.old = {}

SeenInv ==
    protocol # "ssh" =>
        \A h \in Handlers : call[h].op = "launch" => Replacing(call[h])

\* A row changes when its session is ended, or when its launch inserts it.
LEMMA RowSteps ==
    ASSUME TypeOK, LaunchInv, [Next]_vars, NEW s \in Sessions, row'[s] # row[s]
    PROVE  \/ Began(s) /\ row'[s] = "ended"
           \/ \E h \in Handlers : Insert(h) /\ s = call[h].s /\ ~Began(s)
<1>1. Next
  BY DEF vars, store
<1>2. ASSUME NEW h \in Handlers, NEW z \in Sessions,
             \/ WebLaunch(h, z) \/ RdpLaunch(h, z) \/ SshLaunch(h, z) \/ DbLaunch(h, z)
             \/ EndSession(h, z) \/ Terminate(h, z)
      PROVE  FALSE
  BY <1>2 DEF WebLaunch, RdpLaunch, SshLaunch, DbLaunch, EndSession, Terminate, Begin, store
<1>3. ASSUME NEW h \in Handlers, EndStep(h) \/ CutOff(h)
      PROVE  Began(s) /\ row'[s] = "ended"
  <2>1. End(h)
    BY <1>3 DEF EndStep, AskProxies, Purge, CutOff, store
  <2>2. row' = [row EXCEPT ![call[h].x] = "ended"] /\ Began(call[h].x)
    BY <2>1 DEF End, At, LaunchInv, EndingInv
  <2> QED
    BY <2>2 DEF TypeOK
<1>4. ASSUME NEW h \in Handlers, LaunchStep(h)
      PROVE  \/ Began(s) /\ row'[s] = "ended"
             \/ Insert(h) /\ s = call[h].s /\ ~Began(s)
  <2>1. Supersede(h) \/ Insert(h)
    BY <1>4 DEF LaunchStep, ReadOpen, Superseded, Checkout, Refuse, StoreCredentials,
       StoreToken, StoreTokenFails, InsertFails, Unstore, store
  <2>2. CASE Supersede(h)
    <3>1. PICK x \in call[h].old : row' = [row EXCEPT ![x] = "ended"]
      BY <2>2 DEF Supersede
    <3>2. Began(x)
      BY <2>2 DEF Supersede, At, LaunchInv, LaunchingInv
    <3> QED
      BY <3>1, <3>2 DEF TypeOK
  <2>3. CASE Insert(h)
    <3>1. row' = [row EXCEPT ![call[h].s] = "open"] /\ ~Began(call[h].s)
      BY <2>3 DEF Insert, At, LaunchInv, LaunchingInv
    <3> QED
      BY <2>3, <3>1 DEF TypeOK
  <2> QED
    BY <2>1, <2>2, <2>3
<1>5. ASSUME ProxyStep PROVE Began(s) /\ row'[s] = "ended"
  <2>1. ASSUME NEW z \in Sessions, LoadSession(z) \/ Relay(z) PROVE FALSE
    BY <2>1 DEF LoadSession, Relay, store
  <2>2. ASSUME NEW t \in Tunnel,
               \/ DialFails(t) \/ Register(t) \/ Record(t) \/ Drop(t)
               \/ SocketEnds(t) \/ Poll(t) \/ RelayEnds(t)
        PROVE  FALSE
    BY <2>2 DEF DialFails, Register, Record, Drop, SocketEnds, Poll, RelayEnds, store
  <2>3. ASSUME NEW t \in Tunnel, WatchTermination(t) PROVE Began(s) /\ row'[s] = "ended"
    <3>1. row' = [row EXCEPT ![t[1]] = "ended"] /\ Began(t[1])
      BY <2>3 DEF WatchTermination, LaunchInv, ProxyInv, Tunnel
    <3> QED
      BY <3>1 DEF TypeOK
  <2>4. ASSUME NEW c \in closers, CloseStep(c) PROVE Began(s) /\ row'[s] = "ended"
    <3>1. row' = [row EXCEPT ![c.t[1]] = "ended"] /\ Began(c.t[1])
      BY <2>4 DEF CloseStep, CloseMap, CloseRow, CloseToken, CloseCreds, Acknowledge,
         LaunchInv, ProxyInv
    <3> QED
      BY <3>1 DEF TypeOK
  <2> QED
    BY <1>5, <2>1, <2>2, <2>3, <2>4 DEF ProxyStep
<1> QED
  BY <1>1, <1>2, <1>3, <1>4, <1>5 DEF Next

LEMMA EndedStays ==
    ASSUME TypeOK, LaunchInv, [Next]_vars, NEW s \in Sessions
    PROVE  /\ Began(s) => Began(s)'
           /\ row[s] = "ended" => row'[s] = "ended"
BY RowSteps DEF Began

\* The call of a handler, from one state to the next.
SeenStep(h) ==
    \/ call'[h] = call[h]
    \/ call'[h].op # "launch"
    \/ call'[h].at = "read" /\ call'[h].seen = Open
    \/ /\ call[h].op = "launch" /\ call'[h].seen = call[h].seen
       /\ \/ call[h].at = "read" /\ call'[h].at = "supersede" /\ call'[h].old = Open
          \/ /\ call[h].at = "supersede" /\ call'[h].at \in {"supersede", "purge"}
             /\ \E x \in call[h].old :
                    call'[h].old = call[h].old \ {x} /\ row'[x] = "ended"
          \/ call[h].at = "purge" /\ call'[h].at = "supersede" /\ call'[h].old = call[h].old
          \/ call[h].at \notin {"read", "purge"} /\ call[h].old = {} /\ call'[h].old = {}
             /\ call'[h].at # "read"

LEMMA CallsSeen ==
    ASSUME TypeOK, LaunchInv, SeenInv, Next, protocol # "ssh", NEW g \in Handlers
    PROVE  SeenStep(g)
<1>i. Idle.op # "launch"
  BY DEF Idle
<1>1. ASSUME UNCHANGED call PROVE SeenStep(g)
  BY <1>1 DEF SeenStep
<1>2. ASSUME NEW h \in Handlers, NEW n, call' = [call EXCEPT ![h] = n],
             g = h => \/ n.op # "launch"
                      \/ n.at = "read" /\ n.seen = Open
                      \/ SeenStep(g)
      PROVE  SeenStep(g)
  <2>1. CASE g = h
    BY <1>2, <2>1 DEF SeenStep, TypeOK
  <2>2. CASE g # h
    BY <1>2, <2>2 DEF SeenStep, TypeOK
  <2> QED
    BY <2>1, <2>2
<1>3. ASSUME NEW h \in Handlers, Return(h) PROVE SeenStep(g)
  BY <1>2, <1>3, <1>i DEF Return
<1>4. ASSUME NEW h \in Handlers, NEW s \in Sessions,
             WebLaunch(h, s) \/ RdpLaunch(h, s) \/ SshLaunch(h, s) \/ DbLaunch(h, s)
      PROVE  SeenStep(g)
  <2>1. Begin(h, s, "read")
    BY <1>4 DEF WebLaunch, RdpLaunch, SshLaunch, DbLaunch
  <2> DEFINE n == [op |-> "launch", at |-> "read", s |-> s, seen |-> Open, old |-> {}]
  <2>2. call' = [call EXCEPT ![h] = n] /\ n.at = "read" /\ n.seen = Open
    BY <2>1 DEF Begin
  <2> HIDE DEF n
  <2> QED
    BY <1>2, <2>2
<1>5. ASSUME NEW h \in Handlers, NEW s \in Sessions, EndSession(h, s) \/ Terminate(h, s)
      PROVE  SeenStep(g)
  <2>1. PICK at \in {"end", "ask"} :
            call' = [call EXCEPT ![h] = [op |-> "end", at |-> at, x |-> s]]
    BY <1>5 DEF EndSession, Terminate
  <2> DEFINE n == [op |-> "end", at |-> at, x |-> s]
  <2>2. call' = [call EXCEPT ![h] = n] /\ n.op # "launch"
    BY <2>1
  <2> HIDE DEF n
  <2> QED
    BY <1>2, <2>2
<1>6. ASSUME NEW h \in Handlers, AskProxies(h) \/ End(h) PROVE SeenStep(g)
  <2>1. call[h] \in Endings
    BY <1>6, CallKinds DEF AskProxies, End, At, TypeOK
  <2>2. PICK n : call' = [call EXCEPT ![h] = n] /\ n.op # "launch"
    <3>1. \A at : [call[h] EXCEPT !.at = at].op # "launch"
      BY <2>1 DEF Endings
    <3> QED
      BY <1>6, <1>i, <3>1 DEF AskProxies, End, Goto, Return
  <2> QED
    BY <1>2, <2>2
<1>7. ASSUME NEW h \in Handlers, Purge(h) PROVE SeenStep(g)
  <2> DEFINE k == call[h]
             a == [op |-> "launch", at |-> "supersede", s |-> k.s, seen |-> k.seen,
                   old |-> k.old]
             n == IF k.op = "end" THEN Idle ELSE a
  <2>1. call' = [call EXCEPT ![h] = n]
    BY <1>7 DEF Purge
  <2>2. a.at = "supersede" /\ a.seen = k.seen /\ a.old = k.old
    OBVIOUS
  <2>3. k.op \in {"end", "launch"} /\ k.at = "purge"
    BY <1>7, CallKinds DEF Purge, TypeOK
  <2> HIDE DEF a
  <2>4. call'[h] = n
    BY <2>1 DEF TypeOK
  <2>5. k.op = "launch" => SeenStep(h)
    BY <2>2, <2>3, <2>4 DEF SeenStep
  <2> HIDE DEF n
  <2> QED
    BY <1>2, <1>i, <2>1, <2>3, <2>5 DEF n
<1>8. ASSUME NEW h \in Handlers, ReadOpen(h) \/ Supersede(h) PROVE SeenStep(g)
  <2> DEFINE k == call[h]
  <2>2. k \in Launches /\ k.op = "launch"
    BY <1>8, CallKinds DEF ReadOpen, Supersede, At, TypeOK
  <2>3. CASE ReadOpen(h)
    <3> DEFINE n == [k EXCEPT !.old = Open, !.at = "supersede"]
    <3>1. n.at = "supersede" /\ n.old = Open /\ n.seen = k.seen
      BY <2>2 DEF Launches
    <3>2. call' = [call EXCEPT ![h] = n] /\ k.at = "read"
      BY <2>3 DEF ReadOpen, ToSupersede, At
    <3> HIDE DEF n
    <3>3. call'[h] = n
      BY <3>2 DEF TypeOK
    <3>4. SeenStep(h)
      BY <2>2, <3>1, <3>2, <3>3 DEF SeenStep
    <3> QED
      BY <1>2, <3>2, <3>4
  <2>4. CASE Supersede(h)
    <3>1. PICK x \in k.old :
             /\ row' = [row EXCEPT ![x] = "ended"]
             /\ call' = [call EXCEPT ![h] =
                 IF row[x] = "open"
                 THEN [op |-> "launch", at |-> "purge", s |-> @.s, seen |-> @.seen,
                       old |-> k.old \ {x}, x |-> x]
                 ELSE [@ EXCEPT !.old = k.old \ {x}]]
      BY <2>4 DEF Supersede
    <3> DEFINE a == [op |-> "launch", at |-> "purge", s |-> k.s, seen |-> k.seen,
                     old |-> k.old \ {x}, x |-> x]
               b == [k EXCEPT !.old = k.old \ {x}]
               n == IF row[x] = "open" THEN a ELSE b
    <3>2. k.at = "supersede" /\ x \in Sessions
      BY <2>2, <2>4 DEF Supersede, At, Launches
    <3>3. a.at = "purge" /\ a.seen = k.seen /\ a.old = k.old \ {x}
      OBVIOUS
    <3>4. b.at = k.at /\ b.seen = k.seen /\ b.old = k.old \ {x}
      BY <2>2 DEF Launches
    <3>5. call' = [call EXCEPT ![h] = n]
      BY <3>1
    <3> HIDE DEF a, b
    <3>6. call'[h] = n /\ row'[x] = "ended"
      BY <3>1, <3>2, <3>5 DEF TypeOK
    <3>7. n.at \in {"supersede", "purge"} /\ n.seen = k.seen /\ n.old = k.old \ {x}
      BY <3>2, <3>3, <3>4
    <3> HIDE DEF n
    <3>8. SeenStep(h)
      BY <2>2, <3>2, <3>6, <3>7 DEF SeenStep
    <3> QED
      BY <1>2, <3>5, <3>8
  <2> QED
    BY <1>8, <2>3, <2>4
<1>9. ASSUME NEW h \in Handlers,
             Superseded(h) \/ Checkout(h) \/ StoreCredentials(h) \/ StoreToken(h)
      PROVE  SeenStep(g)
  <2> DEFINE k == call[h]
  <2>1. PICK at : at # "read" /\ call' = [call EXCEPT ![h].at = at]
    BY <1>9 DEF Superseded, Checkout, StoreCredentials, StoreToken, Goto, AfterSupersede
  <2>2. /\ k \in Launches /\ k.op = "launch" /\ k.at \notin {"read", "purge"}
        /\ k.at \in {"checkout", "store", "token"} \/ k.old = {}
    BY <1>9, CallKinds DEF Superseded, Checkout, StoreCredentials, StoreToken, At, TypeOK
  <2>3. k.old = {}
    BY <2>2 DEF SeenInv, Replacing
  <2> DEFINE n == [k EXCEPT !.at = at]
  <2>4. n.at = at /\ n.seen = k.seen /\ n.old = k.old
    BY <2>2 DEF Launches
  <2>5. call' = [call EXCEPT ![h] = n]
    BY <2>1
  <2> HIDE DEF n
  <2>6. call'[h] = n
    BY <2>5 DEF TypeOK
  <2>7. SeenStep(h)
    BY <2>1, <2>2, <2>3, <2>4, <2>6 DEF SeenStep
  <2> QED
    BY <1>2, <2>5, <2>7
<1>10. ASSUME NEW h \in Handlers, LaunchStep(h) PROVE SeenStep(g)
  <2>1. \/ ReadOpen(h) \/ Supersede(h)
        \/ Superseded(h) \/ Checkout(h) \/ StoreCredentials(h) \/ StoreToken(h)
        \/ Return(h)
    BY <1>10 DEF LaunchStep, Refuse, StoreTokenFails, Insert, InsertFails, Unstore
  <2> QED
    BY <1>3, <1>8, <1>9, <2>1
<1>11. ASSUME NEW h \in Handlers, CutOff(h) PROVE SeenStep(g)
  BY <1>3, <1>11 DEF CutOff
<1>12. ASSUME ProxyStep PROVE SeenStep(g)
  <2>1. UNCHANGED call
    BY <1>12 DEF ProxyStep, LoadSession, Relay, DialFails, Register, Record, Drop, SocketEnds,
       Poll, WatchTermination, RelayEnds, CloseStep, CloseMap, CloseRow, CloseToken, CloseCreds,
       Acknowledge, Unchanged_Close
  <2> QED
    BY <1>1, <2>1
<1> QED
  BY <1>4, <1>5, <1>6, <1>7, <1>10, <1>11, <1>12 DEF Next, EndStep

LEMMA SeenNext ==
    ASSUME TypeOK, LaunchInv, SeenInv, [Next]_vars
    PROVE  SeenInv'
<1>0. protocol' = protocol
  <2>1. ASSUME ProxyStep PROVE protocol' = protocol
    BY <2>1 DEF ProxyStep, LoadSession, Relay, DialFails, Register, Record, Drop, SocketEnds,
       Poll, WatchTermination, RelayEnds, CloseStep, CloseMap, CloseRow, CloseToken, CloseCreds,
       Acknowledge, Unchanged_Close
  <2> QED
    BY <2>1, HandlersLeaveProxies DEF Next, vars
<1> SUFFICES ASSUME protocol # "ssh", NEW g \in Handlers, call'[g].op = "launch"
             PROVE  Replacing(call[g])'
  BY <1>0 DEF SeenInv
<1> DEFINE k == call[g]
           n == call'[g]
<1>1. SeenStep(g)
  <2>1. CASE UNCHANGED vars
    BY <2>1 DEF vars, SeenStep
  <2> QED
    BY <2>1, CallsSeen
<1>2. k.op = "launch" => k.seen \subseteq Sessions /\ k.old \subseteq Sessions
  <2>1. k \in Call
    BY DEF TypeOK
  <2> QED
    BY <2>1, CallIs DEF Launches, Purging, Endings, Idle
<1>3. \A x \in Sessions : /\ Began(x) => Began(x)'
                          /\ row[x] = "ended" => row'[x] = "ended"
  BY EndedStays
<1>4. k.op = "launch" => Replacing(k)
  BY DEF SeenInv
<1>5. CASE n = k
  BY <1>2, <1>3, <1>4, <1>5 DEF Replacing
<1>6. CASE n.at = "read" /\ n.seen = Open
  BY <1>3, <1>6 DEF Replacing, Open, Began
<1>7. CASE k.op = "launch" /\ n.seen = k.seen /\ k.at = "read"
           /\ n.at = "supersede" /\ n.old = Open
  <2>1. \A x \in k.seen : row'[x] = "ended" \/ x \in Open
    BY <1>2, <1>3, <1>4, <1>7 DEF Replacing, Open, Began, TypeOK
  <2> QED
    BY <1>2, <1>3, <1>4, <1>7, <2>1 DEF Replacing
<1>8. CASE k.op = "launch" /\ n.seen = k.seen
           /\ k.at = "supersede" /\ n.at \in {"supersede", "purge"}
           /\ \E x \in k.old : n.old = k.old \ {x} /\ row'[x] = "ended"
  <2>1. \A x \in k.seen : row'[x] = "ended" \/ x \in n.old
    BY <1>2, <1>3, <1>4, <1>8 DEF Replacing
  <2> QED
    BY <1>2, <1>3, <1>4, <1>8, <2>1 DEF Replacing
<1>9. CASE k.op = "launch" /\ n.seen = k.seen
           /\ k.at = "purge" /\ n.at = "supersede" /\ n.old = k.old
  BY <1>2, <1>3, <1>4, <1>9 DEF Replacing
<1>10. CASE k.op = "launch" /\ n.seen = k.seen
            /\ k.at \notin {"read", "purge"} /\ k.old = {} /\ n.old = {} /\ n.at # "read"
  BY <1>2, <1>3, <1>4, <1>10 DEF Replacing
<1> QED
  BY <1>1, <1>5, <1>6, <1>7, <1>8, <1>9, <1>10 DEF SeenStep

\* EndActiveForUserTarget reads the open sessions once and ends them one by
\* one, and whatever comes between, by the time the new row is inserted every
\* session that was open when the launch began is ended: an ended row is never
\* opened again, and the launch inserts a row of its own.
THEOREM NewSessionReplaces == Spec => RelaunchReplaces
<1>1. Init => SeenInv
  BY DEF Init, SeenInv, Idle
<1>2. TypeOK /\ LaunchInv /\ SeenInv /\ [Next]_vars => SeenInv'
  BY SeenNext
<1>3. TypeOK /\ LaunchInv /\ SeenInv /\ [Next]_vars
        => [\A h \in Handlers :
               call[h].op = "launch" /\ protocol # "ssh" /\ row[call[h].s] # row'[call[h].s]
                 => \A x \in call[h].seen : row[x] = "ended"]_vars
  <2> SUFFICES ASSUME TypeOK, LaunchInv, SeenInv, [Next]_vars, NEW h \in Handlers,
                      call[h].op = "launch", protocol # "ssh",
                      row[call[h].s] # row'[call[h].s], NEW x \in call[h].seen
               PROVE  row[x] = "ended"
    OBVIOUS
  <2>1. call[h].s \in Sessions
    <3>1. call[h] \in Call
      BY DEF TypeOK
    <3> QED
      BY <3>1, CallIs DEF Launches, Purging, Endings, Idle
  <2>2. ~Began(call[h].s)
    BY DEF LaunchInv, LaunchingInv
  <2>3. PICK g \in Handlers : Insert(g) /\ call[g].s = call[h].s
    BY <2>1, <2>2, RowSteps
  <2>4. g = h /\ call[h].at = "insert"
    BY <2>3 DEF Insert, At, LaunchInv, LaunchingInv
  <2> QED
    BY <2>4 DEF SeenInv, Replacing
<1> QED
  BY <1>1, <1>2, <1>3, LaunchTypeCorrect, LaunchInvariant, PTL DEF Spec, RelaunchReplaces

=============================================================================
