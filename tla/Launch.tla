------------------------------- MODULE Launch -------------------------------
(***************************************************************************)
(* Sessions started from the portal: how auth-service launches and ends    *)
(* them (internal/weblaunch, rdp, sshlaunch, dblaunch, sessions), and the  *)
(* tunnels rdp-proxy and db-proxy run for them (internal/rdpproxy,         *)
(* dbproxy).                                                               *)
(*                                                                         *)
(* One user and one target: sessions of others do not meet.  A target has  *)
(* one connection type, so all the sessions are of one protocol.  A launch *)
(* is a row of `sessions' and one or two secrets in the vault; nothing     *)
(* keeps them together but the order of the statements.                    *)
(***************************************************************************)
EXTENDS Integers, FiniteSets

CONSTANTS
    Sessions,       \* session ids, by the clock they are made of
    Handlers,       \* requests at auth-service and audit-service
    Protocols,      \* connection types of the target to look at
    MaxLaunches,    \* bound: launches, per protocol
    MaxTunnels      \* bound: connections a viewer makes per session

ASSUME LaunchAssumption ==
    /\ Sessions \subseteq Nat
    /\ Protocols \subseteq {"web", "rdp", "ssh", "db"}
    /\ MaxLaunches \in [Protocols -> Nat]
    /\ MaxTunnels \in Nat

VARIABLES
    protocol,   \* of the target; never changes
    row,        \* the sessions table
    creds,      \* sessions whose credentials are in the vault
    token,      \* ... and whose browser token is (ssh)
    checkouts,  \* launches whose credential_checkouts row is written
    call,       \* what a handler has done and not yet finished
    kill,       \* the session_terminations table
    cut,        \* sessions whose launch or end was cut off half-way
    made,       \* tunnels begun so far, per session
    dialing,    \* tunnels between loadSession and their registration
    tunnels,    \* Server.tunnels: the tunnel registered for a session
    live,       \* tunnels whose connection to guacd (or the database) is up
    serving,    \* tunnels whose websocket handler is running
    polling,    \* tunnels whose pollTermination is running
    closers,    \* the closeSession calls under way
    recorded,   \* sessions guacd has written a recording of
    mu          \* Server.mu: free, or taken by a goroutine that waits for it

store == <<row, creds, token, checkouts, kill>>
proxy == <<made, dialing, tunnels, live, serving, polling, closers, recorded, mu>>
vars == <<protocol, store, call, cut, proxy>>

Tunnel == Sessions \X (1..MaxTunnels)
Idle == [op |-> "idle"]
Call ==
    {Idle}
    \cup [op : {"launch"}, s : Sessions, seen : SUBSET Sessions, old : SUBSET Sessions,
          at : {"read", "supersede", "checkout", "store", "token", "insert", "unstore"}]
    \cup [op : {"launch"}, s : Sessions, seen : SUBSET Sessions, old : SUBSET Sessions,
          at : {"purge"}, x : Sessions]
    \cup [op : {"end"}, at : {"ask", "end", "purge"}, x : Sessions]
Closer == [t : Tunnel, by : {"socket", "poller"}, at : {"map", "row", "token", "creds", "ack"}]

\* The steps a launch goes through: SSH ends no old session and has a token to
\* store, a web console's password is read without a checkout.
Steps(p) ==
    {"store", "insert"} \cup
    (IF p = "ssh" THEN {"token", "unstore"} ELSE {"read", "supersede", "purge"}) \cup
    (IF p \in {"rdp", "db"} THEN {"checkout"} ELSE {})

TypeOK ==
    /\ protocol \in Protocols
    /\ row \in [Sessions -> {"absent", "open", "ended"}]
    /\ creds \subseteq Sessions /\ token \subseteq Sessions
    /\ checkouts \subseteq Sessions /\ cut \subseteq Sessions /\ recorded \subseteq Sessions
    /\ call \in [Handlers -> Call]
    /\ \A h \in Handlers : call[h].op = "launch" => call[h].at \in Steps(protocol)
    /\ kill \in [Sessions -> {"none", "asked", "acked"}]
    /\ made \in [Sessions -> 0..MaxTunnels]
    /\ tunnels \in [Sessions -> 0..MaxTunnels]
    /\ dialing \subseteq Tunnel /\ live \subseteq Tunnel
    /\ serving \subseteq Tunnel /\ polling \subseteq Tunnel
    /\ closers \subseteq Closer
    /\ mu \in {"free", "stuck"}

Init ==
    /\ protocol \in Protocols
    /\ row = [s \in Sessions |-> "absent"]
    /\ creds = {} /\ token = {} /\ checkouts = {} /\ cut = {} /\ recorded = {}
    /\ call = [h \in Handlers |-> Idle]
    /\ kill = [s \in Sessions |-> "none"]
    /\ made = [s \in Sessions |-> 0]
    /\ tunnels = [s \in Sessions |-> 0]
    /\ dialing = {} /\ live = {} /\ serving = {} /\ polling = {} /\ closers = {}
    /\ mu = "free"

-----------------------------------------------------------------------------
(* auth-service: the four launches. *)

Open == {s \in Sessions : row[s] = "open"}

Goto(h, at) == call' = [call EXCEPT ![h].at = at]
Return(h) == call' = [call EXCEPT ![h] = Idle]
At(h, op, at) == call[h].op = op /\ call[h].at = at

Launching(s) == \E h \in Handlers : call[h].op = "launch" /\ call[h].s = s

\* A session id is not drawn again, and the next one is later.
Fresh(s) ==
    /\ row[s] = "absent" /\ s \notin creds \cup checkouts
    /\ ~Launching(s)

\* The target, the policy and, where one is asked for, the approval were read
\* and let the user in.  A launch that is refused here leaves no trace.
Begin(h, s, at) ==
    /\ call[h] = Idle
    /\ Fresh(s) /\ \A x \in Sessions : Fresh(x) => s <= x
    /\ Cardinality({x \in Sessions : ~Fresh(x)}) < MaxLaunches[protocol]
    /\ call' = [call EXCEPT ![h] =
                   [op |-> "launch", at |-> at, s |-> s, seen |-> Open, old |-> {}]]
    /\ UNCHANGED <<protocol, store, cut, proxy>>

WebLaunch(h, s) == protocol = "web" /\ Begin(h, s, "read")
\* The account is looked for, and dual control settled, before the old sessions
\* are ended.
RdpLaunch(h, s) == protocol = "rdp" /\ Begin(h, s, "read")
\* ... and after it.
DbLaunch(h, s) == protocol = "db" /\ Begin(h, s, "read")
\* A birthright assignment stands in for the approval.  Old sessions are kept.
SshLaunch(h, s) == protocol = "ssh" /\ Begin(h, s, "store")

\* EndActiveForUserTarget: the ids are read first, each then goes through End.
ToSupersede_Seen(h) == Open \ call[h].seen
ToSupersede(h) == Open

ReadOpen(h) ==
    /\ At(h, "launch", "read")
    /\ call' = [call EXCEPT ![h].old = ToSupersede(h), ![h].at = "supersede"]
    /\ UNCHANGED <<protocol, store, cut, proxy>>

Supersede(h) ==
    /\ At(h, "launch", "supersede")
    /\ \E x \in call[h].old :
        LET rest == call[h].old \ {x} IN
        /\ row' = [row EXCEPT ![x] = "ended"]
        /\ call' = [call EXCEPT ![h] =
               IF row[x] = "open"
               THEN [op |-> "launch", at |-> "purge", s |-> @.s, seen |-> @.seen,
                     old |-> rest, x |-> x]
               ELSE [@ EXCEPT !.old = rest]]
    /\ UNCHANGED <<protocol, creds, token, checkouts, kill, cut, proxy>>

AfterSupersede == IF protocol = "web" THEN "store" ELSE "checkout"

Superseded(h) ==
    /\ At(h, "launch", "supersede")
    /\ call[h].old = {}
    /\ Goto(h, AfterSupersede)
    /\ UNCHANGED <<protocol, store, cut, proxy>>

\* accounts.Checkout: the password is read and the checkout is recorded.
Recorded(s) == checkouts \cup {s}

Checkout(h) ==
    /\ At(h, "launch", "checkout")
    /\ checkouts' = Recorded(call[h].s)
    /\ Goto(h, "store")
    /\ UNCHANGED <<protocol, row, creds, token, kill, cut, proxy>>

\* The account or its password is gone or, for a database, missing all along or
\* under dual control: the old session is ended and there is no new one.
Refuse(h) ==
    /\ At(h, "launch", "checkout")
    /\ Return(h)
    /\ UNCHANGED <<protocol, store, cut, proxy>>

StoreCredentials(h) ==
    /\ At(h, "launch", "store")
    /\ creds' = creds \cup {call[h].s}
    /\ Goto(h, IF protocol = "ssh" THEN "token" ELSE "insert")
    /\ UNCHANGED <<protocol, row, token, checkouts, kill, cut, proxy>>

StoreToken(h) ==
    /\ At(h, "launch", "token")
    /\ token' = token \cup {call[h].s}
    /\ Goto(h, "insert")
    /\ UNCHANGED <<protocol, row, creds, checkouts, kill, cut, proxy>>

StoreTokenFails(h) ==
    /\ At(h, "launch", "token")
    /\ creds' = creds \ {call[h].s}
    /\ Return(h)
    /\ UNCHANGED <<protocol, row, token, checkouts, kill, cut, proxy>>

Insert(h) ==
    /\ At(h, "launch", "insert")
    /\ row' = [row EXCEPT ![call[h].s] = "open"]
    /\ Return(h)
    /\ UNCHANGED <<protocol, creds, token, checkouts, kill, cut, proxy>>

\* The user or the target is gone by now, and the row's foreign key fails.
InsertFails(h) ==
    /\ At(h, "launch", "insert")
    /\ IF protocol = "ssh"
       THEN token' = token \ {call[h].s} /\ Goto(h, "unstore") /\ UNCHANGED creds
       ELSE creds' = creds \ {call[h].s} /\ Return(h) /\ UNCHANGED token
    /\ UNCHANGED <<protocol, row, checkouts, kill, cut, proxy>>

Unstore(h) ==
    /\ At(h, "launch", "unstore")
    /\ creds' = creds \ {call[h].s}
    /\ Return(h)
    /\ UNCHANGED <<protocol, row, token, checkouts, kill, cut, proxy>>

\* The browser goes away, and with it the context of the request, or the
\* service stops: what is left to do is not done, taking back included.
CutOff(h) ==
    /\ call[h] # Idle
    /\ Return(h)
    /\ cut' = cut \cup (IF call[h].at = "purge" THEN {call[h].x} ELSE {})
                  \cup (IF call[h].op = "launch" /\ call[h].s \in creds
                        THEN {call[h].s} ELSE {})
    /\ UNCHANGED <<protocol, store, proxy>>

-----------------------------------------------------------------------------
(* Ending a session: its user (web), audit-service's worker, which looks for *)
(* abandoned ones, or an administrator.                                      *)

EndSession(h, s) ==
    /\ call[h] = Idle
    /\ row[s] = "open"
    /\ call' = [call EXCEPT ![h] = [op |-> "end", at |-> "end", x |-> s]]
    /\ UNCHANGED <<protocol, store, cut, proxy>>

\* POST /sessions/{id}/terminate has seen that the session is not ended.
Terminate(h, s) ==
    /\ call[h] = Idle
    /\ row[s] = "open"
    /\ call' = [call EXCEPT ![h] = [op |-> "end", at |-> "ask", x |-> s]]
    /\ UNCHANGED <<protocol, store, cut, proxy>>

AskProxies(h) ==
    /\ At(h, "end", "ask")
    /\ kill' = [kill EXCEPT ![call[h].x] = "asked"]
    /\ Goto(h, "end")
    /\ UNCHANGED <<protocol, row, creds, token, checkouts, cut, proxy>>

\* sessions.End.
End(h) ==
    /\ At(h, "end", "end")
    /\ row' = [row EXCEPT ![call[h].x] = "ended"]
    /\ IF row[call[h].x] = "open" THEN Goto(h, "purge") ELSE Return(h)
    /\ UNCHANGED <<protocol, creds, token, checkouts, kill, cut, proxy>>

\* The secret's name is told from the prefix of the id; "ssh-" is not among them.
Purged_WebOnly(x) == IF protocol = "web" THEN creds \ {x} ELSE creds
Purged(x) == IF protocol = "ssh" THEN creds ELSE creds \ {x}

Purge(h) ==
    /\ call[h] # Idle /\ call[h].at = "purge"
    /\ creds' = Purged(call[h].x)
    /\ call' = [call EXCEPT ![h] =
           IF @.op = "end" THEN Idle
           ELSE [op |-> "launch", at |-> "supersede", s |-> @.s, seen |-> @.seen, old |-> @.old]]
    /\ UNCHANGED <<protocol, row, token, checkouts, kill, cut, proxy>>

-----------------------------------------------------------------------------
(* rdp-proxy.  A tunnel is <<s, n>>, the n-th made for session s. *)

HasTunnel == protocol \in {"rdp", "ssh"}
Registered(t) == tunnels[t[1]] = t[2]

\* loadSession: the session is open and its credentials are there.
LoadSession(s) ==
    /\ HasTunnel
    /\ row[s] = "open" /\ s \in creds
    /\ made[s] < MaxTunnels
    /\ made' = [made EXCEPT ![s] = @ + 1]
    /\ dialing' = dialing \cup {<<s, made[s] + 1>>}
    /\ UNCHANGED <<protocol, store, call, cut, tunnels, live, serving, polling,
                   closers, recorded, mu>>

\* guacd refuses, with and without a recording.  The session stays as it is.
DialFails(t) ==
    /\ t \in dialing
    /\ dialing' = dialing \ {t}
    /\ UNCHANGED <<protocol, store, call, cut, made, tunnels, live, serving, polling,
                   closers, recorded, mu>>

\* doConnect, the handshake done.  Where the session's old tunnel is still
\* registered it is closed with mu held, and its closeSession takes mu again.
Register(t) ==
    /\ t \in dialing
    /\ mu = "free"
    /\ LET s == t[1] IN
       IF tunnels[s] = 0
       THEN /\ tunnels' = [tunnels EXCEPT ![s] = t[2]]
            /\ dialing' = dialing \ {t}
            /\ live' = live \cup {t}
            /\ serving' = serving \cup {t}
            /\ polling' = polling \cup {t}
            /\ UNCHANGED mu
       ELSE /\ mu' = "stuck"
            /\ live' = live \ {<<s, tunnels[s]>>}
            /\ UNCHANGED <<tunnels, dialing, serving, polling>>
    /\ UNCHANGED <<protocol, store, call, cut, made, closers, recorded>>

\* guacd reaches the desktop and records it.
Record(t) ==
    /\ protocol = "rdp" /\ t \in live
    /\ recorded' = recorded \cup {t[1]}
    /\ UNCHANGED <<protocol, store, call, cut, made, dialing, tunnels, live, serving,
                   polling, closers, mu>>

\* The browser or guacd drops the connection.
Drop(t) ==
    /\ HasTunnel /\ t \in live
    /\ live' = live \ {t}
    /\ UNCHANGED <<protocol, store, call, cut, made, dialing, tunnels, serving, polling,
                   closers, recorded, mu>>

Close(t, by) == closers' = closers \cup {[t |-> t, by |-> by, at |-> "map"]}

\* The websocket handler notices and closes its tunnel, closed already or not.
SocketEnds(t) ==
    /\ t \in serving \ live
    /\ serving' = serving \ {t}
    /\ Close(t, "socket")
    /\ UNCHANGED <<protocol, store, call, cut, made, dialing, tunnels, live, polling,
                   recorded, mu>>

\* A tick of pollTermination.  It looks whether the session, not its own
\* tunnel, is in the map.
PollEnds_Acked(t) == tunnels[t[1]] = 0 \/ kill[t[1]] # "none"
PollEnds(t) == tunnels[t[1]] = 0 \/ kill[t[1]] = "asked"

Poll(t) ==
    /\ t \in polling
    /\ mu = "free"
    /\ PollEnds(t)
    /\ polling' = polling \ {t}
    /\ IF tunnels[t[1]] # 0 /\ kill[t[1]] = "asked"
       THEN live' = live \ {t} /\ Close(t, "poller")
       ELSE UNCHANGED <<live, closers>>
    /\ UNCHANGED <<protocol, store, call, cut, made, dialing, tunnels, serving,
                   recorded, mu>>

\* ssh-proxy, which a browser's SSH tunnel runs through, polls as well: it ends
\* the row, acknowledges and closes the connection guacd has with it.
WatchTermination(t) ==
    /\ protocol = "ssh" /\ t \in live
    /\ kill[t[1]] = "asked"
    /\ row' = [row EXCEPT ![t[1]] = "ended"]
    /\ kill' = [kill EXCEPT ![t[1]] = "acked"]
    /\ live' = live \ {t}
    /\ UNCHANGED <<protocol, creds, token, checkouts, call, cut, made, dialing, tunnels,
                   serving, polling, closers, recorded, mu>>

(* closeSession, one statement after the other. *)

Moves(c, at) == closers' = (closers \ {c}) \cup {[c EXCEPT !.at = at]}
Ends(c) == closers' = closers \ {c}
Unchanged_Close == UNCHANGED <<protocol, checkouts, call, cut, made, dialing, live, serving,
                               polling, recorded, mu>>

\* Whatever tunnel of the session is registered goes out of the map.
CloseMap(c) ==
    /\ c.at = "map" /\ mu = "free"
    /\ tunnels' = [tunnels EXCEPT ![c.t[1]] = 0]
    /\ Moves(c, "row")
    /\ UNCHANGED <<row, creds, token, kill>> /\ Unchanged_Close

\* An RDP session that never got to a recording keeps its row and its
\* credentials, for the viewer to try again.
Retryable(s) == protocol = "rdp" /\ s \notin recorded

AfterRow_Ended(c) == Retryable(c.t[1]) \/ row[c.t[1]] = "ended"
AfterRow(c) == Retryable(c.t[1])

CloseRow(c) ==
    /\ c.at = "row"
    /\ row' = IF Retryable(c.t[1]) THEN row ELSE [row EXCEPT ![c.t[1]] = "ended"]
    /\ IF AfterRow(c) THEN Ends(c) ELSE Moves(c, "token")
    /\ UNCHANGED <<creds, token, kill, tunnels>> /\ Unchanged_Close

\* The browser token's name stands in the session's secret.
TokenGone(s) == IF s \in creds THEN token \ {s} ELSE token

CloseToken(c) ==
    /\ c.at = "token"
    /\ token' = TokenGone(c.t[1])
    /\ Moves(c, "creds")
    /\ UNCHANGED <<row, creds, kill, tunnels>> /\ Unchanged_Close

Emptied_Once(s) == IF row[s] = "open" THEN creds \ {s} ELSE creds
Emptied(s) == creds \ {s}

CloseCreds(c) ==
    /\ c.at = "creds"
    /\ creds' = Emptied(c.t[1])
    /\ Moves(c, "ack")
    /\ UNCHANGED <<row, token, kill, tunnels>> /\ Unchanged_Close

Acknowledge(c) ==
    /\ c.at = "ack"
    /\ kill' = [kill EXCEPT ![c.t[1]] = IF @ = "asked" THEN "acked" ELSE @]
    /\ Ends(c)
    /\ UNCHANGED <<row, creds, token, tunnels>> /\ Unchanged_Close

\* db-proxy: the client shows the session's token, and is relayed until it or
\* the database hangs up.  Nobody polls for a termination here.
Relay(s) ==
    /\ protocol = "db"
    /\ s \in creds
    /\ made[s] < MaxTunnels
    /\ made' = [made EXCEPT ![s] = @ + 1]
    /\ live' = live \cup {<<s, made[s] + 1>>}
    /\ UNCHANGED <<protocol, store, call, cut, dialing, tunnels, serving, polling, closers,
                   recorded, mu>>

RelayEnds(t) ==
    /\ protocol = "db" /\ t \in live
    /\ live' = live \ {t}
    /\ UNCHANGED <<protocol, store, call, cut, made, dialing, tunnels, serving, polling,
                   closers, recorded, mu>>

-----------------------------------------------------------------------------

LaunchStep(h) ==
    \/ ReadOpen(h) \/ Supersede(h) \/ Superseded(h) \/ Checkout(h) \/ Refuse(h)
    \/ StoreCredentials(h) \/ StoreToken(h) \/ StoreTokenFails(h)
    \/ Insert(h) \/ InsertFails(h) \/ Unstore(h)

EndStep(h) == AskProxies(h) \/ End(h) \/ Purge(h)

CloseStep(c) ==
    CloseMap(c) \/ CloseRow(c) \/ CloseToken(c) \/ CloseCreds(c) \/ Acknowledge(c)

ProxyStep ==
    \/ \E s \in Sessions : LoadSession(s) \/ Relay(s)
    \/ \E t \in Tunnel :
        \/ DialFails(t) \/ Register(t) \/ Record(t) \/ Drop(t)
        \/ SocketEnds(t) \/ Poll(t) \/ WatchTermination(t) \/ RelayEnds(t)
    \/ \E c \in closers : CloseStep(c)

Next ==
    \/ \E h \in Handlers :
        \/ \E s \in Sessions :
            \/ WebLaunch(h, s) \/ RdpLaunch(h, s) \/ SshLaunch(h, s) \/ DbLaunch(h, s)
            \/ EndSession(h, s) \/ Terminate(h, s)
        \/ LaunchStep(h) \/ EndStep(h) \/ CutOff(h)
    \/ ProxyStep

Spec == Init /\ [][Next]_vars

\* The goroutines go on with what they are doing, and the tickers tick.
Fairness ==
    /\ WF_vars(\E t \in Tunnel : SocketEnds(t))
    /\ WF_vars(\E t \in Tunnel : Poll(t))
    /\ WF_vars(\E t \in Tunnel : WatchTermination(t))
    /\ WF_vars(\E c \in closers : CloseStep(c))

FairSpec == Spec /\ Fairness

-----------------------------------------------------------------------------
(* Properties. *)

Ending(s) == \E h \in Handlers : call[h] # Idle /\ call[h].at = "purge" /\ call[h].x = s
Settling(s) == \E c \in closers : c.t[1] = s /\ c.at \in {"token", "creds"}

\* Credentials are in the vault for a session that is open or being launched,
\* or that someone is about to take them from; only a call that was cut off
\* leaves others behind.  SSH credentials wait for their tunnel to close.  And
\* a privileged password is not stored without a checkout that says so.
SecretsHaveOwner ==
    \A s \in creds :
        /\ \/ row[s] = "open" \/ Launching(s) \/ Ending(s) \/ Settling(s) \/ s \in cut
           \/ protocol = "ssh" /\ row[s] = "ended"
        /\ protocol \in {"rdp", "db"} => s \in checkouts

\* When a termination is acknowledged the session is over for good: its row is
\* ended and, over RDP, the password is gone from the vault.
AckMeansGone ==
    \A s \in Sessions : kill[s] = "acked" =>
        row[s] = "ended" /\ (protocol = "rdp" => s \notin creds)

\* A launch that completes has ended every session that was open when it began,
\* whatever other launches and ends ran in between.  (Two launches at the same
\* time leave two sessions.)
RelaunchReplaces ==
    [][\A h \in Handlers :
        call[h].op = "launch" /\ protocol # "ssh" /\ row[call[h].s] # row'[call[h].s]
          => \A x \in call[h].seen : row[x] = "ended"]_vars

\* A tunnel that has lost its connection is cleared up: its session is ended
\* and the credentials are gone, unless there is no recording yet or the proxy
\* is stuck on its own mutex.
ClosedIsSettled ==
    \A t \in Tunnel :
        (HasTunnel /\ t \in serving \ live) ~>
            \/ row[t[1]] = "ended" /\ t[1] \notin creds
            \/ Retryable(t[1]) \/ mu = "stuck"

\* A tunnel in the map has a poller, or the poller is about to take it out:
\* an old poller that outlives its tunnel, and a tunnel that is closed twice,
\* do not leave the new one unwatched.
TunnelsAreWatched ==
    \A t \in Tunnel : Registered(t) =>
        t \in polling \/ \E c \in closers : c.t = t /\ c.at = "map"

=============================================================================
