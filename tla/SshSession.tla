----------------------------- MODULE SshSession -----------------------------
(***************************************************************************)
(* One native SSH session: the proxy's goroutines for the connection       *)
(* (internal/sshproxy: handle, watchTermination, the pipes), its sessions  *)
(* row, and administrators asking audit-service to terminate it.           *)
(*                                                                         *)
(* The proxy and audit-service share nothing but the database.  Sessions   *)
(* do not touch each other's rows, so one is enough.                       *)
(***************************************************************************)
EXTENDS Integers

CONSTANTS
    Admins,                    \* calls of POST /sessions/{id}/terminate
    MaxChannels, MaxFaults     \* bounds

ASSUME SshSessionAssumption == MaxChannels \in Nat /\ MaxFaults \in Nat

VARIABLES
    row,       \* the sessions row: absent, active, or its ended_reason
    order,     \* the session_terminations row: absent, pending, acknowledged
    pc,        \* handle
    open,      \* the user's SSH connection
    opened,    \* session channels opened so far
    pipes,     \* activePipes: pipes that are running
    ending,    \* the last pipe is about to call endNativeSession
    endedOnce, \* endSessionOnce has fired
    watcher,   \* watchTermination
    admin,     \* termination requests in progress
    faults

proxy == <<pc, open, opened, pipes, ending, endedOnce>>
vars == <<row, order, proxy, watcher, admin, faults>>

Row == {"absent", "active", "closed", "terminated", "failed"}

TypeOK ==
    /\ row \in Row
    /\ order \in {"absent", "pending", "acknowledged"}
    /\ pc \in {"insert", "loop", "dialing", "draining", "done"}
    /\ open \in BOOLEAN
    /\ opened \in Nat /\ pipes \in Nat
    /\ ending \in BOOLEAN /\ endedOnce \in BOOLEAN
    /\ watcher \in {"off", "check", "mark", "acknowledge", "kill", "sleep", "done"}
    /\ admin \in [Admins -> {"idle", "order", "end"}]
    /\ faults \in Nat

Init ==
    /\ row = "absent" /\ order = "absent"
    /\ pc = "insert" /\ open = TRUE
    /\ opened = 0 /\ pipes = 0
    /\ ending = FALSE /\ endedOnce = FALSE
    /\ watcher = "off"
    /\ admin = [a \in Admins |-> "idle"]
    /\ faults = 0

-----------------------------------------------------------------------------
(* What the UPDATEs of sessions do to the row. *)

\* COALESCE(ended_reason, 'closed')
Closed_Overwrites(r) == IF r = "absent" THEN r ELSE "closed"
Closed(r) == IF r = "active" THEN "closed" ELSE r

\* ended_reason = ..., whatever it was
Marked(r, reason) == IF r = "absent" THEN r ELSE reason

\* Something that need not work does not.
Fault == faults < MaxFaults /\ faults' = faults + 1

\* UPDATE sessions, its error ignored.
Update(r) ==
    \/ row' = r /\ UNCHANGED faults
    \/ Fault /\ UNCHANGED row

-----------------------------------------------------------------------------
(* handle: the connection. *)

InsertRow ==
    /\ pc = "insert"
    /\ row' = "active"
    /\ pc' = "loop"
    /\ UNCHANGED <<order, open, opened, pipes, ending, endedOnce, watcher, admin,
                   faults>>

\* Five attempts failed: the session goes on without a row.
InsertFails ==
    /\ pc = "insert"
    /\ Fault
    /\ pc' = "loop"
    /\ UNCHANGED <<row, order, open, opened, pipes, ending, endedOnce, watcher,
                   admin>>

\* The first channel waits for the target to be dialled, the others pipe.
OpenChannel ==
    /\ pc = "loop" /\ open
    /\ opened < MaxChannels
    /\ opened' = opened + 1
    /\ IF watcher = "off"
       THEN pc' = "dialing" /\ UNCHANGED pipes
       ELSE pipes' = pipes + 1 /\ UNCHANGED pc
    /\ UNCHANGED <<row, order, open, ending, endedOnce, watcher, admin, faults>>

\* The target answers: the watcher starts, before the pipe does.
Watching_Never == "off"
Watching == "check"

DialSucceeds ==
    /\ pc = "dialing"
    /\ pc' = "loop"
    /\ pipes' = pipes + 1
    /\ watcher' = Watching
    /\ UNCHANGED <<row, order, open, opened, ending, endedOnce, admin, faults>>

\* failSession; then every further channel is answered with the error.
DialFails ==
    /\ pc = "dialing"
    /\ Update(Marked(row, "failed"))
    /\ pc' = "draining"
    /\ UNCHANGED <<order, open, opened, pipes, ending, endedOnce, watcher, admin>>

\* A pipe ends: the user logs out, the target closes, or the connection is gone.
ClosePipe ==
    /\ pipes > 0
    /\ pipes' = pipes - 1
    /\ ending' = (ending \/ pipes = 1)
    /\ UNCHANGED <<row, order, pc, open, opened, endedOnce, watcher, admin, faults>>

EndNativeSession ==
    /\ ending
    /\ ending' = FALSE
    /\ endedOnce' = TRUE
    /\ Update(IF endedOnce THEN row ELSE Closed(row))
    /\ UNCHANGED <<order, pc, open, opened, pipes, watcher, admin>>

Disconnect ==
    /\ open
    /\ open' = FALSE
    /\ UNCHANGED <<row, order, pc, opened, pipes, ending, endedOnce, watcher, admin,
                   faults>>

\* The channel loop ends with the connection; the row is closed once more and
\* the watcher's context cancelled.
Hangup ==
    /\ pc = "loop" /\ ~open
    /\ pc' = "done"
    /\ Update(Closed(row))
    /\ UNCHANGED <<order, open, opened, pipes, ending, endedOnce, watcher, admin>>

\* After a failed dial handle returns without touching the row again.
Drained ==
    /\ pc = "draining" /\ ~open
    /\ pc' = "done"
    /\ UNCHANGED <<row, order, open, opened, pipes, ending, endedOnce, watcher,
                   admin, faults>>

\* The proxy dies.
Crash ==
    /\ pc # "done"
    /\ Fault
    /\ pc' = "done" /\ open' = FALSE
    /\ pipes' = 0 /\ ending' = FALSE
    /\ watcher' = "done"
    /\ UNCHANGED <<row, order, opened, endedOnce, admin>>

-----------------------------------------------------------------------------
(* watchTermination, once the target has been dialled. *)

Check ==
    /\ watcher = "check"
    /\ \/ /\ watcher' = IF order = "pending" THEN "mark" ELSE "sleep"
          /\ UNCHANGED faults
       \/ Fault /\ watcher' = "sleep"
    /\ UNCHANGED <<row, order, proxy, admin>>

Mark ==
    /\ watcher = "mark"
    /\ Update(Marked(row, "terminated"))
    /\ watcher' = "acknowledge"
    /\ UNCHANGED <<order, proxy, admin>>

Acknowledge ==
    /\ watcher = "acknowledge"
    /\ \/ order' = "acknowledged" /\ UNCHANGED faults
       \/ Fault /\ UNCHANGED order
    /\ watcher' = "kill"
    /\ UNCHANGED <<row, proxy, admin>>

\* upClient.Close and sconn.Close.
Killed_UpstreamOnly == open
Killed == FALSE

Kill ==
    /\ watcher = "kill"
    /\ open' = Killed
    /\ watcher' = "done"
    /\ UNCHANGED <<row, order, pc, opened, pipes, ending, endedOnce, admin, faults>>

\* The ticker fires, or the context is cancelled.
Wake_NoTicker ==
    /\ watcher = "sleep" /\ pc = "done"
    /\ watcher' = "done"
    /\ UNCHANGED <<row, order, proxy, admin, faults>>

Wake ==
    /\ watcher = "sleep"
    /\ \/ watcher' = "check"
       \/ pc = "done" /\ watcher' = "done"
    /\ UNCHANGED <<row, order, proxy, admin, faults>>

-----------------------------------------------------------------------------
(* POST /sessions/{id}/terminate. *)

TerminateRead(a) ==
    /\ admin[a] = "idle"
    /\ row = "active"
    /\ admin' = [admin EXCEPT ![a] = "order"]
    /\ UNCHANGED <<row, order, proxy, watcher, faults>>

\* The upsert clears acknowledged_at; its error ends the call.
TerminateOrder(a) ==
    /\ admin[a] = "order"
    /\ \/ /\ order' = "pending"
          /\ admin' = [admin EXCEPT ![a] = "end"]
          /\ UNCHANGED faults
       \/ Fault /\ admin' = [admin EXCEPT ![a] = "idle"] /\ UNCHANGED order
    /\ UNCHANGED <<row, proxy, watcher>>

\* sessions.End: WHERE ended_at IS NULL.
TerminateEnd(a) ==
    /\ admin[a] = "end"
    /\ Update(IF row = "active" THEN "terminated" ELSE row)
    /\ admin' = [admin EXCEPT ![a] = "idle"]
    /\ UNCHANGED <<order, proxy, watcher>>

\* auth.DeleteUser of the administrator who gave the order deletes the order.
DeleteRequester ==
    /\ order # "absent"
    /\ order' = "absent"
    /\ UNCHANGED <<row, proxy, watcher, admin, faults>>

-----------------------------------------------------------------------------

WatcherStep == Check \/ Mark \/ Acknowledge \/ Kill \/ Wake

HandleStep ==
    \/ InsertRow \/ InsertFails
    \/ OpenChannel \/ DialSucceeds \/ DialFails
    \/ ClosePipe \/ EndNativeSession
    \/ Disconnect \/ Hangup \/ Drained

AdminStep(a) == TerminateRead(a) \/ TerminateOrder(a) \/ TerminateEnd(a)

Next ==
    \/ HandleStep
    \/ Crash
    \/ WatcherStep
    \/ \E a \in Admins : AdminStep(a)
    \/ DeleteRequester

Spec == Init /\ [][Next]_vars

\* The watcher's ticker fires and its goroutine is scheduled.  Users, targets
\* and administrators owe nothing.
FairSpec == Spec /\ WF_vars(WatcherStep)

-----------------------------------------------------------------------------
(* Properties. *)

\* No shell escapes the watcher: as long as a pipe runs on an open connection,
\* the goroutine that carries out termination orders is on duty, however
\* channels, logouts, dial results and earlier orders interleave.
EveryShellIsWatched ==
    pipes > 0 /\ open => watcher \notin {"off", "done"}

\* Why: the watcher starts with the first pipe and, short of killing the
\* connection, stops only when handle has returned.
OnDutyInv ==
    /\ open => watcher # "done"
    /\ pc = "done" => ~open
    /\ pc = "dialing" => watcher = "off"
    /\ watcher = "off" => pipes = 0

\* The row is written before anything can end it.
RowInv == pc = "insert" => row = "absent"

\* An acknowledged order is a carried out order: the connection is down, or the
\* watcher is about to take it down.
AcknowledgedMeansKilled ==
    order = "acknowledged" => watcher = "kill" \/ ~open

\* "the session is killed within ~1s of the admin clicking Terminate" (the
\* comment on watchTermination), time aside: an order against a running shell
\* ends the shell's connection, unless the order itself is deleted.
OrdersAreCarriedOut == (order = "pending" /\ pipes > 0) ~> (~open \/ order = "absent")

\* The proxy's own endings, which run concurrently with an administrator's,
\* never turn a recorded termination into an ordinary logout (a dial that fails
\* after the order is recorded as such).
KillStaysOnRecord == [][row = "terminated" => row' \in {"terminated", "failed"}]_vars

=============================================================================
