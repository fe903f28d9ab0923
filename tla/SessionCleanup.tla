--------------------------- MODULE SessionCleanup ---------------------------
(***************************************************************************)
(* Sessions launched from the browser, and the worker of audit-service     *)
(* that ends the abandoned ones (cmd/audit-service: cleanupPendingSessions *)
(* on a timer; internal/weblaunch, internal/rdp, internal/sshlaunch).      *)
(*                                                                         *)
(* Everything in audit-service goes through one pool of database           *)
(* connections, the vault included.  The worker reads the open web         *)
(* sessions from a cursor, and its cursor keeps a connection.              *)
(***************************************************************************)
EXTENDS Orphans, Integers, FiniteSets

CONSTANTS
    Rdp,                \* browser RDP sessions
    Handlers,           \* API calls of audit-service
    PoolSizes           \* SetMaxOpenConns: 1 in the code

Sessions == Web \cup Rdp

ASSUME CleanupAssumption ==
    /\ Web \cap Rdp = {} /\ Sessions # {}
    /\ PoolSizes \subseteq Nat \ {0}

VARIABLES
    old,        \* sessions past their timeout (120 s pending, 30 min web)
    recording,  \* RDP sessions whose viewer has connected
    secret,     \* web sessions whose credentials are in the vault
    pc,         \* the worker
    todo,       \* sessions it still has to look at
    found,      \* the session it is about to end, and why
    cursor,     \* the web query's rows are open
    expired,    \* the worker's 30-second context is over
    api,        \* API calls waiting for, or using, a connection
    pool        \* how many connections there are; never changes

sessions == <<status, old, recording, secret, lost>>
worker == <<pc, todo, found, cursor, expired>>
moving == <<sessions, worker, api>>
vars == <<moving, pool>>

Reason == {"ended", "failed", "orphaned", "idle"}
Nothing == [id |-> CHOOSE s \in Sessions : TRUE, reason |-> "ended"]

TypeOK ==
    /\ status \in [Sessions -> {"absent", "active"} \cup Reason]
    /\ old \subseteq Sessions /\ recording \subseteq Rdp
    /\ secret \subseteq Web /\ lost \subseteq Web
    /\ pc \in {"sleep", "scan", "fail", "query", "web", "end"}
    /\ todo \subseteq Sessions
    /\ found \in [id: Sessions, reason: Reason]
    /\ cursor \in BOOLEAN /\ expired \in BOOLEAN
    /\ api \in [Handlers -> {"idle", "waiting", "using"}]
    /\ pool \in PoolSizes

Init ==
    /\ status = [s \in Sessions |-> "absent"]
    /\ old = {} /\ recording = {} /\ secret = {} /\ lost = {}
    /\ pc = "sleep" /\ todo = {} /\ found = Nothing
    /\ cursor = FALSE /\ expired = FALSE
    /\ api = [h \in Handlers |-> "idle"]
    /\ pool \in PoolSizes

-----------------------------------------------------------------------------
(* The pool. *)

Busy == Cardinality({h \in Handlers : api[h] = "using"}) + IF cursor THEN 1 ELSE 0
Free == Busy < pool

\* A statement of the worker: it needs a connection, and fails once the context
\* is over.
Statement == Free /\ ~expired

-----------------------------------------------------------------------------
(* Launches and users, in other processes with pools of their own. *)

\* weblaunch.Launch stores the credentials before it inserts the row.
Stored_Later(s) == TRUE
Stored(s) == s \in secret

StoreCredentials(s) ==
    /\ status[s] = "absent"
    /\ s \notin secret
    /\ secret' = secret \cup {s}
    /\ UNCHANGED <<status, old, recording, lost, worker, api>>

InsertWeb(s) ==
    /\ status[s] = "absent"
    /\ Stored(s)
    /\ status' = [status EXCEPT ![s] = "active"]
    /\ UNCHANGED <<old, recording, secret, lost, worker, api>>

\* The INSERT fails: Launch takes the credentials back.
InsertWebFails(s) ==
    /\ status[s] = "absent"
    /\ Stored(s)
    /\ secret' = secret \ {s}
    /\ UNCHANGED <<status, old, recording, lost, worker, api>>

InsertRdp(s) ==
    /\ status[s] = "absent"
    /\ status' = [status EXCEPT ![s] = "active"]
    /\ UNCHANGED <<old, recording, secret, lost, worker, api>>

\* guacd connects and starts recording.
Connect(s) ==
    /\ status[s] # "absent"
    /\ s \notin recording
    /\ recording' = recording \cup {s}
    /\ UNCHANGED <<status, old, secret, lost, worker, api>>

TimeOut(s) ==
    /\ status[s] = "active"
    /\ s \notin old
    /\ old' = old \cup {s}
    /\ UNCHANGED <<status, recording, secret, lost, worker, api>>

\* sessions.End: the user ends the session, an administrator terminates it, or
\* a new launch supersedes it.
Ended(s, reason) ==
    /\ status' = IF status[s] = "active" THEN [status EXCEPT ![s] = reason] ELSE status
    /\ secret' = IF status[s] = "active" THEN secret \ {s} ELSE secret

EndSession(s) ==
    /\ status[s] = "active"
    /\ Ended(s, "ended")
    /\ UNCHANGED <<old, recording, lost, worker, api>>

\* DELETE /secrets/{name}
LoseSecret(s) ==
    /\ status[s] = "active" /\ s \in secret
    /\ secret' = secret \ {s}
    /\ lost' = lost \cup {s}
    /\ UNCHANGED <<status, old, recording, worker, api>>

-----------------------------------------------------------------------------
(* The worker. *)

WakeUp ==
    /\ pc = "sleep"
    /\ pc' = "scan"
    /\ expired' = FALSE
    /\ UNCHANGED <<sessions, todo, found, cursor, api>>

\* RDP sessions past the timeout, with nothing in the recording directory.  The
\* query leaves out ids that begin with ssh-, and so every browser SSH launch.
Pending(s) == status[s] = "active" /\ s \in old /\ s \notin recording

ScanPending_KeepsRows ==
    /\ pc = "scan"
    /\ Statement
    /\ cursor' = TRUE
    /\ todo' = {s \in Rdp : Pending(s)}
    /\ pc' = "fail"
    /\ UNCHANGED <<sessions, found, expired, api>>

\* These rows are read to the end, which closes them, before any is ended.
ScanPending ==
    /\ pc = "scan"
    /\ Statement
    /\ todo' = {s \in Rdp : Pending(s)}
    /\ pc' = "fail"
    /\ UNCHANGED <<sessions, found, cursor, expired, api>>

FailPending(s) ==
    /\ pc = "fail"
    /\ s \in todo
    /\ Statement
    /\ Ended(s, "failed")
    /\ todo' = todo \ {s}
    /\ UNCHANGED <<old, recording, lost, pc, found, cursor, expired, api>>

PendingDone ==
    /\ pc = "fail" /\ todo = {}
    /\ pc' = "query"
    /\ UNCHANGED <<sessions, todo, found, cursor, expired, api>>

\* The rows of the web query stay open while they are worked through.
QueryWeb ==
    /\ pc = "query"
    /\ Statement
    /\ cursor' = TRUE
    /\ todo' = {s \in Web : status[s] = "active"}
    /\ pc' = "web"
    /\ UNCHANGED <<sessions, found, expired, api>>

\* Credentials gone, or the session past its timeout; "" to leave it alone.
Verdict_OrphansOnly(s) == IF s \notin secret THEN "orphaned" ELSE ""
Verdict(s) ==
    IF s \notin secret THEN "orphaned" ELSE IF s \in old THEN "idle" ELSE ""

\* GetSecret: a second connection beside the cursor's.
LookUp(s) ==
    /\ pc = "web"
    /\ s \in todo
    /\ Statement
    /\ todo' = todo \ {s}
    /\ IF Verdict(s) = ""
       THEN UNCHANGED <<found, pc>>
       ELSE found' = [id |-> s, reason |-> Verdict(s)] /\ pc' = "end"
    /\ UNCHANGED <<sessions, cursor, expired, api>>

EndWeb ==
    /\ pc = "end"
    /\ Statement
    /\ Ended(found.id, found.reason)
    /\ pc' = "web"
    /\ UNCHANGED <<old, recording, lost, todo, found, cursor, expired, api>>

\* The worker waits for a connection that only it could give back, until its
\* context is over.  (Statements are quick: 30 seconds pass in no other way.)
Waits_Forever == FALSE
Waits == pc \in {"web", "end"} /\ ~Free /\ \A h \in Handlers : api[h] # "using"

Expire ==
    /\ pc = "web" => todo # {}
    /\ ~expired
    /\ Waits
    /\ expired' = TRUE
    /\ UNCHANGED <<sessions, pc, todo, found, cursor, api>>

\* The rows are used up, or closed because the context is over: GetSecret has
\* failed, and so does the End that follows.
CloseCursor ==
    /\ \/ pc = "web" /\ todo = {}
       \/ pc \in {"web", "end"} /\ expired
    /\ cursor' = FALSE
    /\ todo' = {}
    /\ pc' = "sleep"
    /\ UNCHANGED <<sessions, found, expired, api>>

-----------------------------------------------------------------------------
(* API calls. *)

Call(h) ==
    /\ api[h] = "idle"
    /\ api' = [api EXCEPT ![h] = "waiting"]
    /\ UNCHANGED <<sessions, worker>>

Acquire(h) ==
    /\ api[h] = "waiting"
    /\ Free
    /\ api' = [api EXCEPT ![h] = "using"]
    /\ UNCHANGED <<sessions, worker>>

Release(h) ==
    /\ api[h] = "using"
    /\ api' = [api EXCEPT ![h] = "idle"]
    /\ UNCHANGED <<sessions, worker>>

-----------------------------------------------------------------------------

Environment ==
    \/ \E s \in Web : StoreCredentials(s) \/ InsertWeb(s) \/ InsertWebFails(s)
                          \/ LoseSecret(s)
    \/ \E s \in Rdp : InsertRdp(s) \/ Connect(s)
    \/ \E s \in Sessions : TimeOut(s) \/ EndSession(s)
    \/ \E h \in Handlers : Call(h)

WorkerStep ==
    \/ WakeUp
    \/ ScanPending
    \/ \E s \in Rdp : FailPending(s)
    \/ PendingDone
    \/ QueryWeb
    \/ \E s \in Web : LookUp(s)
    \/ EndWeb
    \/ Expire
    \/ CloseCursor

Next ==
    /\ UNCHANGED pool
    /\ \/ Environment
       \/ WorkerStep
       \/ \E h \in Handlers : Acquire(h) \/ Release(h)

Spec == Init /\ [][Next]_vars

\* The worker loops for ever and its statements end; database/sql hands a
\* connection to whoever has waited longest, so nobody is passed over for ever.
FairSpec ==
    /\ Spec
    /\ SF_moving(WorkerStep)
    /\ \A h \in Handlers : SF_moving(Acquire(h)) /\ WF_moving(Release(h))

-----------------------------------------------------------------------------
(* Properties. *)

\* Waiting for itself, the worker holds the only connection; its deadline must
\* be enough for every API call to get through in the end.
CallsAreServed == \A h \in Handlers : api[h] = "waiting" ~> api[h] = "idle"

\* An RDP launch whose viewer never connects does not stay active for ever,
\* whatever becomes of the rest of the worker's round.
AbandonedRdpEnds == \A s \in Rdp : Pending(s) ~> ~Pending(s)

\* What keeps it so: a row comes after its credentials and does not come back,
\* the worker looks at rows that are there, and what it takes for orphaned has
\* been ended since or has lost its credentials.
OrphansInv ==
    /\ OrphansAreReal
    /\ \A s \in Web : status[s] = "active" => s \in secret \cup lost
    /\ pc \in {"web", "end"} => \A s \in todo : status[s] # "absent"
    /\ pc = "end" =>
          /\ status[found.id] # "absent"
          /\ found.reason = "orphaned" /\ status[found.id] = "active" => found.id \in lost

\* "web tabs closed without End still need cleanup" (the comment on
\* webSessionIdleTimeoutSeconds): a web session past the timeout gets ended by
\* a worker with a connection to spare beside its cursor's; neither API calls
\* nor the sessions' own endings keep it from its work.  (With the one
\* connection of the code it never comes to it.)
IdleWebEndsGivenRoom ==
    \A s \in Web :
        (pool > 1 /\ status[s] = "active" /\ s \in old)
            ~> status[s] # "active"
=============================================================================
