------------------------------ MODULE Accounts ------------------------------
(***************************************************************************)
(* Privileged accounts, their safes and their vault secrets                *)
(* (internal/accounts, internal/safes, internal/vault), and the CPM worker *)
(* of vault-service that rotates passwords when they are due.              *)
(*                                                                         *)
(* auth-service serves the account endpoints, vault-service runs the       *)
(* worker: two processes over one database.  Every operation is a few      *)
(* statements with no transaction around them; one statement is one step.  *)
(* A secret is known by its name only; what a password is does not matter. *)
(***************************************************************************)
EXTENDS Integers, FiniteSets

CONSTANTS
    Safes,              \* safe ids
    Names, Refs, RefOf, \* account names and the vault name each maps to
    Users,
    Handlers,           \* goroutines of auth-service
    Worker,             \* the CPM worker
    RotationDays,       \* safes.rotation_days
    MaxAccounts, MaxTime, MaxFaults    \* bounds

Accounts == 1..MaxAccounts
Null == -1              \* SQL NULL
Threads == Handlers \cup {Worker}

ASSUME AccountsAssumption ==
    /\ RefOf \in [Names -> Refs]
    /\ Worker \notin Handlers
    /\ Safes # {} /\ Names # {} /\ Users # {}
    /\ RotationDays \in Nat \ {0}
    /\ MaxAccounts \in Nat /\ MaxTime \in Nat /\ MaxFaults \in Nat

VARIABLES
    safe,        \* safes: unused, cpm_enabled on or off, or deleted
    account,     \* privileged_accounts, by id
    nextId,      \* its AUTOINCREMENT
    stored,      \* names of the vault's secrets
    history,     \* rotation_history: account and status
    checkouts,   \* credential_checkouts
    revealed,    \* passwords handed out, by account and user (history)
    users,       \* users that have not been deleted
    thread,      \* local variables
    queue,       \* accounts the worker's last scan found due
    now, faults

releases == <<checkouts, revealed, users>>
tables == <<safe, account, nextId, stored, history, releases>>
world == <<queue, now, faults>>
vars == <<tables, thread, world>>

SafeState == {"unused", "on", "off", "deleted"}

Account ==
    [live: BOOLEAN, safe: Safes, name: Names, next: {Null} \cup Nat,
     last: Nat, status: {"ok", "failed"}]

Checkout == [account: Accounts, user: Users, returned: BOOLEAN]

Step == {"idle", "putNew", "insert", "put", "schedule", "stamp",
         "log", "deleteRow", "deleteSecret", "read", "record", "deleteSafe"}

Status == {"created", "ok", "failed"}

\* acct, safe, name: what the call is about; when: the time it will stamp;
\* status: what it will write to the rotation history.
Locals ==
    [pc: Step, acct: Accounts \cup {0}, safe: Safes, name: Names, user: Users,
     when: {Null} \cup Nat, status: Status]

AnySafe == CHOOSE s \in Safes : TRUE
AnyName == CHOOSE n \in Names : TRUE
AnyUser == CHOOSE u \in Users : TRUE

Idle == [pc |-> "idle", acct |-> 0, safe |-> AnySafe, name |-> AnyName,
         user |-> AnyUser, when |-> Null, status |-> "ok"]

NoAccount == [live |-> FALSE, safe |-> AnySafe, name |-> AnyName,
              next |-> Null, last |-> 0, status |-> "ok"]

Init ==
    /\ safe = [s \in Safes |-> "unused"]
    /\ account = [a \in Accounts |-> NoAccount]
    /\ nextId = 1
    /\ stored = {}
    /\ history = {}
    /\ checkouts = {}
    /\ revealed = {}
    /\ users = Users
    /\ thread = [h \in Threads |-> Idle]
    /\ queue = {}
    /\ now = 0
    /\ faults = 0

-----------------------------------------------------------------------------
(* Helpers. *)

Exists(s) == safe[s] \in {"on", "off"}
Live == {a \in Accounts : account[a].live}
SecretRef(a) == RefOf[account[a].name]
LocalRef(h) == RefOf[thread[h].name]

At(h, pc) == thread[h].pc = pc
Continue(h, local) == thread' = [thread EXCEPT ![h] = local]
Goto(h, pc) == Continue(h, [thread[h] EXCEPT !.pc = pc])
Return(h) == Continue(h, Idle)

\* Get: the call keeps the account's id, safe and secret_ref.
Fetch(h, a, u, pc) ==
    /\ At(h, "idle")
    /\ a \in Live
    /\ Continue(h, [Idle EXCEPT !.pc = pc, !.acct = a, !.user = u,
                                !.safe = account[a].safe,
                                !.name = account[a].name])

PutSecret(ref) == stored' = stored \cup {ref}

-----------------------------------------------------------------------------
(* Safes. *)

CreateSafe(s, cpm) ==
    /\ safe[s] = "unused"
    /\ safe' = [safe EXCEPT ![s] = cpm]
    /\ UNCHANGED <<account, nextId, stored, history, releases, thread, world>>

UpdateSafe(s, cpm) ==
    /\ Exists(s)
    /\ safe' = [safe EXCEPT ![s] = cpm]
    /\ UNCHANGED <<account, nextId, stored, history, releases, thread, world>>

\* Delete counts the safe's accounts first ...
DeleteSafe(h, s) ==
    /\ At(h, "idle")
    /\ Exists(s)
    /\ \A a \in Live : account[a].safe # s
    /\ Continue(h, [Idle EXCEPT !.pc = "deleteSafe", !.safe = s])
    /\ UNCHANGED <<tables, world>>

\* ... and deletes the row; the foreign key of privileged_accounts stops it
\* when an account has been added meanwhile.
Removable_Unchecked(s) == TRUE
Removable(s) == \A a \in Live : account[a].safe # s

DeleteSafeRow(h) ==
    /\ At(h, "deleteSafe")
    /\ LET s == thread[h].safe
       IN  safe' = IF Removable(s) THEN [safe EXCEPT ![s] = "deleted"] ELSE safe
    /\ Return(h)
    /\ UNCHANGED <<account, nextId, stored, history, releases, world>>

-----------------------------------------------------------------------------
(* Creating an account: the safe's policy, the secret, then the row. *)

Creating == {h \in Handlers : thread[h].pc \in {"putNew", "insert"}}

\* when: the rotation to schedule is known to be wanted or not by now.
CreateLookup(h, s, n) ==
    /\ At(h, "idle")
    /\ nextId + Cardinality(Creating) <= MaxAccounts
    /\ Exists(s)
    /\ Continue(h, [Idle EXCEPT !.pc = "putNew", !.safe = s, !.name = n,
                                !.when = IF safe[s] = "on" THEN RotationDays
                                         ELSE Null])
    /\ UNCHANGED <<tables, world>>

CreatePut(h) ==
    /\ At(h, "putNew")
    /\ PutSecret(LocalRef(h))
    /\ Goto(h, "insert")
    /\ UNCHANGED <<safe, account, nextId, history, releases, world>>

\* The foreign key on safe_id and UNIQUE(safe_id, name).
Insertable(s, n) ==
    /\ Exists(s)
    /\ \A a \in Live : account[a].safe = s => account[a].name # n

CreateInsert(h) ==
    /\ At(h, "insert")
    /\ LET x == thread[h]
       IN  IF Insertable(x.safe, x.name)
           THEN /\ account' = [account EXCEPT ![nextId] =
                      [live |-> TRUE, safe |-> x.safe, name |-> x.name,
                       next |-> IF x.when = Null THEN Null ELSE now + x.when,
                       last |-> now, status |-> "ok"]]
                /\ nextId' = nextId + 1
                /\ Continue(h, [x EXCEPT !.pc = "log", !.acct = nextId,
                                         !.status = "created"])
           ELSE /\ Return(h)
                /\ UNCHANGED <<account, nextId>>
    /\ UNCHANGED <<safe, stored, history, releases, world>>

\* recordRotation, at the end of Create, Rotate and markRotationFailed; its
\* error, the foreign key's when the account is gone, is dropped.
Loggable(a) == a \in Live

RecordRotation(h) ==
    /\ At(h, "log")
    /\ LET a == thread[h].acct
       IN  history' = IF Loggable(a) THEN history \cup {<<a, thread[h].status>>}
                      ELSE history
    /\ Return(h)
    /\ UNCHANGED <<safe, account, nextId, stored, releases, world>>

-----------------------------------------------------------------------------
(* Deleting an account: its row, then its secret. *)

DeleteGet(h, a) ==
    /\ Fetch(h, a, AnyUser, "deleteRow")
    /\ UNCHANGED <<tables, world>>

\* credential_checkouts refers to the account and keeps it; the rotation
\* history goes with the row.
DeleteRow(h) ==
    /\ At(h, "deleteRow")
    /\ LET a == thread[h].acct
       IN  IF \E c \in checkouts : c.account = a
           THEN /\ Return(h)
                /\ UNCHANGED <<account, history>>
           ELSE /\ account' = [account EXCEPT ![a].live = FALSE]
                /\ history' = {r \in history : r[1] # a}
                /\ Goto(h, "deleteSecret")
    /\ UNCHANGED <<safe, nextId, stored, releases, world>>

DeleteSecret(h) ==
    /\ At(h, "deleteSecret")
    /\ stored' = stored \ {LocalRef(h)}
    /\ Return(h)
    /\ UNCHANGED <<safe, account, nextId, history, releases, world>>

-----------------------------------------------------------------------------
(* Rotating a password. *)

RotateGet(h, a) ==
    /\ Fetch(h, a, AnyUser, "put")
    /\ UNCHANGED <<tables, world>>

RotatePut(h) ==
    /\ At(h, "put")
    /\ PutSecret(LocalRef(h))
    /\ Goto(h, "schedule")
    /\ UNCHANGED <<safe, account, nextId, history, releases, world>>

\* PutSecret fails: markRotationFailed leaves the schedule as it is.
MarkedFailed(row) == [row EXCEPT !.status = "failed"]

RotatePutFails(h) ==
    /\ At(h, "put")
    /\ faults < MaxFaults
    /\ faults' = faults + 1
    /\ LET a == thread[h].acct
       IN  account' = IF a \in Live
                      THEN [account EXCEPT ![a] = MarkedFailed(@)] ELSE account
    /\ Continue(h, [thread[h] EXCEPT !.pc = "log", !.status = "failed"])
    /\ UNCHANGED <<safe, nextId, stored, history, releases, queue, now>>

\* The time is taken before the safe's rotation_days is read.
RotateSchedule(h) ==
    /\ At(h, "schedule")
    /\ Continue(h, [thread[h] EXCEPT !.pc = "stamp", !.when = now])
    /\ UNCHANGED <<tables, world>>

Stamped_InThePast(row, t) ==
    [row EXCEPT !.last = t, !.status = "ok", !.next = t - RotationDays - 1]
Stamped(row, t) ==
    [row EXCEPT !.last = t, !.status = "ok", !.next = t + RotationDays]

RotateStamp(h) ==
    /\ At(h, "stamp")
    /\ LET a == thread[h].acct
       IN  account' = IF a \in Live
                      THEN [account EXCEPT ![a] = Stamped(@, thread[h].when)]
                      ELSE account
    /\ Goto(h, "log")
    /\ UNCHANGED <<safe, nextId, stored, history, releases, world>>

-----------------------------------------------------------------------------
(* The CPM worker: scan for due accounts, rotate them one by one. *)

Due(a) ==
    /\ a \in Live
    /\ safe[account[a].safe] = "on"
    /\ account[a].next # Null /\ account[a].next <= now

Scan ==
    /\ At(Worker, "idle") /\ queue = {}
    /\ queue' = {a \in Accounts : Due(a)}
    /\ queue' # {}
    /\ UNCHANGED <<tables, thread, now, faults>>

\* Rotate's own Get may find the account gone: the worker goes on to the next.
TakeNext(a) ==
    /\ At(Worker, "idle")
    /\ a \in queue
    /\ queue' = queue \ {a}
    /\ IF a \in Live THEN Fetch(Worker, a, AnyUser, "put") ELSE UNCHANGED thread
    /\ UNCHANGED <<tables, now, faults>>

-----------------------------------------------------------------------------
(* Checking out a password. *)

CheckoutGet(h, a, u) ==
    /\ u \in users
    /\ Fetch(h, a, u, "read")
    /\ UNCHANGED <<tables, world>>

CheckoutRead(h) ==
    /\ At(h, "read")
    /\ IF LocalRef(h) \in stored THEN Goto(h, "record") ELSE Return(h)
    /\ UNCHANGED <<tables, world>>

\* The row's foreign keys: the call fails, and reveals nothing, when the
\* account or the user is gone.
Recordable(a, u) == a \in Live /\ u \in users

CheckoutRecord(h) ==
    /\ At(h, "record")
    /\ LET a == thread[h].acct
           u == thread[h].user
       IN  IF Recordable(a, u)
           THEN /\ checkouts' = checkouts \cup
                       {[account |-> a, user |-> u, returned |-> FALSE]}
                /\ revealed' = revealed \cup {<<a, u>>}
           ELSE UNCHANGED <<checkouts, revealed>>
    /\ Return(h)
    /\ UNCHANGED <<safe, account, nextId, stored, history, users, world>>

\* Return: the row stays, with returned_at set.
Returned_Dropped(c) == {}
Returned(c) == {[c EXCEPT !.returned = TRUE]}

ReturnCheckout(c) ==
    /\ ~c.returned
    /\ checkouts' = (checkouts \ {c}) \cup Returned(c)
    /\ UNCHANGED <<safe, account, nextId, stored, history, revealed, users, thread, world>>

\* auth.DeleteUser removes the user's checkouts.
DeleteUser(u) ==
    /\ u \in users
    /\ users' = users \ {u}
    /\ checkouts' = {c \in checkouts : c.user # u}
    /\ UNCHANGED <<safe, account, nextId, stored, history, revealed, thread, world>>

-----------------------------------------------------------------------------

\* A call is cut off: its context is cancelled (the worker's after 30 seconds)
\* or a statement fails.
Abort(h) ==
    /\ ~At(h, "idle")
    /\ faults < MaxFaults
    /\ faults' = faults + 1
    /\ Return(h)
    /\ UNCHANGED <<tables, queue, now>>

\* vault-service restarts: what the worker had found due is forgotten.
RestartWorker ==
    /\ faults < MaxFaults
    /\ faults' = faults + 1
    /\ Return(Worker)
    /\ queue' = {}
    /\ UNCHANGED <<tables, now>>

Tick ==
    /\ now < MaxTime
    /\ now' = now + 1
    /\ UNCHANGED <<tables, thread, queue, faults>>

ThreadStep(h) ==
    \/ CreatePut(h) \/ CreateInsert(h) \/ RecordRotation(h)
    \/ DeleteRow(h) \/ DeleteSecret(h)
    \/ RotatePut(h) \/ RotateSchedule(h) \/ RotateStamp(h)
    \/ CheckoutRead(h) \/ CheckoutRecord(h)
    \/ DeleteSafeRow(h)

Call ==
    \/ \E s \in Safes, cpm \in {"on", "off"} : CreateSafe(s, cpm) \/ UpdateSafe(s, cpm)
    \/ \E h \in Handlers, s \in Safes : DeleteSafe(h, s)
    \/ \E h \in Handlers, s \in Safes, n \in Names : CreateLookup(h, s, n)
    \/ \E h \in Handlers, a \in Accounts : DeleteGet(h, a) \/ RotateGet(h, a)
    \/ \E h \in Handlers, a \in Accounts, u \in Users : CheckoutGet(h, a, u)
    \/ \E c \in checkouts : ReturnCheckout(c)
    \/ \E u \in Users : DeleteUser(u)

WorkerStep == Scan \/ (\E a \in Accounts : TakeNext(a)) \/ ThreadStep(Worker)

Next ==
    \/ Call
    \/ \E h \in Threads : ThreadStep(h) \/ RotatePutFails(h) \/ Abort(h)
    \/ Scan
    \/ \E a \in Accounts : TakeNext(a)
    \/ RestartWorker
    \/ Tick

Spec == Init /\ [][Next]_vars

\* The worker's ticker keeps firing, and its goroutine is scheduled.
FairSpec == Spec /\ WF_vars(WorkerStep)

-----------------------------------------------------------------------------
(* Properties. *)

TypeOK ==
    /\ safe \in [Safes -> SafeState]
    /\ account \in [Accounts -> Account]
    /\ nextId \in 1..(MaxAccounts + 1)
    /\ stored \subseteq Refs
    /\ history \subseteq Accounts \X Status
    /\ checkouts \subseteq Checkout
    /\ revealed \subseteq Accounts \X Users
    /\ users \subseteq Users
    /\ thread \in [Threads -> Locals]
    /\ queue \subseteq Accounts
    /\ now \in Nat /\ faults \in Nat

\* Counting a safe's accounts, looking up a safe and reading an account all
\* happen statements before the write that relies on them.  Whatever falls in
\* between, no account is left in a deleted safe, no two accounts of a safe
\* share a name, and no checkout and no history entry refers to a deleted account.
ReferencesHold ==
    /\ \A a \in Live : Exists(account[a].safe)
    /\ \A a, b \in Live : account[a].safe = account[b].safe
                          /\ account[a].name = account[b].name => a = b
    /\ \A c \in checkouts : c.account \in Live
    /\ \A r \in history : r[1] \in Live

\* No password leaves without a trace: whoever was shown a password has a
\* checkout on record, and the account it belongs to cannot be deleted while
\* the record stands.
RevealsAreRecorded ==
    \A x \in revealed :
        x[2] \in users => /\ x[1] \in Live
                          /\ \E c \in checkouts : c.account = x[1] /\ c.user = x[2]

\* The worker keeps its promise in spite of failed writes, calls cut off
\* half-way, manual rotations and deletions: an account that is due is
\* eventually no longer due.
DueIsRotated == \A a \in Accounts : Due(a) ~> ~Due(a)

=============================================================================
