---------------------------- MODULE AccountsProofs ----------------------------
(***************************************************************************)
(* Proofs about Accounts: its types, that references between the tables    *)
(* hold, and that no password is revealed without a record.                *)
(***************************************************************************)
EXTENDS Accounts, FiniteSetTheorems, TLAPS

-----------------------------------------------------------------------------
(* Types.                                                                  *)

\* The tables and counters.
TablesTyped ==
    /\ safe \in [Safes -> SafeState]
    /\ account \in [Accounts -> Account]
    /\ stored \subseteq Refs
    /\ history \subseteq Accounts \X Status
    /\ checkouts \subseteq Checkout
    /\ revealed \subseteq Accounts \X Users
    /\ users \subseteq Users
    /\ queue \subseteq Accounts
    /\ now \in Nat /\ faults \in Nat

\* A rotation that is about to stamp knows the time, and the worker creates
\* no accounts.
CallsTyped ==
    /\ thread \in [Threads -> Locals]
    /\ \A h \in Threads : thread[h].pc = "stamp" => thread[h].when # Null
    /\ thread[Worker].pc \notin {"putNew", "insert"}

\* There is an id left for every account that is being created.
IdsSuffice ==
    /\ nextId \in Nat \ {0}
    /\ IsFiniteSet(Creating)
    /\ nextId + Cardinality(Creating) <= MaxAccounts + 1

TypeInv == TablesTyped /\ CallsTyped /\ IdsSuffice

LEMMA TypeInvImplies == TypeInv => TypeOK
<1> SUFFICES ASSUME TypeInv PROVE TypeOK
  OBVIOUS
<1>1. Cardinality(Creating) \in Nat
  BY FS_CardinalityType DEF TypeInv, IdsSuffice
<1>2. nextId \in 1..(MaxAccounts + 1)
  BY <1>1, AccountsAssumption DEF TypeInv, IdsSuffice
<1> QED
  BY <1>2 DEF TypeInv, TablesTyped, CallsTyped, TypeOK

LEMMA IdleTyped ==
    /\ Idle \in Locals /\ Idle.pc = "idle"
    /\ NoAccount \in Account /\ ~NoAccount.live
BY AccountsAssumption
   DEF Idle, Locals, Step, Status, AnySafe, AnyName, AnyUser, Null, NoAccount, Account

LEMMA InitTyped == Init => TypeInv
<1> SUFFICES ASSUME Init PROVE TypeInv
  OBVIOUS
<1>1. TablesTyped
  BY IdleTyped DEF Init, TablesTyped, SafeState
<1>2. CallsTyped
  BY IdleTyped DEF Init, CallsTyped, Threads
<1>3. Creating = {}
  BY IdleTyped DEF Init, Creating, Threads
<1>4. IdsSuffice
  BY <1>3, FS_EmptySet, AccountsAssumption DEF Init, IdsSuffice
<1> QED
  BY <1>1, <1>2, <1>4 DEF TypeInv

\* A thread goes on, without beginning to create an account.
LEMMA ThreadGoesOn ==
    ASSUME TypeInv, NEW h \in Threads, NEW x \in Locals, Continue(h, x), UNCHANGED nextId,
           x.pc = "stamp" => x.when # Null,
           x.pc \in {"putNew", "insert"} => h \in Creating
    PROVE  CallsTyped' /\ IdsSuffice'
<1>1. CallsTyped'
  BY DEF TypeInv, CallsTyped, Continue, Creating, Threads
<1>2. Creating' \subseteq Creating
  BY DEF TypeInv, CallsTyped, Continue, Creating, Threads
<1>3. /\ IsFiniteSet(Creating') /\ Cardinality(Creating') <= Cardinality(Creating)
      /\ Cardinality(Creating) \in Nat /\ Cardinality(Creating') \in Nat
  BY <1>2, FS_Subset, FS_CardinalityType DEF TypeInv, IdsSuffice
<1>4. IdsSuffice'
  BY <1>3, AccountsAssumption DEF TypeInv, IdsSuffice
<1> QED
  BY <1>1, <1>4

LEMMA ReturnTyped ==
    ASSUME TypeInv, NEW h \in Threads, Return(h), UNCHANGED nextId
    PROVE  CallsTyped' /\ IdsSuffice'
BY ThreadGoesOn, IdleTyped DEF Return

\* The call is at another place, with the rest of what it knows.
LEMMA GotoTyped ==
    ASSUME TypeInv, NEW h \in Threads, NEW pc \in Step, Goto(h, pc), UNCHANGED nextId,
           pc # "stamp", pc \in {"putNew", "insert"} => h \in Creating
    PROVE  CallsTyped' /\ IdsSuffice'
<1> DEFINE x == [thread[h] EXCEPT !.pc = pc]
<1>1. x \in Locals /\ x.pc = pc
  BY DEF TypeInv, CallsTyped, Locals
<1> HIDE DEF x
<1>2. Continue(h, x)
  BY DEF Goto, x
<1> QED
  BY <1>1, <1>2, ThreadGoesOn

LEMMA FetchTyped ==
    ASSUME TypeInv, NEW h \in Threads, NEW a \in Accounts, NEW u \in Users,
           NEW pc \in {"put", "deleteRow", "read"}, Fetch(h, a, u, pc), UNCHANGED nextId
    PROVE  CallsTyped' /\ IdsSuffice'
<1> DEFINE x == [Idle EXCEPT !.pc = pc, !.acct = a, !.user = u,
                             !.safe = account[a].safe, !.name = account[a].name]
<1>1. account[a].safe \in Safes /\ account[a].name \in Names
  BY DEF TypeInv, TablesTyped, Account
<1>2. x \in Locals /\ x.pc = pc
  BY <1>1, IdleTyped DEF Locals, Step
<1> HIDE DEF x
<1>3. Continue(h, x)
  BY DEF Fetch, x
<1> QED
  BY <1>2, <1>3, ThreadGoesOn

-----------------------------------------------------------------------------
(* Every step keeps the types, one lemma for each group of actions.        *)

LEMMA SafeStepTyped ==
    ASSUME TypeInv, NEW s \in Safes, NEW cpm \in {"on", "off"},
           CreateSafe(s, cpm) \/ UpdateSafe(s, cpm)
    PROVE  TypeInv'
<1>1. TablesTyped'
  BY DEF TypeInv, TablesTyped, CreateSafe, UpdateSafe, releases, world, SafeState
<1>2. CallsTyped' /\ IdsSuffice'
  BY DEF TypeInv, CallsTyped, IdsSuffice, CreateSafe, UpdateSafe, Creating
<1> QED
  BY <1>1, <1>2 DEF TypeInv

LEMMA DeleteSafeTyped ==
    ASSUME TypeInv, NEW h \in Handlers, NEW s \in Safes, DeleteSafe(h, s)
    PROVE  TypeInv'
<1> DEFINE x == [Idle EXCEPT !.pc = "deleteSafe", !.safe = s]
<1>1. x \in Locals /\ x.pc = "deleteSafe"
  BY IdleTyped DEF Locals, Step
<1>2. TablesTyped' /\ UNCHANGED nextId
  BY DEF TypeInv, TablesTyped, DeleteSafe, tables, releases, world
<1> HIDE DEF x
<1>3. Continue(h, x) /\ h \in Threads
  BY DEF DeleteSafe, x, Threads
<1>4. CallsTyped' /\ IdsSuffice'
  BY <1>1, <1>2, <1>3, ThreadGoesOn
<1> QED
  BY <1>2, <1>4 DEF TypeInv

\* One more account is being created, and an id is left for it.
LEMMA CreateLookupTyped ==
    ASSUME TypeInv, NEW h \in Handlers, NEW s \in Safes, NEW n \in Names,
           CreateLookup(h, s, n)
    PROVE  TypeInv'
<1> DEFINE x == [Idle EXCEPT !.pc = "putNew", !.safe = s, !.name = n,
                             !.when = IF safe[s] = "on" THEN RotationDays ELSE Null]
<1>1. x \in Locals /\ x.pc = "putNew"
  BY IdleTyped, AccountsAssumption DEF Locals, Step, Null
<1>2. TablesTyped' /\ UNCHANGED nextId
  BY DEF TypeInv, TablesTyped, CreateLookup, tables, releases, world
<1> HIDE DEF x
<1>3. thread' = [thread EXCEPT ![h] = x] /\ h \in Threads /\ h # Worker
  BY AccountsAssumption DEF CreateLookup, Continue, x, Threads
<1>4. CallsTyped'
  BY <1>1, <1>3 DEF TypeInv, CallsTyped, Threads
<1>5. Creating' = Creating \cup {h}
  BY <1>1, <1>3 DEF TypeInv, CallsTyped, Creating, Threads
<1>6. h \notin Creating
  BY DEF CreateLookup, At, Creating
<1>7. IsFiniteSet(Creating') /\ Cardinality(Creating') = Cardinality(Creating) + 1
  BY <1>5, <1>6, FS_AddElement DEF TypeInv, IdsSuffice
<1>8. nextId + Cardinality(Creating) <= MaxAccounts /\ Cardinality(Creating) \in Nat
  BY FS_CardinalityType DEF CreateLookup, TypeInv, IdsSuffice
<1>9. IdsSuffice'
  BY <1>2, <1>7, <1>8, AccountsAssumption DEF TypeInv, IdsSuffice
<1> QED
  BY <1>2, <1>4, <1>9 DEF TypeInv

LEMMA CreatePutTyped ==
    ASSUME TypeInv, NEW h \in Threads, CreatePut(h)
    PROVE  TypeInv'
<1>1. LocalRef(h) \in Refs
  BY AccountsAssumption DEF TypeInv, CallsTyped, Locals, LocalRef
<1>2. TablesTyped' /\ UNCHANGED nextId
  BY <1>1 DEF TypeInv, TablesTyped, CreatePut, PutSecret, releases, world
<1>3. h \in Creating
  BY DEF CreatePut, At, Creating, TypeInv, CallsTyped, Threads
<1>4. Goto(h, "insert") /\ "insert" \in Step
  BY DEF CreatePut, Step
<1>5. CallsTyped' /\ IdsSuffice'
  BY <1>2, <1>3, <1>4, GotoTyped
<1> QED
  BY <1>2, <1>5 DEF TypeInv

\* The id taken is one of those left, and one account less is being created.
LEMMA CreateInsertTyped ==
    ASSUME TypeInv, NEW h \in Threads, CreateInsert(h)
    PROVE  TypeInv'
<1> DEFINE x == thread[h]
           row == [live |-> TRUE, safe |-> x.safe, name |-> x.name,
                   next |-> IF x.when = Null THEN Null ELSE now + x.when,
                   last |-> now, status |-> "ok"]
           y == [x EXCEPT !.pc = "log", !.acct = nextId, !.status = "created"]
<1>1. CASE ~Insertable(x.safe, x.name)
  <2>1. Return(h) /\ UNCHANGED nextId /\ TablesTyped'
    BY <1>1 DEF TypeInv, TablesTyped, CreateInsert, releases, world
  <2> QED
    BY <2>1, ReturnTyped DEF TypeInv
<1>2. CASE Insertable(x.safe, x.name)
  <2>1. h \in Creating
    BY DEF CreateInsert, At, Creating, TypeInv, CallsTyped, Threads
  <2>2. /\ IsFiniteSet(Creating \ {h}) /\ Cardinality(Creating \ {h}) = Cardinality(Creating) - 1
        /\ Cardinality(Creating) \in Nat /\ Cardinality(Creating \ {h}) \in Nat
    BY <2>1, FS_RemoveElement, FS_CardinalityType DEF TypeInv, IdsSuffice
  <2>3. nextId \in Accounts
    BY <2>2, AccountsAssumption DEF TypeInv, IdsSuffice, Accounts
  <2>4. x \in Locals /\ x.safe \in Safes /\ x.name \in Names /\ x.when \in {Null} \cup Nat
    BY DEF TypeInv, CallsTyped, Locals
  <2>5. row \in Account
    BY <2>4 DEF Account, TypeInv, TablesTyped, Null
  <2>6. y \in Locals /\ y.pc = "log"
    BY <2>3, <2>4 DEF Locals, Step, Status
  <2>7. /\ account' = [account EXCEPT ![nextId] = row] /\ nextId' = nextId + 1
        /\ thread' = [thread EXCEPT ![h] = y]
    BY <1>2 DEF CreateInsert, Continue
  <2> HIDE DEF row, y
  <2>8. TablesTyped'
    BY <2>5, <2>7 DEF TypeInv, TablesTyped, CreateInsert, releases, world
  <2>9. CallsTyped'
    BY <2>6, <2>7 DEF TypeInv, CallsTyped, Threads
  <2>10. Creating' = Creating \ {h}
    BY <2>6, <2>7 DEF TypeInv, CallsTyped, Creating, Threads
  <2>11. IdsSuffice'
    BY <2>2, <2>7, <2>10, AccountsAssumption DEF TypeInv, IdsSuffice
  <2> QED
    BY <2>8, <2>9, <2>11 DEF TypeInv
<1> QED
  BY <1>1, <1>2

LEMMA ReturningTyped ==
    ASSUME TypeInv, NEW h \in Threads,
           \/ RecordRotation(h) \/ DeleteSecret(h) \/ CheckoutRecord(h)
           \/ DeleteSafeRow(h) \/ Abort(h)
    PROVE  TypeInv'
<1>1. thread[h] \in Locals
  BY DEF TypeInv, CallsTyped
<1>2. TablesTyped'
  <2>1. CASE RecordRotation(h)
    BY <1>1, <2>1 DEF TypeInv, TablesTyped, RecordRotation, Loggable, Live, Locals, releases, world
  <2>2. CASE DeleteSecret(h)
    BY <2>2 DEF TypeInv, TablesTyped, DeleteSecret, releases, world
  <2>3. CASE CheckoutRecord(h)
    <3> DEFINE a == thread[h].acct
               u == thread[h].user
               c == [account |-> a, user |-> u, returned |-> FALSE]
    <3>1. UNCHANGED <<safe, account, stored, history, users, queue, now, faults>>
      BY <2>3 DEF CheckoutRecord, world
    <3>2. CASE UNCHANGED <<checkouts, revealed>>
      BY <3>1, <3>2 DEF TypeInv, TablesTyped
    <3>3. CASE /\ Recordable(a, u)
               /\ checkouts' = checkouts \cup {c} /\ revealed' = revealed \cup {<<a, u>>}
      <4>1. a \in Accounts /\ u \in Users
        BY <3>3, <1>1 DEF Recordable, Live, Locals
      <4>2. c \in Checkout
        BY <4>1 DEF Checkout
      <4> HIDE DEF a, u, c
      <4>3. checkouts' \subseteq Checkout /\ revealed' \subseteq Accounts \X Users
        BY <3>3, <4>1, <4>2 DEF TypeInv, TablesTyped
      <4> QED
        BY <3>1, <4>3 DEF TypeInv, TablesTyped
    <3> QED
      BY <2>3, <3>2, <3>3 DEF CheckoutRecord
  <2>4. CASE DeleteSafeRow(h)
    BY <1>1, <2>4 DEF TypeInv, TablesTyped, DeleteSafeRow, SafeState, Locals, releases, world
  <2>5. CASE Abort(h)
    BY <2>5 DEF TypeInv, TablesTyped, Abort, tables, releases
  <2> QED
    BY <2>1, <2>2, <2>3, <2>4, <2>5
<1>3. Return(h) /\ UNCHANGED nextId
  BY DEF RecordRotation, DeleteSecret, CheckoutRecord, DeleteSafeRow, Abort, tables
<1> QED
  BY <1>2, <1>3, ReturnTyped DEF TypeInv

LEMMA DeleteRowTyped ==
    ASSUME TypeInv, NEW h \in Threads, DeleteRow(h)
    PROVE  TypeInv'
<1>1. TablesTyped' /\ UNCHANGED nextId
  <2>1. \A r \in Account : [r EXCEPT !.live = FALSE] \in Account
    BY DEF Account
  <2>2. \/ UNCHANGED account
        \/ account' = [account EXCEPT ![thread[h].acct].live = FALSE]
    BY DEF DeleteRow
  <2>3. account' \in [Accounts -> Account]
    BY <2>1, <2>2 DEF TypeInv, TablesTyped
  <2> QED
    BY <2>3 DEF TypeInv, TablesTyped, DeleteRow, releases, world
<1>2. Return(h) \/ Goto(h, "deleteSecret")
  BY DEF DeleteRow
<1>3. "deleteSecret" \in Step
  BY DEF Step
<1> QED
  BY <1>1, <1>2, <1>3, ReturnTyped, GotoTyped DEF TypeInv

LEMMA GetTyped ==
    ASSUME TypeInv, NEW h \in Handlers, NEW a \in Accounts, NEW u \in Users,
           DeleteGet(h, a) \/ RotateGet(h, a) \/ CheckoutGet(h, a, u)
    PROVE  TypeInv'
<1>1. h \in Threads /\ AnyUser \in Users
  BY AccountsAssumption DEF Threads, AnyUser
<1>2. TablesTyped' /\ UNCHANGED nextId
  BY DEF TypeInv, TablesTyped, DeleteGet, RotateGet, CheckoutGet, tables, releases, world
<1>3. \/ Fetch(h, a, AnyUser, "deleteRow") \/ Fetch(h, a, AnyUser, "put")
      \/ Fetch(h, a, u, "read")
  BY DEF DeleteGet, RotateGet, CheckoutGet
<1> QED
  BY <1>1, <1>2, <1>3, FetchTyped DEF TypeInv

LEMMA RotateTyped ==
    ASSUME TypeInv, NEW h \in Threads,
           RotatePut(h) \/ RotatePutFails(h) \/ RotateSchedule(h) \/ RotateStamp(h)
    PROVE  TypeInv'
<1>1. thread[h] \in Locals /\ LocalRef(h) \in Refs
  BY AccountsAssumption DEF TypeInv, CallsTyped, Locals, LocalRef
<1>2. {"schedule", "stamp", "log"} \subseteq Step
  BY DEF Step
<1>3. CASE RotatePut(h)
  <2>1. TablesTyped' /\ UNCHANGED nextId /\ Goto(h, "schedule")
    BY <1>1, <1>3 DEF TypeInv, TablesTyped, RotatePut, PutSecret, releases, world
  <2> QED
    BY <1>2, <2>1, GotoTyped DEF TypeInv
<1>4. CASE RotatePutFails(h)
  <2> DEFINE x == [thread[h] EXCEPT !.pc = "log", !.status = "failed"]
  <2>1. x \in Locals /\ x.pc = "log"
    BY <1>1 DEF Locals, Step, Status
  <2>2. \A r \in Account : MarkedFailed(r) \in Account
    BY DEF MarkedFailed, Account
  <2>3. TablesTyped' /\ UNCHANGED nextId
    BY <1>4, <2>2 DEF TypeInv, TablesTyped, RotatePutFails, releases, Live
  <2> HIDE DEF x
  <2>4. Continue(h, x)
    BY <1>4 DEF RotatePutFails, x
  <2> QED
    BY <2>1, <2>3, <2>4, ThreadGoesOn DEF TypeInv
<1>5. CASE RotateSchedule(h)
  <2> DEFINE x == [thread[h] EXCEPT !.pc = "stamp", !.when = now]
  <2>1. now \in Nat /\ now # Null /\ "stamp" \in Step
    BY DEF TypeInv, TablesTyped, Null, Step
  <2>2. x \in Locals /\ x.pc = "stamp" /\ x.when # Null
    BY <1>1, <2>1 DEF Locals
  <2>3. TablesTyped' /\ UNCHANGED nextId
    BY <1>5 DEF TypeInv, TablesTyped, RotateSchedule, tables, releases, world
  <2> HIDE DEF x
  <2>4. Continue(h, x)
    BY <1>5 DEF RotateSchedule, x
  <2> QED
    BY <2>2, <2>3, <2>4, ThreadGoesOn DEF TypeInv
<1>6. CASE RotateStamp(h)
  <2>1. thread[h].when \in Nat
    BY <1>1, <1>6 DEF TypeInv, CallsTyped, RotateStamp, At, Locals
  <2> DEFINE t == thread[h].when
             n == t + RotationDays
  <2>2. \A r \in Account : Stamped(r, t) \in Account
    <3>1. n \in Nat /\ t \in Nat
      BY <2>1, AccountsAssumption
    <3> HIDE DEF n, t
    <3>2. \A r \in Account : [r EXCEPT !.last = t, !.status = "ok", !.next = n] \in Account
      BY <3>1 DEF Account
    <3> QED
      BY <3>2 DEF Stamped, n
  <2> HIDE DEF n
  <2>3. TablesTyped' /\ UNCHANGED nextId /\ Goto(h, "log")
    BY <1>6, <2>2 DEF TypeInv, TablesTyped, RotateStamp, releases, world, Live
  <2> QED
    BY <1>2, <2>3, GotoTyped DEF TypeInv
<1> QED
  BY <1>3, <1>4, <1>5, <1>6

LEMMA CheckoutReadTyped ==
    ASSUME TypeInv, NEW h \in Threads, CheckoutRead(h)
    PROVE  TypeInv'
<1>1. TablesTyped' /\ UNCHANGED nextId
  BY DEF TypeInv, TablesTyped, CheckoutRead, tables, releases, world
<1>2. (Return(h) \/ Goto(h, "record")) /\ "record" \in Step
  BY DEF CheckoutRead, Step
<1> QED
  BY <1>1, <1>2, ReturnTyped, GotoTyped DEF TypeInv

LEMMA ReleaseTyped ==
    ASSUME TypeInv,
           (\E c \in checkouts : ReturnCheckout(c)) \/ (\E u \in Users : DeleteUser(u))
    PROVE  TypeInv'
<1>1. TablesTyped'
  BY DEF TypeInv, TablesTyped, ReturnCheckout, Returned, DeleteUser, Checkout, world
<1>2. CallsTyped' /\ IdsSuffice'
  BY DEF TypeInv, CallsTyped, IdsSuffice, Creating, ReturnCheckout, DeleteUser
<1> QED
  BY <1>1, <1>2 DEF TypeInv

LEMMA WorkerTyped ==
    ASSUME TypeInv, Scan \/ RestartWorker \/ (\E a \in Accounts : TakeNext(a))
    PROVE  TypeInv'
<1>1. Worker \in Threads /\ AnyUser \in Users
  BY AccountsAssumption DEF Threads, AnyUser
<1>2. TablesTyped' /\ UNCHANGED nextId
  BY DEF TypeInv, TablesTyped, Scan, RestartWorker, TakeNext, tables, releases, world
<1>3. CASE UNCHANGED thread
  BY <1>2, <1>3 DEF TypeInv, CallsTyped, IdsSuffice, Creating
<1>4. CASE RestartWorker
  <2>1. Return(Worker)
    BY <1>4 DEF RestartWorker
  <2> QED
    BY <1>1, <1>2, <2>1, ReturnTyped DEF TypeInv
<1>5. CASE \E a \in Accounts : Fetch(Worker, a, AnyUser, "put")
  BY <1>1, <1>2, <1>5, FetchTyped DEF TypeInv
<1> QED
  BY <1>3, <1>4, <1>5 DEF Scan, TakeNext

LEMMA NextTyped == TypeInv /\ [Next]_vars => TypeInv'
<1> SUFFICES ASSUME TypeInv, [Next]_vars PROVE TypeInv'
  OBVIOUS
<1>1. CASE Call
  <2>1. CASE \E s \in Safes, cpm \in {"on", "off"} : CreateSafe(s, cpm) \/ UpdateSafe(s, cpm)
    BY <2>1, SafeStepTyped
  <2>2. CASE \E h \in Handlers, s \in Safes : DeleteSafe(h, s)
    BY <2>2, DeleteSafeTyped
  <2>3. CASE \E h \in Handlers, s \in Safes, n \in Names : CreateLookup(h, s, n)
    BY <2>3, CreateLookupTyped
  <2>4. CASE \E h \in Handlers, a \in Accounts : DeleteGet(h, a) \/ RotateGet(h, a)
    BY <2>4, GetTyped, AccountsAssumption
  <2>5. CASE \E h \in Handlers, a \in Accounts, u \in Users : CheckoutGet(h, a, u)
    BY <2>5, GetTyped
  <2>6. CASE (\E c \in checkouts : ReturnCheckout(c)) \/ (\E u \in Users : DeleteUser(u))
    BY <2>6, ReleaseTyped
  <2> QED
    BY <1>1, <2>1, <2>2, <2>3, <2>4, <2>5, <2>6 DEF Call
<1>2. CASE \E h \in Threads : ThreadStep(h) \/ RotatePutFails(h) \/ Abort(h)
  <2> PICK h \in Threads : ThreadStep(h) \/ RotatePutFails(h) \/ Abort(h)
    BY <1>2
  <2>1. CASE \/ RecordRotation(h) \/ DeleteSecret(h) \/ CheckoutRecord(h)
             \/ DeleteSafeRow(h) \/ Abort(h)
    BY <2>1, ReturningTyped
  <2>2. CASE RotatePut(h) \/ RotatePutFails(h) \/ RotateSchedule(h) \/ RotateStamp(h)
    BY <2>2, RotateTyped
  <2>3. CASE CreatePut(h) \/ CreateInsert(h) \/ DeleteRow(h) \/ CheckoutRead(h)
    BY <2>3, CreatePutTyped, CreateInsertTyped, DeleteRowTyped, CheckoutReadTyped
  <2> QED
    BY <2>1, <2>2, <2>3 DEF ThreadStep
<1>3. CASE Scan \/ (\E a \in Accounts : TakeNext(a)) \/ RestartWorker
  BY <1>3, WorkerTyped
<1>4. CASE Tick
  <2>1. TablesTyped'
    BY <1>4 DEF TypeInv, TablesTyped, Tick, tables, releases
  <2>2. CallsTyped' /\ IdsSuffice'
    BY <1>4 DEF TypeInv, CallsTyped, IdsSuffice, Creating, Tick, tables
  <2> QED
    BY <2>1, <2>2 DEF TypeInv
<1>5. CASE UNCHANGED vars
  <2>1. TablesTyped'
    BY <1>5 DEF TypeInv, TablesTyped, vars, tables, releases, world
  <2>2. CallsTyped' /\ IdsSuffice'
    BY <1>5 DEF TypeInv, CallsTyped, IdsSuffice, Creating, vars, tables
  <2> QED
    BY <2>1, <2>2 DEF TypeInv
<1> QED
  BY <1>1, <1>2, <1>3, <1>4, <1>5 DEF Next

LEMMA TypeInvariant == Spec => []TypeInv
BY InitTyped, NextTyped, PTL DEF Spec

\* Every variable of the account tables, of the calls in progress and of the
\* worker stays in its type; in particular the ids of accounts never run out
\* under a Create that has begun.
THEOREM AccountsTypeCorrect == Spec => []TypeOK
BY TypeInvariant, TypeInvImplies, PTL

-----------------------------------------------------------------------------
(* References.  The invariant is inductive beside the types: every write   *)
(* that a stale read could mislead is held back by a foreign key.          *)

\* Steps that leave the safes, the accounts and what refers to them alone.
Referring == <<safe, account, checkouts, history>>

LEMMA ReferencesStand ==
    ASSUME ReferencesHold, UNCHANGED Referring
    PROVE  ReferencesHold'
BY DEF ReferencesHold, Live, Exists, Referring

LEMMA SafeStepKeepsReferences ==
    ASSUME TypeInv, ReferencesHold, NEW s \in Safes, NEW cpm \in {"on", "off"},
           CreateSafe(s, cpm) \/ UpdateSafe(s, cpm)
    PROVE  ReferencesHold'
<1>1. safe' = [safe EXCEPT ![s] = cpm] /\ UNCHANGED <<account, checkouts, history>>
  BY DEF CreateSafe, UpdateSafe, releases
<1>2. \A t \in Safes : Exists(t) => Exists(t)'
  BY <1>1 DEF Exists, TypeInv, TablesTyped
<1>3. \A a \in Live : account[a].safe \in Safes
  BY DEF Live, TypeInv, TablesTyped, Account
<1> QED
  BY <1>1, <1>2, <1>3 DEF ReferencesHold, Live

\* The count of the safe's accounts is old by now: the foreign key is not.
LEMMA DeleteSafeRowKeepsReferences ==
    ASSUME TypeInv, ReferencesHold, NEW h \in Threads, DeleteSafeRow(h)
    PROVE  ReferencesHold'
<1> DEFINE s == thread[h].safe
<1>1. UNCHANGED <<account, checkouts, history>>
  BY DEF DeleteSafeRow, releases
<1>2. CASE UNCHANGED safe
  BY <1>1, <1>2, ReferencesStand DEF Referring
<1>3. CASE Removable(s) /\ safe' = [safe EXCEPT ![s] = "deleted"]
  <2>1. \A a \in Live : account[a].safe # s
    BY <1>3 DEF Removable
  <2>2. \A a \in Live : account[a].safe \in Safes
    BY DEF Live, TypeInv, TablesTyped, Account
  <2>3. \A a \in Live : Exists(account[a].safe)'
    BY <1>1, <1>3, <2>1, <2>2 DEF ReferencesHold, Exists, TypeInv, TablesTyped, Live
  <2> QED
    BY <1>1, <2>3 DEF ReferencesHold, Live
<1> QED
  BY <1>2, <1>3 DEF DeleteSafeRow

LEMMA CreateInsertKeepsReferences ==
    ASSUME TypeInv, ReferencesHold, NEW h \in Threads, CreateInsert(h)
    PROVE  ReferencesHold'
<1> DEFINE x == thread[h]
           row == [live |-> TRUE, safe |-> x.safe, name |-> x.name,
                   next |-> IF x.when = Null THEN Null ELSE now + x.when,
                   last |-> now, status |-> "ok"]
<1>1. UNCHANGED <<safe, checkouts, history>>
  BY DEF CreateInsert, releases
<1>2. CASE UNCHANGED account
  BY <1>1, <1>2, ReferencesStand DEF Referring
<1>3. CASE Insertable(x.safe, x.name) /\ account' = [account EXCEPT ![nextId] = row]
  <2>1. row.live /\ row.safe = x.safe /\ row.name = x.name
    OBVIOUS
  <2> HIDE DEF row
  <2>2. /\ \A a \in Accounts : account'[a] = IF a = nextId THEN row ELSE account[a]
        /\ Live \subseteq Accounts /\ Live' = {a \in Accounts : account'[a].live}
    BY <1>3 DEF TypeInv, TablesTyped, Live
  <2>3. \A a \in Live : a \in Live'
    BY <2>1, <2>2 DEF Live
  <2>4. \A a \in Live' : a # nextId => a \in Live /\ account'[a] = account[a]
    BY <2>2 DEF Live
  <2>5. \A a \in Live' : Exists(account[a].safe)'
    BY <1>1, <1>3, <2>1, <2>2, <2>4 DEF ReferencesHold, Insertable, Exists
  <2>6. \A a, b \in Live' : account'[a].safe = account'[b].safe
                            /\ account'[a].name = account'[b].name => a = b
    <3> SUFFICES ASSUME NEW a \in Live', NEW b \in Live', a # b,
                        account'[a].safe = account'[b].safe,
                        account'[a].name = account'[b].name
                 PROVE  FALSE
      OBVIOUS
    <3>1. CASE a # nextId /\ b # nextId
      BY <2>4, <3>1 DEF ReferencesHold
    <3>2. CASE a = nextId
      BY <1>3, <2>1, <2>2, <2>4, <3>2 DEF Insertable
    <3>3. CASE b = nextId
      BY <1>3, <2>1, <2>2, <2>4, <3>3 DEF Insertable
    <3> QED
      BY <3>1, <3>2, <3>3
  <2>7. (\A c \in checkouts' : c.account \in Live') /\ (\A r \in history' : r[1] \in Live')
    BY <1>1, <2>3 DEF ReferencesHold
  <2> QED
    BY <2>5, <2>6, <2>7 DEF ReferencesHold
<1> QED
  BY <1>2, <1>3 DEF CreateInsert

\* A rotation writes an account's times and status: who is live, in which
\* safe and under which name stays.
LEMMA RotationKeepsReferences ==
    ASSUME TypeInv, ReferencesHold, NEW h \in Threads, RotatePutFails(h) \/ RotateStamp(h)
    PROVE  ReferencesHold'
<1> DEFINE a == thread[h].acct
           t == thread[h].when
<1>1. UNCHANGED <<safe, checkouts, history>>
  BY DEF RotatePutFails, RotateStamp, releases
<1>2. \A r \in Account : /\ MarkedFailed(r).live = r.live /\ Stamped(r, t).live = r.live
                         /\ MarkedFailed(r).safe = r.safe /\ Stamped(r, t).safe = r.safe
                         /\ MarkedFailed(r).name = r.name /\ Stamped(r, t).name = r.name
  BY DEF MarkedFailed, Stamped, Account
<1>3. \/ UNCHANGED account
      \/ account' = [account EXCEPT ![a] = MarkedFailed(@)]
      \/ account' = [account EXCEPT ![a] = Stamped(@, t)]
  BY DEF RotatePutFails, RotateStamp
<1>4. \A b \in Accounts : /\ account'[b].live = account[b].live
                          /\ account'[b].safe = account[b].safe
                          /\ account'[b].name = account[b].name
  BY <1>2, <1>3 DEF TypeInv, TablesTyped
<1>5. Live' = Live
  BY <1>4 DEF Live
<1> QED
  BY <1>1, <1>4, <1>5 DEF ReferencesHold, Exists, Live

\* Deleting an account takes its history with it, and is held back by a checkout.
LEMMA DeleteRowKeepsReferences ==
    ASSUME TypeInv, ReferencesHold, NEW h \in Threads, DeleteRow(h)
    PROVE  ReferencesHold'
<1> DEFINE a == thread[h].acct
<1>1. UNCHANGED <<safe, checkouts>>
  BY DEF DeleteRow, releases
<1>2. CASE UNCHANGED <<account, history>>
  BY <1>1, <1>2, ReferencesStand DEF Referring
<1>3. CASE /\ \A c \in checkouts : c.account # a
           /\ account' = [account EXCEPT ![a].live = FALSE]
           /\ history' = {r \in history : r[1] # a}
  <2>1. Live' = Live \ {a} /\ \A b \in Live' : account'[b] = account[b]
    BY <1>3 DEF TypeInv, TablesTyped, Account, Live
  <2> QED
    BY <1>1, <1>3, <2>1 DEF ReferencesHold, Exists
<1> QED
  BY <1>2, <1>3 DEF DeleteRow

\* A row that refers to an account is written while the account is there.
LEMMA WritingKeepsReferences ==
    ASSUME TypeInv, ReferencesHold, NEW h \in Threads, RecordRotation(h) \/ CheckoutRecord(h)
    PROVE  ReferencesHold'
<1> DEFINE a == thread[h].acct
<1>1. UNCHANGED <<safe, account>>
  BY DEF RecordRotation, CheckoutRecord
<1>2. (\A c \in checkouts' : c.account \in Live) /\ (\A r \in history' : r[1] \in Live)
  <2>1. CASE RecordRotation(h)
    BY <2>1 DEF RecordRotation, Loggable, ReferencesHold, releases
  <2>2. CASE CheckoutRecord(h)
    BY <2>2 DEF CheckoutRecord, Recordable, ReferencesHold
  <2> QED
    BY <2>1, <2>2
<1> QED
  BY <1>1, <1>2 DEF ReferencesHold, Live, Exists

LEMMA ReleaseKeepsReferences ==
    ASSUME TypeInv, ReferencesHold,
           (\E c \in checkouts : ReturnCheckout(c)) \/ (\E u \in Users : DeleteUser(u))
    PROVE  ReferencesHold'
<1>1. UNCHANGED <<safe, account, history>>
  BY DEF ReturnCheckout, DeleteUser
<1>2. \A c \in checkouts' : c.account \in Live
  BY DEF ReturnCheckout, Returned, DeleteUser, ReferencesHold, TypeInv, TablesTyped, Checkout
<1> QED
  BY <1>1, <1>2 DEF ReferencesHold, Live, Exists

LEMMA NextKeepsReferences == TypeInv /\ ReferencesHold /\ [Next]_vars => ReferencesHold'
<1> SUFFICES ASSUME TypeInv, ReferencesHold, [Next]_vars PROVE ReferencesHold'
  OBVIOUS
<1>1. CASE Call
  <2>1. CASE \E s \in Safes, cpm \in {"on", "off"} : CreateSafe(s, cpm) \/ UpdateSafe(s, cpm)
    BY <2>1, SafeStepKeepsReferences
  <2>2. CASE (\E c \in checkouts : ReturnCheckout(c)) \/ (\E u \in Users : DeleteUser(u))
    BY <2>2, ReleaseKeepsReferences
  <2>3. CASE UNCHANGED tables
    BY <2>3, ReferencesStand DEF tables, releases, Referring
  <2> QED
    BY <1>1, <2>1, <2>2, <2>3
       DEF Call, DeleteSafe, CreateLookup, DeleteGet, RotateGet, CheckoutGet
<1>2. CASE \E h \in Threads : ThreadStep(h) \/ RotatePutFails(h) \/ Abort(h)
  <2> PICK h \in Threads : ThreadStep(h) \/ RotatePutFails(h) \/ Abort(h)
    BY <1>2
  <2>1. CASE UNCHANGED Referring
    BY <2>1, ReferencesStand
  <2>2. CASE CreateInsert(h) \/ DeleteRow(h) \/ DeleteSafeRow(h)
    BY <2>2, CreateInsertKeepsReferences, DeleteRowKeepsReferences, DeleteSafeRowKeepsReferences
  <2>3. CASE RotatePutFails(h) \/ RotateStamp(h)
    BY <2>3, RotationKeepsReferences
  <2>4. CASE RecordRotation(h) \/ CheckoutRecord(h)
    BY <2>4, WritingKeepsReferences
  <2>5. CASE CreatePut(h) \/ DeleteSecret(h) \/ RotatePut(h)
    BY <2>1, <2>5 DEF CreatePut, DeleteSecret, RotatePut, Referring, releases
  <2>6. CASE RotateSchedule(h) \/ CheckoutRead(h) \/ Abort(h)
    BY <2>1, <2>6 DEF RotateSchedule, CheckoutRead, Abort, Referring, tables, releases
  <2> QED
    BY <2>2, <2>3, <2>4, <2>5, <2>6 DEF ThreadStep
<1>3. CASE Scan \/ (\E a \in Accounts : TakeNext(a)) \/ RestartWorker \/ Tick \/ UNCHANGED vars
  <2>1. UNCHANGED tables
    BY <1>3 DEF Scan, TakeNext, RestartWorker, Tick, vars
  <2> QED
    BY <2>1, ReferencesStand DEF tables, releases, Referring
<1> QED
  BY <1>1, <1>2, <1>3 DEF Next

LEMMA InitReferences == Init => ReferencesHold
<1> SUFFICES ASSUME Init PROVE ReferencesHold
  OBVIOUS
<1>1. Live = {} /\ checkouts = {} /\ history = {}
  BY IdleTyped DEF Init, Live
<1> QED
  BY <1>1 DEF ReferencesHold

\* Whatever is created, rotated, checked out and deleted between the reads and
\* the writes of a call: no account is left in a deleted safe, no two of a safe
\* share a name, and no checkout and no history entry refers to a deleted account.
THEOREM ReferencesAlwaysHold == Spec => []ReferencesHold
<1>1. Init => ReferencesHold
  BY InitReferences
<1>2. TypeInv /\ ReferencesHold /\ [Next]_vars => ReferencesHold'
  BY NextKeepsReferences
<1> QED
  BY <1>1, <1>2, TypeInvariant, PTL DEF Spec

-----------------------------------------------------------------------------
(* Revealed passwords.                                                     *)

\* Whoever was shown a password, and is still a user, has a checkout of it.
Traced ==
    \A x \in revealed :
        x[2] \in users => \E c \in checkouts : c.account = x[1] /\ c.user = x[2]

\* The account of a checkout is there, because references hold.
LEMMA TracedImplies == ReferencesHold /\ Traced => RevealsAreRecorded
BY DEF ReferencesHold, Traced, RevealsAreRecorded

LEMMA NextTraced == TypeInv /\ Traced /\ [Next]_vars => Traced'
<1> SUFFICES ASSUME TypeInv, Traced, [Next]_vars PROVE Traced'
  OBVIOUS
<1>1. CASE UNCHANGED releases
  BY <1>1 DEF Traced, releases
<1>2. CASE \E h \in Threads : CheckoutRecord(h)
  <2> PICK h \in Threads : CheckoutRecord(h)
    BY <1>2
  <2> DEFINE a == thread[h].acct
             u == thread[h].user
             c == [account |-> a, user |-> u, returned |-> FALSE]
  <2>1. c.account = a /\ c.user = u
    OBVIOUS
  <2>2. \/ UNCHANGED <<checkouts, revealed>>
        \/ checkouts' = checkouts \cup {c} /\ revealed' = revealed \cup {<<a, u>>}
    BY DEF CheckoutRecord
  <2>3. UNCHANGED users
    BY DEF CheckoutRecord
  <2> HIDE DEF a, u, c
  <2> QED
    BY <2>1, <2>2, <2>3 DEF Traced
<1>3. CASE \E c \in checkouts : ReturnCheckout(c)
  <2> PICK c \in checkouts : ReturnCheckout(c)
    BY <1>3
  <2> DEFINE d == [c EXCEPT !.returned = TRUE]
  <2>1. d.account = c.account /\ d.user = c.user
    BY DEF TypeInv, TablesTyped, Checkout
  <2>2. checkouts' = (checkouts \ {c}) \cup {d} /\ UNCHANGED <<revealed, users>>
    BY DEF ReturnCheckout, Returned
  <2> HIDE DEF d
  <2> QED
    BY <2>1, <2>2 DEF Traced
<1>4. CASE \E u \in Users : DeleteUser(u)
  BY <1>4 DEF DeleteUser, Traced
<1>5. CASE Call
  BY <1>1, <1>3, <1>4, <1>5
     DEF Call, CreateSafe, UpdateSafe, DeleteSafe, CreateLookup, DeleteGet, RotateGet,
         CheckoutGet, tables
<1>6. CASE \E h \in Threads : ThreadStep(h) \/ RotatePutFails(h) \/ Abort(h)
  BY <1>1, <1>2, <1>6
     DEF ThreadStep, CreatePut, CreateInsert, RecordRotation, DeleteRow, DeleteSecret, RotatePut,
         RotateSchedule, RotateStamp, CheckoutRead, DeleteSafeRow, RotatePutFails, Abort, tables
<1>7. CASE Scan \/ (\E a \in Accounts : TakeNext(a)) \/ RestartWorker \/ Tick \/ UNCHANGED vars
  BY <1>1, <1>7 DEF Scan, TakeNext, RestartWorker, Tick, vars, tables
<1> QED
  BY <1>5, <1>6, <1>7 DEF Next

\* Whoever was shown a password has a checkout on record as long as they are a
\* user, and the account cannot be deleted while the record stands: Checkout
\* writes its row before it answers, Return keeps it, and Delete runs into it.
THEOREM RevealsAlwaysRecorded == Spec => []RevealsAreRecorded
<1>1. Init => Traced
  BY DEF Init, Traced
<1>2. TypeInv /\ Traced /\ [Next]_vars => Traced'
  BY NextTraced
<1> QED
  BY <1>1, <1>2, TypeInvariant, ReferencesAlwaysHold, TracedImplies, PTL DEF Spec
=============================================================================
