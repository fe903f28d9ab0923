---------------------------- MODULE SessionProofs ----------------------------
(***************************************************************************)
(* Proofs about the two programs that end sessions, for every value of     *)
(* their constants: the SSH proxy with its watcher (SshSession) and the    *)
(* clean-up worker of audit-service (SessionCleanup, as Cleanup, which     *)
(* promises Orphans).  Each keeps rows of its own; a theorem speaks of one *)
(* of the two.                                                             *)
(***************************************************************************)
EXTENDS SshSession, Orphans, TLAPS

CONSTANTS Rdp, Handlers, PoolSizes

VARIABLES old, recording, secret, cleaner, todo, found, cursor, expired, api, pool

Cleanup == INSTANCE SessionCleanup WITH pc <- cleaner

-----------------------------------------------------------------------------
(* The SSH proxy.                                                          *)

\* Almost every action may meet a fault.
USE DEF Update, Fault

\* Every variable keeps its type.
THEOREM SessionTypeCorrect == Spec => []TypeOK
<1> USE SshSessionAssumption
<1>1. Init => TypeOK
  <2>1. Init => open \in BOOLEAN /\ ending \in BOOLEAN /\ endedOnce \in BOOLEAN
    BY Zenon DEF Init
  <2>2. Init => admin \in [Admins -> {"idle", "order", "end"}]
    BY DEF Init
  <2>3. Init => /\ opened \in Nat /\ pipes \in Nat /\ faults \in Nat
                /\ row \in Row
                /\ order \in {"absent", "pending", "acknowledged"}
                /\ pc \in {"insert", "loop", "dialing", "draining", "done"}
                /\ watcher \in {"off", "check", "mark", "acknowledge", "kill",
                                "sleep", "done"}
    BY DEF Init, Row
  <2> QED
    BY <2>1, <2>2, <2>3, Zenon DEF TypeOK
<1>2. TypeOK /\ [Next]_vars => TypeOK'
  <2> SUFFICES ASSUME TypeOK, [Next]_vars
               PROVE  TypeOK'
    OBVIOUS
  <2>1. CASE HandleStep
    <3>1. CASE InsertRow \/ InsertFails \/ OpenChannel
      BY <3>1 DEF InsertRow, InsertFails, OpenChannel, TypeOK, Row
    <3>2. CASE DialSucceeds \/ DialFails
      BY <3>2 DEF DialSucceeds, DialFails, Watching, Marked, TypeOK, Row
    <3>3. CASE ClosePipe
      BY <3>3 DEF ClosePipe, TypeOK
    <3>4. CASE EndNativeSession \/ Disconnect \/ Hangup \/ Drained
      <4>1. open' \in BOOLEAN /\ ending' \in BOOLEAN /\ endedOnce' \in BOOLEAN
        BY <3>4, Zenon DEF EndNativeSession, Disconnect, Hangup, Drained, TypeOK
      <4>2. row' \in Row
        BY <3>4 DEF EndNativeSession, Disconnect, Hangup, Drained, Closed, TypeOK, Row
      <4> QED
        BY <3>4, <4>1, <4>2
           DEF EndNativeSession, Disconnect, Hangup, Drained, TypeOK
    <3> QED
      BY <2>1, <3>1, <3>2, <3>3, <3>4 DEF HandleStep
  <2>2. CASE Crash
    <3>1. open' \in BOOLEAN /\ ending' \in BOOLEAN /\ endedOnce' \in BOOLEAN
      BY <2>2, Zenon DEF Crash, TypeOK
    <3> QED
      BY <2>2, <3>1 DEF Crash, TypeOK
  <2>3. CASE WatcherStep
    <3>1. CASE Check \/ Wake
      BY <3>1 DEF Check, Wake, proxy, TypeOK
    <3>2. CASE Mark
      BY <3>2 DEF Mark, Marked, proxy, TypeOK, Row
    <3>3. CASE Acknowledge
      BY <3>3 DEF Acknowledge, proxy, TypeOK
    <3>4. CASE Kill
      BY <3>4 DEF Kill, Killed, TypeOK
    <3> QED
      BY <2>3, <3>1, <3>2, <3>3, <3>4 DEF WatcherStep
  <2>4. ASSUME NEW a \in Admins, AdminStep(a)
        PROVE  TypeOK'
    BY <2>4 DEF AdminStep, TerminateRead, TerminateOrder, TerminateEnd, proxy,
                TypeOK, Row
  <2>5. CASE DeleteRequester
    BY <2>5 DEF DeleteRequester, proxy, TypeOK
  <2>6. CASE UNCHANGED vars
    BY <2>6 DEF vars, proxy, TypeOK
  <2> QED
    BY <2>1, <2>2, <2>3, <2>4, <2>5, <2>6 DEF Next
<1> QED
  BY <1>1, <1>2, PTL DEF Spec

\* The watcher comes on duty with the first pipe and stays while the connection
\* is open, and acknowledges nothing but the order it is carrying out.
LEMMA DutyStep ==
    ASSUME TypeOK, OnDutyInv, AcknowledgedMeansKilled, [Next]_vars
    PROVE  OnDutyInv' /\ AcknowledgedMeansKilled'
<1> USE DEF OnDutyInv, AcknowledgedMeansKilled
<1>1. CASE HandleStep
  <2>1. CASE InsertRow \/ InsertFails
    BY <2>1 DEF InsertRow, InsertFails
  <2>2. CASE OpenChannel
    BY <2>2 DEF OpenChannel, TypeOK
  <2>3. CASE DialSucceeds \/ DialFails
    BY <2>3 DEF DialSucceeds, DialFails, Watching, TypeOK
  <2>4. CASE ClosePipe
    BY <2>4 DEF ClosePipe, TypeOK
  <2>5. CASE EndNativeSession \/ Disconnect \/ Hangup \/ Drained
    BY <2>5 DEF EndNativeSession, Disconnect, Hangup, Drained
  <2> QED
    BY <1>1, <2>1, <2>2, <2>3, <2>4, <2>5 DEF HandleStep
<1>2. CASE Crash
  BY <1>2 DEF Crash
<1>3. CASE WatcherStep
  BY <1>3 DEF WatcherStep, Check, Mark, Acknowledge, Kill, Wake, Killed, proxy
<1>4. ASSUME NEW a \in Admins, AdminStep(a)
      PROVE  OnDutyInv' /\ AcknowledgedMeansKilled'
  BY <1>4 DEF AdminStep, TerminateRead, TerminateOrder, TerminateEnd, proxy
<1>5. CASE DeleteRequester
  BY <1>5 DEF DeleteRequester, proxy
<1>6. CASE UNCHANGED vars
  BY <1>6 DEF vars, proxy
<1> QED
  BY <1>1, <1>2, <1>3, <1>4, <1>5, <1>6 DEF Next

LEMMA OnDuty == Spec => [](OnDutyInv /\ AcknowledgedMeansKilled)
<1>1. Init => OnDutyInv /\ AcknowledgedMeansKilled
  BY DEF Init, OnDutyInv, AcknowledgedMeansKilled
<1>2. TypeOK /\ OnDutyInv /\ AcknowledgedMeansKilled /\ [Next]_vars
         => (OnDutyInv /\ AcknowledgedMeansKilled)'
  BY DutyStep
<1> QED
  BY <1>1, <1>2, SessionTypeCorrect, PTL DEF Spec

\* With any number of channels, administrators and faults, no pipe runs on an
\* open connection without a watcher to carry out a termination order.
THEOREM ShellsAreWatched == Spec => []EveryShellIsWatched
<1>1. TypeOK /\ OnDutyInv => EveryShellIsWatched
  BY DEF TypeOK, OnDutyInv, EveryShellIsWatched
<1> QED
  BY <1>1, OnDuty, SessionTypeCorrect, PTL

\* An order audit-service sees acknowledged has taken the connection down, or
\* is one step from it.
THEOREM AcknowledgedOrdersKill == Spec => []AcknowledgedMeansKilled
BY OnDuty, PTL

\* handle writes the row first, and nothing else creates it.
LEMMA RowComesFirst == Spec => []RowInv
<1>1. Init => RowInv
  BY DEF Init, RowInv
<1>2. RowInv /\ [Next]_vars => RowInv'
  <2> SUFFICES ASSUME RowInv, [Next]_vars
               PROVE  RowInv'
    OBVIOUS
  <2>1. CASE HandleStep
    BY <2>1 DEF HandleStep, InsertRow, InsertFails, OpenChannel, DialSucceeds,
       DialFails, ClosePipe, EndNativeSession, Disconnect, Hangup, Drained,
       Closed, RowInv
  <2>2. CASE Crash
    BY <2>2 DEF Crash, RowInv
  <2>3. CASE WatcherStep
    BY <2>3 DEF WatcherStep, Check, Mark, Acknowledge, Kill, Wake, Marked, proxy,
       RowInv
  <2>4. ASSUME NEW a \in Admins, AdminStep(a)
        PROVE  RowInv'
    BY <2>4 DEF AdminStep, TerminateRead, TerminateOrder, TerminateEnd, proxy,
       RowInv
  <2>5. CASE DeleteRequester \/ UNCHANGED vars
    BY <2>5 DEF DeleteRequester, vars, proxy, RowInv
  <2> QED
    BY <2>1, <2>2, <2>3, <2>4, <2>5 DEF Next
<1> QED
  BY <1>1, <1>2, PTL DEF Spec

\* No step of the proxy or of audit-service turns a termination into a logout.
THEOREM KillIsNeverMasked == Spec => KillStaysOnRecord
<1>1. ASSUME RowInv, [Next]_vars, row = "terminated"
      PROVE  row' \in {"terminated", "failed"}
  <2>1. CASE HandleStep
    BY <1>1, <2>1 DEF HandleStep, InsertRow, InsertFails, OpenChannel,
       DialSucceeds, DialFails, ClosePipe, EndNativeSession, Disconnect, Hangup,
       Drained, Closed, Marked, RowInv
  <2>2. CASE Crash
    BY <1>1, <2>2 DEF Crash
  <2>3. CASE WatcherStep
    BY <1>1, <2>3 DEF WatcherStep, Check, Mark, Acknowledge, Kill, Wake, Marked
  <2>4. ASSUME NEW a \in Admins, AdminStep(a)
        PROVE  row' \in {"terminated", "failed"}
    BY <1>1, <2>4 DEF AdminStep, TerminateRead, TerminateOrder, TerminateEnd
  <2>5. CASE DeleteRequester \/ UNCHANGED vars
    BY <1>1, <2>5 DEF DeleteRequester, vars
  <2> QED
    BY <1>1, <2>1, <2>2, <2>3, <2>4, <2>5 DEF Next
<1> QED
  BY <1>1, RowComesFirst, PTL DEF Spec, KillStaysOnRecord

-----------------------------------------------------------------------------
(* The clean-up worker, on the assumption its module makes of its sets.    *)

LEMMA EndedType ==
    ASSUME Cleanup!TypeOK, NEW s \in Cleanup!Sessions, NEW reason \in Cleanup!Reason,
           Cleanup!Ended(s, reason)
    PROVE  /\ status' \in [Cleanup!Sessions -> {"absent", "active"} \cup Cleanup!Reason]
           /\ secret' \subseteq Web
BY DEF Cleanup!TypeOK, Cleanup!Ended, Cleanup!Reason

\* Every variable keeps its type, with any number of sessions, calls and
\* connections.
THEOREM CleanupTypeCorrect ==
    ASSUME Cleanup!CleanupAssumption
    PROVE  Cleanup!Spec => []Cleanup!TypeOK
<1> USE DEF Cleanup!CleanupAssumption
<1>1. Cleanup!Init => Cleanup!TypeOK
  <2> SUFFICES ASSUME Cleanup!Init
               PROVE  Cleanup!TypeOK
    OBVIOUS
  <2>1. found \in [id: Cleanup!Sessions, reason: Cleanup!Reason]
    BY DEF Cleanup!Init, Cleanup!Nothing, Cleanup!Reason
  <2>2. cursor \in BOOLEAN /\ expired \in BOOLEAN
    BY Zenon DEF Cleanup!Init
  <2> QED
    BY <2>1, <2>2 DEF Cleanup!Init, Cleanup!TypeOK
<1>2. Cleanup!TypeOK /\ [Cleanup!Next]_Cleanup!vars => Cleanup!TypeOK'
  <2> SUFFICES ASSUME Cleanup!TypeOK, [Cleanup!Next]_Cleanup!vars
               PROVE  Cleanup!TypeOK'
    OBVIOUS
  <2> USE DEF Cleanup!sessions, Cleanup!worker
  <2>1. ASSUME NEW s \in Web,
        Cleanup!StoreCredentials(s) \/ Cleanup!InsertWeb(s) \/ Cleanup!InsertWebFails(s)
                                  \/ Cleanup!LoseSecret(s),
               UNCHANGED pool
        PROVE  Cleanup!TypeOK'
    BY <2>1 DEF Cleanup!StoreCredentials, Cleanup!InsertWeb, Cleanup!InsertWebFails,
        Cleanup!LoseSecret, Cleanup!TypeOK, Cleanup!Sessions
  <2>2. ASSUME NEW s \in Rdp, Cleanup!InsertRdp(s) \/ Cleanup!Connect(s), UNCHANGED pool
        PROVE  Cleanup!TypeOK'
    BY <2>2 DEF Cleanup!InsertRdp, Cleanup!Connect, Cleanup!TypeOK, Cleanup!Sessions
  <2>3. ASSUME NEW s \in Cleanup!Sessions, Cleanup!TimeOut(s), UNCHANGED pool
        PROVE  Cleanup!TypeOK'
    BY <2>3 DEF Cleanup!TimeOut, Cleanup!TypeOK
  <2>4. ASSUME NEW s \in Cleanup!Sessions, Cleanup!EndSession(s), UNCHANGED pool
        PROVE  Cleanup!TypeOK'
    BY <2>4, EndedType DEF Cleanup!EndSession, Cleanup!TypeOK, Cleanup!Reason
  <2>5. ASSUME NEW h \in Handlers,
        Cleanup!Call(h) \/ Cleanup!Acquire(h) \/ Cleanup!Release(h), UNCHANGED pool
        PROVE  Cleanup!TypeOK'
    BY <2>5 DEF Cleanup!Call, Cleanup!Acquire, Cleanup!Release, Cleanup!TypeOK
  <2>6. CASE UNCHANGED pool /\ (Cleanup!WakeUp \/ Cleanup!Expire \/ Cleanup!CloseCursor)
    <3>1. cursor' \in BOOLEAN /\ expired' \in BOOLEAN
      BY <2>6, Zenon DEF Cleanup!WakeUp, Cleanup!Expire, Cleanup!CloseCursor,
          Cleanup!TypeOK
    <3> QED
      BY <2>6, <3>1 DEF Cleanup!WakeUp, Cleanup!Expire, Cleanup!CloseCursor,
          Cleanup!TypeOK
  <2>7. CASE UNCHANGED pool /\ (Cleanup!ScanPending \/ Cleanup!PendingDone
        \/ Cleanup!QueryWeb)
    <3>1. cursor' \in BOOLEAN /\ expired' \in BOOLEAN
      BY <2>7, Zenon DEF Cleanup!ScanPending, Cleanup!PendingDone, Cleanup!QueryWeb,
          Cleanup!TypeOK
    <3> QED
      BY <2>7, <3>1 DEF Cleanup!ScanPending, Cleanup!PendingDone, Cleanup!QueryWeb,
          Cleanup!TypeOK, Cleanup!Sessions
  <2>8. ASSUME NEW s \in Rdp, Cleanup!FailPending(s), UNCHANGED pool
        PROVE  Cleanup!TypeOK'
    <3>1. s \in Cleanup!Sessions /\ "failed" \in Cleanup!Reason
      BY DEF Cleanup!Sessions, Cleanup!Reason
    <3> QED
      BY <2>8, <3>1, EndedType DEF Cleanup!FailPending, Cleanup!TypeOK
  <2>9. ASSUME NEW s \in Web, Cleanup!LookUp(s), UNCHANGED pool
        PROVE  Cleanup!TypeOK'
    <3>1. CASE Cleanup!Verdict(s) = ""
      BY <2>9, <3>1 DEF Cleanup!LookUp, Cleanup!TypeOK
    <3>2. CASE Cleanup!Verdict(s) # ""
      <4>1. s \in Cleanup!Sessions /\ Cleanup!Verdict(s) \in Cleanup!Reason
        BY <3>2 DEF Cleanup!Verdict, Cleanup!Sessions, Cleanup!Reason
      <4>2. found' = [id |-> s, reason |-> Cleanup!Verdict(s)] /\ cleaner' = "end"
        BY <2>9, <3>2, Zenon DEF Cleanup!LookUp
      <4>3. found' \in [id: Cleanup!Sessions, reason: Cleanup!Reason]
        BY <4>1, <4>2
      <4> QED
        BY <2>9, <4>2, <4>3 DEF Cleanup!LookUp, Cleanup!TypeOK
    <3> QED
      BY <3>1, <3>2
  <2>10. CASE Cleanup!EndWeb /\ UNCHANGED pool
    <3>1. found.id \in Cleanup!Sessions /\ found.reason \in Cleanup!Reason
      BY DEF Cleanup!TypeOK
    <3> QED
      BY <2>10, <3>1, EndedType DEF Cleanup!EndWeb, Cleanup!TypeOK
  <2>11. CASE UNCHANGED Cleanup!vars
    BY <2>11 DEF Cleanup!vars, Cleanup!moving, Cleanup!TypeOK
  <2> QED
    BY <2>1, <2>2, <2>3, <2>4, <2>5, <2>6, <2>7, <2>8, <2>9, <2>10, <2>11
       DEF Cleanup!Next, Cleanup!Environment, Cleanup!WorkerStep
<1> QED
  BY <1>1, <1>2, PTL DEF Cleanup!Spec

LEMMA OrphansStep ==
    ASSUME Cleanup!CleanupAssumption,
           Cleanup!TypeOK, Cleanup!TypeOK', Cleanup!OrphansInv,
               [Cleanup!Next]_Cleanup!vars
    PROVE  Cleanup!OrphansInv'
<1> USE DEF Cleanup!CleanupAssumption, Cleanup!OrphansInv, Cleanup!OrphansAreReal,
      Cleanup!sessions, Cleanup!worker
<1>1. ASSUME NEW s \in Web,
      Cleanup!StoreCredentials(s) \/ Cleanup!InsertWeb(s) \/ Cleanup!InsertWebFails(s)
                                \/ Cleanup!LoseSecret(s)
      PROVE  Cleanup!OrphansInv'
  BY <1>1 DEF Cleanup!StoreCredentials, Cleanup!InsertWeb, Cleanup!InsertWebFails,
      Cleanup!LoseSecret, Cleanup!Stored,
              Cleanup!TypeOK, Cleanup!Sessions
<1>2. ASSUME NEW s \in Rdp, Cleanup!InsertRdp(s) \/ Cleanup!Connect(s)
      PROVE  Cleanup!OrphansInv'
  BY <1>2 DEF Cleanup!InsertRdp, Cleanup!Connect, Cleanup!TypeOK, Cleanup!Sessions
<1>3. ASSUME NEW s \in Cleanup!Sessions, Cleanup!TimeOut(s) \/ Cleanup!EndSession(s)
      PROVE  Cleanup!OrphansInv'
  BY <1>3 DEF Cleanup!TimeOut, Cleanup!EndSession, Cleanup!Ended, Cleanup!TypeOK,
      Cleanup!Sessions
<1>4. ASSUME NEW h \in Handlers,
      Cleanup!Call(h) \/ Cleanup!Acquire(h) \/ Cleanup!Release(h)
      PROVE  Cleanup!OrphansInv'
  BY <1>4 DEF Cleanup!Call, Cleanup!Acquire, Cleanup!Release
<1>5. CASE Cleanup!WakeUp \/ Cleanup!ScanPending \/ Cleanup!PendingDone
      \/ Cleanup!Expire \/ Cleanup!CloseCursor
  BY <1>5 DEF Cleanup!WakeUp, Cleanup!ScanPending, Cleanup!PendingDone,
      Cleanup!Expire, Cleanup!CloseCursor
<1>6. CASE Cleanup!QueryWeb
  BY <1>6 DEF Cleanup!QueryWeb
<1>7. ASSUME NEW s \in Rdp, Cleanup!FailPending(s)
      PROVE  Cleanup!OrphansInv'
  BY <1>7 DEF Cleanup!FailPending, Cleanup!Ended, Cleanup!TypeOK, Cleanup!Sessions
<1>8. ASSUME NEW s \in Web, Cleanup!LookUp(s)
      PROVE  Cleanup!OrphansInv'
  <2>1. status[s] # "absent" /\ (status[s] = "active" /\ s \notin secret => s \in lost)
    BY <1>8 DEF Cleanup!LookUp
  <2>2. CASE Cleanup!Verdict(s) = ""
    BY <1>8, <2>2 DEF Cleanup!LookUp
  <2>3. CASE Cleanup!Verdict(s) # ""
    <3>1. found' = [id |-> s, reason |-> Cleanup!Verdict(s)] /\ cleaner' = "end"
      BY <1>8, <2>3, Zenon DEF Cleanup!LookUp
    <3>2. found'.id = s /\ (found'.reason = "orphaned" => s \notin secret)
      BY <3>1 DEF Cleanup!Verdict
    <3> QED
      BY <1>8, <2>1, <3>1, <3>2 DEF Cleanup!LookUp
  <2> QED
    BY <2>2, <2>3
<1>9. CASE Cleanup!EndWeb
  BY <1>9 DEF Cleanup!EndWeb, Cleanup!Ended, Cleanup!TypeOK, Cleanup!Sessions,
      Cleanup!Reason
<1>10. CASE UNCHANGED Cleanup!vars
  BY <1>10 DEF Cleanup!vars, Cleanup!moving
<1> QED
  BY <1>1, <1>2, <1>3, <1>4, <1>5, <1>6, <1>7, <1>8, <1>9, <1>10
     DEF Cleanup!Next, Cleanup!Environment, Cleanup!WorkerStep

\* No session is marked orphaned that has not lost its credentials, wherever
\* the worker meets launches, endings and its own deadline.
THEOREM OrphansReal ==
    ASSUME Cleanup!CleanupAssumption
    PROVE  Cleanup!Spec => []OrphansAreReal
<1>1. Cleanup!Init => Cleanup!OrphansInv
  BY DEF Cleanup!Init, Cleanup!OrphansInv, Cleanup!OrphansAreReal, Cleanup!Sessions
<1>2. Cleanup!TypeOK /\ Cleanup!TypeOK' /\ Cleanup!OrphansInv
      /\ [Cleanup!Next]_Cleanup!vars => Cleanup!OrphansInv'
  BY OrphansStep
<1>3. Cleanup!OrphansInv => OrphansAreReal
  BY DEF Cleanup!OrphansInv, Cleanup!OrphansAreReal, OrphansAreReal
<1> QED
  BY <1>1, <1>2, <1>3, CleanupTypeCorrect, PTL DEF Cleanup!Spec
=============================================================================
