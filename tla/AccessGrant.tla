----------------------------- MODULE AccessGrant -----------------------------
(***************************************************************************)
(* What the access workflow promises, request by request: a request is     *)
(* filed once, may be granted while it is open, may be closed once and     *)
(* stays closed.  Its deadline moves only while it is granted, and sudo is *)
(* a matter of requests that have been granted.  The module Approval       *)
(* implements this specification.                                          *)
(***************************************************************************)
EXTENDS Integers

CONSTANTS Requests, Holders

VARIABLE grant

State == {"unused", "open", "granted", "closed", "erased"}

Grant == [state: State, holder: Holders, ends: Nat, sudo: BOOLEAN]

\* File: the request starts without sudo and without a deadline.
Filed(a, b) ==
    /\ a.state = "unused"
    /\ b.state = "open" /\ b.ends = 0 /\ ~b.sudo

\* Grant: only an open request; its holder does not change.
Granted(a, b) ==
    /\ a.state = "open"
    /\ b.state = "granted" /\ b.holder = a.holder

\* Renew: only a granted request; nothing but the deadline changes.
Renewed(a, b) ==
    /\ a.state = "granted"
    /\ b = [a EXCEPT !.ends = b.ends]

\* Deny an open request or revoke a granted one.
Closed(a, b) ==
    /\ a.state \in {"open", "granted"}
    /\ b = [a EXCEPT !.state = "closed", !.ends = 0]

\* Turn sudo on or off: never on a request that was not granted.
SudoSet(a, b) ==
    /\ a.state \in {"granted", "closed"}
    /\ b = [a EXCEPT !.sudo = b.sudo]

\* Remove the request with its holder or its target.
Erased(a, b) ==
    /\ a.state # "unused"
    /\ b.state = "erased" /\ b.ends = 0 /\ ~b.sudo

Move(a, b) ==
    \/ Filed(a, b)
    \/ Granted(a, b)
    \/ Renewed(a, b)
    \/ Closed(a, b)
    \/ SudoSet(a, b)
    \/ Erased(a, b)

Init ==
    /\ grant \in [Requests -> Grant]
    /\ \A r \in Requests :
           grant[r].state = "unused" /\ grant[r].ends = 0 /\ ~grant[r].sudo

\* A step moves some of the requests, each along its life.
Next ==
    /\ grant' \in [Requests -> Grant]
    /\ \A r \in Requests : grant'[r] = grant[r] \/ Move(grant[r], grant'[r])

Spec == Init /\ [][Next]_grant
=============================================================================
