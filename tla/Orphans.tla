------------------------------ MODULE Orphans ------------------------------
(***************************************************************************)
(* What the clean-up worker of audit-service promises of the sessions it   *)
(* calls orphaned: the part of the state of SessionCleanup the promise     *)
(* speaks of, and the promise itself.                                      *)
(***************************************************************************)
CONSTANT Web    \* web console sessions

VARIABLES
    status,     \* the sessions row: absent, active, or its ended_reason
    lost        \* web sessions whose credentials were deleted by hand

\* A session the worker calls orphaned did lose its credentials: a launch that
\* is half-way through is never mistaken for one.
OrphansAreReal == \A s \in Web : status[s] = "orphaned" => s \in lost

=============================================================================
