------------------------------ MODULE MCLaunch ------------------------------
(* Small instances of Launch for TLC: launches that race over the old       *)
(* sessions of a web or database target, and one session with reconnects    *)
(* where there is a tunnel.                                                 *)
EXTENDS Launch

LaunchesPer == [p \in Protocols |-> CASE p = "web" -> 3 [] p = "db" -> 2 [] OTHER -> 1]
=============================================================================
