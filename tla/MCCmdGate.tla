----------------------------- MODULE MCCmdGate -----------------------------
(* Small instances of CmdGate for TLC.                                     *)
EXTENDS CmdGate

MCWords == {"en", "exit", "rel", "sudo", "S"}
\* What can be on a line: the keys of one behaviour, a password prompt, a pattern.
MCLines == UNION {[1 .. n -> MCWords] : n \in 0 .. 4}
           \cup {<<"password:">>, <<"[sudo]">>, <<"reload">>}
MCDeny == {<<"reload">>}
=============================================================================
