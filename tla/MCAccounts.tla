----------------------------- MODULE MCAccounts -----------------------------
(* Small instances of Accounts for TLC. *)
EXTENDS Accounts, TLC

CONSTANTS opsSafe,              \* a safe
          rootName, rootRef     \* an account name and its vault name

OneSafe == {opsSafe}
OneName == {rootName}
OneRef == {rootRef}
RootRef == [n \in OneName |-> rootRef]
HandlerSymmetry == Permutations(Handlers)
=============================================================================
