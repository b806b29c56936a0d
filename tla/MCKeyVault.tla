----------------------------- MODULE MCKeyVault -----------------------------
(***************************************************************************)
(* Small instances for TLC of what guards the secrets: the master key and  *)
(* the lock directories around the clients' credential stores.  The two    *)
(* share no state in these models: one runs while the other rests.         *)
(***************************************************************************)
EXTENDS KeyVault, NativeLocks

CONSTANTS provider, account

VARIABLE part  \* the one that runs

TwoSecrets == {provider, account}
OneSecret == {provider}

Bounds(c, f, l) == [crash |-> c, fail |-> f, lose |-> l]
VaultBudget == Bounds(1, 2, 1)
MarkBudget == Bounds(0, 1, 0)

TwoPaths == <<"oauth_refresh", "storage_write">>

guardVars == <<vars, lockVars, part>>

GuardsInit == part \in {"keys", "locks"} /\ Init /\ LocksInit

GuardsNext ==
  \/ part = "keys" /\ Next /\ UNCHANGED <<lockVars, part>>
  \/ part = "locks" /\ LocksNext /\ UNCHANGED <<vars, part>>

GuardsSpec == GuardsInit /\ [][GuardsNext]_guardVars
=============================================================================
