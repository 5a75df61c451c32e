------------------------- MODULE SecretsRefinement -------------------------
(***************************************************************************)
(* The transactions of Secrets implement SecretHistory: writes take effect *)
(* at their COMMIT, reveals at the statement that reads the pointer.       *)
(***************************************************************************)
EXTENDS Secrets, Sequences

\* The versions of a secret that bear a number: uq_secret_version allows one.
Numbered(s, n) == {v \in VersionsOf(s) : NumberOf(v) = n}
Nth(s, n) == CHOOSE v \in Numbered(s, n) : TRUE

\* The versions of a committed secret in the order of their numbers.
History(s) ==
  IF s \in secrets
    THEN [n \in 1..NumberOf(current[s]) |-> Nth(s, n)]
    ELSE << >>

Histories == [s \in Request |-> History(s)]
Spent == {r \in Request : pc[r] = "ok" /\ req[r].op \in {"create", "rotate"}}
Picked == [r \in Request |-> IF req[r].op = "reveal" THEN req[r].version ELSE None]

Abstract == INSTANCE SecretHistory WITH
  Id <- Request, history <- Histories, closed <- deleted, spent <- Spent, picked <- Picked

\* Every behaviour of the concurrent store is one of the append-only store:
\* a rotation adds exactly one version at the end, nothing is renumbered or
\* lost, a reveal reads the last version of a secret not deleted by then.
ImplementsHistory == Abstract!Spec
=============================================================================
