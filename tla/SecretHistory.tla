--------------------------- MODULE SecretHistory ---------------------------
(***************************************************************************)
(* What the secret store promises its clients, without transactions,       *)
(* statements or tables: a secret is an append-only sequence of versions,  *)
(* written one at a time, and a reveal reads its last one.                 *)
(***************************************************************************)
EXTENDS Sequences, Naturals

CONSTANTS
  Id,    \* ids of requests, secrets and versions
  None   \* no version

VARIABLES
  history,  \* the versions of each secret, oldest first; << >> if there is none
  closed,   \* the secrets that are soft-deleted
  spent,    \* the ids that have been given to a version
  picked    \* the version each reveal reads

vars == <<history, closed, spent, picked>>

Init ==
  /\ history = [s \in Id |-> << >>]
  /\ closed = {} /\ spent = {}
  /\ picked = [r \in Id |-> None]

Exists(s) == history[s] # << >>

\* The first version of a secret has the secret's own id.
Create(s) ==
  /\ s \notin spent /\ ~Exists(s)
  /\ history' = [history EXCEPT ![s] = <<s>>]
  /\ spent' = spent \cup {s}
  /\ UNCHANGED <<closed, picked>>

\* A rotation that races the deletion of the secret may still be appended.
Rotate(s, v) ==
  /\ v \notin spent /\ Exists(s)
  /\ history' = [history EXCEPT ![s] = Append(@, v)]
  /\ spent' = spent \cup {v}
  /\ UNCHANGED <<closed, picked>>

Delete(s) ==
  /\ Exists(s)
  /\ closed' = closed \cup {s}
  /\ UNCHANGED <<history, spent, picked>>

\* The secrets of an environment go together, with their versions.
Drop(S) ==
  /\ history' = [s \in Id |-> IF s \in S THEN << >> ELSE history[s]]
  /\ closed' = closed \ S
  /\ UNCHANGED <<spent, picked>>

Reveal(r, s) ==
  /\ picked[r] = None
  /\ Exists(s) /\ s \notin closed
  /\ picked' = [picked EXCEPT ![r] = history[s][Len(history[s])]]
  /\ UNCHANGED <<history, closed, spent>>

Next ==
  \/ \E s \in Id : Create(s) \/ Delete(s)
  \/ \E s, v \in Id : Rotate(s, v) \/ Reveal(v, s)
  \/ \E S \in SUBSET Id : Drop(S)

Spec == Init /\ [][Next]_vars
=============================================================================
