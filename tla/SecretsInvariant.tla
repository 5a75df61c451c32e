-------------------------- MODULE SecretsInvariant -------------------------
(***************************************************************************)
(* The inductive strengthening of the safety invariants of Secrets: what   *)
(* the requests in flight keep true while they hold what they have read.   *)
(***************************************************************************)
EXTENDS Secrets

\* Who may be at which statement, and what its arguments stand for.
JobsWellFormed ==
  \A r \in Request :
    /\ pc[r] = "idle" => req[r] = Untouched
    /\ req[r].op = "mkenv" => req[r].env = r
    /\ req[r].op = "create" => req[r].secret = r /\ req[r].number = 1
    /\ req[r].op \in {"rotate", "reveal", "delete"} =>
         /\ pc[req[r].secret] = "ok" /\ req[r].secret \in Request
         /\ req[req[r].secret].op = "create"
    /\ req[r].op = "rotate" /\ pc[r] \in {"resolve", "readKey", "readLatest",
                                          "insertVersion", "commit"} =>
         req[r].env = EnvOf(req[r].secret)
    /\ req[r].op = "rotate" /\ pc[r] \in {"insertVersion", "commit"} =>
         req[r].number > 0
    /\ pc[r] \in {"checkEnvName", "insertEnv", "commitEnv"} => req[r].op = "mkenv"
    /\ pc[r] = "resolve" => req[r].op \in {"create", "rotate", "reveal", "delete"}
    /\ pc[r] \in {"checkName", "insertSecret"} => req[r].op = "create"
    /\ pc[r] = "readLatest" => req[r].op = "rotate"
    /\ pc[r] \in {"readKey", "insertVersion", "commit"} =>
         req[r].op \in {"create", "rotate"}
    /\ pc[r] = "readSecret" => req[r].op \in {"rotate", "reveal", "delete"}
    /\ pc[r] \in {"readVersion", "decrypt", "record", "respond"} =>
         req[r].op = "reveal" /\ req[r].version \in Request
    /\ pc[r] \in {"readEnv", "deleteEnv"} => req[r].op = "rmenv"
    /\ pc[r] = "softDelete" => req[r].op = "delete"

\* A committed row was inserted by a request that ended well.
RowsCommitted ==
  /\ \A e \in envs : pc[e] = "ok" /\ req[e].op = "mkenv"
  /\ \A s \in secrets : pc[s] = "ok" /\ req[s].op = "create" /\ EnvOf(s) \in envs
  /\ \A v \in versions : pc[v] = "ok" /\ req[v].op \in {"create", "rotate"}

\* The locks of uncommitted rows keep their parents and their unique keys.
PinsHold ==
  /\ \A r \in Request : UncommittedSecret(r) =>
       /\ req[r].env \in envs
       /\ \A s \in secrets : ~SameKey(s, r)
       /\ \A q \in Request : UncommittedSecret(q) /\ SameKey(q, r) => q = r
  /\ \A r \in Request : UncommittedVersion(r) =>
       /\ req[r].op = "rotate" => req[r].secret \in secrets
       /\ \A q \in Request : UncommittedVersion(q) /\ SameNumber(q, r) => q = r

Follows(n, s) == n = 1 \/ \E v \in VersionsOf(s) : NumberOf(v) + 1 = n
Tops(n, s) == \A v \in VersionsOf(s) : NumberOf(v) < n

\* The number a rotation has chosen is the next free one, or is taken by now.
NumbersChosen ==
  \A r \in Request :
    /\ pc[r] = "insertVersion" /\ req[r].op = "rotate" /\ req[r].secret \in secrets =>
         /\ Follows(req[r].number, req[r].secret)
         /\ \/ Tops(req[r].number, req[r].secret)
            \/ \E v \in VersionsOf(req[r].secret) : NumberOf(v) = req[r].number
    /\ UncommittedVersion(r) =>
         /\ Follows(req[r].number, req[r].secret)
         /\ Tops(req[r].number, req[r].secret)

\* What a reveal holds is at least as new as what was committed when it began.
RevealsKeepUp ==
  \A r \in Request : req[r].op = "reveal" =>
    /\ pc[r] = "readSecret" =>
         \A v \in seen[r] : SecretOf(v) = req[r].secret /\
                            (req[r].secret \in secrets => v \in versions)
    /\ pc[r] \in {"resolve", "readVersion", "decrypt", "record", "respond", "ok"} =>
         /\ req[r].version \in Request /\ SecretOf(req[r].version) = req[r].secret
         /\ pc[req[r].version] = "ok"
         /\ \A v \in seen[r] : NumberOf(v) <= NumberOf(req[r].version)
    /\ \A v \in seen[r] : v \in Request /\ pc[v] = "ok"
    /\ pc[r] \in {"respond", "ok"} => Entry(r) \in audit

StoreInv ==
  /\ TypeOK /\ JobsWellFormed /\ RowsCommitted /\ PinsHold /\ NumbersChosen
  /\ RevealsKeepUp
  /\ VersionChain /\ OneSecretPerName /\ EveryVersionDecryptable
=============================================================================
