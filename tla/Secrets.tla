------------------------------ MODULE Secrets ------------------------------
(***************************************************************************)
(* The secret store of EnvVault: SecretService, the part of                *)
(* EnvironmentService that provisions and drops environments, and the      *)
(* PostgreSQL tables environments, encryption_keys, secrets,               *)
(* secret_versions and audit_logs they share.                              *)
(*                                                                         *)
(* Every HTTP request is one transaction of its own session under READ     *)
(* COMMITTED; requests interleave at every awaited statement.  A row is    *)
(* named after the request that inserts it (ids are fresh UUIDs), so the   *)
(* immutable columns of a row are fields of its creator's req record, and  *)
(* an uncommitted row is a request whose pc lies between its INSERT and    *)
(* its COMMIT.  The plaintext of a version is named by the version too:    *)
(* decryption with the key it was encrypted under yields it.               *)
(*                                                                         *)
(* The requests that require_org_role refuses change nothing here; they    *)
(* are the subject of module Membership.                                   *)
(***************************************************************************)
EXTENDS Naturals

CONSTANTS
  Request,      \* requests, and the ids of the rows they insert
  Name,         \* key names and environment names
  SeededEnvs,   \* requests that provisioned an environment before the start
  None          \* the absent id (SQL NULL)

ASSUME SeededAssumption == SeededEnvs \subseteq Request
ASSUME NoneAssumption == None \notin Request /\ None \notin Name

VARIABLES
  pc,        \* the next statement of each request, or how it ended
  req,       \* the operation, its arguments and what it read so far
  envs,      \* committed environments
  keys,      \* environments whose active encryption key row is committed
  secrets,   \* committed secrets, the soft-deleted ones included
  deleted,   \* committed secrets with is_deleted
  current,   \* committed current_version_id of each secret
  versions,  \* committed secret_versions
  audit,     \* committed reveal entries of audit_logs
  seen       \* history: the live versions of the target when a request began

vars == <<pc, req, envs, keys, secrets, deleted, current, versions, audit, seen>>
tables == <<envs, keys, secrets, deleted, current, versions, audit>>

Operation == {"mkenv", "rmenv", "create", "rotate", "reveal", "delete"}

Running == {"checkEnvName", "insertEnv", "commitEnv", "readEnv", "deleteEnv",
            "readSecret", "resolve", "checkName", "readKey", "insertSecret",
            "readLatest", "insertVersion", "commit", "readVersion", "decrypt",
            "record", "respond", "softDelete"}

\* How a request ends: a 2xx answer, a domain exception (404, 409), an
\* exception no handler maps (500), or a request cut off half-way.
Ended == {"ok", "notFound", "conflict", "noKey", "broken", "integrityError",
          "aborted"}

Untouched == [op |-> "none", env |-> None, name |-> None, secret |-> None,
              version |-> None, number |-> 0]

---------------------------------------------------------------------------
(* Rows.                                                                   *)

EnvOf(s) == req[s].env
SecretOf(v) == req[v].secret
NumberOf(v) == req[v].number
VersionsOf(s) == {v \in versions : SecretOf(v) = s}
LiveUnlessDropped(s) == s \in secrets   \* mutant: is_deleted is not filtered
Live(s) == s \in secrets \ deleted

\* Rows inserted by a transaction that has not ended yet.
UncommittedEnv(r) == pc[r] = "commitEnv"
UncommittedUntilAnswered(r) ==           \* mutant: no rollback after an abort
  pc[r] \in {"commit", "aborted"}
UncommittedVersion(r) == pc[r] = "commit"
UncommittedSecret(r) ==
  req[r].op = "create" /\ pc[r] \in {"insertVersion", "commit"}

\* The foreign keys of an uncommitted row keep a KEY SHARE lock on its
\* parents, which a DELETE of the environment or its cascade waits for.
PinsNothing(r, e) == FALSE               \* mutant: the foreign keys lock no parent
PinsEnv(r, e) ==
  req[r].env = e /\ (UncommittedSecret(r) \/ UncommittedVersion(r))

Goto(r, label) == pc' = [pc EXCEPT ![r] = label]
Set(r, field, x) == req' = [req EXCEPT ![r][field] = x]
Reads(r, label) == Goto(r, label) /\ UNCHANGED <<tables, seen>>

---------------------------------------------------------------------------
(* A request arrives.  The ids it may name are those the API handed out.   *)

Ids(op) == {x \in Request : pc[x] = "ok" /\ req[x].op = op}

Begin(r, job, label) ==
  /\ pc[r] = "idle"
  /\ req' = [req EXCEPT ![r] = job]
  /\ seen' = [seen EXCEPT ![r] =
       IF job.secret \in secrets \ deleted THEN VersionsOf(job.secret) ELSE {}]
  /\ Goto(r, label)
  /\ UNCHANGED tables

BeginMkEnv(r) ==
  \E n \in Name : Begin(r, [Untouched EXCEPT !.op = "mkenv", !.env = r,
                                             !.name = n], "checkEnvName")

BeginRmEnv(r) ==
  \E e \in Ids("mkenv") :
    Begin(r, [Untouched EXCEPT !.op = "rmenv", !.env = e], "readEnv")

BeginCreate(r) ==
  \E e \in Ids("mkenv"), n \in Name :
    Begin(r, [Untouched EXCEPT !.op = "create", !.env = e, !.name = n,
                               !.secret = r, !.number = 1], "resolve")

BeginOnSecret(r) ==
  \E s \in Ids("create"), op \in {"rotate", "reveal", "delete"} :
    Begin(r, [Untouched EXCEPT !.op = op, !.secret = s], "readSecret")

---------------------------------------------------------------------------
(* EnvironmentService.create                                               *)

\* get_by_project_and_name sees committed rows only.
CheckEnvName(r) ==
  /\ pc[r] = "checkEnvName"
  /\ IF \E e \in envs : req[e].name = req[r].name
       THEN Reads(r, "conflict")
       ELSE Reads(r, "insertEnv")
  /\ UNCHANGED req

\* flush(): the INSERT waits for an uncommitted row of the same name, and
\* fails on a committed one.  This flush is outside the try block.
InsertEnv(r) ==
  /\ pc[r] = "insertEnv"
  /\ \A q \in Request : UncommittedEnv(q) => req[q].name # req[r].name
  /\ IF \E e \in envs : req[e].name = req[r].name
       THEN Reads(r, "integrityError")
       ELSE Reads(r, "commitEnv")
  /\ UNCHANGED req

\* commit() flushes the key and commits both rows.
CommitEnv(r) ==
  /\ pc[r] = "commitEnv"
  /\ envs' = envs \cup {r}
  /\ keys' = keys \cup {r}
  /\ Goto(r, "ok")
  /\ UNCHANGED <<req, secrets, deleted, current, versions, audit, seen>>

---------------------------------------------------------------------------
(* EnvironmentService.delete                                               *)

ReadEnv(r) ==
  /\ pc[r] = "readEnv"
  /\ Reads(r, IF req[r].env \in envs THEN "deleteEnv" ELSE "notFound")
  /\ UNCHANGED req

\* The DELETE waits for every transaction that pins the environment, then
\* cascades.  Between the DELETE and its COMMIT others see the old rows and
\* cannot lock them, so both are one step.  secret_versions references
\* encryption_keys without a cascade: whether its check runs before the
\* versions are gone depends on the order PostgreSQL fires the triggers in,
\* so with versions present the DELETE may also fail.
DeleteEnv(r) ==
  LET e == req[r].env
      goneSecrets == {s \in secrets : EnvOf(s) = e}
      goneVersions == {v \in versions : SecretOf(v) \in goneSecrets}
  IN  /\ pc[r] = "deleteEnv"
      /\ \A q \in Request : ~PinsEnv(q, e)
      /\ \/ /\ envs' = envs \ {e}
            /\ keys' = keys \ {e}
            /\ secrets' = secrets \ goneSecrets
            /\ deleted' = deleted \ goneSecrets
            /\ versions' = versions \ goneVersions
            /\ Goto(r, "ok")
            /\ UNCHANGED <<req, current, audit, seen>>
         \/ /\ goneVersions # {}
            /\ Reads(r, "integrityError")
            /\ UNCHANGED req

---------------------------------------------------------------------------
(* SecretService: the reads its operations share                           *)

\* _get_owned_secret; the ORM object keeps the pointer read here.
ReadSecret(r) ==
  LET s == req[r].secret
  IN  /\ pc[r] = "readSecret"
      /\ \/ /\ Live(s)
            /\ req' = [req EXCEPT ![r].env = EnvOf(s), ![r].version = current[s]]
            /\ Reads(r, "resolve")
         \/ /\ ~Live(s)
            /\ Reads(r, "notFound")
            /\ UNCHANGED req

\* _resolve_environment_org; the statement that follows depends on the
\* operation.  A reveal of a secret without a version stops here.
AfterResolve(r) ==
  CASE req[r].op = "create" -> "checkName"
    [] req[r].op = "rotate" -> "readKey"
    [] req[r].op = "reveal" -> IF req[r].version = None THEN "broken"
                                                        ELSE "readVersion"
    [] OTHER -> "softDelete"

ResolveEnvironment(r) ==
  /\ pc[r] = "resolve"
  /\ Reads(r, IF req[r].env \in envs THEN AfterResolve(r) ELSE "notFound")
  /\ UNCHANGED req

\* get_active_for_environment
ReadKey(r) ==
  /\ pc[r] = "readKey"
  /\ Reads(r, IF req[r].env \notin keys THEN "noKey"
              ELSE IF req[r].op = "create" THEN "insertSecret" ELSE "readLatest")
  /\ UNCHANGED req

---------------------------------------------------------------------------
(* create_secret                                                           *)

SameKey(s, r) == req[s].env = req[r].env /\ req[s].name = req[r].name

\* get_by_environment_and_name ignores soft-deleted secrets.
CheckName(r) ==
  /\ pc[r] = "checkName"
  /\ Reads(r, IF \E s \in secrets \ deleted : SameKey(s, r)
                THEN "conflict" ELSE "readKey")
  /\ UNCHANGED req

\* mutant: uq_secret_key_per_env is missing
InsertSecretUnchecked(r) ==
  /\ pc[r] = "insertSecret"
  /\ Reads(r, IF req[r].env \in envs THEN "insertVersion" ELSE "integrityError")
  /\ UNCHANGED req

\* flush(): uq_secret_key_per_env counts soft-deleted secrets, and the
\* foreign key needs the environment.
InsertSecret(r) ==
  /\ pc[r] = "insertSecret"
  /\ \A q \in Request : UncommittedSecret(q) => ~SameKey(q, r)
  /\ Reads(r, IF req[r].env \in envs /\ ~\E s \in secrets : SameKey(s, r)
                THEN "insertVersion" ELSE "integrityError")
  /\ UNCHANGED req

---------------------------------------------------------------------------
(* add_new_version, and the insertion and commit it shares with            *)
(* create_secret                                                           *)

\* mutant: the versions are counted, and one too many
ReadCount(r) ==
  /\ pc[r] = "readLatest"
  /\ \E v \in VersionsOf(req[r].secret) : Set(r, "number", NumberOf(v) + 2)
  /\ Reads(r, "insertVersion")

\* get_latest_for_secret: ORDER BY version_number DESC LIMIT 1
ReadLatest(r) ==
  LET mine == VersionsOf(req[r].secret)
  IN  /\ pc[r] = "readLatest"
      /\ \/ \E latest \in mine :
              /\ \A v \in mine : NumberOf(v) <= NumberOf(latest)
              /\ Set(r, "number", NumberOf(latest) + 1)
         \/ mine = {} /\ Set(r, "number", 1)
      /\ Reads(r, "insertVersion")

\* mutant: uq_secret_version is missing
NeverSameNumber(v, r) == FALSE

SameNumber(v, r) ==
  SecretOf(v) = SecretOf(r) /\ NumberOf(v) = NumberOf(r)

\* flush(): uq_secret_version waits for an uncommitted twin and fails on a
\* committed one; the secret and the key must exist.
InsertVersion(r) ==
  /\ pc[r] = "insertVersion"
  /\ \A q \in Request : UncommittedVersion(q) => ~SameNumber(q, r)
  /\ Reads(r, IF /\ req[r].secret \in secrets \/ req[r].op = "create"
                 /\ req[r].env \in keys
                 /\ ~\E v \in versions : SameNumber(v, r)
                THEN "commit" ELSE "integrityError")
  /\ UNCHANGED req

\* mutant: current_version_id is set only when the secret is created
CommitVersionOnly(r) ==
  /\ pc[r] = "commit"
  /\ secrets' = IF req[r].op = "create" THEN secrets \cup {r} ELSE secrets
  /\ versions' = versions \cup {r}
  /\ current' = IF req[r].op = "create" THEN [current EXCEPT ![r] = r] ELSE current
  /\ Goto(r, "ok")
  /\ UNCHANGED <<req, envs, keys, deleted, audit, seen>>

\* commit() flushes the pointer and commits the rows inserted before it.  The
\* endpoint of a rotation then reads the secret once more for its answer, as
\* Respond does; that read is left out.
CommitVersion(r) ==
  /\ pc[r] = "commit"
  /\ secrets' = IF req[r].op = "create" THEN secrets \cup {r} ELSE secrets
  /\ versions' = versions \cup {r}
  /\ current' = [current EXCEPT ![req[r].secret] = r]
  /\ Goto(r, "ok")
  /\ UNCHANGED <<req, envs, keys, deleted, audit, seen>>

---------------------------------------------------------------------------
(* get_decrypted_value                                                     *)

ReadVersion(r) ==
  /\ pc[r] = "readVersion"
  /\ Reads(r, IF req[r].version \in versions THEN "decrypt" ELSE "broken")
  /\ UNCHANGED req

\* encryption_keys.get by the version's own encryption_key_id
Decrypt(r) ==
  /\ pc[r] = "decrypt"
  /\ Reads(r, IF req[req[r].version].env \in keys THEN "record" ELSE "noKey")
  /\ UNCHANGED req

Entry(r) == [by |-> r, secret |-> req[r].secret, version |-> req[r].version]

\* mutant: record() without the commit() before the return
RecordUncommitted(r) ==
  /\ pc[r] = "record"
  /\ Reads(r, "respond")
  /\ UNCHANGED req

\* audit_logs.record and commit()
RecordReveal(r) ==
  /\ pc[r] = "record"
  /\ audit' = audit \cup {Entry(r)}
  /\ Goto(r, "respond")
  /\ UNCHANGED <<req, envs, keys, secrets, deleted, current, versions, seen>>

\* The endpoint reads the secret again and asserts that it is there; only
\* then the plaintext of req[r].version leaves the server.
Respond(r) ==
  /\ pc[r] = "respond"
  /\ Reads(r, IF req[r].secret \in secrets THEN "ok" ELSE "broken")
  /\ UNCHANGED req

---------------------------------------------------------------------------
(* delete_secret: UPDATE ... SET is_deleted and commit().  No row, no       *)
(* change: the answer is the same.                                         *)

\* mutant: the flag of a row that is gone is set too
SoftDeleteBlindly(r) ==
  /\ pc[r] = "softDelete"
  /\ deleted' = deleted \cup {req[r].secret}
  /\ Goto(r, "ok")
  /\ UNCHANGED <<req, envs, keys, secrets, current, versions, audit, seen>>

\* mutant: the versions are deleted with the secret
HardDelete(r) ==
  /\ pc[r] = "softDelete"
  /\ deleted' = deleted \cup ({req[r].secret} \cap secrets)
  /\ versions' = versions \ VersionsOf(req[r].secret)
  /\ Goto(r, "ok")
  /\ UNCHANGED <<req, envs, keys, secrets, current, audit, seen>>

SoftDelete(r) ==
  /\ pc[r] = "softDelete"
  /\ deleted' = deleted \cup ({req[r].secret} \cap secrets)
  /\ Goto(r, "ok")
  /\ UNCHANGED <<req, envs, keys, secrets, current, versions, audit, seen>>

---------------------------------------------------------------------------
\* The client disconnects or the worker dies: the session is closed without
\* a commit and PostgreSQL rolls the open transaction back.
Abort(r) ==
  /\ pc[r] \in Running
  /\ Reads(r, "aborted")
  /\ UNCHANGED req

Init ==
  /\ pc = [r \in Request |-> IF r \in SeededEnvs THEN "ok" ELSE "idle"]
  /\ \E name \in [SeededEnvs -> Name] :
       /\ \A d, e \in SeededEnvs : name[d] = name[e] => d = e
       /\ req = [r \in Request |->
                  IF r \in SeededEnvs
                    THEN [Untouched EXCEPT !.op = "mkenv", !.env = r, !.name = name[r]]
                    ELSE Untouched]
  /\ envs = SeededEnvs
  /\ keys = SeededEnvs
  /\ secrets = {} /\ deleted = {} /\ versions = {} /\ audit = {}
  /\ current = [r \in Request |-> None]
  /\ seen = [r \in Request |-> {}]

Arrive(r) ==
  BeginMkEnv(r) \/ BeginRmEnv(r) \/ BeginCreate(r) \/ BeginOnSecret(r)

Step(r) ==
  \/ CheckEnvName(r) \/ InsertEnv(r) \/ CommitEnv(r)
  \/ ReadEnv(r) \/ DeleteEnv(r)
  \/ ReadSecret(r) \/ ResolveEnvironment(r) \/ ReadKey(r)
  \/ CheckName(r) \/ InsertSecret(r)
  \/ ReadLatest(r) \/ InsertVersion(r) \/ CommitVersion(r)
  \/ ReadVersion(r) \/ Decrypt(r) \/ RecordReveal(r) \/ Respond(r)
  \/ SoftDelete(r)

Next == \E r \in Request : Arrive(r) \/ Step(r) \/ Abort(r)

\* The event loop keeps scheduling a request whose statement can run, and
\* PostgreSQL wakes a statement when the transaction it waits for has ended.
Fairness == \A r \in Request : WF_vars(Step(r))

Spec == Init /\ [][Next]_vars
FairSpec == Spec /\ Fairness

---------------------------------------------------------------------------
(* Properties.                                                             *)

Job == [op : Operation \cup {"none"}, env : Request \cup {None},
        name : Name \cup {None}, secret : Request \cup {None},
        version : Request \cup {None}, number : Nat]

\* Type invariant.  A soft-deleted secret is still a row of secrets: the
\* UPDATE of delete_secret marks rows and never makes one.
TypeOK ==
  /\ pc \in [Request -> Running \cup Ended \cup {"idle"}]
  /\ req \in [Request -> Job]
  /\ envs \subseteq Request /\ keys \subseteq Request
  /\ secrets \subseteq Request /\ deleted \subseteq secrets
  /\ current \in [Request -> Request \cup {None}]
  /\ versions \subseteq Request
  /\ audit \subseteq [by : Request, secret : Request \cup {None},
                       version : Request \cup {None}]
  /\ seen \in [Request -> SUBSET Request]

\* Whatever rotations, deletions and drops interleave, the version numbers of
\* a committed secret are distinct, have no gap, and its pointer names the
\* highest of them (add_new_version reads the latest number long before it
\* inserts, and moves the pointer without a condition).
VersionChain ==
  \A s \in secrets :
    /\ current[s] \in VersionsOf(s)
    /\ \A v \in VersionsOf(s) :
         /\ NumberOf(v) <= NumberOf(current[s])
         /\ NumberOf(v) = 1 \/ \E w \in VersionsOf(s) : NumberOf(w) + 1 = NumberOf(v)
         /\ \A w \in VersionsOf(s) : NumberOf(v) = NumberOf(w) => v = w

\* No two committed secrets share an environment and a key name, however the
\* checks of concurrent create_secret calls interleave with their inserts.
OneSecretPerName ==
  \A s, t \in secrets : SameKey(s, t) => s = t

\* Every committed version can be decrypted: its secret, its environment and
\* the key it was encrypted under are there, even while the environment is
\* being dropped by another transaction.
EveryVersionDecryptable ==
  /\ keys = envs
  /\ \A v \in versions :
       /\ SecretOf(v) \in secrets
       /\ EnvOf(v) = EnvOf(SecretOf(v))
       /\ EnvOf(v) \in keys

\* A reveal returns a version of the secret it names, and never one older
\* than a version committed before the reveal began.
RevealFresh ==
  \A r \in Request : pc[r] = "ok" /\ req[r].op = "reveal" =>
    /\ SecretOf(req[r].version) = req[r].secret
    /\ \A v \in seen[r] : NumberOf(v) <= NumberOf(req[r].version)

\* A request that begins after a secret was deleted, or dropped with its
\* environment, neither reveals it nor rotates it nor deletes it again.
DeleteIsFinal ==
  \A r \in Request :
    pc[r] = "ok" /\ req[r].op \in {"rotate", "reveal", "delete"} => seen[r] # {}

\* A plaintext leaves the server only after the audit entry that names the
\* secret and the very version is committed, also when the environment is
\* dropped or the worker dies in between.
RevealAudited ==
  \A r \in Request : pc[r] = "ok" /\ req[r].op = "reveal" => Entry(r) \in audit

\* A committed version disappears only in the step that drops its
\* environment: rotation and deletion keep the whole history.  What audit_logs
\* says of its reveals stays even then.
HistoryKept ==
  [][/\ \A v \in versions \ versions' : EnvOf(v) \in envs \ envs'
     /\ audit \subseteq audit']_vars

\* Every request that arrived is answered: no wait for another transaction
\* (unique key, foreign key, cascade) lasts for ever.
EveryRequestEnds ==
  \A r \in Request : pc[r] # "idle" ~> pc[r] \in Ended

\* What create_secret's uniqueness check promises: a key name is taken only by
\* an active secret.  So a create that ends in an unhandled IntegrityError lost
\* a race against one, or its environment is gone.
NameTakenOnlyByLiveSecret ==
  \A r \in Request :
    pc[r] = "integrityError" /\ req[r].op = "create" =>
      \/ req[r].env \notin envs
      \/ \E s \in secrets \ deleted : SameKey(s, r)
=============================================================================
