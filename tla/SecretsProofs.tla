--------------------------- MODULE SecretsProofs ---------------------------
(***************************************************************************)
(* StoreInv is an inductive invariant of Secrets, and with it the safety   *)
(* invariants of the secret store hold for any number of requests, names   *)
(* and environments.                                                       *)
(***************************************************************************)
EXTENDS SecretsInvariant, TLAPS

USE DEF tables, Reads, Goto

---------------------------------------------------------------------------
(* Type correctness.                                                       *)

LEMMA InitTypeOK == Init => TypeOK
<1> SUFFICES ASSUME Init PROVE TypeOK
  OBVIOUS
<1> USE SeededAssumption DEF Init
<1>1. pc \in [Request -> Running \cup Ended \cup {"idle"}]
  BY DEF Ended
<1>2. req \in [Request -> Job]
  <2>1. PICK name \in [SeededEnvs -> Name] :
          req = [r \in Request |->
                  IF r \in SeededEnvs
                    THEN [Untouched EXCEPT !.op = "mkenv", !.env = r, !.name = name[r]]
                    ELSE Untouched]
    OBVIOUS
  <2>2. Untouched \in Job
    BY DEF Untouched, Job
  <2>3. \A r \in SeededEnvs :
          [Untouched EXCEPT !.op = "mkenv", !.env = r, !.name = name[r]] \in Job
    BY DEF Untouched, Job, Operation
  <2> QED  BY <2>1, <2>2, <2>3
<1> QED  BY <1>1, <1>2 DEF TypeOK


\* A request that arrives keeps the types.
LEMMA BeginTypeOK ==
  ASSUME TypeOK, NEW r \in Request, NEW job \in Job, NEW label \in Running,
         Begin(r, job, label)
  PROVE  TypeOK'
BY DEF Begin, TypeOK, VersionsOf

LEMMA ArriveTypeOK ==
  ASSUME TypeOK, NEW r \in Request, Arrive(r)
  PROVE  TypeOK'
<1> USE DEF Job, Untouched, Operation, Ids, Running
<1>1. CASE BeginMkEnv(r)
  BY <1>1, BeginTypeOK DEF BeginMkEnv
<1>2. CASE BeginRmEnv(r)
  BY <1>2, BeginTypeOK DEF BeginRmEnv
<1>3. CASE BeginCreate(r)
  BY <1>3, BeginTypeOK DEF BeginCreate
<1>4. CASE BeginOnSecret(r)
  BY <1>4, BeginTypeOK DEF BeginOnSecret
<1> QED  BY <1>1, <1>2, <1>3, <1>4 DEF Arrive

\* So does each statement.
LEMMA StepTypeOK ==
  ASSUME TypeOK, NEW r \in Request, Step(r)
  PROVE  TypeOK'
<1> USE DEF TypeOK, Running, Ended
<1>1. CASE CheckEnvName(r)
  BY <1>1 DEF CheckEnvName
<1>2. CASE InsertEnv(r)
  BY <1>2 DEF InsertEnv
<1>3. CASE CommitEnv(r)
  BY <1>3 DEF CommitEnv
<1>4. CASE ReadEnv(r)
  BY <1>4 DEF ReadEnv
<1>5. CASE DeleteEnv(r)
  BY <1>5 DEF DeleteEnv, EnvOf
<1>6. CASE ReadSecret(r)
  BY <1>6 DEF ReadSecret, Job, EnvOf, Live
<1>7. CASE ResolveEnvironment(r)
  BY <1>7 DEF ResolveEnvironment, AfterResolve
<1>8. CASE ReadKey(r)
  BY <1>8 DEF ReadKey
<1>9. CASE CheckName(r)
  BY <1>9 DEF CheckName
<1>10. CASE InsertSecret(r)
  BY <1>10 DEF InsertSecret
<1>11. CASE ReadLatest(r)
  <2>1. PICK n \in Nat : Set(r, "number", n)
    <3>1. \A v \in VersionsOf(req[r].secret) : NumberOf(v) + 1 \in Nat
      BY DEF Job, VersionsOf, NumberOf
    <3> QED  BY <1>11, <3>1 DEF ReadLatest
  <2> QED  BY <1>11, <2>1 DEF ReadLatest, Set, Job
<1>12. CASE InsertVersion(r)
  BY <1>12 DEF InsertVersion
<1>13. CASE CommitVersion(r)
  BY <1>13 DEF CommitVersion, Job
<1>14. CASE ReadVersion(r)
  BY <1>14 DEF ReadVersion
<1>15. CASE Decrypt(r)
  BY <1>15 DEF Decrypt
<1>16. CASE RecordReveal(r)
  BY <1>16 DEF RecordReveal, Entry, Job
<1>17. CASE Respond(r)
  BY <1>17 DEF Respond
<1>18. CASE SoftDelete(r)
  BY <1>18 DEF SoftDelete, Job
<1> QED
  BY <1>1, <1>2, <1>3, <1>4, <1>5, <1>6, <1>7, <1>8, <1>9, <1>10, <1>11, <1>12, <1>13,
     <1>14, <1>15, <1>16, <1>17, <1>18 DEF Step

LEMMA NextTypeOK == TypeOK /\ [Next]_vars => TypeOK'
<1> SUFFICES ASSUME TypeOK, [Next]_vars PROVE TypeOK'
  OBVIOUS
<1>1. CASE UNCHANGED vars
  BY <1>1 DEF vars, TypeOK
<1>2. ASSUME NEW r \in Request, Abort(r) PROVE TypeOK'
  BY <1>2 DEF Abort, TypeOK, Running, Ended
<1> QED  BY <1>1, <1>2, ArriveTypeOK, StepTypeOK DEF Next

\* Every row, pointer and request record has its type in every reachable state.
THEOREM TypeCorrect == Spec => []TypeOK
BY InitTypeOK, NextTypeOK, PTL DEF Spec

---------------------------------------------------------------------------
(* The parts of StoreInv that speak of committed rows only.                *)

Committed ==
  RowsCommitted /\ VersionChain /\ OneSecretPerName /\ EveryVersionDecryptable

\* They hold as long as the tables and the requests that ended well stay.
LEMMA TablesKept ==
  ASSUME StoreInv, UNCHANGED <<envs, keys, secrets, current, versions>>,
         \A x \in Request : pc[x] = "ok" => pc'[x] = "ok" /\ req'[x] = req[x]
  PROVE  Committed'
<1> USE DEF StoreInv, TypeOK, RowsCommitted
<1>1. RowsCommitted'
  BY DEF EnvOf
<1>2. \A s \in secrets : req'[s] = req[s]
  OBVIOUS
<1>3. \A v \in versions : req'[v] = req[v]
  OBVIOUS
<1>4. \A s : VersionsOf(s)' = VersionsOf(s)
  BY <1>3 DEF VersionsOf, SecretOf
<1>5. \A s : \A v \in VersionsOf(s) : NumberOf(v)' = NumberOf(v)
  BY <1>3 DEF VersionsOf, NumberOf
<1>6. VersionChain'
  BY <1>4, <1>5 DEF VersionChain
<1>7. OneSecretPerName'
  BY <1>2 DEF OneSecretPerName, SameKey
<1>8. EveryVersionDecryptable'
  BY <1>2, <1>3 DEF EveryVersionDecryptable, EnvOf, SecretOf
<1> QED  BY <1>1, <1>6, <1>7, <1>8 DEF Committed

LEMMA CheckEnvNameInv ==
  ASSUME StoreInv, NEW r \in Request, CheckEnvName(r)
  PROVE  StoreInv'
<1> USE DEF StoreInv, CheckEnvName
<1>1. Committed'
  BY TablesKept DEF TypeOK
<1>2. JobsWellFormed'
  BY DEF TypeOK, JobsWellFormed, EnvOf, Running
<1>3. PinsHold'
  BY DEF TypeOK, JobsWellFormed, PinsHold, UncommittedSecret, UncommittedVersion,
     SameKey, SameNumber, SecretOf, NumberOf
<1>4. NumbersChosen'
  BY DEF TypeOK, JobsWellFormed, NumbersChosen, UncommittedVersion, Follows, Tops,
     VersionsOf, NumberOf, SecretOf, RowsCommitted
<1>5. RevealsKeepUp'
  BY DEF TypeOK, JobsWellFormed, RevealsKeepUp, SecretOf, NumberOf, Entry, RowsCommitted
<1> QED  BY <1>1, <1>2, <1>3, <1>4, <1>5, StepTypeOK DEF Committed, Step

LEMMA InsertEnvInv ==
  ASSUME StoreInv, NEW r \in Request, InsertEnv(r)
  PROVE  StoreInv'
<1> USE DEF StoreInv, InsertEnv
<1>1. Committed'
  BY TablesKept DEF TypeOK
<1>2. JobsWellFormed'
  BY DEF TypeOK, JobsWellFormed, EnvOf, Running
<1>3. PinsHold'
  BY DEF TypeOK, JobsWellFormed, PinsHold, UncommittedSecret, UncommittedVersion,
     SameKey, SameNumber, SecretOf, NumberOf
<1>4. NumbersChosen'
  BY DEF TypeOK, JobsWellFormed, NumbersChosen, UncommittedVersion, Follows, Tops,
     VersionsOf, NumberOf, SecretOf, RowsCommitted
<1>5. RevealsKeepUp'
  BY DEF TypeOK, JobsWellFormed, RevealsKeepUp, SecretOf, NumberOf, Entry, RowsCommitted
<1> QED  BY <1>1, <1>2, <1>3, <1>4, <1>5, StepTypeOK DEF Committed, Step

LEMMA ReadEnvInv ==
  ASSUME StoreInv, NEW r \in Request, ReadEnv(r)
  PROVE  StoreInv'
<1> USE DEF StoreInv, ReadEnv
<1>1. Committed'
  BY TablesKept DEF TypeOK
<1>2. JobsWellFormed'
  BY DEF TypeOK, JobsWellFormed, EnvOf, Running
<1>3. PinsHold'
  BY DEF TypeOK, JobsWellFormed, PinsHold, UncommittedSecret, UncommittedVersion,
     SameKey, SameNumber, SecretOf, NumberOf
<1>4. NumbersChosen'
  BY DEF TypeOK, JobsWellFormed, NumbersChosen, UncommittedVersion, Follows, Tops,
     VersionsOf, NumberOf, SecretOf, RowsCommitted
<1>5. RevealsKeepUp'
  BY DEF TypeOK, JobsWellFormed, RevealsKeepUp, SecretOf, NumberOf, Entry, RowsCommitted
<1> QED  BY <1>1, <1>2, <1>3, <1>4, <1>5, StepTypeOK DEF Committed, Step

LEMMA ResolveEnvironmentInv ==
  ASSUME StoreInv, NEW r \in Request, ResolveEnvironment(r)
  PROVE  StoreInv'
<1> USE DEF StoreInv, ResolveEnvironment, AfterResolve
<1>1. Committed'
  BY TablesKept DEF TypeOK
<1>2. JobsWellFormed'
  <2>1. req[r].version \in Request \cup {None}
    BY DEF TypeOK, Job
  <2>2. req[r].op \in {"create", "rotate", "reveal", "delete"}
    BY DEF JobsWellFormed
  <2>3. \/ req[r].op = "create" /\ pc'[r] \in {"checkName", "notFound"}
        \/ req[r].op = "rotate" /\ pc'[r] \in {"readKey", "notFound"}
        \/ req[r].op = "reveal" /\ pc'[r] \in {"broken", "notFound"}
        \/ /\ req[r].op = "reveal" /\ pc'[r] = "readVersion"
           /\ req[r].version \in Request
        \/ req[r].op = "delete" /\ pc'[r] \in {"softDelete", "notFound"}
    BY <2>1, <2>2 DEF TypeOK
  <2>4. pc[r] = "resolve" /\ \A x \in Request \ {r} : pc'[x] = pc[x]
    BY DEF TypeOK
  <2> QED  BY <2>3, <2>4 DEF TypeOK, JobsWellFormed, EnvOf
<1>3. PinsHold'
  BY DEF TypeOK, JobsWellFormed, PinsHold, UncommittedSecret, UncommittedVersion,
     SameKey, SameNumber, SecretOf, NumberOf
<1>4. NumbersChosen'
  BY DEF TypeOK, JobsWellFormed, NumbersChosen, UncommittedVersion, Follows, Tops,
     VersionsOf, NumberOf, SecretOf, RowsCommitted
<1>5. RevealsKeepUp'
  BY DEF TypeOK, JobsWellFormed, RevealsKeepUp, SecretOf, NumberOf, Entry, RowsCommitted
<1> QED  BY <1>1, <1>2, <1>3, <1>4, <1>5, StepTypeOK DEF Committed, Step

LEMMA ReadKeyInv ==
  ASSUME StoreInv, NEW r \in Request, ReadKey(r)
  PROVE  StoreInv'
<1> USE DEF StoreInv, ReadKey
<1>1. Committed'
  BY TablesKept DEF TypeOK
<1>2. JobsWellFormed'
  BY DEF TypeOK, JobsWellFormed, EnvOf, Running
<1>3. PinsHold'
  BY DEF TypeOK, JobsWellFormed, PinsHold, UncommittedSecret, UncommittedVersion,
     SameKey, SameNumber, SecretOf, NumberOf
<1>4. NumbersChosen'
  BY DEF TypeOK, JobsWellFormed, NumbersChosen, UncommittedVersion, Follows, Tops,
     VersionsOf, NumberOf, SecretOf, RowsCommitted
<1>5. RevealsKeepUp'
  BY DEF TypeOK, JobsWellFormed, RevealsKeepUp, SecretOf, NumberOf, Entry, RowsCommitted
<1> QED  BY <1>1, <1>2, <1>3, <1>4, <1>5, StepTypeOK DEF Committed, Step

LEMMA CheckNameInv ==
  ASSUME StoreInv, NEW r \in Request, CheckName(r)
  PROVE  StoreInv'
<1> USE DEF StoreInv, CheckName
<1>1. Committed'
  BY TablesKept DEF TypeOK
<1>2. JobsWellFormed'
  BY DEF TypeOK, JobsWellFormed, EnvOf, Running
<1>3. PinsHold'
  BY DEF TypeOK, JobsWellFormed, PinsHold, UncommittedSecret, UncommittedVersion,
     SameKey, SameNumber, SecretOf, NumberOf
<1>4. NumbersChosen'
  BY DEF TypeOK, JobsWellFormed, NumbersChosen, UncommittedVersion, Follows, Tops,
     VersionsOf, NumberOf, SecretOf, RowsCommitted
<1>5. RevealsKeepUp'
  BY DEF TypeOK, JobsWellFormed, RevealsKeepUp, SecretOf, NumberOf, Entry, RowsCommitted
<1> QED  BY <1>1, <1>2, <1>3, <1>4, <1>5, StepTypeOK DEF Committed, Step

LEMMA InsertSecretInv ==
  ASSUME StoreInv, NEW r \in Request, InsertSecret(r)
  PROVE  StoreInv'
<1> USE DEF StoreInv, InsertSecret
<1>1. Committed'
  BY TablesKept DEF TypeOK
<1>2. JobsWellFormed'
  BY DEF TypeOK, JobsWellFormed, EnvOf, Running
<1>3. PinsHold'
  BY DEF TypeOK, JobsWellFormed, PinsHold, UncommittedSecret, UncommittedVersion,
     SameKey, SameNumber, SecretOf, NumberOf
<1>4. NumbersChosen'
  BY DEF TypeOK, JobsWellFormed, NumbersChosen, UncommittedVersion, Follows, Tops,
     VersionsOf, NumberOf, SecretOf, RowsCommitted
<1>5. RevealsKeepUp'
  BY DEF TypeOK, JobsWellFormed, RevealsKeepUp, SecretOf, NumberOf, Entry, RowsCommitted
<1> QED  BY <1>1, <1>2, <1>3, <1>4, <1>5, StepTypeOK DEF Committed, Step

LEMMA InsertVersionInv ==
  ASSUME StoreInv, NEW r \in Request, InsertVersion(r)
  PROVE  StoreInv'
<1> USE DEF StoreInv, InsertVersion
<1>1. Committed'
  BY TablesKept DEF TypeOK
<1>2. JobsWellFormed'
  BY DEF TypeOK, JobsWellFormed, EnvOf, Running
<1>3. PinsHold'
  BY DEF TypeOK, JobsWellFormed, PinsHold, UncommittedSecret, UncommittedVersion,
     SameKey, SameNumber, SecretOf, NumberOf
<1>4. NumbersChosen'
  <2>1. req[r].op = "create" => VersionsOf(req[r].secret) = {}
    BY DEF TypeOK, JobsWellFormed, RowsCommitted, EveryVersionDecryptable, VersionsOf
  <2>2. pc'[r] = "commit" => Follows(req[r].number, req[r].secret)
                             /\ Tops(req[r].number, req[r].secret)
    BY <2>1 DEF TypeOK, JobsWellFormed, NumbersChosen, Follows, Tops, SameNumber,
                VersionsOf, NumberOf, SecretOf
  <2> QED
    BY <2>2 DEF TypeOK, NumbersChosen, UncommittedVersion, Follows, Tops, VersionsOf,
                NumberOf, SecretOf
<1>5. RevealsKeepUp'
  BY DEF TypeOK, JobsWellFormed, RevealsKeepUp, SecretOf, NumberOf, Entry, RowsCommitted
<1> QED  BY <1>1, <1>2, <1>3, <1>4, <1>5, StepTypeOK DEF Committed, Step

LEMMA ReadVersionInv ==
  ASSUME StoreInv, NEW r \in Request, ReadVersion(r)
  PROVE  StoreInv'
<1> USE DEF StoreInv, ReadVersion
<1>1. Committed'
  BY TablesKept DEF TypeOK
<1>2. JobsWellFormed'
  BY DEF TypeOK, JobsWellFormed, EnvOf, Running
<1>3. PinsHold'
  BY DEF TypeOK, JobsWellFormed, PinsHold, UncommittedSecret, UncommittedVersion,
     SameKey, SameNumber, SecretOf, NumberOf
<1>4. NumbersChosen'
  BY DEF TypeOK, JobsWellFormed, NumbersChosen, UncommittedVersion, Follows, Tops,
     VersionsOf, NumberOf, SecretOf, RowsCommitted
<1>5. RevealsKeepUp'
  BY DEF TypeOK, JobsWellFormed, RevealsKeepUp, SecretOf, NumberOf, Entry, RowsCommitted
<1> QED  BY <1>1, <1>2, <1>3, <1>4, <1>5, StepTypeOK DEF Committed, Step

LEMMA DecryptInv ==
  ASSUME StoreInv, NEW r \in Request, Decrypt(r)
  PROVE  StoreInv'
<1> USE DEF StoreInv, Decrypt
<1>1. Committed'
  BY TablesKept DEF TypeOK
<1>2. JobsWellFormed'
  BY DEF TypeOK, JobsWellFormed, EnvOf, Running
<1>3. PinsHold'
  BY DEF TypeOK, JobsWellFormed, PinsHold, UncommittedSecret, UncommittedVersion,
     SameKey, SameNumber, SecretOf, NumberOf
<1>4. NumbersChosen'
  BY DEF TypeOK, JobsWellFormed, NumbersChosen, UncommittedVersion, Follows, Tops,
     VersionsOf, NumberOf, SecretOf, RowsCommitted
<1>5. RevealsKeepUp'
  BY DEF TypeOK, JobsWellFormed, RevealsKeepUp, SecretOf, NumberOf, Entry, RowsCommitted
<1> QED  BY <1>1, <1>2, <1>3, <1>4, <1>5, StepTypeOK DEF Committed, Step

LEMMA RespondInv ==
  ASSUME StoreInv, NEW r \in Request, Respond(r)
  PROVE  StoreInv'
<1> USE DEF StoreInv, Respond
<1>1. Committed'
  BY TablesKept DEF TypeOK
<1>2. JobsWellFormed'
  BY DEF TypeOK, JobsWellFormed, EnvOf, Running
<1>3. PinsHold'
  BY DEF TypeOK, JobsWellFormed, PinsHold, UncommittedSecret, UncommittedVersion,
     SameKey, SameNumber, SecretOf, NumberOf
<1>4. NumbersChosen'
  BY DEF TypeOK, JobsWellFormed, NumbersChosen, UncommittedVersion, Follows, Tops,
     VersionsOf, NumberOf, SecretOf, RowsCommitted
<1>5. RevealsKeepUp'
  BY DEF TypeOK, JobsWellFormed, RevealsKeepUp, SecretOf, NumberOf, Entry, RowsCommitted
<1> QED  BY <1>1, <1>2, <1>3, <1>4, <1>5, StepTypeOK DEF Committed, Step

LEMMA AbortInv ==
  ASSUME StoreInv, NEW r \in Request, Abort(r)
  PROVE  StoreInv'
<1> USE DEF StoreInv, Abort, Running
<1>1. Committed'
  BY TablesKept DEF TypeOK
<1>2. JobsWellFormed'
  BY DEF TypeOK, JobsWellFormed, EnvOf, Running
<1>3. PinsHold'
  BY DEF TypeOK, JobsWellFormed, PinsHold, UncommittedSecret, UncommittedVersion,
     SameKey, SameNumber, SecretOf, NumberOf
<1>4. NumbersChosen'
  BY DEF TypeOK, JobsWellFormed, NumbersChosen, UncommittedVersion, Follows, Tops,
     VersionsOf, NumberOf, SecretOf, RowsCommitted
<1>5. RevealsKeepUp'
  BY DEF TypeOK, JobsWellFormed, RevealsKeepUp, SecretOf, NumberOf, Entry, RowsCommitted
<1> QED  BY <1>1, <1>2, <1>3, <1>4, <1>5, NextTypeOK DEF Committed, Next

---------------------------------------------------------------------------
(* The statements that keep something of what they read.                   *)

LEMMA ReadSecretInv ==
  ASSUME StoreInv, NEW r \in Request, ReadSecret(r)
  PROVE  StoreInv'
<1> USE DEF StoreInv
<1> DEFINE s == req[r].secret
<1>1. CASE ~Live(s)
  <2> USE <1>1 DEF ReadSecret
  <2>1. Committed'
    BY TablesKept DEF TypeOK
  <2>2. JobsWellFormed'
    BY DEF TypeOK, JobsWellFormed, EnvOf, Running
  <2>3. PinsHold'
    BY DEF TypeOK, JobsWellFormed, PinsHold, UncommittedSecret, UncommittedVersion,
           SameKey, SameNumber, SecretOf, NumberOf
  <2>4. NumbersChosen'
    BY DEF TypeOK, JobsWellFormed, NumbersChosen, UncommittedVersion, Follows, Tops,
           VersionsOf, NumberOf, SecretOf, RowsCommitted
  <2>5. RevealsKeepUp'
    BY DEF TypeOK, JobsWellFormed, RevealsKeepUp, SecretOf, NumberOf, Entry
  <2> QED  BY <2>1, <2>2, <2>3, <2>4, <2>5, StepTypeOK DEF Committed, Step
<1>2. CASE Live(s)
  <2>1. /\ pc[r] = "readSecret" /\ pc' = [pc EXCEPT ![r] = "resolve"]
        /\ req' = [req EXCEPT ![r].env = EnvOf(s), ![r].version = current[s]]
        /\ UNCHANGED <<tables, seen>>
    BY <1>2 DEF ReadSecret
  <2>2. /\ \A x \in Request \ {r} : req'[x] = req[x]
        /\ req'[r].op = req[r].op /\ req'[r].name = req[r].name
        /\ req'[r].secret = s /\ req'[r].number = req[r].number
        /\ req'[r].env = req[s].env /\ req'[r].version = current[s]
    BY <2>1 DEF TypeOK, Job, EnvOf
  <2>3. /\ req[r].op \in {"rotate", "reveal", "delete"}
        /\ s \in Request /\ s # r /\ s \in secrets
    BY <1>2, <2>1 DEF TypeOK, JobsWellFormed, Live
  <2>4. Committed'
    BY <2>1, <2>2, TablesKept DEF TypeOK
  <2>5. JobsWellFormed'
    <3> SUFFICES ASSUME NEW x \in Request
                 PROVE  JobsWellFormed!(x)'
      BY DEF JobsWellFormed
    <3>1. CASE x = r
      BY <3>1, <2>1, <2>2, <2>3 DEF TypeOK, JobsWellFormed, EnvOf
    <3>2. CASE x # r
      <4>1. pc'[x] = pc[x] /\ req'[x] = req[x]
        BY <3>2, <2>1, <2>2 DEF TypeOK
      <4>2. req[x].op \in {"rotate", "reveal", "delete"} =>
              LET t == req[x].secret
              IN  pc'[t] = "ok" /\ req'[t] = req[t] /\ t \in Request
        BY <2>1, <2>2 DEF TypeOK, JobsWellFormed
      <4> QED  BY <4>1, <4>2 DEF JobsWellFormed, EnvOf
    <3> QED  BY <3>1, <3>2
  <2>6. PinsHold'
    BY <2>1, <2>2, <2>3 DEF TypeOK, RowsCommitted, PinsHold, UncommittedSecret,
       UncommittedVersion, SameKey, SameNumber, SecretOf, NumberOf
  <2>7. NumbersChosen'
    <3>1. \A t : /\ VersionsOf(t)' = VersionsOf(t)
                 /\ \A v \in VersionsOf(t) : NumberOf(v)' = NumberOf(v)
      BY <2>1, <2>2 DEF TypeOK, RowsCommitted, VersionsOf, SecretOf, NumberOf
    <3> QED
      BY <2>1, <2>2, <3>1 DEF TypeOK, NumbersChosen, UncommittedVersion, Follows, Tops
  <2>8. RevealsKeepUp'
    <3>1. /\ current[s] \in versions /\ SecretOf(current[s]) = s
          /\ \A v \in VersionsOf(s) : NumberOf(v) <= NumberOf(current[s])
      BY <2>3 DEF VersionChain, VersionsOf
    <3>2. req[r].op = "reveal" => \A v \in seen[r] : v \in VersionsOf(s)
      BY <2>1, <2>3 DEF RevealsKeepUp, VersionsOf
    <3>3. \A v \in Request : pc[v] = "ok" => req'[v] = req[v] /\ pc'[v] = "ok"
      BY <2>1, <2>2 DEF TypeOK
    <3> SUFFICES ASSUME NEW x \in Request, req'[x].op = "reveal"
                 PROVE  RevealsKeepUp!(x)!2'
      BY DEF RevealsKeepUp
    <3>4. CASE x = r
      BY <3>1, <3>2, <3>3, <3>4, <2>1, <2>2, <2>3
         DEF TypeOK, RevealsKeepUp, RowsCommitted, SecretOf, NumberOf
    <3>5. CASE x # r
      BY <3>3, <3>5, <2>1, <2>2 DEF TypeOK, RevealsKeepUp, SecretOf, NumberOf, Entry
    <3> QED  BY <3>4, <3>5
  <2> QED
    BY <2>4, <2>5, <2>6, <2>7, <2>8, StepTypeOK DEF Committed, Step
<1> QED  BY <1>1, <1>2

LEMMA ReadLatestInv ==
  ASSUME StoreInv, NEW r \in Request, ReadLatest(r)
  PROVE  StoreInv'
<1> USE DEF StoreInv
<1> DEFINE s == req[r].secret
<1>0. \A v \in Request : NumberOf(v) \in Nat
  BY DEF TypeOK, Job, NumberOf
<1>1. PICK n \in Nat :
        /\ req' = [req EXCEPT ![r].number = n]
        /\ n > 0
        /\ s \in secrets => Follows(n, s) /\ Tops(n, s)
  <2>1. CASE VersionsOf(s) = {}
    BY <2>1 DEF ReadLatest, Set, Follows, Tops
  <2>2. CASE VersionsOf(s) # {}
    <3>1. PICK latest \in VersionsOf(s) :
            /\ \A v \in VersionsOf(s) : NumberOf(v) <= NumberOf(latest)
            /\ Set(r, "number", NumberOf(latest) + 1)
      BY <2>2 DEF ReadLatest
    <3>2. \A v \in VersionsOf(s) : NumberOf(v) \in Nat
      BY <1>0 DEF VersionsOf, TypeOK
    <3>3. NumberOf(latest) + 1 \in Nat
      BY <3>2
    <3>4. Follows(NumberOf(latest) + 1, s) /\ Tops(NumberOf(latest) + 1, s)
      BY <3>1, <3>2 DEF Follows, Tops
    <3>5. NumberOf(latest) + 1 > 0
      BY <3>2
    <3> WITNESS NumberOf(latest) + 1 \in Nat
    <3> QED  BY <3>1, <3>4, <3>5 DEF Set
  <2> QED  BY <2>1, <2>2
<1>2. /\ pc[r] = "readLatest" /\ pc' = [pc EXCEPT ![r] = "insertVersion"]
      /\ UNCHANGED <<tables, seen>>
  BY DEF ReadLatest
<1>3. /\ \A x \in Request \ {r} : req'[x] = req[x]
      /\ req'[r].op = req[r].op /\ req'[r].env = req[r].env
      /\ req'[r].name = req[r].name /\ req'[r].secret = s
      /\ req'[r].version = req[r].version /\ req'[r].number = n
  BY <1>1 DEF TypeOK, Job
<1>4. req[r].op = "rotate" /\ s \in Request /\ s # r
  BY <1>2 DEF JobsWellFormed
<1>5. \A v \in Request : pc[v] = "ok" => req'[v] = req[v] /\ pc'[v] = "ok"
  BY <1>2, <1>3 DEF TypeOK
<1>6. Committed'
  BY <1>2, <1>5, TablesKept
<1>7. JobsWellFormed'
  <2> SUFFICES ASSUME NEW x \in Request
               PROVE  JobsWellFormed!(x)'
    BY DEF JobsWellFormed
  <2>1. CASE x = r
    BY <2>1, <1>1, <1>2, <1>3, <1>4, <1>5 DEF TypeOK, JobsWellFormed, EnvOf
  <2>2. CASE x # r
    BY <2>2, <1>2, <1>3, <1>5 DEF TypeOK, JobsWellFormed, EnvOf
  <2> QED  BY <2>1, <2>2
<1>8. PinsHold'
  BY <1>2, <1>3, <1>4, <1>5 DEF TypeOK, PinsHold, UncommittedSecret,
     UncommittedVersion, SameKey, SameNumber, SecretOf, NumberOf, RowsCommitted
<1>9. \A t : /\ VersionsOf(t)' = VersionsOf(t)
             /\ \A v \in VersionsOf(t) : NumberOf(v)' = NumberOf(v)
  BY <1>2, <1>5 DEF TypeOK, RowsCommitted, VersionsOf, SecretOf, NumberOf
<1>10. NumbersChosen'
  <2> SUFFICES ASSUME NEW x \in Request
               PROVE  NumbersChosen!(x)'
    BY DEF NumbersChosen
  <2>1. CASE x = r
    BY <2>1, <1>1, <1>2, <1>3, <1>9 DEF TypeOK, UncommittedVersion, Follows, Tops
  <2>2. CASE x # r
    BY <2>2, <1>2, <1>3, <1>9
       DEF TypeOK, NumbersChosen, UncommittedVersion, Follows, Tops
  <2> QED  BY <2>1, <2>2
<1>11. RevealsKeepUp'
  BY <1>2, <1>3, <1>4, <1>5 DEF TypeOK, RevealsKeepUp, SecretOf, NumberOf, Entry
<1> QED
  BY <1>6, <1>7, <1>8, <1>10, <1>11, StepTypeOK DEF Committed, Step

---------------------------------------------------------------------------
(* A request that arrives.                                                 *)

\* What the four operations that begin a request have in common.
Fits(r, job, label) ==
  \/ job.op = "mkenv" /\ job.env = r /\ label = "checkEnvName"
  \/ job.op = "rmenv" /\ label = "readEnv"
  \/ job.op = "create" /\ job.secret = r /\ job.number = 1 /\ label = "resolve"
  \/ /\ job.op \in {"rotate", "reveal", "delete"} /\ label = "readSecret"
     /\ job.secret \in Ids("create")

LEMMA BeginInv ==
  ASSUME StoreInv, NEW r \in Request, NEW job \in Job, NEW label \in Running,
         Begin(r, job, label), Fits(r, job, label)
  PROVE  StoreInv'
<1> USE DEF StoreInv
<1>1. /\ pc[r] = "idle" /\ pc' = [pc EXCEPT ![r] = label]
      /\ req' = [req EXCEPT ![r] = job]
      /\ seen' = [seen EXCEPT ![r] =
           IF Live(job.secret) THEN VersionsOf(job.secret) ELSE {}]
      /\ UNCHANGED tables
  BY DEF Begin, Goto, Live
<1>2. /\ \A x \in Request \ {r} : req'[x] = req[x] /\ pc'[x] = pc[x] /\ seen'[x] = seen[x]
      /\ req'[r] = job /\ pc'[r] = label
  BY <1>1 DEF TypeOK
<1>3. Committed'
  BY <1>1, <1>2, TablesKept DEF TypeOK
<1>4. JobsWellFormed'
  <2> SUFFICES ASSUME NEW x \in Request
               PROVE  JobsWellFormed!(x)'
    BY DEF JobsWellFormed
  <2>1. CASE x = r
    BY <2>1, <1>1, <1>2 DEF Fits, Ids, Running
  <2>2. CASE x # r
    <3>1. req[x].op \in {"rotate", "reveal", "delete"} =>
            LET t == req[x].secret
            IN  pc'[t] = "ok" /\ req'[t] = req[t] /\ t \in Request
      BY <1>1, <1>2 DEF JobsWellFormed
    <3> QED  BY <2>2, <3>1, <1>2 DEF JobsWellFormed, EnvOf
  <2> QED  BY <2>1, <2>2
<1>5. PinsHold'
  BY <1>1, <1>2 DEF Fits, TypeOK, RowsCommitted, PinsHold, UncommittedSecret,
     UncommittedVersion, SameKey, SameNumber, SecretOf, NumberOf
<1>6. \A t : /\ VersionsOf(t)' = VersionsOf(t)
             /\ \A v \in VersionsOf(t) : NumberOf(v)' = NumberOf(v)
  BY <1>1, <1>2 DEF TypeOK, RowsCommitted, VersionsOf, SecretOf, NumberOf
<1>7. NumbersChosen'
  BY <1>1, <1>2, <1>6
     DEF Fits, TypeOK, NumbersChosen, UncommittedVersion, Follows, Tops
<1>8. RevealsKeepUp'
  <2> SUFFICES ASSUME NEW x \in Request, req'[x].op = "reveal"
               PROVE  RevealsKeepUp!(x)!2'
    BY DEF RevealsKeepUp
  <2>1. \A v \in Request : pc[v] = "ok" => req'[v] = req[v] /\ pc'[v] = "ok"
    BY <1>1, <1>2
  <2>2. CASE x = r
    <3>1. \A v \in seen'[r] :
            v \in versions /\ v \in Request /\ pc[v] = "ok" /\ SecretOf(v) = job.secret
      BY <1>1 DEF TypeOK, RowsCommitted, VersionsOf
    <3>2. label = "readSecret"
      BY <2>2, <1>2 DEF Fits
    <3> QED  BY <2>1, <2>2, <3>1, <3>2, <1>1, <1>2 DEF SecretOf
  <2>3. CASE x # r
    BY <2>1, <2>3, <1>1, <1>2 DEF RevealsKeepUp, SecretOf, NumberOf, Entry
  <2> QED  BY <2>2, <2>3
<1> QED
  BY <1>3, <1>4, <1>5, <1>7, <1>8, BeginTypeOK DEF Committed

LEMMA ArriveInv ==
  ASSUME StoreInv, NEW r \in Request, Arrive(r)
  PROVE  StoreInv'
<1> USE DEF Job, Untouched, Operation, Ids, Running, Fits
<1>1. CASE BeginMkEnv(r)
  BY <1>1, BeginInv DEF BeginMkEnv
<1>2. CASE BeginRmEnv(r)
  BY <1>2, BeginInv DEF BeginRmEnv
<1>3. CASE BeginCreate(r)
  BY <1>3, BeginInv DEF BeginCreate
<1>4. CASE BeginOnSecret(r)
  BY <1>4, BeginInv DEF BeginOnSecret
<1> QED  BY <1>1, <1>2, <1>3, <1>4 DEF Arrive

---------------------------------------------------------------------------
(* The statements that change a table.                                     *)

LEMMA CommitEnvInv ==
  ASSUME StoreInv, NEW r \in Request, CommitEnv(r)
  PROVE  StoreInv'
<1> USE DEF StoreInv, CommitEnv
<1>1. RowsCommitted'
  BY DEF TypeOK, RowsCommitted, JobsWellFormed, EnvOf
<1>2. VersionChain' /\ OneSecretPerName'
  BY DEF VersionChain, OneSecretPerName, VersionsOf, SecretOf, NumberOf, SameKey
<1>3. EveryVersionDecryptable'
  BY DEF EveryVersionDecryptable, SecretOf, EnvOf
<1>4. JobsWellFormed'
  BY DEF TypeOK, JobsWellFormed, EnvOf
<1>5. PinsHold'
  BY DEF TypeOK, PinsHold, UncommittedSecret, UncommittedVersion, SameKey, SameNumber,
         SecretOf, NumberOf
<1>6. NumbersChosen'
  BY DEF TypeOK, NumbersChosen, UncommittedVersion, Follows, Tops, VersionsOf,
         NumberOf, SecretOf
<1>7. RevealsKeepUp'
  BY DEF TypeOK, JobsWellFormed, RevealsKeepUp, SecretOf, NumberOf, Entry
<1> QED  BY <1>1, <1>2, <1>3, <1>4, <1>5, <1>6, <1>7, StepTypeOK DEF Step

LEMMA SoftDeleteInv ==
  ASSUME StoreInv, NEW r \in Request, SoftDelete(r)
  PROVE  StoreInv'
<1> USE DEF StoreInv, SoftDelete
<1>1. Committed'
  BY TablesKept DEF TypeOK
<1>2. JobsWellFormed'
  BY DEF TypeOK, JobsWellFormed, EnvOf
<1>3. PinsHold'
  BY DEF TypeOK, PinsHold, UncommittedSecret, UncommittedVersion, SameKey, SameNumber,
         SecretOf, NumberOf
<1>4. NumbersChosen'
  BY DEF TypeOK, NumbersChosen, UncommittedVersion, Follows, Tops, VersionsOf,
         NumberOf, SecretOf
<1>5. RevealsKeepUp'
  BY DEF TypeOK, JobsWellFormed, RevealsKeepUp, SecretOf, NumberOf, Entry
<1> QED  BY <1>1, <1>2, <1>3, <1>4, <1>5, StepTypeOK DEF Committed, Step

LEMMA RecordRevealInv ==
  ASSUME StoreInv, NEW r \in Request, RecordReveal(r)
  PROVE  StoreInv'
<1> USE DEF StoreInv, RecordReveal
<1>1. Committed'
  BY TablesKept DEF TypeOK
<1>2. JobsWellFormed'
  BY DEF TypeOK, JobsWellFormed, EnvOf
<1>3. PinsHold'
  BY DEF TypeOK, PinsHold, UncommittedSecret, UncommittedVersion, SameKey, SameNumber,
         SecretOf, NumberOf
<1>4. NumbersChosen'
  BY DEF TypeOK, NumbersChosen, UncommittedVersion, Follows, Tops, VersionsOf,
         NumberOf, SecretOf
<1>5. RevealsKeepUp'
  BY DEF TypeOK, JobsWellFormed, RevealsKeepUp, SecretOf, NumberOf, Entry
<1> QED  BY <1>1, <1>2, <1>3, <1>4, <1>5, StepTypeOK DEF Committed, Step

LEMMA DeleteEnvInv ==
  ASSUME StoreInv, NEW r \in Request, DeleteEnv(r)
  PROVE  StoreInv'
<1> USE DEF StoreInv
<1> DEFINE e == req[r].env
           gone == {s \in secrets : EnvOf(s) = e}
<1>1. /\ pc[r] = "deleteEnv"
      /\ \A q \in Request : ~PinsEnv(q, e)
      /\ \/ /\ envs' = envs \ {e} /\ keys' = keys \ {e}
            /\ secrets' = secrets \ gone /\ deleted' = deleted \ gone
            /\ versions' = versions \ {v \in versions : SecretOf(v) \in gone}
            /\ pc' = [pc EXCEPT ![r] = "ok"]
            /\ UNCHANGED <<req, current, audit, seen>>
         \/ /\ pc' = [pc EXCEPT ![r] = "integrityError"]
            /\ UNCHANGED <<tables, seen, req>>
  BY DEF DeleteEnv
<1>2. /\ UNCHANGED <<req, seen, current, audit>>
      /\ \A x \in Request \ {r} : pc'[x] = pc[x]
      /\ pc'[r] \in {"ok", "integrityError"}
  BY <1>1 DEF TypeOK
<1>4. \A s \in secrets' : VersionsOf(s)' = VersionsOf(s)
  BY <1>1 DEF VersionsOf, SecretOf
<1>5. \A s : VersionsOf(s)' \subseteq VersionsOf(s)
  BY <1>1 DEF VersionsOf, SecretOf
<1>6. \A q \in Request : UncommittedVersion(q) /\ req[q].op = "rotate" =>
                            req[q].secret \in secrets'
  BY <1>1 DEF PinsEnv, PinsHold, JobsWellFormed, UncommittedVersion
<1>7. RowsCommitted'
  BY <1>1, <1>2 DEF TypeOK, RowsCommitted, EnvOf
<1>8. VersionChain'
  BY <1>1, <1>2, <1>4 DEF VersionChain, NumberOf
<1>9. OneSecretPerName' /\ EveryVersionDecryptable'
  BY <1>1, <1>2 DEF OneSecretPerName, EveryVersionDecryptable, SameKey, SecretOf, EnvOf
<1>10. JobsWellFormed'
  BY <1>1, <1>2 DEF TypeOK, JobsWellFormed, EnvOf
<1>11. PinsHold'
  BY <1>1, <1>2, <1>6 DEF TypeOK, PinsHold, PinsEnv, UncommittedSecret,
     UncommittedVersion, SameKey, SameNumber, SecretOf, NumberOf
<1>12. NumbersChosen'
  <2> SUFFICES ASSUME NEW q \in Request
               PROVE  NumbersChosen!(q)'
    BY DEF NumbersChosen
  <2>1. /\ pc'[q] \in {"insertVersion", "commit"} => pc'[q] = pc[q]
        /\ req'[q] = req[q]
    BY <1>2
  <2>2. ASSUME req[q].secret \in secrets' PROVE NumbersChosen!(q)'
    <3>1. /\ VersionsOf(req[q].secret)' = VersionsOf(req[q].secret)
          /\ req[q].secret \in secrets
      BY <1>1, <1>4, <2>2
    <3> QED
      BY <1>2, <2>1, <3>1 DEF NumbersChosen, UncommittedVersion, Follows, Tops, NumberOf
  <2>3. ASSUME req[q].secret \notin secrets', UncommittedVersion(q)'
        PROVE  Follows(req[q].number, req[q].secret)'
               /\ Tops(req[q].number, req[q].secret)'
    <3>1. UncommittedVersion(q)
      BY <2>1, <2>3 DEF UncommittedVersion
    <3>2. req[q].number = 1
      BY <1>6, <2>3, <3>1 DEF JobsWellFormed, UncommittedVersion
    <3>3. Tops(req[q].number, req[q].secret)
      BY <3>1 DEF NumbersChosen
    <3> QED  BY <1>2, <1>5, <3>2, <3>3 DEF Follows, Tops, NumberOf
  <2> QED  BY <2>1, <2>2, <2>3
<1>13. RevealsKeepUp'
  <2>1. req[r].op # "reveal" \/ pc'[r] # "ok"
    BY <1>1, <1>2 DEF JobsWellFormed
  <2> QED
    BY <1>1, <1>2, <2>1 DEF TypeOK, RevealsKeepUp, SecretOf, NumberOf, Entry
<1> QED
  BY <1>7, <1>8, <1>9, <1>10, <1>11, <1>12, <1>13, StepTypeOK DEF Step


LEMMA CommitVersionInv ==
  ASSUME StoreInv, NEW r \in Request, CommitVersion(r)
  PROVE  StoreInv'
<1> USE DEF StoreInv
<1>0. PICK s \in Request, n \in Nat : s = req[r].secret /\ n = req[r].number
  BY DEF CommitVersion, TypeOK, Job, JobsWellFormed
<1>1. /\ pc[r] = "commit" /\ pc' = [pc EXCEPT ![r] = "ok"]
      /\ secrets' = IF req[r].op = "create" THEN secrets \cup {r} ELSE secrets
      /\ versions' = versions \cup {r}
      /\ current' = [current EXCEPT ![s] = r]
      /\ UNCHANGED <<req, envs, keys, deleted, audit, seen>>
  BY <1>0 DEF CommitVersion
<1>2. /\ n > 0 /\ s \in secrets'
      /\ \/ req[r].op = "create" /\ s = r /\ n = 1
         \/ req[r].op = "rotate" /\ s \in secrets
  <2>1. CASE req[r].op = "create"
    BY <2>1, <1>0, <1>1 DEF JobsWellFormed
  <2>2. CASE req[r].op = "rotate"
    BY <2>2, <1>0, <1>1 DEF JobsWellFormed, PinsHold, UncommittedVersion
  <2> QED  BY <2>1, <2>2, <1>1 DEF JobsWellFormed
<1>3. /\ r \notin versions /\ r \notin secrets
      /\ Follows(n, s) /\ Tops(n, s)
  BY <1>0, <1>1 DEF RowsCommitted, NumbersChosen, UncommittedVersion
<1>4. /\ VersionsOf(s)' = VersionsOf(s) \cup {r}
      /\ \A t : t # s => VersionsOf(t)' = VersionsOf(t)
      /\ \A v : NumberOf(v)' = NumberOf(v) /\ SecretOf(v)' = SecretOf(v)
  BY <1>0, <1>1 DEF VersionsOf, SecretOf, NumberOf
<1>5. \A v \in Request : NumberOf(v) \in Nat
  BY DEF TypeOK, Job, NumberOf
<1>6. RowsCommitted'
  BY <1>1, <1>2 DEF TypeOK, RowsCommitted, JobsWellFormed, PinsHold, UncommittedSecret,
     EnvOf
<1>7. VersionChain'
  <2> SUFFICES ASSUME NEW t \in secrets' PROVE VersionChain!(t)'
    BY DEF VersionChain
  <2>1. CASE t # s
    <3>1. t \in secrets /\ current'[t] = current[t]
      BY <2>1, <1>1, <1>2 DEF TypeOK
    <3> QED  BY <2>1, <3>1, <1>4 DEF VersionChain
  <2>2. CASE t = s
    <3>1. current'[s] = r /\ NumberOf(r) = n
      BY <1>0, <1>1, <1>2 DEF TypeOK, NumberOf
    <3>2. \A v \in VersionsOf(s) : v \in Request
      BY DEF TypeOK, VersionsOf
    <3>3. \A v \in VersionsOf(s) : NumberOf(v) < n
      BY <1>3 DEF Tops
    <3>4. \A v \in VersionsOf(s) :
             /\ NumberOf(v) = 1 \/ \E w \in VersionsOf(s) : NumberOf(w) + 1 = NumberOf(v)
             /\ \A w \in VersionsOf(s) : NumberOf(v) = NumberOf(w) => v = w
      <4>1. CASE s \in secrets
        BY <4>1 DEF VersionChain
      <4>2. CASE s \notin secrets
        BY <4>2 DEF EveryVersionDecryptable, VersionsOf
      <4> QED  BY <4>1, <4>2
    <3>5. n = 1 \/ \E w \in VersionsOf(s) : NumberOf(w) + 1 = n
      BY <1>3 DEF Follows
    <3> QED  BY <2>2, <3>1, <3>2, <3>3, <3>4, <3>5, <1>2, <1>4, <1>5
  <2> QED  BY <2>1, <2>2
<1>8. OneSecretPerName'
  BY <1>1 DEF OneSecretPerName, SameKey, PinsHold, UncommittedSecret
<1>9. EveryVersionDecryptable'
  <2>1. EnvOf(r) = EnvOf(s) /\ SecretOf(r) = s
    BY <1>0, <1>1, <1>2 DEF JobsWellFormed, EnvOf, SecretOf
  <2>2. EnvOf(r) \in envs
    BY <1>1, <1>2, <2>1 DEF PinsHold, UncommittedSecret, RowsCommitted, EnvOf
  <2> QED
    BY <1>1, <1>2, <2>1, <2>2 DEF EveryVersionDecryptable, SecretOf, EnvOf
<1>10. JobsWellFormed'
  BY <1>1, <1>2 DEF TypeOK, JobsWellFormed, EnvOf
<1>11. PinsHold'
  BY <1>1, <1>2 DEF TypeOK, PinsHold, UncommittedSecret, UncommittedVersion, SameKey,
     SameNumber, SecretOf, NumberOf
<1>12. NumbersChosen'
  <2> SUFFICES ASSUME NEW q \in Request
               PROVE  NumbersChosen!(q)'
    BY DEF NumbersChosen
  <2>1. q = r \/ (pc'[q] = pc[q] /\ req'[q] = req[q])
    BY <1>1 DEF TypeOK
  <2>2. pc'[r] = "ok"
    BY <1>1 DEF TypeOK
  <2>3. CASE q = r
    BY <2>2, <2>3 DEF UncommittedVersion
  <2>4. CASE q # r /\ req[q].secret # s
    BY <2>1, <2>4, <1>1, <1>2, <1>4 DEF NumbersChosen, UncommittedVersion, Follows, Tops
  <2>5. CASE q # r /\ req[q].secret = s
    <3>0. PICK m \in Nat : m = req[q].number
      BY DEF TypeOK, Job
    <3>1. NumberOf(r) = n
      BY <1>0 DEF NumberOf
    <3>2. \A v \in VersionsOf(s) : v \in Request /\ NumberOf(v) \in Nat
      BY <1>5 DEF TypeOK, VersionsOf
    <3>3. ASSUME pc[q] = "insertVersion", req[q].op = "rotate"
          PROVE  /\ Follows(m, s)'
                 /\ Tops(m, s)' \/ \E v \in VersionsOf(s)' : NumberOf(v)' = m
      <4>1. req[r].op = "rotate" /\ s \in secrets
        BY <3>3, <2>5, <1>1, <1>2 DEF JobsWellFormed, RowsCommitted
      <4>2. /\ Follows(m, s) /\ m > 0
            /\ Tops(m, s) \/ \E v \in VersionsOf(s) : NumberOf(v) = m
        BY <4>1, <3>0, <3>3, <2>5 DEF NumbersChosen, JobsWellFormed
      <4>3. n <= m \/ \E v \in VersionsOf(s) : NumberOf(v) = m
        BY <4>2, <1>2, <1>3, <3>1, <3>2 DEF Follows, Tops
      <4> QED
        BY <4>2, <4>3, <1>2, <1>4, <3>1, <3>2 DEF Follows, Tops
    <3>4. ASSUME UncommittedVersion(q)
          PROVE  Follows(m, s)' /\ Tops(m, s)'
      <4>1. ~SameNumber(q, r)
        BY <3>4, <2>5, <1>1 DEF PinsHold, UncommittedVersion
      <4>2. m # n
        BY <4>1, <2>5, <1>0, <3>0 DEF SameNumber, SecretOf, NumberOf
      <4>3. Follows(m, s) /\ Tops(m, s)
        BY <3>0, <3>4, <2>5 DEF NumbersChosen
      <4>4. s \in secrets
        BY <3>4, <2>5, <1>1, <1>2 DEF JobsWellFormed, UncommittedVersion
      <4>5. \E v \in VersionsOf(s) : TRUE
        BY <4>4 DEF VersionChain
      <4>6. n < m
        BY <4>2, <4>3, <4>5, <1>2, <1>3, <3>1, <3>2 DEF Follows, Tops
      <4> QED  BY <4>3, <4>6, <1>4, <3>1 DEF Follows, Tops
    <3> QED
      BY <2>1, <2>5, <3>0, <3>3, <3>4 DEF UncommittedVersion, NumberOf
  <2> QED  BY <2>3, <2>4, <2>5
<1>13. RevealsKeepUp'
  <2>1. req[r].op # "reveal"
    BY <1>2
  <2> QED
    BY <1>1, <2>1 DEF TypeOK, RevealsKeepUp, JobsWellFormed, SecretOf, NumberOf, Entry
<1> QED
  BY <1>6, <1>7, <1>8, <1>9, <1>10, <1>11, <1>12, <1>13, StepTypeOK DEF Step


---------------------------------------------------------------------------
(* The invariant and its consequences.                                     *)

LEMMA InitStoreInv == Init => StoreInv
<1> SUFFICES ASSUME Init PROVE StoreInv
  OBVIOUS
<1> USE SeededAssumption DEF Init
<1>1. \A r \in Request : IF r \in SeededEnvs
                           THEN req[r].op = "mkenv" /\ req[r].env = r
                           ELSE req[r] = Untouched
  BY DEF Untouched
<1>2. \A r \in Request : req[r].op \in {"mkenv", "none"}
  <2>1. Untouched.op = "none"
    BY DEF Untouched
  <2> QED  BY <1>1, <2>1
<1>3. JobsWellFormed
  <2> SUFFICES ASSUME NEW r \in Request PROVE JobsWellFormed!(r)
    BY DEF JobsWellFormed
  <2>1. \/ pc[r] = "ok" /\ r \in SeededEnvs
        \/ pc[r] = "idle" /\ r \notin SeededEnvs
    OBVIOUS
  <2>2. pc[r] = "idle" => req[r] = Untouched
    BY <1>1, <2>1
  <2>3. Untouched.op # "mkenv"
    BY DEF Untouched
  <2>4. req[r].op = "mkenv" => req[r].env = r
    BY <1>1, <2>3
  <2> QED  BY <1>2, <2>1, <2>2, <2>4
<1>4. RowsCommitted /\ PinsHold /\ NumbersChosen /\ RevealsKeepUp
  BY <1>1, <1>2 DEF RowsCommitted, PinsHold, NumbersChosen, RevealsKeepUp,
     UncommittedSecret, UncommittedVersion
<1>5. VersionChain /\ OneSecretPerName /\ EveryVersionDecryptable
  BY DEF VersionChain, OneSecretPerName, EveryVersionDecryptable
<1> QED  BY <1>3, <1>4, <1>5, InitTypeOK DEF StoreInv

LEMMA StepInv ==
  ASSUME StoreInv, NEW r \in Request, Step(r)
  PROVE  StoreInv'
BY CheckEnvNameInv, InsertEnvInv, CommitEnvInv, ReadEnvInv, DeleteEnvInv, ReadSecretInv,
   ResolveEnvironmentInv, ReadKeyInv, CheckNameInv, InsertSecretInv, ReadLatestInv,
   InsertVersionInv, CommitVersionInv, ReadVersionInv, DecryptInv, RecordRevealInv,
   RespondInv, SoftDeleteInv DEF Step

LEMMA StutterInv == StoreInv /\ UNCHANGED vars => StoreInv'
<1> SUFFICES ASSUME StoreInv, UNCHANGED vars PROVE StoreInv'
  OBVIOUS
<1> USE DEF StoreInv, vars
<1>1. TypeOK' /\ JobsWellFormed' /\ RowsCommitted'
  BY DEF TypeOK, JobsWellFormed, RowsCommitted, EnvOf
<1>2. PinsHold' /\ NumbersChosen'
  BY DEF PinsHold, NumbersChosen, UncommittedSecret, UncommittedVersion, SameKey,
         SameNumber, SecretOf, NumberOf, Follows, Tops, VersionsOf
<1>3. RevealsKeepUp'
  BY DEF RevealsKeepUp, SecretOf, NumberOf, Entry
<1>4. VersionChain' /\ OneSecretPerName' /\ EveryVersionDecryptable'
  BY DEF VersionChain, OneSecretPerName, EveryVersionDecryptable, VersionsOf, SecretOf,
         NumberOf, SameKey, EnvOf
<1> QED  BY <1>1, <1>2, <1>3, <1>4

\* StoreInv is inductive.
THEOREM StoreInvariant == Spec => []StoreInv
<1>1. StoreInv /\ [Next]_vars => StoreInv'
  BY ArriveInv, StepInv, AbortInv, StutterInv DEF Next
<1> QED  BY <1>1, InitStoreInv, PTL DEF Spec

\* Concurrent rotations never fork, skip or reorder a secret's history, and
\* its pointer names the newest version.
THEOREM ChainCorrect == Spec => []VersionChain
<1>1. StoreInv => VersionChain
  BY DEF StoreInv
<1> QED  BY <1>1, StoreInvariant, PTL

\* Concurrent creations never leave two secrets of one name in an environment.
THEOREM NamesUnique == Spec => []OneSecretPerName
<1>1. StoreInv => OneSecretPerName
  BY DEF StoreInv
<1> QED  BY <1>1, StoreInvariant, PTL

\* Dropping an environment never strands a version without its key.
THEOREM Decryptable == Spec => []EveryVersionDecryptable
<1>1. StoreInv => EveryVersionDecryptable
  BY DEF StoreInv
<1> QED  BY <1>1, StoreInvariant, PTL

\* A reveal answers with a version of its secret no older than any committed
\* before the reveal began.
THEOREM RevealsFresh == Spec => []RevealFresh
<1>1. StoreInv => RevealFresh
  BY DEF StoreInv, RevealsKeepUp, RevealFresh
<1> QED  BY <1>1, StoreInvariant, PTL

\* No plaintext leaves the server before its audit entry is committed.
THEOREM RevealsAudited == Spec => []RevealAudited
<1>1. StoreInv => RevealAudited
  BY DEF StoreInv, RevealsKeepUp, RevealAudited
<1> QED  BY <1>1, StoreInvariant, PTL

\* Committed versions disappear only with their environment, audit entries
\* never.
THEOREM HistoryIsKept == Spec => HistoryKept
<1>1. StoreInv /\ [Next]_vars =>
        [\A v \in versions \ versions' : EnvOf(v) \in envs \ envs']_vars
  <2> SUFFICES ASSUME StoreInv, [Next]_vars, NEW v \in versions, v \notin versions'
               PROVE  EnvOf(v) \in envs \ envs'
    OBVIOUS
  <2>1. PICK r \in Request : DeleteEnv(r)
    BY DEF Next, vars, Arrive, BeginMkEnv, BeginRmEnv, BeginCreate, BeginOnSecret, Begin,
       Step, Abort, CheckEnvName, InsertEnv, CommitEnv, ReadEnv, ReadSecret,
       ResolveEnvironment, ReadKey, CheckName, InsertSecret, ReadLatest, InsertVersion,
       CommitVersion, ReadVersion, Decrypt, RecordReveal, Respond, SoftDelete
  <2>2. SecretOf(v) \in secrets /\ EnvOf(SecretOf(v)) = req[r].env /\ envs' = envs \ {req[r].env}
    BY <2>1 DEF DeleteEnv
  <2> QED  BY <2>2 DEF StoreInv, EveryVersionDecryptable
<1>2. [Next]_vars => [audit \subseteq audit']_vars
  BY DEF Next, vars, Arrive, BeginMkEnv, BeginRmEnv, BeginCreate, BeginOnSecret, Begin,
     Step, Abort, CheckEnvName, InsertEnv, CommitEnv, ReadEnv, ReadSecret, DeleteEnv,
     ResolveEnvironment, ReadKey, CheckName, InsertSecret, ReadLatest, InsertVersion,
     CommitVersion, ReadVersion, Decrypt, RecordReveal, Respond, SoftDelete
<1>3. StoreInv /\ [Next]_vars =>
        [/\ \A v \in versions \ versions' : EnvOf(v) \in envs \ envs'
         /\ audit \subseteq audit']_vars
  BY <1>1, <1>2
<1> QED  BY <1>3, StoreInvariant, PTL DEF Spec, HistoryKept

---------------------------------------------------------------------------
(* Deletion is final.                                                      *)

\* Statements after the one that has found the target of a request.
Found == (Running \ {"readSecret"}) \cup {"ok"}

\* A target that has been found, or can still be, was there from the start.
TargetShape ==
  \A r \in Request : req[r].op \in {"rotate", "reveal", "delete"} =>
    /\ pc[r] \in Found => seen[r] # {}
    /\ pc[r] = "readSecret" /\ Live(req[r].secret) => seen[r] # {}

FinalInv == StoreInv /\ TargetShape

\* A secret that is not live never is again.
LEMMA NoRevival ==
  ASSUME StoreInv, [Next]_vars, NEW s, s \in Request, pc[s] = "ok", Live(s)'
  PROVE  Live(s)
<1> USE DEF StoreInv, Live
<1>1. ASSUME NEW r \in Request, Arrive(r) PROVE Live(s)
  BY <1>1 DEF Arrive, BeginMkEnv, BeginRmEnv, BeginCreate, BeginOnSecret, Begin, tables
<1>2. ASSUME NEW r \in Request, Step(r) PROVE Live(s)
  <2>1. CASE CommitVersion(r)
    <3>1. s # r
      BY <2>1 DEF CommitVersion
    <3> QED  BY <2>1, <3>1 DEF CommitVersion
  <2>2. CASE DeleteEnv(r)
    BY <2>2, Zenon DEF DeleteEnv, Reads, tables, TypeOK
  <2>3. CASE SoftDelete(r)
    BY <2>3 DEF SoftDelete
  <2> QED
    BY <1>2, <2>1, <2>2, <2>3 DEF Step, CheckEnvName, InsertEnv, CommitEnv, ReadEnv,
       ReadSecret, ResolveEnvironment, ReadKey, CheckName, InsertSecret, ReadLatest,
       InsertVersion, ReadVersion, Decrypt, RecordReveal, Respond, Reads, tables
<1>3. ASSUME NEW r \in Request, Abort(r) PROVE Live(s)
  BY <1>3 DEF Abort, Reads, tables
<1>4. CASE UNCHANGED vars
  BY <1>4 DEF vars
<1> QED  BY <1>1, <1>2, <1>3, <1>4 DEF Next

\* No statement but the first changes the target or goes back to it.
LEMMA StepsOn ==
  ASSUME StoreInv, NEW r \in Request, Step(r) \/ Abort(r)
  PROVE  /\ pc[r] \in Running /\ pc'[r] # "readSecret"
         /\ seen' = seen
         /\ \A x \in Request : req'[x].op = req[x].op /\ req'[x].secret = req[x].secret
         /\ \A x \in Request \ {r} : pc'[x] = pc[x]
<1> USE DEF StoreInv, TypeOK, Goto, Reads, Running
<1>1. CASE Abort(r)
  BY <1>1 DEF Abort
<1>2. CASE ReadSecret(r)
  BY <1>2 DEF ReadSecret, Job
<1>3. CASE ReadLatest(r)
  <2>1. \E n : Set(r, "number", n)
    BY <1>3 DEF ReadLatest
  <2> QED  BY <1>3, <2>1 DEF ReadLatest, Set, Job
<1>4. CASE DeleteEnv(r)
  BY <1>4 DEF DeleteEnv
<1>5. CASE CheckEnvName(r) \/ InsertEnv(r) \/ CommitEnv(r) \/ ReadEnv(r)
  BY <1>5 DEF CheckEnvName, InsertEnv, CommitEnv, ReadEnv
<1>6. CASE ResolveEnvironment(r)
  BY <1>6 DEF ResolveEnvironment, AfterResolve
<1>7. CASE ReadKey(r) \/ CheckName(r) \/ InsertSecret(r) \/ InsertVersion(r) \/ CommitVersion(r)
  BY <1>7 DEF ReadKey, CheckName, InsertSecret, InsertVersion, CommitVersion
<1>8. CASE ReadVersion(r) \/ Decrypt(r) \/ RecordReveal(r) \/ Respond(r) \/ SoftDelete(r)
  BY <1>8 DEF ReadVersion, Decrypt, RecordReveal, Respond, SoftDelete
<1> QED  BY <1>1, <1>2, <1>3, <1>4, <1>5, <1>6, <1>7, <1>8 DEF Step

\* What a request is when it arrives.
Arrives(r, job, label) ==
  /\ pc[r] = "idle" /\ pc' = [pc EXCEPT ![r] = label] /\ req' = [req EXCEPT ![r] = job]
  /\ seen' = [seen EXCEPT ![r] = IF Live(job.secret) THEN VersionsOf(job.secret) ELSE {}]
  /\ UNCHANGED tables
  /\ label # "ok" /\ job.version = None
  /\ job.op \in {"rotate", "reveal", "delete"} => label = "readSecret"

LEMMA ArriveIs ==
  ASSUME NEW r \in Request, Arrive(r)
  PROVE  \E job, label : Arrives(r, job, label)
<1> USE DEF Arrives, Begin, Live, Goto, Untouched
<1>1. CASE BeginMkEnv(r)
  <2>1. PICK n \in Name :
          Begin(r, [Untouched EXCEPT !.op = "mkenv", !.env = r, !.name = n], "checkEnvName")
    BY <1>1 DEF BeginMkEnv
  <2> WITNESS [Untouched EXCEPT !.op = "mkenv", !.env = r, !.name = n], "checkEnvName"
  <2> QED  BY <2>1
<1>2. CASE BeginRmEnv(r)
  <2>1. PICK e \in Ids("mkenv") : Begin(r, [Untouched EXCEPT !.op = "rmenv", !.env = e], "readEnv")
    BY <1>2 DEF BeginRmEnv
  <2> WITNESS [Untouched EXCEPT !.op = "rmenv", !.env = e], "readEnv"
  <2> QED  BY <2>1
<1>3. CASE BeginCreate(r)
  <2>1. PICK e \in Ids("mkenv"), n \in Name :
          Begin(r, [Untouched EXCEPT !.op = "create", !.env = e, !.name = n,
                                     !.secret = r, !.number = 1], "resolve")
    BY <1>3 DEF BeginCreate
  <2> WITNESS [Untouched EXCEPT !.op = "create", !.env = e, !.name = n,
                                !.secret = r, !.number = 1], "resolve"
  <2> QED  BY <2>1
<1>4. CASE BeginOnSecret(r)
  <2>1. PICK s \in Ids("create"), op \in {"rotate", "reveal", "delete"} :
          Begin(r, [Untouched EXCEPT !.op = op, !.secret = s], "readSecret")
    BY <1>4 DEF BeginOnSecret
  <2> WITNESS [Untouched EXCEPT !.op = op, !.secret = s], "readSecret"
  <2> QED  BY <2>1
<1> QED  BY <1>1, <1>2, <1>3, <1>4 DEF Arrive

\* A request that begins sees the versions of a live target, which has one.
LEMMA ArriveTarget ==
  ASSUME FinalInv, NEW r \in Request, Arrive(r)
  PROVE  TargetShape'
<1> USE DEF FinalInv, StoreInv
<1>1. PICK job, label : Arrives(r, job, label)
  BY ArriveIs
<1> USE DEF Arrives
<1>2. \A s : Live(s)' = Live(s) /\ (Live(s) => VersionsOf(s) # {})
  BY <1>1 DEF Live, VersionChain, tables
<1>3. /\ \A x \in Request \ {r} : req'[x] = req[x] /\ pc'[x] = pc[x] /\ seen'[x] = seen[x]
      /\ req'[r] = job /\ pc'[r] = label
      /\ seen'[r] = IF Live(job.secret) THEN VersionsOf(job.secret) ELSE {}
  BY <1>1 DEF TypeOK
<1> QED  BY <1>1, <1>2, <1>3 DEF TargetShape, Found

\* A statement that goes on has found a target that was there from the start.
LEMMA StepTarget ==
  ASSUME FinalInv, NEW r \in Request, Step(r) \/ Abort(r), [Next]_vars
  PROVE  TargetShape'
<1> USE DEF FinalInv
<1> SUFFICES ASSUME NEW x \in Request, req'[x].op \in {"rotate", "reveal", "delete"}
             PROVE  /\ pc'[x] \in Found => seen'[x] # {}
                    /\ pc'[x] = "readSecret" /\ Live(req[x].secret)' => seen'[x] # {}
  BY DEF TargetShape
<1>1. /\ pc[r] \in Running /\ pc'[r] # "readSecret" /\ seen' = seen
      /\ req[x].op \in {"rotate", "reveal", "delete"} /\ req'[x].secret = req[x].secret
      /\ x # r => pc'[x] = pc[x]
  BY StepsOn
<1>2. req[x].secret \in Request /\ pc[req[x].secret] = "ok"
  BY <1>1 DEF StoreInv, JobsWellFormed
<1>3. CASE x # r
  <2>1. PICK s : s = req[x].secret
    OBVIOUS
  <2>2. Live(s)' => Live(s)
    BY <1>2, <2>1, NoRevival
  <2> QED  BY <1>1, <1>3, <2>1, <2>2 DEF TargetShape, Live
<1>4. CASE x = r /\ pc[r] # "readSecret"
  BY <1>1, <1>4 DEF TargetShape, Found
<1>5. CASE x = r /\ pc[r] = "readSecret"
  <2>1. pc'[r] \in Found => Live(req[r].secret)
    BY <1>5, StoreInv DEF StoreInv, TypeOK, Step, Abort, CheckEnvName, InsertEnv,
       CommitEnv,
       ReadEnv, DeleteEnv, ReadSecret, ResolveEnvironment, ReadKey, CheckName, InsertSecret,
       ReadLatest, InsertVersion, CommitVersion, ReadVersion, Decrypt, RecordReveal,
       Respond, SoftDelete, Reads, Goto, Found, Running
  <2> QED  BY <1>1, <1>5, <2>1 DEF TargetShape
<1> QED  BY <1>3, <1>4, <1>5

\* Nobody finds a secret again that was deleted, or dropped with its
\* environment, before the request began: no reveal, rotation or second
\* deletion of it succeeds, however long the request is under way.
THEOREM DeletedStaysDeleted == Spec => []DeleteIsFinal
<1>1. Init => TargetShape
  <2> SUFFICES ASSUME Init, NEW r \in Request
               PROVE  req[r].op \notin {"rotate", "reveal", "delete"}
    BY DEF TargetShape
  <2>1. PICK n : req[r] = IF r \in SeededEnvs
                              THEN [Untouched EXCEPT !.op = "mkenv", !.env = r, !.name = n]
                              ELSE Untouched
    <3>1. PICK name \in [SeededEnvs -> Name] :
            req = [x \in Request |->
                     IF x \in SeededEnvs
                       THEN [Untouched EXCEPT !.op = "mkenv", !.env = x, !.name = name[x]]
                       ELSE Untouched]
      BY DEF Init
    <3> QED  BY <3>1
  <2>2. req[r].op \in {"mkenv", "none"}
    BY <2>1 DEF Untouched
  <2> QED  BY <2>2
<1>2. FinalInv /\ [Next]_vars => FinalInv'
  <2> SUFFICES ASSUME FinalInv, [Next]_vars PROVE FinalInv'
    OBVIOUS
  <2>1. StoreInv'
    BY ArriveInv, StepInv, AbortInv, StutterInv DEF Next, FinalInv
  <2>2. CASE UNCHANGED vars
    BY <2>1, <2>2 DEF vars, FinalInv, TargetShape, Live
  <2>3. TargetShape'
    BY <2>2, ArriveTarget, StepTarget DEF Next, FinalInv, TargetShape
  <2> QED  BY <2>1, <2>3 DEF FinalInv
<1>3. FinalInv => DeleteIsFinal
  BY DEF FinalInv, TargetShape, Found, DeleteIsFinal
<1>4. Spec => []FinalInv
  BY <1>1, <1>2, InitStoreInv, PTL DEF Spec, FinalInv
<1> QED  BY <1>3, <1>4, PTL
=============================================================================
