----------------------- MODULE SecretsRefinementProofs ----------------------
(***************************************************************************)
(* Secrets implements SecretHistory for any number of requests, names and  *)
(* environments: each statement is a step of the append-only store, or     *)
(* none.                                                                   *)
(***************************************************************************)
EXTENDS SecretsRefinement, SecretsProofs, SequenceTheorems

\* A request that has not read its secret holds no version.
FirstRead == \A r \in Request : pc[r] = "readSecret" => req[r].version = None

MapInv == StoreInv /\ FirstRead

Quietly == <<Histories, deleted, Spent, Picked>>

---------------------------------------------------------------------------
(* Histories.                                                              *)

\* A history changes only with the rows of its secret.
LEMMA HistoryStays ==
  ASSUME StoreInv, NEW s \in Request, s \in secrets' <=> s \in secrets,
         s \in secrets => current'[s] = current[s] /\ VersionsOf(s)' = VersionsOf(s),
         \A v \in versions : req'[v].number = req[v].number
  PROVE  History(s)' = History(s)
<1>1. CASE s \notin secrets
  BY <1>1 DEF History
<1>2. CASE s \in secrets
  <2>1. VersionsOf(s) \subseteq versions /\ current[s] \in VersionsOf(s)
    BY <1>2 DEF VersionsOf, StoreInv, VersionChain
  <2>2. NumberOf(current[s])' = NumberOf(current[s])
    BY <1>2, <2>1 DEF NumberOf
  <2>3. \A n : Numbered(s, n)' = Numbered(s, n)
    BY <1>2, <2>1 DEF Numbered, NumberOf
  <2>4. ASSUME NEW n PROVE Nth(s, n)' = Nth(s, n)
    BY <2>3 DEF Nth
  <2>5. PICK N : N = NumberOf(current[s])
    OBVIOUS
  <2>6. History(s) = [n \in 1..N |-> Nth(s, n)]
    BY <1>2, <2>5 DEF History
  <2>7. History(s)' = [n \in 1..N |-> Nth(s, n)']
    BY <1>2, <2>2, <2>5 DEF History
  <2> QED  BY <2>4, <2>6, <2>7
<1> QED  BY <1>1, <1>2

\* The last version is the one the pointer names.
LEMMA LastVersion ==
  ASSUME StoreInv, NEW s \in secrets
  PROVE  /\ NumberOf(current[s]) \in Nat \ {0}
         /\ Len(Histories[s]) = NumberOf(current[s])
         /\ Histories[s] # << >>
         /\ Histories[s][Len(Histories[s])] = current[s]
<1> DEFINE N == NumberOf(current[s])
           h == [n \in 1..N |-> Nth(s, n)]
<1>1. /\ s \in Request
      /\ current[s] \in VersionsOf(s) /\ VersionsOf(s) \subseteq Request
      /\ \A v \in VersionsOf(s) : NumberOf(v) \in Nat
    BY DEF StoreInv, TypeOK, VersionChain, VersionsOf, NumberOf, Job
<1>2. N # 0
  <2>1. N = 1 \/ \E w \in VersionsOf(s) : NumberOf(w) + 1 = N
    BY <1>1 DEF StoreInv, VersionChain
  <2> QED  BY <1>1, <2>1
<1>3. Histories[s] = h
  BY <1>1 DEF Histories, History
<1>4. N \in Nat
  BY <1>1
<1>5. Len(h) = N
  <2> HIDE DEF N
  <2> QED  BY <1>4
<1>6. h # << >>
  <2> HIDE DEF N, h
  <2>1. Len(<< >>) = 0
    BY EmptySeq
  <2> QED  BY <1>2, <1>5, <2>1, Zenon
<1>7. Numbered(s, N) = {current[s]}
  BY <1>1 DEF Numbered, StoreInv, VersionChain
<1>8. h[N] = current[s]
  <2>1. N \in 1..N
    BY <1>2, <1>4
  <2>2. h[N] = Nth(s, N)
    BY <2>1
  <2> QED  BY <1>7, <2>2 DEF Nth
<1> HIDE DEF N, h
<1> QED  BY <1>2, <1>3, <1>4, <1>5, <1>6, <1>8 DEF N

---------------------------------------------------------------------------
(* Steps the abstract store does not see.                                  *)

Quiet(r) ==
  /\ UNCHANGED <<secrets, current, versions, deleted>>
  /\ \A x \in Request \ {r} : pc'[x] = pc[x] /\ req'[x] = req[x]
  /\ pc[r] # "ok"
  /\ pc'[r] = "ok" => req'[r].op \notin {"create", "rotate"}
  /\ (IF req'[r].op = "reveal" THEN req'[r].version ELSE None)
       = IF req[r].op = "reveal" THEN req[r].version ELSE None

\* Such a step changes nothing the abstract store has.
LEMMA QuietStutters ==
  ASSUME StoreInv, NEW r \in Request, Quiet(r)
  PROVE  UNCHANGED Quietly
<1>1. \A v \in versions : v \in Request /\ req'[v] = req[v]
  BY DEF Quiet, StoreInv, TypeOK, RowsCommitted
<1>2. Histories' = Histories
  <2>1. \A s \in Request : VersionsOf(s)' = VersionsOf(s)
    BY <1>1 DEF VersionsOf, SecretOf, Quiet
  <2>2. ASSUME NEW s \in Request PROVE History(s)' = History(s)
    BY <1>1, <2>1, HistoryStays DEF Quiet
  <2> QED  BY <2>2 DEF Histories
<1>3. Spent' = Spent
  BY DEF Quiet, Spent
<1>4. Picked' = Picked
  BY DEF Quiet, Picked
<1> QED  BY <1>2, <1>3, <1>4 DEF Quietly, Quiet

\* A request that arrives has read nothing and holds no version.
LEMMA ArriveQuiet ==
  ASSUME MapInv, NEW r \in Request, Arrive(r)
  PROVE  Quiet(r) /\ FirstRead'
<1> USE DEF MapInv
<1>1. PICK job, label : Arrives(r, job, label)
  BY ArriveIs
<1> USE DEF Arrives
<1>2. /\ \A x \in Request \ {r} : req'[x] = req[x] /\ pc'[x] = pc[x]
      /\ req'[r] = job /\ pc'[r] = label
  BY <1>1 DEF StoreInv, TypeOK
<1>3. req[r] = Untouched
  BY <1>1 DEF StoreInv, JobsWellFormed
<1>4. Quiet(r)
  <2>1. req[r].op = "none" /\ pc[r] # "ok"
    BY <1>1, <1>3 DEF Untouched
  <2>2. req'[r].version = None /\ pc'[r] # "ok"
    BY <1>1, <1>2
  <2> QED  BY <1>1, <1>2, <2>1, <2>2 DEF Quiet, tables
<1>5. FirstRead'
  BY <1>1, <1>2 DEF FirstRead
<1> QED  BY <1>4, <1>5

\* Statements that change no secret, version or answer of a write.
ReadsOnly(r) ==
  \/ CheckEnvName(r) \/ InsertEnv(r) \/ CommitEnv(r) \/ ReadEnv(r)
  \/ ResolveEnvironment(r) \/ ReadKey(r) \/ CheckName(r) \/ InsertSecret(r)
  \/ ReadLatest(r) \/ InsertVersion(r) \/ ReadVersion(r) \/ Decrypt(r)
  \/ RecordReveal(r) \/ Respond(r) \/ Abort(r)

\* They are quiet: what they answer is not the success of a write.
LEMMA ReadsQuiet ==
  ASSUME StoreInv, NEW r \in Request, ReadsOnly(r)
  PROVE  Quiet(r)
<1> USE DEF StoreInv, TypeOK, Goto, Reads, tables, Quiet
<1>1. CASE CheckEnvName(r) \/ InsertEnv(r) \/ ReadEnv(r)
  BY <1>1 DEF CheckEnvName, InsertEnv, ReadEnv
<1>2. CASE CommitEnv(r)
  BY <1>2 DEF CommitEnv, JobsWellFormed
<1>3. CASE ResolveEnvironment(r)
  BY <1>3 DEF ResolveEnvironment, AfterResolve
<1>4. CASE ReadKey(r) \/ CheckName(r) \/ InsertSecret(r) \/ InsertVersion(r)
  BY <1>4 DEF ReadKey, CheckName, InsertSecret, InsertVersion
<1>5. CASE ReadLatest(r)
  <2>1. PICK n : Set(r, "number", n)
    BY <1>5 DEF ReadLatest
  <2> QED  BY <1>5, <2>1 DEF ReadLatest, Set, Job
<1>6. CASE ReadVersion(r) \/ Decrypt(r) \/ RecordReveal(r)
  BY <1>6 DEF ReadVersion, Decrypt, RecordReveal
<1>7. CASE Respond(r)
  BY <1>7 DEF Respond, JobsWellFormed
<1>8. CASE Abort(r)
  BY <1>8 DEF Abort, Running
<1> QED  BY <1>1, <1>2, <1>3, <1>4, <1>5, <1>6, <1>7, <1>8 DEF ReadsOnly

\* No statement goes back to the first, nor fills in another's version.
LEMMA ReadsFirst ==
  ASSUME MapInv, NEW r \in Request, Step(r) \/ Abort(r)
  PROVE  FirstRead'
<1>1. /\ pc'[r] # "readSecret"
      /\ \A x \in Request \ {r} : pc'[x] = pc[x]
  BY StepsOn DEF MapInv
<1>2. \A x \in Request \ {r} : req'[x] = req[x]
  <2>1. CASE ReadSecret(r)
    BY <2>1 DEF ReadSecret, MapInv, StoreInv, TypeOK
  <2>2. CASE ReadLatest(r)
    <3>1. PICK n : Set(r, "number", n)
      BY <2>2 DEF ReadLatest
    <3> QED  BY <3>1 DEF Set
  <2>3. CASE ~ReadSecret(r) /\ ~ReadLatest(r)
    BY <2>3 DEF Step, Abort, CheckEnvName, InsertEnv, CommitEnv, ReadEnv, DeleteEnv,
       ResolveEnvironment, ReadKey, CheckName, InsertSecret, InsertVersion, CommitVersion,
       ReadVersion, Decrypt, RecordReveal, Respond, SoftDelete
  <2> QED  BY <2>1, <2>2, <2>3
<1> QED  BY <1>1, <1>2 DEF MapInv, FirstRead

---------------------------------------------------------------------------
(* Steps the abstract store sees.                                          *)

\* A reveal reads the last version when it reads the secret.
LEMMA ReadMaps ==
  ASSUME MapInv, NEW r \in Request, ReadSecret(r)
  PROVE  UNCHANGED Quietly \/ \E s \in Request : Abstract!Reveal(r, s)
<1> USE DEF MapInv
<1>1. pc[r] = "readSecret" /\ UNCHANGED <<secrets, current, versions, deleted>>
  BY DEF ReadSecret, Reads, tables
<1>2. \A x \in Request \ {r} : pc'[x] = pc[x] /\ req'[x] = req[x]
  BY DEF ReadSecret, Reads, Goto, StoreInv, TypeOK
<1>3. pc'[r] # "ok"
  BY DEF ReadSecret, Reads, Goto, StoreInv, TypeOK
<1>4. /\ req'[r].op = req[r].op
      /\ req'[r].version = IF Live(req[r].secret) THEN current[req[r].secret]
                                                 ELSE req[r].version
  BY DEF ReadSecret, StoreInv, TypeOK, Job
<1>5. CASE req[r].op # "reveal" \/ ~Live(req[r].secret)
  BY <1>1, <1>2, <1>3, <1>4, <1>5, QuietStutters DEF Quiet
<1>6. CASE req[r].op = "reveal" /\ Live(req[r].secret)
  <2>1. PICK s : s = req[r].secret
    OBVIOUS
  <2>2. s \in Request /\ s \in secrets /\ s \notin deleted
    BY <1>6, <2>1 DEF Live, StoreInv, TypeOK
  <2>3. Histories[s] # << >> /\ Histories[s][Len(Histories[s])] = current[s]
    BY <2>2, LastVersion
  <2>4. Picked[r] = None /\ Picked' = [Picked EXCEPT ![r] = current[s]]
    BY <1>1, <1>2, <1>4, <1>6, <2>1 DEF Picked, FirstRead
  <2>5. Spent' = Spent
    BY <1>1, <1>2, <1>3 DEF Spent
  <2>6. Histories' = Histories
    <3>1. \A v \in versions : v \in Request /\ req'[v] = req[v]
      BY <1>1, <1>2 DEF StoreInv, TypeOK, RowsCommitted
    <3>2. \A x \in Request : VersionsOf(x)' = VersionsOf(x)
      BY <1>1, <3>1 DEF VersionsOf, SecretOf
    <3>3. ASSUME NEW x \in Request PROVE History(x)' = History(x)
      BY <1>1, <3>1, <3>2, HistoryStays
    <3> QED  BY <3>3 DEF Histories
  <2>7. Abstract!Reveal(r, s)
    BY <1>1, <2>2, <2>3, <2>4, <2>5, <2>6 DEF Abstract!Reveal, Abstract!Exists
  <2> QED  BY <2>2, <2>7
<1> QED  BY <1>5, <1>6

\* The UPDATE of a row that is gone changes nothing.
LEMMA SoftDeleteMaps ==
  ASSUME MapInv, NEW r \in Request, SoftDelete(r)
  PROVE  UNCHANGED Quietly \/ \E s \in Request : Abstract!Delete(s)
<1> USE DEF MapInv, StoreInv
<1>1. /\ UNCHANGED <<secrets, current, versions, req>>
      /\ \A x \in Request \ {r} : pc'[x] = pc[x]
      /\ pc[r] = "softDelete" /\ req[r].op = "delete"
  BY DEF SoftDelete, Goto, TypeOK, JobsWellFormed
<1>2. CASE req[r].secret \notin secrets
  <2>1. deleted' = deleted
    BY <1>2 DEF SoftDelete
  <2> QED  BY <1>1, <2>1, QuietStutters DEF Quiet
<1>3. CASE req[r].secret \in secrets
  <2>1. PICK s : s = req[r].secret
    OBVIOUS
  <2>2. s \in Request /\ Histories[s] # << >>
    BY <1>3, <2>1, LastVersion DEF TypeOK
  <2>3. deleted' = deleted \cup {s}
    BY <1>3, <2>1 DEF SoftDelete
  <2>4. Spent' = Spent /\ Picked' = Picked
    BY <1>1 DEF Spent, Picked
  <2>5. Histories' = Histories
    BY <1>1 DEF Histories, History, Nth, Numbered, VersionsOf, SecretOf, NumberOf
  <2> QED  BY <2>2, <2>3, <2>4, <2>5 DEF Abstract!Delete, Abstract!Exists
<1> QED  BY <1>2, <1>3

\* The cascade takes the secrets of the environment and their versions.
LEMMA DeleteEnvMaps ==
  ASSUME MapInv, NEW r \in Request, DeleteEnv(r)
  PROVE  UNCHANGED Quietly \/ \E S \in SUBSET Request : Abstract!Drop(S)
<1> USE DEF MapInv, StoreInv
<1> DEFINE e == req[r].env
           gone == {s \in secrets : EnvOf(s) = e}
           goneVersions == {v \in versions : SecretOf(v) \in gone}
<1>1. /\ pc[r] = "deleteEnv" /\ req[r].op = "rmenv" /\ UNCHANGED <<req, current>>
      /\ \A x \in Request \ {r} : pc'[x] = pc[x]
  BY DEF DeleteEnv, Reads, Goto, tables, TypeOK, JobsWellFormed
<1>2. \/ UNCHANGED <<secrets, versions, deleted>>
      \/ /\ secrets' = secrets \ gone /\ deleted' = deleted \ gone
         /\ versions' = versions \ goneVersions
  BY Zenon DEF DeleteEnv, Reads, tables
<1>3. CASE UNCHANGED <<secrets, versions, deleted>>
  BY <1>1, <1>3, QuietStutters DEF Quiet
<1>4. CASE /\ secrets' = secrets \ gone /\ deleted' = deleted \ gone
           /\ versions' = versions \ goneVersions
  <2>1. gone \in SUBSET Request
    BY DEF TypeOK
  <2>2. Spent' = Spent /\ Picked' = Picked
    BY <1>1 DEF Spent, Picked
  <2>3. ASSUME NEW s \in Request, s \notin gone PROVE History(s)' = History(s)
    <3>1. s \in secrets' <=> s \in secrets
      BY <1>4, <2>3
    <3>2. VersionsOf(s)' = VersionsOf(s)
      <4>1. \A v \in versions : SecretOf(v) = s => v \notin goneVersions
        BY <2>3
      <4> QED  BY <1>1, <1>4, <4>1 DEF VersionsOf, SecretOf
    <3> QED  BY <1>1, <3>1, <3>2, HistoryStays
  <2>4. ASSUME NEW s \in gone PROVE History(s)' = << >>
    <3>1. s \notin secrets'
      BY <1>4, <2>4
    <3> QED  BY <3>1 DEF History
  <2> HIDE DEF gone
  <2>5. Histories' = [s \in Request |-> IF s \in gone THEN << >> ELSE Histories[s]]
    BY <2>3, <2>4 DEF Histories
  <2>6. deleted' = deleted \ gone
    BY <1>4
  <2>7. Abstract!Drop(gone)
    BY <2>2, <2>5, <2>6 DEF Abstract!Drop
  <2> QED  BY <2>1, <2>7
<1> QED  BY <1>2, <1>3, <1>4

\* A creation starts a history.
LEMMA CreateMaps ==
  ASSUME MapInv, NEW r \in Request, CommitVersion(r), req[r].op = "create"
  PROVE  Abstract!Create(r)
<1> USE DEF MapInv, StoreInv
<1>1. /\ pc[r] = "commit" /\ req' = req /\ deleted' = deleted
      /\ \A x \in Request \ {r} : pc'[x] = pc[x]
      /\ pc'[r] = "ok"
      /\ secrets' = secrets \cup {r} /\ versions' = versions \cup {r}
      /\ req[r].secret = r /\ req[r].number = 1
      /\ current' = [current EXCEPT ![r] = r]
  <2>1. req[r].secret = r /\ req[r].number = 1
    BY DEF JobsWellFormed
  <2> QED  BY <2>1 DEF CommitVersion, Goto, TypeOK
<1>2. r \notin secrets /\ r \notin versions
  BY <1>1 DEF RowsCommitted
<1>3. \A v \in versions : v \in Request /\ SecretOf(v) # r
  BY <1>2 DEF EveryVersionDecryptable, TypeOK
<1>4. Histories' = [Histories EXCEPT ![r] = <<r>>]
  <2>1. ASSUME NEW s \in Request, s # r PROVE History(s)' = History(s)
    <3>1. VersionsOf(s)' = VersionsOf(s)
      BY <1>1, <2>1 DEF VersionsOf, SecretOf
    <3>2. current'[s] = current[s] /\ (s \in secrets' <=> s \in secrets)
      BY <1>1, <2>1 DEF TypeOK
    <3> QED  BY <1>1, <3>1, <3>2, HistoryStays
  <2>2. History(r)' = <<r>>
    <3>1. r \in secrets' /\ NumberOf(current[r])' = 1
      BY <1>1 DEF NumberOf, TypeOK
    <3>2. Numbered(r, 1)' = {r}
      BY <1>1, <1>3 DEF Numbered, VersionsOf, SecretOf, NumberOf
    <3>3. Nth(r, 1)' = r
      BY <3>2 DEF Nth
    <3>4. History(r)' = [n \in 1..1 |-> Nth(r, n)']
      BY <3>1 DEF History
    <3>5. [n \in 1..1 |-> Nth(r, n)'] = [n \in 1..1 |-> r]
      BY <3>3
    <3>6. [n \in 1..1 |-> r] = <<r>>
      OBVIOUS
    <3> QED  BY <3>4, <3>5, <3>6
  <2> QED  BY <2>1, <2>2 DEF Histories
<1>5. Histories[r] = << >>
  BY <1>2 DEF Histories, History
<1>6. r \notin Spent /\ Spent' = Spent \cup {r}
  BY <1>1 DEF Spent
<1>7. Picked' = Picked
  BY <1>1 DEF Picked
<1> QED  BY <1>1, <1>4, <1>5, <1>6, <1>7 DEF Abstract!Create, Abstract!Exists

\* A rotation appends to it: uq_secret_version has kept its number free, and
\* the pointer's is the one below.
LEMMA RotateMaps ==
  ASSUME MapInv, NEW r \in Request, CommitVersion(r), req[r].op = "rotate"
  PROVE  \E s \in Request : Abstract!Rotate(s, r)
<1> USE DEF MapInv, StoreInv
<1>0. PICK s : s = req[r].secret
  OBVIOUS
<1>1. /\ pc[r] = "commit" /\ req' = req /\ deleted' = deleted
      /\ \A x \in Request \ {r} : pc'[x] = pc[x]
      /\ pc'[r] = "ok"
      /\ secrets' = secrets /\ versions' = versions \cup {r}
      /\ current' = [current EXCEPT ![s] = r]
  BY <1>0 DEF CommitVersion, Goto, TypeOK
<1>2. r \notin versions
  BY <1>1 DEF RowsCommitted
<1>3. s \in secrets /\ s \in Request
  BY <1>0, <1>1 DEF PinsHold, UncommittedVersion, TypeOK
<1>4. PICK N : N = NumberOf(current[s])
  OBVIOUS
<1>5. /\ N \in Nat \ {0} /\ Len(Histories[s]) = N /\ Histories[s] # << >>
  BY <1>3, <1>4, LastVersion
<1>6. NumberOf(r) = N + 1
  <2>1. /\ Follows(NumberOf(r), s) /\ Tops(NumberOf(r), s)
    BY <1>0, <1>1 DEF NumbersChosen, UncommittedVersion, NumberOf
  <2>2. /\ current[s] \in VersionsOf(s)
        /\ \A v \in VersionsOf(s) : NumberOf(v) \in Nat /\ NumberOf(v) <= N
    BY <1>3, <1>4 DEF VersionChain, VersionsOf, NumberOf, TypeOK, Job
  <2>3. NumberOf(r) \in Nat
    BY DEF NumberOf, TypeOK, Job
  <2>4. N < NumberOf(r)
    BY <1>4, <2>1, <2>2 DEF Tops
  <2>5. NumberOf(r) = 1 \/ \E v \in VersionsOf(s) : NumberOf(v) + 1 = NumberOf(r)
    BY <2>1 DEF Follows
  <2> QED  BY <1>5, <2>2, <2>3, <2>4, <2>5
<1>7. Histories' = [Histories EXCEPT ![s] = Append(@, r)]
  <2>1. ASSUME NEW x \in Request, x # s PROVE History(x)' = History(x)
    <3>1. VersionsOf(x)' = VersionsOf(x)
      BY <1>0, <1>1, <2>1 DEF VersionsOf, SecretOf
    <3>2. current'[x] = current[x]
      BY <1>1, <2>1 DEF TypeOK
    <3> QED  BY <1>1, <3>1, <3>2, HistoryStays
  <2>2. History(s)' = Append(Histories[s], r)
    <3>1. NumberOf(current[s])' = N + 1
      BY <1>1, <1>3, <1>6 DEF NumberOf, TypeOK
    <3>2. \A v : v \in VersionsOf(s)' <=> v \in VersionsOf(s) \/ v = r
      BY <1>0, <1>1 DEF VersionsOf, SecretOf
    <3>3. ASSUME NEW n \in 1..N PROVE Nth(s, n)' = Nth(s, n)
      <4>1. Numbered(s, n)' = Numbered(s, n)
        BY <1>1, <1>5, <1>6, <3>2 DEF Numbered, NumberOf
      <4> QED  BY <4>1 DEF Nth
    <3>4. Nth(s, N + 1)' = r
      <4>1. \A v \in VersionsOf(s) : NumberOf(v) # N + 1
        BY <1>3, <1>5, <1>4 DEF VersionChain, VersionsOf, NumberOf, TypeOK, Job
      <4>2. Numbered(s, N + 1)' = {r}
        BY <1>1, <1>6, <3>2, <4>1 DEF Numbered, NumberOf
      <4> QED  BY <4>2 DEF Nth
    <3>5. History(s)' = [n \in 1..(N + 1) |-> Nth(s, n)']
      BY <1>1, <1>3, <3>1 DEF History
    <3>6. Histories[s] = [n \in 1..N |-> Nth(s, n)]
      BY <1>3, <1>4 DEF Histories, History
    <3>7. Append([n \in 1..N |-> Nth(s, n)], r) = [n \in 1..(N + 1) |-> Nth(s, n)']
      BY <1>5, <3>3, <3>4
    <3> QED  BY <3>5, <3>6, <3>7
  <2> QED  BY <1>3, <2>1, <2>2 DEF Histories
<1>8. r \notin Spent /\ Spent' = Spent \cup {r}
  BY <1>1 DEF Spent
<1>9. Picked' = Picked
  BY <1>1 DEF Picked
<1> QED
  BY <1>1, <1>3, <1>5, <1>7, <1>8, <1>9 DEF Abstract!Rotate, Abstract!Exists

---------------------------------------------------------------------------
(* The refinement.                                                         *)

\* No secret is there at the start.
LEMMA InitMaps == Init => FirstRead /\ Abstract!Init
<1> SUFFICES ASSUME Init PROVE FirstRead /\ Abstract!Init
  OBVIOUS
<1> USE DEF Init
<1>1. FirstRead
  BY DEF FirstRead
<1>2. \A r \in Request : req[r].op \in {"mkenv", "none"}
  <2>1. PICK name \in [SeededEnvs -> Name] :
          req = [r \in Request |->
                  IF r \in SeededEnvs
                    THEN [Untouched EXCEPT !.op = "mkenv", !.env = r, !.name = name[r]]
                    ELSE Untouched]
    OBVIOUS
  <2> QED  BY <2>1 DEF Untouched
<1>3. Histories = [s \in Request |-> << >>] /\ deleted = {}
  BY DEF Histories, History
<1>4. Spent = {} /\ Picked = [r \in Request |-> None]
  BY <1>2 DEF Spent, Picked
<1> QED  BY <1>1, <1>3, <1>4 DEF Abstract!Init

\* The transactional store is the append-only one: for any number of requests
\* that interleave at every statement, a rotation adds one version at the end,
\* nothing is renumbered or lost, and a reveal reads the last version of a
\* secret not deleted by then.
THEOREM StoreImplementsHistory == Spec => ImplementsHistory
<1> USE DEF Abstract!vars, Quietly
<1>1. MapInv /\ [Next]_vars => FirstRead' /\ [Abstract!Next]_(Abstract!vars)
  <2> SUFFICES ASSUME MapInv, [Next]_vars
               PROVE  FirstRead' /\ [Abstract!Next]_(Abstract!vars)
    OBVIOUS
  <2>1. ASSUME NEW r \in Request, Arrive(r)
        PROVE  FirstRead' /\ [Abstract!Next]_(Abstract!vars)
    BY <2>1, ArriveQuiet, QuietStutters DEF MapInv
  <2>2. ASSUME NEW r \in Request, Step(r) \/ Abort(r)
        PROVE  FirstRead' /\ [Abstract!Next]_(Abstract!vars)
    <3>1. FirstRead'
      BY <2>2, ReadsFirst
    <3>2. CASE ReadsOnly(r)
      BY <3>1, <3>2, ReadsQuiet, QuietStutters DEF MapInv
    <3>3. CASE ReadSecret(r)
      BY <3>1, <3>3, ReadMaps DEF Abstract!Next
    <3>4. CASE SoftDelete(r)
      BY <3>1, <3>4, SoftDeleteMaps DEF Abstract!Next
    <3>5. CASE DeleteEnv(r)
      BY <3>1, <3>5, DeleteEnvMaps DEF Abstract!Next
    <3>6. CASE CommitVersion(r)
      <4>1. req[r].op \in {"create", "rotate"}
        BY <3>6 DEF CommitVersion, MapInv, StoreInv, JobsWellFormed
      <4> QED  BY <3>1, <3>6, <4>1, CreateMaps, RotateMaps DEF Abstract!Next
    <3> QED  BY <2>2, <3>2, <3>3, <3>4, <3>5, <3>6 DEF Step, ReadsOnly
  <2>3. CASE UNCHANGED vars
    <3>1. FirstRead'
      BY <2>3 DEF vars, MapInv, FirstRead
    <3>2. UNCHANGED Abstract!vars
      BY <2>3 DEF vars, Histories, History, Nth, Numbered, VersionsOf, SecretOf, NumberOf,
         Spent, Picked
    <3> QED  BY <3>1, <3>2
  <2> QED  BY <2>1, <2>2, <2>3 DEF Next
<1> HIDE DEF Abstract!vars
<1> QED  BY InitMaps, <1>1, StoreInvariant, PTL DEF Spec, MapInv, ImplementsHistory,
            Abstract!Spec
=============================================================================
