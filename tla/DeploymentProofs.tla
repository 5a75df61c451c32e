--------------------------- MODULE DeploymentProofs --------------------------
(***************************************************************************)
(* For any number of overlapping Alembic commands: the schema is what its  *)
(* revision says, a database at the latest revision serves the             *)
(* application, and a bootstrapped migration role can always get there.    *)
(***************************************************************************)
EXTENDS Deployment, SequenceTheorems, TLAPS

Command == {"extensions", "createMigrate", "ownSchema", "reassign", "createApp",
            "grantTables", "grantFunctions", "revokePublic", "grantCreateOrg", "defaults"}

\* What is left of a script is never empty.
ScriptShape ==
  \/ script = Nothing
  \/ script \in [name : {"initDb", "provision"}, rest : Seq(Command)] /\ Len(script.rest) > 0

RunShape ==
  /\ run \in [Runner -> [by : {Operator, Migrate, None}, seen : 0..Latest, to : 0..Latest]]
  /\ \A a \in Runner : run[a] # Idle => run[a].by \in {Operator, Migrate}

\* ShapeFollowsRevision, of any database.
Shaped(d) ==
  LET at == d.rev
      has(f) == f \in d.shape
      there(o) == d.owner[o] # None
  IN  /\ has("deletedAt") <=> at >= AddDeletedAt
      /\ has("cascade") <=> at # 0 /\ at # AddDeletedAt
      /\ at >= SafeCasts => has("safeCasts") /\ there("settingUuid")
      /\ has("peers") <=> at = WidenPeers
      /\ there("tables") <=> at >= Initial
      /\ there("createOrg") <=> at >= AddCreateOrg
      /\ there("isMember") <=> at = WidenPeers

\* What no function, script or migration ever gives to PUBLIC, and what the
\* application has got with which revision.
Granted(d) ==
  /\ d.public = {}
  /\ d.rev >= AddCreateOrg => App \in d.roles
  /\ d.rev >= GrantDml => {"tables", "createOrg"} \subseteq d.app
  /\ d.rev = WidenPeers => "isMember" \in d.app

Sound(d) == d \in Database /\ Shaped(d) /\ Granted(d)

\* Nothing belongs to the migration role, which is not there.
Plain(d) == Migrate \notin d.roles /\ \A o \in Object : d.owner[o] # Migrate

\* The first boot of Docker makes the application's role only, and the scripts
\* that make the migration role are for servers.
DockerCommand == Command \ {"extensions", "createMigrate", "ownSchema", "reassign"}
DockerShape ==
  place = "docker" =>
    /\ Plain(db) /\ \A a \in Runner : run[a].by # Migrate
    /\ script # Nothing => script.rest \in Seq(DockerCommand)

DeployInv == place \in {"docker", "server"} /\ Sound(db) /\ ScriptShape /\ RunShape

---------------------------------------------------------------------------
(* Migrations.                                                             *)

\* A revision may be written into any database.
LEMMA WithRevision ==
  ASSUME NEW d \in Database, NEW n \in 0..Latest
  PROVE  [d EXCEPT !.rev = n] \in Database
  BY DEF Database

\* A migration that does not raise leads to the shape of its revision.
LEMMA UpgradeSound ==
  ASSUME NEW d, Sound(d), NEW n \in 1..Latest, d.rev = n - 1,
         NEW by \in {Operator, Migrate}, CanUpgrade(n, d, by)
  PROVE  Sound(Upgrade(n, d, by)) /\ Upgrade(n, d, by).rev = n
<1> USE RolesDiffer DEF Initial, AddDeletedAt, RestoreCascade, AddCreateOrg, SafeCasts,
                        GrantDml, WidenPeers, Latest
<1>0. n \in 1..7
  OBVIOUS
<1> USE DEF Sound, Database, Object, Definer, Feature
<1>1. CASE n = 1
  <2>1. Upgrade(n, d, by) = [CreateTables(d, by) EXCEPT !.rev = 1]
    BY <1>1 DEF Upgrade
  <2>2. [CreateTables(d, by) EXCEPT !.rev = 1] \in Database
    <3>1. CreateTables(d, by) \in Database
      BY DEF CreateTables, Made
    <3>2. 1 \in 0..Latest
      OBVIOUS
    <3> HIDE DEF Database, Latest
    <3> QED  BY <3>1, <3>2, WithRevision, Zenon
  <2>3. Shaped([CreateTables(d, by) EXCEPT !.rev = 1])
    BY <1>1 DEF CreateTables, Made, Shaped
  <2>4. Granted([CreateTables(d, by) EXCEPT !.rev = 1])
    BY <1>1 DEF CreateTables, Made, Shaped, Granted
  <2> QED  BY <1>1, <2>1, <2>2, <2>3, <2>4
<1>2. CASE n = 2
  <2>1. Upgrade(n, d, by) = [AddColumn(d) EXCEPT !.rev = 2]
    BY <1>2 DEF Upgrade
  <2>2. [AddColumn(d) EXCEPT !.rev = 2] \in Database
    <3>1. AddColumn(d) \in Database
      BY DEF AddColumn, Made
    <3>2. 2 \in 0..Latest
      OBVIOUS
    <3> HIDE DEF Database, Latest
    <3> QED  BY <3>1, <3>2, WithRevision, Zenon
  <2>3. Shaped([AddColumn(d) EXCEPT !.rev = 2])
    BY <1>2 DEF AddColumn, Made, Shaped
  <2>4. Granted([AddColumn(d) EXCEPT !.rev = 2])
    BY <1>2 DEF AddColumn, Made, Shaped, Granted
  <2> QED  BY <1>2, <2>1, <2>2, <2>3, <2>4
<1>3. CASE n = 3
  <2>1. Upgrade(n, d, by) = [AddCascade(d) EXCEPT !.rev = 3]
    BY <1>3 DEF Upgrade
  <2>2. [AddCascade(d) EXCEPT !.rev = 3] \in Database
    <3>1. AddCascade(d) \in Database
      BY DEF AddCascade, Made
    <3>2. 3 \in 0..Latest
      OBVIOUS
    <3> HIDE DEF Database, Latest
    <3> QED  BY <3>1, <3>2, WithRevision, Zenon
  <2>3. Shaped([AddCascade(d) EXCEPT !.rev = 3])
    BY <1>3 DEF AddCascade, Made, Shaped
  <2>4. Granted([AddCascade(d) EXCEPT !.rev = 3])
    BY <1>3 DEF AddCascade, Made, Shaped, Granted
  <2> QED  BY <1>3, <2>1, <2>2, <2>3, <2>4
<1>4. CASE n = 4
  <2>1. Upgrade(n, d, by) = [AddDefiner(d, by, "createOrg") EXCEPT !.rev = 4]
    BY <1>4 DEF Upgrade
  <2>2. [AddDefiner(d, by, "createOrg") EXCEPT !.rev = 4] \in Database
    <3>1. AddDefiner(d, by, "createOrg") \in Database
      BY DEF AddDefiner, Made
    <3>2. 4 \in 0..Latest
      OBVIOUS
    <3> HIDE DEF Database, Latest
    <3> QED  BY <3>1, <3>2, WithRevision, Zenon
  <2>3. Shaped([AddDefiner(d, by, "createOrg") EXCEPT !.rev = 4])
    BY <1>4 DEF AddDefiner, Made, Shaped
  <2>4. Granted([AddDefiner(d, by, "createOrg") EXCEPT !.rev = 4])
    BY <1>4 DEF AddDefiner, Made, Shaped, Granted, CanUpgrade
  <2> QED  BY <1>4, <2>1, <2>2, <2>3, <2>4
<1>5. CASE n = 5
  <2>1. Upgrade(n, d, by) = [RewritePolicies(d, by) EXCEPT !.rev = 5]
    BY <1>5 DEF Upgrade
  <2>2. [RewritePolicies(d, by) EXCEPT !.rev = 5] \in Database
    <3>1. RewritePolicies(d, by) \in Database
      BY DEF RewritePolicies, Made
    <3>2. 5 \in 0..Latest
      OBVIOUS
    <3> HIDE DEF Database, Latest
    <3> QED  BY <3>1, <3>2, WithRevision, Zenon
  <2>3. Shaped([RewritePolicies(d, by) EXCEPT !.rev = 5])
    BY <1>5 DEF RewritePolicies, Made, Shaped
  <2>4. Granted([RewritePolicies(d, by) EXCEPT !.rev = 5])
    BY <1>5 DEF RewritePolicies, Made, Shaped, Granted
  <2> QED  BY <1>5, <2>1, <2>2, <2>3, <2>4
<1>6. CASE n = 6
  <2>1. Upgrade(n, d, by) = [GrantAll(d, by) EXCEPT !.rev = 6]
    BY <1>6 DEF Upgrade
  <2>2. [GrantAll(d, by) EXCEPT !.rev = 6] \in Database
    <3>1. GrantAll(d, by) \in Database
      BY DEF GrantAll, Made
    <3>2. 6 \in 0..Latest
      OBVIOUS
    <3> HIDE DEF Database, Latest
    <3> QED  BY <3>1, <3>2, WithRevision, Zenon
  <2>3. Shaped([GrantAll(d, by) EXCEPT !.rev = 6])
    BY <1>6 DEF GrantAll, Made, Shaped
  <2>4. Granted([GrantAll(d, by) EXCEPT !.rev = 6])
    BY <1>6 DEF GrantAll, Made, Shaped, Granted, CanUpgrade
  <2> QED  BY <1>6, <2>1, <2>2, <2>3, <2>4
<1>7. CASE n = 7
  <2>1. Upgrade(n, d, by) = [ShowPeers(d, by) EXCEPT !.rev = 7]
    BY <1>7 DEF Upgrade
  <2>2. [ShowPeers(d, by) EXCEPT !.rev = 7] \in Database
    <3>1. ShowPeers(d, by) \in Database
      BY DEF ShowPeers, AddDefiner, Made
    <3>2. 7 \in 0..Latest
      OBVIOUS
    <3> HIDE DEF Database, Latest
    <3> QED  BY <3>1, <3>2, WithRevision, Zenon
  <2>3. Shaped([ShowPeers(d, by) EXCEPT !.rev = 7])
    BY <1>7 DEF ShowPeers, AddDefiner, Made, Shaped
  <2>4. Granted([ShowPeers(d, by) EXCEPT !.rev = 7])
    BY <1>7 DEF ShowPeers, AddDefiner, Made, Shaped, Granted, CanUpgrade
  <2> QED  BY <1>7, <2>1, <2>2, <2>3, <2>4
<1> HIDE DEF Sound
<1> QED  BY <1>0, <1>1, <1>2, <1>3, <1>4, <1>5, <1>6, <1>7

\* So does a downgrade, to the shape of the revision before.
LEMMA DowngradeSound ==
  ASSUME NEW d, Sound(d), NEW n \in 1..Latest, d.rev = n,
         NEW by \in {Operator, Migrate}, CanDowngrade(n, d, by)
  PROVE  Sound(Downgrade(n, d, by)) /\ Downgrade(n, d, by).rev = n - 1
<1> USE RolesDiffer DEF Initial, AddDeletedAt, RestoreCascade, AddCreateOrg, SafeCasts,
                        GrantDml, WidenPeers, Latest
<1>0. n \in 1..7
  OBVIOUS
<1> USE DEF Sound, Database, Object, Definer, Feature
<1>1. CASE n = 1
  <2>1. Downgrade(n, d, by) = [DropTables(d) EXCEPT !.rev = 0]
    BY <1>1 DEF Downgrade
  <2>2. [DropTables(d) EXCEPT !.rev = 0] \in Database
    <3>1. DropTables(d) \in Database
      BY DEF DropTables, Dropped
    <3>2. 0 \in 0..Latest
      OBVIOUS
    <3> HIDE DEF Database, Latest
    <3> QED  BY <3>1, <3>2, WithRevision, Zenon
  <2>3. Shaped([DropTables(d) EXCEPT !.rev = 0])
    BY <1>1 DEF DropTables, Dropped, Shaped
  <2>4. Granted([DropTables(d) EXCEPT !.rev = 0])
    BY <1>1 DEF DropTables, Dropped, Shaped, Granted
  <2> QED  BY <1>1, <2>1, <2>2, <2>3, <2>4
<1>2. CASE n = 2
  BY <1>2, <1>0 DEF CanDowngrade
<1>3. CASE n = 3
  <2> DEFINE e == [[d EXCEPT !.shape = @ \ {"cascade"}] EXCEPT !.rev = 2]
  <2>1. Downgrade(n, d, by) = e
    BY <1>3 DEF Downgrade
  <2>2. e \in Database
    <3>1. [d EXCEPT !.shape = @ \ {"cascade"}] \in Database
      OBVIOUS
    <3>2. 2 \in 0..Latest
      OBVIOUS
    <3> HIDE DEF Database, Latest
    <3> QED  BY <3>1, <3>2, WithRevision, Zenon
  <2>3. Shaped(e) /\ e.rev = 2
    BY <1>3 DEF Shaped
  <2>4. Granted(e)
    BY <1>3 DEF Shaped, Granted
  <2> HIDE DEF e, Database
  <2> QED  BY <1>3, <2>1, <2>2, <2>3, <2>4
<1>4. CASE n = 4
  <2>1. Downgrade(n, d, by) = [DropDefiner(d, "createOrg") EXCEPT !.rev = 3]
    BY <1>4 DEF Downgrade
  <2>2. [DropDefiner(d, "createOrg") EXCEPT !.rev = 3] \in Database
    <3>1. DropDefiner(d, "createOrg") \in Database
      BY DEF DropDefiner, Dropped
    <3>2. 3 \in 0..Latest
      OBVIOUS
    <3> HIDE DEF Database, Latest
    <3> QED  BY <3>1, <3>2, WithRevision, Zenon
  <2>3. Shaped([DropDefiner(d, "createOrg") EXCEPT !.rev = 3])
    BY <1>4 DEF DropDefiner, Dropped, Shaped
  <2>4. Granted([DropDefiner(d, "createOrg") EXCEPT !.rev = 3])
    BY <1>4 DEF DropDefiner, Dropped, Shaped, Granted
  <2> QED  BY <1>4, <2>1, <2>2, <2>3, <2>4
<1>5. CASE n = 5
  <2>1. Downgrade(n, d, by) = [d EXCEPT !.rev = 4]
    BY <1>5 DEF Downgrade
  <2>2. [d EXCEPT !.rev = 4] \in Database
    OBVIOUS
  <2>3. Shaped([d EXCEPT !.rev = 4])
    BY <1>5 DEF Shaped
  <2>4. Granted([d EXCEPT !.rev = 4])
    BY <1>5 DEF Shaped, Granted
  <2> QED  BY <1>5, <2>1, <2>2, <2>3, <2>4
<1>6. CASE n = 6
  <2>1. Downgrade(n, d, by) = [RevokeAll(d, by) EXCEPT !.rev = 5]
    BY <1>6 DEF Downgrade
  <2>2. [RevokeAll(d, by) EXCEPT !.rev = 5] \in Database
    <3>1. RevokeAll(d, by) \in Database
      BY DEF RevokeAll
    <3>2. 5 \in 0..Latest
      OBVIOUS
    <3> HIDE DEF Database, Latest
    <3> QED  BY <3>1, <3>2, WithRevision, Zenon
  <2>3. Shaped([RevokeAll(d, by) EXCEPT !.rev = 5])
    BY <1>6 DEF RevokeAll, Shaped
  <2>4. Granted([RevokeAll(d, by) EXCEPT !.rev = 5])
    BY <1>6 DEF RevokeAll, Shaped, Granted
  <2> QED  BY <1>6, <2>1, <2>2, <2>3, <2>4
<1>7. CASE n = 7
  <2>1. Downgrade(n, d, by) = [HidePeers(d) EXCEPT !.rev = 6]
    BY <1>7 DEF Downgrade
  <2>2. [HidePeers(d) EXCEPT !.rev = 6] \in Database
    <3>1. HidePeers(d) \in Database
      BY DEF HidePeers, DropDefiner, Dropped
    <3>2. 6 \in 0..Latest
      OBVIOUS
    <3> HIDE DEF Database, Latest
    <3> QED  BY <3>1, <3>2, WithRevision, Zenon
  <2>3. Shaped([HidePeers(d) EXCEPT !.rev = 6])
    BY <1>7 DEF HidePeers, DropDefiner, Dropped, Shaped
  <2>4. Granted([HidePeers(d) EXCEPT !.rev = 6])
    BY <1>7 DEF HidePeers, DropDefiner, Dropped, Shaped, Granted
  <2> QED  BY <1>7, <2>1, <2>2, <2>3, <2>4
<1> HIDE DEF Sound
<1> QED  BY <1>0, <1>1, <1>2, <1>3, <1>4, <1>5, <1>6, <1>7

\* The operator makes, drops and alters objects without giving them away.
LEMMA OperatorKeeps ==
  ASSUME NEW d \in Database, Plain(d), NEW n \in 1..Latest
  PROVE  Plain(Upgrade(n, d, Operator)) /\ Plain(Downgrade(n, d, Operator))
<1> USE RolesDiffer DEF Initial, AddDeletedAt, RestoreCascade, AddCreateOrg, SafeCasts,
                        GrantDml, WidenPeers, Latest
<1>0. n \in 1..7
  OBVIOUS
<1> DEFINE Keeps(e) == /\ e.roles = d.roles
                       /\ \A o \in Object : e.owner[o] \in {d.owner[o], Operator, None}
<1>1. Keeps(Upgrade(n, d, Operator))
  <2>1. CASE n = 1
    <3>1. Upgrade(n, d, Operator) = [CreateTables(d, Operator) EXCEPT !.rev = 1]
      BY <2>1 DEF Upgrade
    <3>2. Keeps([CreateTables(d, Operator) EXCEPT !.rev = 1])
      BY DEF Database, Object, CreateTables, Made
    <3> HIDE DEF Keeps
    <3> QED  BY <3>1, <3>2
  <2>2. CASE n = 2
    <3>1. Upgrade(n, d, Operator) = [AddColumn(d) EXCEPT !.rev = 2]
      BY <2>2 DEF Upgrade
    <3>2. Keeps([AddColumn(d) EXCEPT !.rev = 2])
      BY DEF Database, Object, AddColumn
    <3> HIDE DEF Keeps
    <3> QED  BY <3>1, <3>2
  <2>3. CASE n = 3
    <3>1. Upgrade(n, d, Operator) = [AddCascade(d) EXCEPT !.rev = 3]
      BY <2>3 DEF Upgrade
    <3>2. Keeps([AddCascade(d) EXCEPT !.rev = 3])
      BY DEF Database, Object, AddCascade
    <3> HIDE DEF Keeps
    <3> QED  BY <3>1, <3>2
  <2>4. CASE n = 4
    <3>1. Upgrade(n, d, Operator) = [AddDefiner(d, Operator, "createOrg") EXCEPT !.rev = 4]
      BY <2>4 DEF Upgrade
    <3>2. Keeps([AddDefiner(d, Operator, "createOrg") EXCEPT !.rev = 4])
      BY DEF Database, Object, AddDefiner, Made
    <3> HIDE DEF Keeps
    <3> QED  BY <3>1, <3>2
  <2>5. CASE n = 5
    <3>1. Upgrade(n, d, Operator) = [RewritePolicies(d, Operator) EXCEPT !.rev = 5]
      BY <2>5 DEF Upgrade
    <3>2. Keeps([RewritePolicies(d, Operator) EXCEPT !.rev = 5])
      BY DEF Database, Object, RewritePolicies, Made
    <3> HIDE DEF Keeps
    <3> QED  BY <3>1, <3>2
  <2>6. CASE n = 6
    <3>1. Upgrade(n, d, Operator) = [GrantAll(d, Operator) EXCEPT !.rev = 6]
      BY <2>6 DEF Upgrade
    <3>2. Keeps([GrantAll(d, Operator) EXCEPT !.rev = 6])
      BY DEF Database, Object, GrantAll
    <3> HIDE DEF Keeps
    <3> QED  BY <3>1, <3>2
  <2>7. CASE n = 7
    <3>1. Upgrade(n, d, Operator) = [ShowPeers(d, Operator) EXCEPT !.rev = 7]
      BY <2>7 DEF Upgrade
    <3>2. Keeps([ShowPeers(d, Operator) EXCEPT !.rev = 7])
      BY DEF Database, Object, ShowPeers, AddDefiner, Made
    <3> HIDE DEF Keeps
    <3> QED  BY <3>1, <3>2
  <2> HIDE DEF Keeps
  <2> QED  BY <1>0, <2>1, <2>2, <2>3, <2>4, <2>5, <2>6, <2>7
<1>2. Keeps(Downgrade(n, d, Operator))
  <2>1. CASE n = 1
    <3>1. Downgrade(n, d, Operator) = [DropTables(d) EXCEPT !.rev = 0]
      BY <2>1 DEF Downgrade
    <3>2. Keeps([DropTables(d) EXCEPT !.rev = 0])
      BY DEF Database, Object, DropTables, Dropped
    <3> HIDE DEF Keeps
    <3> QED  BY <3>1, <3>2
  <2>2. CASE n = 2
    <3>1. Downgrade(n, d, Operator) = [d EXCEPT !.rev = 1]
      BY <2>2 DEF Downgrade
    <3>2. Keeps([d EXCEPT !.rev = 1])
      BY DEF Database, Object
    <3> HIDE DEF Keeps
    <3> QED  BY <3>1, <3>2
  <2>3. CASE n = 3
    <3>1. Downgrade(n, d, Operator) = [[d EXCEPT !.shape = @ \ {"cascade"}] EXCEPT !.rev = 2]
      BY <2>3 DEF Downgrade
    <3>2. Keeps([[d EXCEPT !.shape = @ \ {"cascade"}] EXCEPT !.rev = 2])
      BY DEF Database, Object
    <3> HIDE DEF Keeps
    <3> QED  BY <3>1, <3>2
  <2>4. CASE n = 4
    <3>1. Downgrade(n, d, Operator) = [DropDefiner(d, "createOrg") EXCEPT !.rev = 3]
      BY <2>4 DEF Downgrade
    <3>2. Keeps([DropDefiner(d, "createOrg") EXCEPT !.rev = 3])
      BY DEF Database, Object, DropDefiner, Dropped
    <3> HIDE DEF Keeps
    <3> QED  BY <3>1, <3>2
  <2>5. CASE n = 5
    <3>1. Downgrade(n, d, Operator) = [d EXCEPT !.rev = 4]
      BY <2>5 DEF Downgrade
    <3>2. Keeps([d EXCEPT !.rev = 4])
      BY DEF Database, Object
    <3> HIDE DEF Keeps
    <3> QED  BY <3>1, <3>2
  <2>6. CASE n = 6
    <3>1. Downgrade(n, d, Operator) = [RevokeAll(d, Operator) EXCEPT !.rev = 5]
      BY <2>6 DEF Downgrade
    <3>2. Keeps([RevokeAll(d, Operator) EXCEPT !.rev = 5])
      BY DEF Database, Object, RevokeAll
    <3> HIDE DEF Keeps
    <3> QED  BY <3>1, <3>2
  <2>7. CASE n = 7
    <3>1. Downgrade(n, d, Operator) = [HidePeers(d) EXCEPT !.rev = 6]
      BY <2>7 DEF Downgrade
    <3>2. Keeps([HidePeers(d) EXCEPT !.rev = 6])
      BY DEF Database, Object, HidePeers, DropDefiner, Dropped
    <3> HIDE DEF Keeps
    <3> QED  BY <3>1, <3>2
  <2> HIDE DEF Keeps
  <2> QED  BY <1>0, <2>1, <2>2, <2>3, <2>4, <2>5, <2>6, <2>7
<1> QED  BY <1>1, <1>2 DEF Plain

\* A statement of a script changes owners, roles and privileges only.
LEMMA AfterSound ==
  ASSUME NEW d, Sound(d), NEW s \in Command, ~StatementFails(s, d)
  PROVE  Sound(After(s, d))
<1> USE RolesDiffer DEF Initial, AddDeletedAt, RestoreCascade, AddCreateOrg, SafeCasts,
                        GrantDml, WidenPeers, Latest
<1> USE DEF Sound, Database, Object, Definer, Feature, After
<1>1. CASE s = "createApp"
  BY <1>1 DEF Shaped, Granted
<1>2. CASE s = "createMigrate"
  BY <1>2 DEF Shaped, Granted
<1>3. CASE s = "extensions"
  BY <1>3 DEF Made, Shaped, Granted
<1>4. CASE s = "ownSchema"
  BY <1>4 DEF Shaped, Granted
<1>5. CASE s = "reassign"
  BY <1>5 DEF Shaped, Granted
<1>6. CASE s = "grantTables"
  BY <1>6 DEF Shaped, Granted
<1>7. CASE s = "grantFunctions"
  BY <1>7 DEF Shaped, Granted
<1>8. CASE s = "revokePublic"
  BY <1>8 DEF Shaped, Granted
<1>9. CASE s = "grantCreateOrg"
  BY <1>9 DEF Shaped, Granted
<1>10. CASE s = "defaults"
  BY <1>10 DEF Shaped, Granted
<1> QED  BY <1>1, <1>2, <1>3, <1>4, <1>5, <1>6, <1>7, <1>8, <1>9, <1>10 DEF Command

---------------------------------------------------------------------------
(* A command of several migrations.                                        *)

\* The recursion over the migrations of a command ends: its equation has a
\* solution, for there are at most seven.
LEMMA OutcomeChain ==
  ASSUME NEW a \in Runner, RunShape
  PROVE  LET steps == Steps(run[a].seen, run[a].to)
             n == Len(steps)
         IN  \E after :
               /\ after[0] = db
               /\ \A i \in 1..n : after[i] = Does(steps[i], after[i - 1], run[a].by)
               /\ Outcome(a) = [ok |-> \A i \in 1..n : Can(steps[i], after[i - 1], run[a].by),
                                db |-> after[n]]
<1> DEFINE steps == Steps(run[a].seen, run[a].to)
           n == Len(steps)
           D(i, d) == Does(steps[i], d, run[a].by)
           G(f) == [i \in 0..n |-> IF i = 0 THEN db ELSE Does(steps[i], f[i - 1], run[a].by)]
           A == CHOOSE f : f = G(f)
           S1 == D(1, db)  S2 == D(2, S1)  S3 == D(3, S2)  S4 == D(4, S3)
           S5 == D(5, S4)  S6 == D(6, S5)  S7 == D(7, S6)
           F == [i \in 0..n |->
                  IF i = 0 THEN db ELSE IF i = 1 THEN S1 ELSE IF i = 2 THEN S2
                  ELSE IF i = 3 THEN S3 ELSE IF i = 4 THEN S4 ELSE IF i = 5 THEN S5
                  ELSE IF i = 6 THEN S6 ELSE S7]
<1>1. n \in 0..7
  BY DEF RunShape, Steps, Latest, WidenPeers
<1>2. F = G(F)
  <2> HIDE DEF n, steps
  <2>1. \A i \in 0..n : F[i] = G(F)[i]
    BY <1>1
  <2> QED  BY <2>1
<1>3. Outcome(a) = [ok |-> \A i \in 1..n : Can(steps[i], A[i - 1], run[a].by), db |-> A[n]]
  BY DEF Outcome
<1>4. A = G(A)
  <2> HIDE DEF F, G
  <2> QED  BY <1>2
<1> HIDE DEF A, n, steps
<1>5. A[0] = db /\ \A i \in 1..n : A[i] = Does(steps[i], A[i - 1], run[a].by)
  BY <1>1, <1>4
<1> QED  BY <1>3, <1>5 DEF n, steps

\* The migrations of a command, in the order they run.
LEMMA StepsOf ==
  ASSUME NEW from \in 0..Latest, NEW to \in 0..Latest
  PROVE  /\ Len(Steps(from, to)) = IF from < to THEN to - from ELSE from - to
         /\ Len(Steps(from, to)) \in 0..7
         /\ \A i \in 1..Len(Steps(from, to)) :
              Steps(from, to)[i] = IF from < to THEN <<TRUE, from + i>>
                                                ELSE <<FALSE, from + 1 - i>>
<1> USE DEF Latest, WidenPeers
<1>1. CASE from < to
  <2>1. Steps(from, to) = [i \in 1..(to - from) |-> <<TRUE, from + i>>]
    BY <1>1 DEF Steps
  <2>2. to - from \in 0..7
    BY <1>1
  <2>3. Len(Steps(from, to)) = to - from
    BY <2>1, <2>2
  <2> QED  BY <1>1, <2>1, <2>2, <2>3
<1>2. CASE ~(from < to)
  <2>1. Steps(from, to) = [i \in 1..(from - to) |-> <<FALSE, from + 1 - i>>]
    BY <1>2 DEF Steps
  <2>2. from - to \in 0..7
    BY <1>2
  <2>3. Len(Steps(from, to)) = from - to
    BY <2>1, <2>2
  <2> QED  BY <1>2, <2>1, <2>2, <2>3
<1> QED  BY <1>1, <1>2

\* A migration of a command is an upgrade or a downgrade.
LEMMA StepIs ==
  ASSUME NEW m, NEW d, NEW by
  PROVE  /\ Does(<<TRUE, m>>, d, by) = Upgrade(m, d, by)
         /\ Can(<<TRUE, m>>, d, by) <=> CanUpgrade(m, d, by)
         /\ Does(<<FALSE, m>>, d, by) = Downgrade(m, d, by)
         /\ Can(<<FALSE, m>>, d, by) <=> CanDowngrade(m, d, by)
  BY DEF Can, Does

\* A command all of whose migrations succeed leaves a sound database behind.
LEMMA ChainSound ==
  ASSUME RunShape, Sound(db), NEW a \in Runner, run[a].by \in {Operator, Migrate},
         StillAt(a), Outcome(a).ok
  PROVE  /\ Sound(Outcome(a).db)
         /\ run[a].by = Operator /\ Plain(db) => Plain(Outcome(a).db)
<1> DEFINE from == run[a].seen
           to == run[a].to
           by == run[a].by
           steps == Steps(from, to)
           n == Len(steps)
<1>1. from \in 0..7 /\ to \in 0..7 /\ db.rev = from /\ by \in {Operator, Migrate}
  BY DEF RunShape, StillAt, Latest, WidenPeers
<1>2. PICK after :
        /\ after[0] = db
        /\ \A i \in 1..n : after[i] = Does(steps[i], after[i - 1], by)
        /\ Outcome(a) = [ok |-> \A i \in 1..n : Can(steps[i], after[i - 1], by),
                         db |-> after[n]]
  BY OutcomeChain
<1>3. \A i \in 1..n : Can(steps[i], after[i - 1], by)
  BY <1>2
<1>4. Outcome(a).db = after[n]
  BY <1>2
<1>5. /\ n \in 0..7 /\ n = IF from < to THEN to - from ELSE from - to
      /\ \A i \in 1..n : steps[i] = IF from < to THEN <<TRUE, from + i>>
                                                  ELSE <<FALSE, from + 1 - i>>
  BY <1>1, StepsOf DEF Latest, WidenPeers
<1> DEFINE at(i) == IF from < to THEN from + i ELSE from - i
           Good(i) == /\ Sound(after[i]) /\ after[i].rev = at(i)
                      /\ by = Operator /\ Plain(db) => Plain(after[i])
<1> HIDE DEF from, to, by, n, steps
<1>6. ASSUME NEW i \in 1..n, Good(i - 1) PROVE Good(i)
  <2>1. i \in 1..7 /\ i <= n
    BY <1>5
  <2>2. Can(steps[i], after[i - 1], by) /\ after[i] = Does(steps[i], after[i - 1], by)
    BY <1>2, <1>3
  <2>3. CASE from < to
    <3>1. /\ CanUpgrade(from + i, after[i - 1], by)
          /\ after[i] = Upgrade(from + i, after[i - 1], by)
      <4>1. steps[i] = <<TRUE, from + i>>
        BY <1>5, <2>3
      <4> QED  BY <2>2, <4>1, StepIs
    <3>2. from + i \in 1..Latest /\ after[i - 1].rev = (from + i) - 1 /\ at(i) = from + i
      BY <1>1, <1>5, <1>6, <2>1, <2>3 DEF Latest, WidenPeers
    <3>3. Sound(after[i - 1])
      BY <1>6
    <3>4. Sound(Upgrade(from + i, after[i - 1], by))
          /\ Upgrade(from + i, after[i - 1], by).rev = from + i
      BY <1>1, <3>1, <3>2, <3>3, UpgradeSound
    <3>5. by = Operator /\ Plain(db) => Plain(Upgrade(from + i, after[i - 1], by))
      BY <1>6, <3>2, <3>3, OperatorKeeps DEF Sound
    <3> QED  BY <3>1, <3>2, <3>4, <3>5
  <2>4. CASE ~(from < to)
    <3> DEFINE m == from + 1 - i
    <3>1. CanDowngrade(m, after[i - 1], by) /\ after[i] = Downgrade(m, after[i - 1], by)
      <4>1. steps[i] = <<FALSE, m>>
        BY <1>5, <2>4
      <4> HIDE DEF m
      <4> QED  BY <2>2, <4>1, StepIs
    <3>2. m \in 1..Latest /\ after[i - 1].rev = m /\ at(i) = m - 1
      BY <1>1, <1>5, <1>6, <2>1, <2>4 DEF Latest, WidenPeers
    <3>3. Sound(after[i - 1])
      BY <1>6
    <3> HIDE DEF m
    <3>4. Sound(Downgrade(m, after[i - 1], by)) /\ Downgrade(m, after[i - 1], by).rev = m - 1
      BY <1>1, <3>1, <3>2, <3>3, DowngradeSound
    <3>5. by = Operator /\ Plain(db) => Plain(Downgrade(m, after[i - 1], by))
      BY <1>6, <3>2, <3>3, OperatorKeeps DEF Sound
    <3> QED  BY <3>1, <3>2, <3>4, <3>5
  <2> QED  BY <2>3, <2>4
<1>7. Good(0)
  BY <1>1, <1>2
<1>8. Good(n)
  <2> HIDE DEF Good
  <2>1. n >= 1 => Good(1)
    BY <1>5, <1>6, <1>7
  <2>2. n >= 2 => Good(2)
    BY <1>5, <1>6, <2>1
  <2>3. n >= 3 => Good(3)
    BY <1>5, <1>6, <2>2
  <2>4. n >= 4 => Good(4)
    BY <1>5, <1>6, <2>3
  <2>5. n >= 5 => Good(5)
    BY <1>5, <1>6, <2>4
  <2>6. n >= 6 => Good(6)
    BY <1>5, <1>6, <2>5
  <2>7. n >= 7 => Good(7)
    BY <1>5, <1>6, <2>6
  <2> QED  BY <1>5, <1>7, <2>1, <2>2, <2>3, <2>4, <2>5, <2>6, <2>7
<1> QED  BY <1>4, <1>8 DEF by

\* What the bootstrap of provision_migration_role.sh comes to.
Bootstrapped(d) ==
  /\ d.roles = {Migrate, App} /\ d.owner["schema"] = Migrate
  /\ d.owner["extensions"] # None
  /\ \A o \in Object \ {"extensions"} : d.owner[o] # Operator

\* The next migration does not raise, and leaves the bootstrap as it is.
LEMMA MigrateUpgrades ==
  ASSUME NEW d, Sound(d), Bootstrapped(d), NEW n \in 1..Latest, d.rev = n - 1
  PROVE  CanUpgrade(n, d, Migrate) /\ Bootstrapped(Upgrade(n, d, Migrate))
<1> USE RolesDiffer DEF Initial, AddDeletedAt, RestoreCascade, AddCreateOrg, SafeCasts,
                        GrantDml, WidenPeers, Latest
<1>0. n \in 1..7
  OBVIOUS
<1>1. \A o \in Object \ {"extensions"} : d.owner[o] \in {Migrate, None}
  BY DEF Sound, Database, Bootstrapped
<1>2. CanUpgrade(n, d, Migrate)
  <2>1. CreatesOrAlters(d, Migrate, "version")
    BY <1>1 DEF CreatesOrAlters, Creates, Alters, Bootstrapped, Object
  <2>2. Creates(d, Migrate) /\ App \in d.roles
    BY DEF Creates, Alters, Bootstrapped
  <2>3. n > 1 => Alters(d, Migrate, "tables")
    BY <1>1 DEF Alters, Sound, Shaped, Object
  <2>4. n > 4 => Alters(d, Migrate, "createOrg")
    BY <1>1 DEF Alters, Sound, Shaped, Object
  <2>5. CreatesOrAlters(d, Migrate, "settingUuid")
    BY <1>1 DEF CreatesOrAlters, Creates, Alters, Bootstrapped, Object
  <2>6. d.owner["extensions"] # None
    BY DEF Bootstrapped
  <2>7. CASE n = 1
    BY <2>1, <2>2, <2>6, <2>7 DEF CanUpgrade
  <2>8. CASE n = 2
    BY <2>1, <2>3, <2>8 DEF CanUpgrade
  <2>9. CASE n = 3
    BY <2>1, <2>3, <2>9 DEF CanUpgrade
  <2>10. CASE n = 4
    BY <2>1, <2>2, <2>10 DEF CanUpgrade
  <2>11. CASE n = 5
    BY <2>1, <2>3, <2>5, <2>11 DEF CanUpgrade
  <2>12. CASE n = 6
    BY <2>1, <2>2, <2>3, <2>4, <2>12 DEF CanUpgrade
  <2>13. CASE n = 7
    BY <2>1, <2>2, <2>3, <2>13 DEF CanUpgrade
  <2> QED  BY <1>0, <2>7, <2>8, <2>9, <2>10, <2>11, <2>12, <2>13
<1>3. Bootstrapped(Upgrade(n, d, Migrate))
  <2> DEFINE e == Upgrade(n, d, Migrate)
             Keeps(f) == /\ f.roles = d.roles /\ f.owner["schema"] = d.owner["schema"]
                         /\ f.owner["extensions"] = d.owner["extensions"]
                         /\ \A o \in Object : f.owner[o] \in {d.owner[o], Migrate}
  <2>1. d \in Database
    BY DEF Sound
  <2>2. Keeps(e)
    <3> USE DEF Database, Object
    <3>0. d.owner["extensions"] # None
      BY DEF Bootstrapped
    <3>1. CASE n = 1
      <4>1. e = [CreateTables(d, Migrate) EXCEPT !.rev = 1]
        BY <3>1 DEF Upgrade
      <4>2. Keeps([CreateTables(d, Migrate) EXCEPT !.rev = 1])
        BY <2>1, <3>0 DEF CreateTables, Made
      <4> HIDE DEF Keeps, e
      <4> QED  BY <4>1, <4>2
    <3>2. CASE n = 2
      <4>1. e = [AddColumn(d) EXCEPT !.rev = 2]
        BY <3>2 DEF Upgrade
      <4>2. Keeps([AddColumn(d) EXCEPT !.rev = 2])
        BY <2>1, <3>0 DEF AddColumn
      <4> HIDE DEF Keeps, e
      <4> QED  BY <4>1, <4>2
    <3>3. CASE n = 3
      <4>1. e = [AddCascade(d) EXCEPT !.rev = 3]
        BY <3>3 DEF Upgrade
      <4>2. Keeps([AddCascade(d) EXCEPT !.rev = 3])
        BY <2>1, <3>0 DEF AddCascade
      <4> HIDE DEF Keeps, e
      <4> QED  BY <4>1, <4>2
    <3>4. CASE n = 4
      <4>1. e = [AddDefiner(d, Migrate, "createOrg") EXCEPT !.rev = 4]
        BY <3>4 DEF Upgrade
      <4>2. Keeps([AddDefiner(d, Migrate, "createOrg") EXCEPT !.rev = 4])
        BY <2>1, <3>0 DEF AddDefiner, Made
      <4> HIDE DEF Keeps, e
      <4> QED  BY <4>1, <4>2
    <3>5. CASE n = 5
      <4>1. e = [RewritePolicies(d, Migrate) EXCEPT !.rev = 5]
        BY <3>5 DEF Upgrade
      <4>2. Keeps([RewritePolicies(d, Migrate) EXCEPT !.rev = 5])
        BY <2>1, <3>0 DEF RewritePolicies, Made
      <4> HIDE DEF Keeps, e
      <4> QED  BY <4>1, <4>2
    <3>6. CASE n = 6
      <4>1. e = [GrantAll(d, Migrate) EXCEPT !.rev = 6]
        BY <3>6 DEF Upgrade
      <4>2. Keeps([GrantAll(d, Migrate) EXCEPT !.rev = 6])
        BY <2>1, <3>0 DEF GrantAll
      <4> HIDE DEF Keeps, e
      <4> QED  BY <4>1, <4>2
    <3>7. CASE n = 7
      <4>1. e = [ShowPeers(d, Migrate) EXCEPT !.rev = 7]
        BY <3>7 DEF Upgrade
      <4>2. Keeps([ShowPeers(d, Migrate) EXCEPT !.rev = 7])
        BY <2>1, <3>0 DEF ShowPeers, AddDefiner, Made
      <4> HIDE DEF Keeps, e
      <4> QED  BY <4>1, <4>2
    <3> HIDE DEF Upgrade, Database, Keeps
    <3> QED  BY <1>0, <3>1, <3>2, <3>3, <3>4, <3>5, <3>6, <3>7
  <2> QED  BY <2>2, RolesDiffer DEF Bootstrapped, Object
<1> QED  BY <1>2, <1>3

\* So an upgrade of a bootstrapped database to the latest revision succeeds.
LEMMA ChainPossible ==
  ASSUME RunShape, Sound(db), Bootstrapped(db), NEW a \in Runner,
         run[a].by = Migrate, run[a].to = Latest, StillAt(a)
  PROVE  Outcome(a).ok
<1> DEFINE from == run[a].seen
           steps == Steps(from, Latest)
           n == Len(steps)
<1>1. from \in 0..Latest /\ Latest \in 0..Latest /\ db.rev = from
  BY DEF RunShape, StillAt, Latest, WidenPeers
<1>2. PICK after :
        /\ after[0] = db
        /\ \A i \in 1..n : after[i] = Does(steps[i], after[i - 1], Migrate)
        /\ Outcome(a) = [ok |-> \A i \in 1..n : Can(steps[i], after[i - 1], Migrate),
                         db |-> after[n]]
  BY OutcomeChain
<1>3. n = Latest - from /\ n \in 0..7 /\ \A i \in 1..n : steps[i] = <<TRUE, from + i>>
  <2>1. CASE from < Latest
    BY <1>1, <2>1, StepsOf
  <2>2. CASE ~(from < Latest)
    <3>1. from = Latest
      BY <1>1, <2>2 DEF Latest, WidenPeers
    <3>2. n = 0
      BY <1>1, <3>1, StepsOf DEF Latest, WidenPeers
    <3> HIDE DEF n, steps, from
    <3> QED  BY <1>1, <3>1, <3>2 DEF Latest, WidenPeers
  <2> QED  BY <2>1, <2>2
<1> DEFINE Good(i) == Sound(after[i]) /\ Bootstrapped(after[i]) /\ after[i].rev = from + i
<1> HIDE DEF from, n, steps
<1>4. ASSUME NEW i \in 1..n, Good(i - 1)
      PROVE  Good(i) /\ Can(steps[i], after[i - 1], Migrate)
  <2>1. from + i \in 1..Latest /\ after[i - 1].rev = (from + i) - 1
    BY <1>1, <1>3, <1>4 DEF Latest, WidenPeers
  <2>2. after[i] = Upgrade(from + i, after[i - 1], Migrate)
    <3>1. steps[i] = <<TRUE, from + i>> /\ after[i] = Does(steps[i], after[i - 1], Migrate)
      BY <1>2, <1>3
    <3>2. PICK m, d : m = from + i /\ d = after[i - 1]
      OBVIOUS
    <3>3. Does(<<TRUE, m>>, d, Migrate) = Upgrade(m, d, Migrate)
      BY StepIs
    <3> QED  BY <3>1, <3>2, <3>3
  <2>3. Sound(after[i - 1]) /\ Bootstrapped(after[i - 1])
    BY <1>4
  <2>4. /\ CanUpgrade(from + i, after[i - 1], Migrate)
        /\ Bootstrapped(Upgrade(from + i, after[i - 1], Migrate))
    BY <2>1, <2>3, MigrateUpgrades
  <2>5. /\ Sound(Upgrade(from + i, after[i - 1], Migrate))
        /\ Upgrade(from + i, after[i - 1], Migrate).rev = from + i
    BY <2>1, <2>3, <2>4, UpgradeSound
  <2>6. Can(steps[i], after[i - 1], Migrate)
    BY <1>3, <2>4, StepIs
  <2> QED  BY <2>2, <2>4, <2>5, <2>6
<1>5. Good(0)
  BY <1>1, <1>2 DEF Latest, WidenPeers
<1>6. \A i \in 1..n : Good(i - 1)
  <2> HIDE DEF Good
  <2>1. n >= 1 => Good(1)
    BY <1>3, <1>4, <1>5
  <2>2. n >= 2 => Good(2)
    BY <1>3, <1>4, <2>1
  <2>3. n >= 3 => Good(3)
    BY <1>3, <1>4, <2>2
  <2>4. n >= 4 => Good(4)
    BY <1>3, <1>4, <2>3
  <2>5. n >= 5 => Good(5)
    BY <1>3, <1>4, <2>4
  <2>6. n >= 6 => Good(6)
    BY <1>3, <1>4, <2>5
  <2>7. \A i \in 1..n : i \in {1, 2, 3, 4, 5, 6, 7} /\ i <= n
    BY <1>3
  <2> QED  BY <1>3, <1>5, <2>1, <2>2, <2>3, <2>4, <2>5, <2>6, <2>7
<1>7. \A i \in 1..n : Can(steps[i], after[i - 1], Migrate)
  BY <1>4, <1>6
<1> QED  BY <1>2, <1>7

---------------------------------------------------------------------------
(* The invariant.                                                          *)

\* Nothing is there at the start.
LEMMA InitDeploy == Init => DeployInv
<1> SUFFICES ASSUME Init PROVE DeployInv
  OBVIOUS
<1> USE RolesDiffer DEF Init
<1>1. Sound(db)
  <2>1. Empty \in Database
    BY DEF Empty, Database, Latest, WidenPeers
  <2>2. Shaped(Empty) /\ Granted(Empty)
    BY DEF Empty, Shaped, Granted, Object, Initial, AddDeletedAt, AddCreateOrg,
           SafeCasts, GrantDml, WidenPeers
  <2> QED  BY <2>1, <2>2 DEF Sound
<1>2. ScriptShape
  BY DEF ScriptShape, Command
<1>3. RunShape
  BY DEF RunShape, Idle, Latest, WidenPeers
<1> QED  BY <1>1, <1>2, <1>3 DEF DeployInv

\* An Alembic command starts, fails, dies, or commits what it has done.
LEMMA AlembicDeploy ==
  ASSUME DeployInv, NEW a \in Runner,
         StartAlembic(a) \/ FinishAlembic(a) \/ DieAlembic(a)
  PROVE  DeployInv'
<1> USE RolesDiffer DEF DeployInv
<1>1. CASE StartAlembic(a)
  <2>1. PICK by \in {Operator} \cup (db.roles \ {App}), n \in Targets(db.rev) \ {db.rev} :
          run' = [run EXCEPT ![a] = [by |-> by, seen |-> db.rev, to |-> n]]
    BY <1>1 DEF StartAlembic
  <2>2. by \in {Operator, Migrate} /\ db.rev \in 0..Latest
    BY DEF Sound, Database
  <2>3. n \in 0..Latest
    BY DEF Targets, Latest, WidenPeers
  <2>4. RunShape'
    BY <2>1, <2>2, <2>3 DEF RunShape
  <2> QED  BY <1>1, <2>4 DEF StartAlembic, ScriptShape
<1>2. CASE FinishAlembic(a)
  <2>1. Sound(db')
    <3>1. run[a].by \in {Operator, Migrate}
      BY <1>2 DEF FinishAlembic, RunShape
    <3> QED  BY <1>2, <3>1, ChainSound DEF FinishAlembic
  <2>2. RunShape'
    BY <1>2 DEF FinishAlembic, RunShape, Idle, Latest, WidenPeers
  <2> QED  BY <1>2, <2>1, <2>2 DEF FinishAlembic, ScriptShape
<1>3. CASE DieAlembic(a)
  <2>1. RunShape'
    BY <1>3 DEF DieAlembic, RunShape, Idle, Latest, WidenPeers
  <2> QED  BY <1>3, <2>1 DEF DieAlembic, ScriptShape
<1> QED  BY <1>1, <1>2, <1>3

\* A script starts, runs one statement, stops at one that fails, or dies.
LEMMA ScriptDeploy ==
  ASSUME DeployInv, StartScript \/ Statement \/ DieScript
  PROVE  DeployInv'
<1> USE DEF DeployInv
<1>1. CASE StartScript
  <2>1. /\ ProvisionMigrate \in Seq(Command) /\ Len(ProvisionMigrate) = 3
        /\ ProvisionApp \in Seq(Command) /\ Len(ProvisionApp) > 0
        /\ Grants \in Seq(Command) /\ Len(Grants) > 0
    BY DEF ProvisionMigrate, ProvisionApp, Grants, Command
  <2>2. Transfer \in Seq(Command) /\ Len(Transfer) > 0
    <3> HIDE DEF ProvisionMigrate
    <3>1. PICK q \in Seq(Command) : q = ProvisionMigrate /\ Len(q) = 3
      BY <2>1
    <3>2. "reassign" \in Command
      BY DEF Command
    <3>3. /\ Append(q, "reassign") \in Seq(Command)
          /\ Len(Append(q, "reassign")) = Len(q) + 1
      BY <3>2, AppendProperties, Zenon
    <3>4. Transfer \in Seq(Command) /\ Len(Transfer) = Len(q) + 1
      BY <3>1, <3>3, Zenon DEF Transfer
    <3> QED  BY <3>1, <3>4
  <2>3. PICK s \in {Transfer, ProvisionMigrate, ProvisionApp, Grants} :
          script' = [name |-> "provision", rest |-> s]
    BY <1>1 DEF StartScript
  <2>4. s \in Seq(Command) /\ Len(s) > 0
    <3>1. Len(ProvisionMigrate) > 0
      BY <2>1
    <3> QED  BY <2>1, <2>2, <3>1, Zenon
  <2>5. ScriptShape'
    BY <2>3, <2>4 DEF ScriptShape
  <2> QED  BY <1>1, <2>5 DEF StartScript, RunShape
<1>2. CASE Statement
  <2> DEFINE s == Head(script.rest)
  <2>1. /\ script \in [name : {"initDb", "provision"}, rest : Seq(Command)]
        /\ Len(script.rest) > 0 /\ script.rest \in Seq(Command)
    BY <1>2 DEF Statement, ScriptShape
  <2>2. s \in Command
    <3>1. PICK q \in Seq(Command) : q = script.rest
      BY <2>1
    <3>2. q # <<>>
      BY <2>1, <3>1, EmptySeq
    <3>3. Head(q) \in Command
      BY <3>2, HeadTailProperties
    <3> QED  BY <3>1, <3>3
  <2>3. Sound(db')
    BY <1>2, <2>2, AfterSound DEF Statement
  <2>4. ScriptShape'
    <3>1. CASE StatementFails(s, db) \/ Len(script.rest) = 1
      BY <1>2, <3>1 DEF Statement, ScriptShape
    <3>2. CASE ~(StatementFails(s, db) \/ Len(script.rest) = 1)
      <4>1. Tail(script.rest) \in Seq(Command) /\ Len(Tail(script.rest)) > 0
        <5>1. PICK q \in Seq(Command) : q = script.rest
          BY <2>1
        <5>2. q # <<>> /\ Len(q) # 1 /\ Len(q) \in Nat /\ Len(q) > 0
          BY <2>1, <3>2, <5>1, EmptySeq, LenProperties
        <5>3. Tail(q) \in Seq(Command) /\ Len(Tail(q)) = Len(q) - 1
          BY <5>2, HeadTailProperties
        <5>4. PICK t : t = Tail(q)
          OBVIOUS
        <5>5. Len(t) > 0
          BY <5>2, <5>3, <5>4
        <5> QED  BY <5>1, <5>3, <5>4, <5>5, Zenon
      <4>2. script' = [script EXCEPT !.rest = Tail(@)]
        BY <1>2, <3>2 DEF Statement
      <4> QED  BY <2>1, <4>1, <4>2 DEF ScriptShape
    <3> QED  BY <3>1, <3>2
  <2> QED  BY <1>2, <2>3, <2>4 DEF Statement, RunShape
<1>3. CASE DieScript
  BY <1>3 DEF DieScript, ScriptShape, RunShape
<1> QED  BY <1>1, <1>2, <1>3

\* The invariant of the deployment holds in every state.
LEMMA DeployInvariant == Spec => []DeployInv
<1>1. DeployInv /\ [Next]_vars => DeployInv'
  <2> SUFFICES ASSUME DeployInv, [Next]_vars PROVE DeployInv'
    OBVIOUS
  <2>1. CASE UNCHANGED vars
    BY <2>1 DEF vars, DeployInv, ScriptShape, RunShape
  <2> QED  BY <2>1, AlembicDeploy, ScriptDeploy DEF Next
<1> QED  BY <1>1, InitDeploy, PTL DEF Spec

---------------------------------------------------------------------------
(* The theorems.                                                           *)

\* Roles, owners, privileges, scripts and commands are what they may be.
THEOREM DeploymentTypes == Spec => []TypeOK
<1>1. DeployInv => TypeOK
  <2>1. ScriptShape => script.name \in {"none", "initDb", "provision"}
    BY DEF ScriptShape, Nothing
  <2> QED  BY <2>1 DEF DeployInv, Sound, RunShape, TypeOK
<1> QED  BY <1>1, DeployInvariant, PTL

\* Whatever upgrades, downgrades, failures and overlaps have led to it, a
\* database has the shape of the revision it is at.
THEOREM RevisionTellsShape == Spec => []ShapeFollowsRevision
<1>1. DeployInv => ShapeFollowsRevision
  BY DEF DeployInv, Sound, Shaped, ShapeFollowsRevision
<1> QED  BY <1>1, DeployInvariant, PTL

\* At the latest revision the application's role may use every table and
\* function, and PUBLIC may call no SECURITY DEFINER function.
THEOREM LatestIsReady == Spec => []RuntimeReady
<1>1. DeployInv => RuntimeReady
  BY DEF DeployInv, Sound, Database, Shaped, Granted, RuntimeReady, Definer, Latest,
         WidenPeers, GrantDml, AddCreateOrg
<1> QED  BY <1>1, DeployInvariant, PTL

\* After the bootstrap no upgrade to the latest revision needs a superuser.
THEOREM MigrateNeedsNoSuperuser == Spec => []MigrateSuffices
<1>1. DeployInv => MigrateSuffices
  BY ChainPossible DEF DeployInv, Bootstrapped, MigrateSuffices
<1> QED  BY <1>1, DeployInvariant, PTL

---------------------------------------------------------------------------
(* Docker.                                                                 *)

\* No step on Docker makes the migration role or gives it anything.
LEMMA DockerKept == DeployInv /\ DockerShape /\ [Next]_vars => DockerShape'
<1> SUFFICES ASSUME DeployInv, DockerShape, [Next]_vars, place' = "docker"
             PROVE  /\ Plain(db') /\ \A a \in Runner : run'[a].by # Migrate
                    /\ script' # Nothing => script'.rest \in Seq(DockerCommand)
  BY DEF DockerShape, Plain
<1>1. place = "docker"
  BY DEF Next, vars, StartScript, Statement, DieScript, StartAlembic, FinishAlembic,
     DieAlembic
<1>2. /\ Plain(db) /\ db \in Database /\ \A a \in Runner : run[a].by # Migrate
      /\ script # Nothing => script.rest \in Seq(DockerCommand)
  BY <1>1 DEF DockerShape, DeployInv, Sound
<1> USE RolesDiffer
<1>3. ASSUME NEW a \in Runner, StartAlembic(a) \/ FinishAlembic(a) \/ DieAlembic(a)
      PROVE  Plain(db') /\ \A b \in Runner : run'[b].by # Migrate
  <2>1. \A b \in Runner : run'[b].by # Migrate
    <3>1. CASE StartAlembic(a)
      <4>1. PICK by \in {Operator} \cup (db.roles \ {App}), n \in Targets(db.rev) \ {db.rev} :
              run' = [run EXCEPT ![a] = [by |-> by, seen |-> db.rev, to |-> n]]
        BY <3>1 DEF StartAlembic
      <4>2. by # Migrate
        BY <1>2 DEF Plain
      <4> QED  BY <1>2, <4>1, <4>2 DEF DeployInv, RunShape
    <3>2. CASE FinishAlembic(a) \/ DieAlembic(a)
      BY <1>2, <3>2 DEF FinishAlembic, DieAlembic, Idle, DeployInv, RunShape
    <3> QED  BY <1>3, <3>1, <3>2
  <2>2. CASE db' = db
    BY <1>2, <2>1, <2>2
  <2>3. CASE db' # db
    <3>1. FinishAlembic(a) /\ StillAt(a) /\ Outcome(a).ok /\ db' = Outcome(a).db
      BY <1>3, <2>3 DEF StartAlembic, FinishAlembic, DieAlembic
    <3>2. run[a].by = Operator
      BY <1>2, <3>1 DEF FinishAlembic, DeployInv, RunShape
    <3>3. Plain(Outcome(a).db)
      BY <1>2, <3>1, <3>2, ChainSound DEF DeployInv
    <3> QED  BY <2>1, <3>1, <3>3
  <2> QED  BY <2>2, <2>3
<1>4. CASE Statement
  <2>1. PICK q \in Seq(DockerCommand) : q = script.rest /\ Len(q) > 0
    BY <1>2, <1>4 DEF Statement, DeployInv, ScriptShape
  <2>2. q # << >>
    BY <2>1, EmptySeq
  <2>3. Head(q) \in DockerCommand /\ Tail(q) \in Seq(DockerCommand)
    BY <2>2, HeadTailProperties
  <2>4. PICK s \in DockerCommand : s = Head(script.rest)
    BY <2>1, <2>3
  <2>5. db' = db \/ db' = After(s, db)
    BY <1>4, <2>4 DEF Statement
  <2>6. Plain(After(s, db))
    BY <1>2, <2>4 DEF DockerCommand, Command, After, Plain, Database, Object
  <2>7. script' # Nothing => script'.rest = Tail(q)
    BY <1>4, <2>1 DEF Statement, DeployInv, ScriptShape
  <2> QED  BY <1>2, <1>4, <2>3, <2>5, <2>6, <2>7 DEF Statement
<1>5. CASE StartScript
  <2>1. ProvisionApp \in Seq(DockerCommand) /\ Grants \in Seq(DockerCommand)
    BY DEF ProvisionApp, Grants, DockerCommand, Command
  <2>2. PICK s \in {ProvisionApp, Grants} : script' = [name |-> "provision", rest |-> s]
    BY <1>1, <1>5 DEF StartScript
  <2> QED  BY <1>2, <1>5, <2>1, <2>2 DEF StartScript
<1>6. CASE DieScript
  BY <1>2, <1>6 DEF DieScript
<1>7. CASE UNCHANGED vars
  BY <1>2, <1>7 DEF vars
<1>8. ASSUME NEW a \in Runner, StartAlembic(a) \/ FinishAlembic(a) \/ DieAlembic(a)
      PROVE  script' = script
  BY <1>8 DEF StartAlembic, FinishAlembic, DieAlembic
<1> QED  BY <1>2, <1>3, <1>4, <1>5, <1>6, <1>7, <1>8 DEF Next

\* What c3f8a91d2e47 promises of the SECURITY DEFINER function is kept on
\* Docker, where a superuser runs Alembic: it is the migration role of the
\* servers that the promise fails with.
THEOREM DockerCreatesOrganizations == Spec => [](place = "docker" => OrganizationsCanBeCreated)
<1>1. Init => DockerShape
  <2> SUFFICES ASSUME Init, place = "docker"
               PROVE  /\ Plain(db) /\ \A a \in Runner : run[a].by # Migrate
                      /\ script.rest \in Seq(DockerCommand)
    BY DEF DockerShape
  <2> QED  BY RolesDiffer DEF Init, Empty, Idle, Plain, DockerCommand, Command
<1>2. DeployInv /\ DockerShape => (place = "docker" => OrganizationsCanBeCreated)
  BY RolesDiffer DEF DeployInv, DockerShape, Plain, Sound, Shaped, Database, Object,
     Latest,
     WidenPeers, AddCreateOrg, OrganizationsCanBeCreated, CreatesOrganizations
<1> QED  BY <1>1, <1>2, DockerKept, DeployInvariant, PTL DEF Spec
=============================================================================
