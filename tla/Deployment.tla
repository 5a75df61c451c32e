----------------------------- MODULE Deployment -----------------------------
(***************************************************************************)
(* How a database is brought to the schema the other modules start from:   *)
(* init-db.sh, provision_migration_role.sh, provision_app_role.sh and the  *)
(* Alembic migrations, run by an operator or by CI.                        *)
(*                                                                         *)
(* psql commits a script's statements one by one and stops at the first    *)
(* that fails; an Alembic command is one transaction, whatever number of   *)
(* migrations it runs.  Either may die at any point.  An Alembic command   *)
(* reads the revision when it starts; what it does is committed in one     *)
(* step, before which it has only waited for locks or for its turn.        *)
(*                                                                         *)
(* The operator is a superuser: envvault_user on Docker, which also runs   *)
(* Alembic there.  Of tables, functions and policies the model keeps what  *)
(* migrations after the first one change, of privileges those that PUBLIC  *)
(* does not have anyway (on schema, types and the other functions it has). *)
(***************************************************************************)
EXTENDS Naturals, Sequences

CONSTANTS
  Runner,    \* Alembic commands that may be under way at the same time
  Operator, Migrate, App,
  None

VARIABLES
  place,   \* "docker" or "server" (staging, production)
  db,      \* the database, as committed
  script,  \* what is left of the script that runs: its name and statements
  run      \* each Alembic command: who runs it, the revision read, the target

vars == <<place, db, script, run>>

ASSUME RolesDiffer == Operator # Migrate /\ App \notin {Operator, Migrate, None}
                        /\ None \notin {Operator, Migrate}

Object == {"schema", "extensions", "version", "tables", "createOrg", "settingUuid",
           "isMember"}
Definer == {"createOrg", "isMember"}   \* SECURITY DEFINER functions
Feature == {"deletedAt", "cascade", "safeCasts", "peers"}

\* The revisions, in the order of down_revision; 0 is an empty database.
Initial == 1         \* 412ab868f224
AddDeletedAt == 2    \* b7981284763f
RestoreCascade == 3  \* 177077e10656
AddCreateOrg == 4    \* c3f8a91d2e47
SafeCasts == 5       \* d4a1b72e9c08
GrantDml == 6        \* e7c4d91a5b26
WidenPeers == 7      \* a1f2b3c4d5e6
Latest == WidenPeers

Database ==
  [rev : 0..Latest, roles : SUBSET {Migrate, App},
   owner : [Object -> {Operator, Migrate, None}],  \* None: no such object
   shape : SUBSET Feature,
   app : SUBSET (Definer \cup {"tables"}),  \* granted to envvault_app
   public : SUBSET Definer,                 \* EXECUTE granted to PUBLIC
   defaults : SUBSET {Operator, Migrate}]   \* whose new tables the app may use

\* The schema public belongs to a role of the cluster.
Empty == [rev |-> 0, roles |-> {}, owner |-> [o \in Object |-> None], shape |-> {},
          app |-> {}, public |-> {}, defaults |-> {}]

---------------------------------------------------------------------------
(* What a role may do: a superuser everything, another what it owns.       *)

Alters(d, by, o) == by = Operator \/ d.owner[o] = by
Creates(d, by) == Alters(d, by, "schema")
CreatesOrAlters(d, by, o) == IF d.owner[o] = None THEN Creates(d, by) ELSE Alters(d, by, o)

\* CREATE IF NOT EXISTS and CREATE OR REPLACE keep the owner there is.
Made(d, by, o) == [d.owner EXCEPT ![o] = IF @ = None THEN by ELSE @]
Dropped(d, O) == [o \in Object |-> IF o \in O THEN None ELSE d.owner[o]]

\* mutant: EXECUTE is left with PUBLIC, which a new function is created with
AddDefinerPublic(d, by, f) ==
  [d EXCEPT !.owner = Made(d, by, f), !.app = @ \cup {f}, !.public = @ \cup {f}]

\* CREATE FUNCTION, REVOKE ALL FROM PUBLIC, GRANT EXECUTE TO envvault_app
AddDefiner(d, by, f) ==
  [d EXCEPT !.owner = Made(d, by, f), !.app = @ \cup {f}, !.public = @ \ {f}]

DropDefiner(d, f) ==
  [d EXCEPT !.owner = Dropped(d, {f}), !.app = @ \ {f}, !.public = @ \ {f}]

DropTables(d) ==
  [d EXCEPT !.owner = Dropped(d, {"tables", "extensions"}), !.shape = {}, !.app = @ \ {"tables"}]

---------------------------------------------------------------------------
(* The migrations: whether one raises, and what it does if not.            *)

\* mutant: app_setting_uuid is created without OR REPLACE
CanUpgradeOnce(n, d, by) ==
  /\ CreatesOrAlters(d, by, "version")
  /\ CASE n = Initial      -> Creates(d, by) /\ (d.owner["extensions"] # None \/ by = Operator)
       [] n \in {AddDeletedAt, RestoreCascade} -> Alters(d, by, "tables")
       [] n = AddCreateOrg -> App \in d.roles /\ Creates(d, by)
       [] n = SafeCasts    -> d.owner["settingUuid"] = None /\ Alters(d, by, "tables")
       [] n = GrantDml     -> App \in d.roles /\ Alters(d, by, "tables")
       [] n = WidenPeers   -> App \in d.roles /\ Creates(d, by) /\ Alters(d, by, "tables")

\* Only a superuser can create the extensions, which the scripts do before.
CanUpgrade(n, d, by) ==
  /\ CreatesOrAlters(d, by, "version")
  /\ CASE n = Initial      -> Creates(d, by) /\ (d.owner["extensions"] # None \/ by = Operator)
       [] n \in {AddDeletedAt, RestoreCascade} -> Alters(d, by, "tables")
       [] n = AddCreateOrg -> App \in d.roles /\ Creates(d, by)
       [] n = SafeCasts    -> CreatesOrAlters(d, by, "settingUuid") /\ Alters(d, by, "tables")
       [] n = GrantDml     -> App \in d.roles /\ Alters(d, by, "tables")
                                /\ Alters(d, by, "createOrg")
       [] n = WidenPeers   -> App \in d.roles /\ Creates(d, by) /\ Alters(d, by, "tables")

CreateTables(d, by) ==
  [d EXCEPT !.owner = [Made(d, by, "extensions") EXCEPT !["tables"] = by, !["version"] =
                         IF @ = None THEN by ELSE @],
            !.shape = {"cascade"},
            !.app = @ \cup (IF by \in d.defaults THEN {"tables"} ELSE {})]

\* The foreign key of secret_versions is created anew without ON DELETE CASCADE.
AddColumn(d) == [d EXCEPT !.shape = (@ \cup {"deletedAt"}) \ {"cascade"}]

\* mutant: the foreign key is created without ON DELETE CASCADE again
ForgetCascade(d) == d

AddCascade(d) == [d EXCEPT !.shape = @ \cup {"cascade"}]

\* app_setting_uuid, and every policy anew: memberships are one's own
RewritePolicies(d, by) ==
  [d EXCEPT !.owner = Made(d, by, "settingUuid"),
            !.shape = (@ \cup {"safeCasts"}) \ {"peers"}]

\* mutant: ALTER DEFAULT PRIVILEGES FOR ROLE names the grantee
GrantForGrantee(d, by) ==
  [d EXCEPT !.app = {"tables"} \cup {f \in Definer : d.owner[f] # None},
            !.public = @ \ {"createOrg"},
            !.defaults = @ \cup {App}]

\* The default privileges are those of the role that runs the migration.
GrantAll(d, by) ==
  [d EXCEPT !.app = {"tables"} \cup {f \in Definer : d.owner[f] # None},
            !.public = @ \ {"createOrg"},
            !.defaults = @ \cup {by}]

RevokeAll(d, by) == [d EXCEPT !.app = {}, !.defaults = @ \ {by}]

\* user_is_org_member and the policy that calls it
ShowPeers(d, by) == [AddDefiner(d, by, "isMember") EXCEPT !.shape = @ \cup {"peers"}]
HidePeers(d) == [DropDefiner(d, "isMember") EXCEPT !.shape = @ \ {"peers"}]

Upgrade(n, d, by) ==
  LET done == CASE n = Initial        -> CreateTables(d, by)
                [] n = AddDeletedAt   -> AddColumn(d)
                [] n = RestoreCascade -> AddCascade(d)
                [] n = AddCreateOrg   -> AddDefiner(d, by, "createOrg")
                [] n = SafeCasts      -> RewritePolicies(d, by)
                [] n = GrantDml       -> GrantAll(d, by)
                [] n = WidenPeers     -> ShowPeers(d, by)
  IN  [done EXCEPT !.rev = n]

\* AddDeletedAt's drop_constraint names no constraint, which is an error;
\* extensions belong to the role that has created them.
CanDowngrade(n, d, by) ==
  /\ Alters(d, by, "version")
  /\ CASE n = Initial      -> Alters(d, by, "tables") /\ Alters(d, by, "extensions")
       [] n = AddDeletedAt -> FALSE
       [] n = RestoreCascade -> Alters(d, by, "tables")
       [] n = AddCreateOrg -> Alters(d, by, "createOrg")
       [] n = SafeCasts    -> TRUE
       [] n = GrantDml     -> Alters(d, by, "tables") /\ Alters(d, by, "createOrg")
       [] n = WidenPeers   -> Alters(d, by, "tables") /\ Alters(d, by, "isMember")

\* SafeCasts does nothing: its policies and function stay.  AddDeletedAt
\* never gets here.
Downgrade(n, d, by) ==
  LET undone ==
        CASE n = Initial        -> DropTables(d)
          [] n = RestoreCascade -> [d EXCEPT !.shape = @ \ {"cascade"}]
          [] n = AddCreateOrg   -> DropDefiner(d, "createOrg")
          [] n \in {AddDeletedAt, SafeCasts} -> d
          [] n = GrantDml       -> RevokeAll(d, by)
          [] n = WidenPeers     -> HidePeers(d)
  IN  [undone EXCEPT !.rev = n - 1]

---------------------------------------------------------------------------
(* An Alembic command.                                                     *)

\* The migrations between two revisions, as <<is an upgrade, revision>>.
Steps(from, to) ==
  IF from < to THEN [i \in 1..(to - from) |-> <<TRUE, from + i>>]
               ELSE [i \in 1..(from - to) |-> <<FALSE, from + 1 - i>>]

Can(step, d, by) == IF step[1] THEN CanUpgrade(step[2], d, by) ELSE CanDowngrade(step[2], d, by)
Does(step, d, by) == IF step[1] THEN Upgrade(step[2], d, by) ELSE Downgrade(step[2], d, by)

Idle == [by |-> None, seen |-> 0, to |-> 0]

\* upgrade head, upgrade +1, downgrade -1, downgrade base
Targets(rev) == {Latest, 0} \cup {n \in 0..Latest : n + 1 = rev \/ n = rev + 1}

\* Nothing connects before the server's first boot is over.
StartAlembic(a) ==
  /\ run[a] = Idle /\ script.name # "initDb"
  /\ \E by \in {Operator} \cup (db.roles \ {App}), n \in Targets(db.rev) \ {db.rev} :
       run' = [run EXCEPT ![a] = [by |-> by, seen |-> db.rev, to |-> n]]
  /\ UNCHANGED <<place, db, script>>

\* The database after i migrations of the command, nothing committed yet.
Outcome(a) ==
  LET steps == Steps(run[a].seen, run[a].to)
      after[i \in 0..Len(steps)] ==
        IF i = 0 THEN db ELSE Does(steps[i], after[i - 1], run[a].by)
  IN  [ok |-> \A i \in 1..Len(steps) : Can(steps[i], after[i - 1], run[a].by),
       db |-> after[Len(steps)]]

\* mutant: the revision that was read is not compared again
StillAtAny(a) == TRUE

\* The UPDATE of alembic_version expects the row it has read.
StillAt(a) == db.rev = run[a].seen

\* All migrations and the revision in one COMMIT; otherwise a ROLLBACK.
FinishAlembic(a) ==
  /\ run[a] # Idle
  /\ db' = IF StillAt(a) /\ Outcome(a).ok THEN Outcome(a).db ELSE db
  /\ run' = [run EXCEPT ![a] = Idle]
  /\ UNCHANGED <<place, script>>

DieAlembic(a) ==
  /\ run[a] # Idle
  /\ run' = [run EXCEPT ![a] = Idle]
  /\ UNCHANGED <<place, db, script>>

---------------------------------------------------------------------------
(* The scripts.                                                            *)

Nothing == [name |-> "none", rest |-> <<>>]

ProvisionMigrate == <<"extensions", "createMigrate", "ownSchema">>
Transfer == Append(ProvisionMigrate, "reassign")
ProvisionApp == <<"createApp">>
Grants == <<"createApp", "grantTables", "grantFunctions", "revokePublic",
            "grantCreateOrg", "defaults">>

StartScript ==
  /\ script = Nothing
  /\ \E s \in {Transfer, ProvisionMigrate, ProvisionApp, Grants} :
       /\ s \in {Transfer, ProvisionMigrate} => place = "server"
       /\ script' = [name |-> "provision", rest |-> s]
  /\ UNCHANGED <<place, db, run>>

\* What a statement names must be there: the function, and the types, which
\* are there when the function is.
StatementFails(s, d) ==
  s \in {"revokePublic", "grantCreateOrg"} /\ d.owner["createOrg"] = None

\* Statements of a superuser.  REASSIGN OWNED takes everything the operator
\* owns; ALTER DEFAULT PRIVILEGES is for the role that runs it.
After(s, d) ==
  CASE s = "createApp"      -> [d EXCEPT !.roles = @ \cup {App}]
    [] s = "createMigrate"  -> [d EXCEPT !.roles = @ \cup {Migrate}]
    [] s = "extensions"     -> [d EXCEPT !.owner = Made(d, Operator, "extensions")]
    [] s = "ownSchema"      -> [d EXCEPT !.owner["schema"] = Migrate]
    [] s = "reassign"       -> [d EXCEPT !.owner =
                                  [o \in Object |-> IF d.owner[o] = Operator THEN Migrate
                                                    ELSE d.owner[o]]]
    [] s = "grantTables"    -> [d EXCEPT !.app = @ \cup (IF d.owner["tables"] = None THEN {}
                                                         ELSE {"tables"})]
    [] s = "grantFunctions" -> [d EXCEPT !.app = @ \cup {f \in Definer : d.owner[f] # None}]
    [] s = "revokePublic"   -> [d EXCEPT !.public = @ \ {"createOrg"}]
    [] s = "grantCreateOrg" -> [d EXCEPT !.app = @ \cup {"createOrg"}]
    [] s = "defaults"       -> [d EXCEPT !.defaults = @ \cup {Operator}]

\* ON_ERROR_STOP and set -e end the script with the first failure.
Statement ==
  /\ script # Nothing
  /\ LET s == Head(script.rest)
         fails == StatementFails(s, db)
     IN  /\ db' = IF fails THEN db ELSE After(s, db)
         /\ script' = IF fails \/ Len(script.rest) = 1 THEN Nothing
                      ELSE [script EXCEPT !.rest = Tail(@)]
  /\ UNCHANGED <<place, run>>

DieScript ==
  /\ script # Nothing
  /\ script' = Nothing
  /\ UNCHANGED <<place, db, run>>

---------------------------------------------------------------------------
\* On Docker the first boot runs init-db.sh, once.
Init ==
  /\ place \in {"docker", "server"}
  /\ db = Empty
  /\ script = IF place = "docker" THEN [name |-> "initDb", rest |-> <<"createApp", "defaults">>]
                                  ELSE Nothing
  /\ run = [a \in Runner |-> Idle]

Next ==
  \/ StartScript \/ Statement \/ DieScript
  \/ \E a \in Runner : StartAlembic(a) \/ FinishAlembic(a) \/ DieAlembic(a)

Spec == Init /\ [][Next]_vars

---------------------------------------------------------------------------
(* Properties.                                                             *)

\* Roles, objects and privileges are what they may be.
TypeOK ==
  /\ place \in {"docker", "server"} /\ db \in Database
  /\ script.name \in {"none", "initDb", "provision"}
  /\ run \in [Runner -> [by : {Operator, Migrate, None}, seen : 0..Latest, to : 0..Latest]]

\* The schema is what its revision says, by whichever upgrades, downgrades,
\* failed or overlapping commands of whichever roles it has come about: what a
\* downgrade leaves behind (the casts) or must bring back (ON DELETE CASCADE,
\* the peers' memberships) does not tell two databases of a revision apart.
ShapeFollowsRevision ==
  LET at == db.rev
      has(f) == f \in db.shape
      there(o) == db.owner[o] # None
  IN  /\ has("deletedAt") <=> at >= AddDeletedAt
      /\ has("cascade") <=> at # 0 /\ at # AddDeletedAt
      /\ at >= SafeCasts => has("safeCasts") /\ there("settingUuid")
      /\ has("peers") <=> at = WidenPeers
      /\ there("tables") <=> at >= Initial
      /\ there("createOrg") <=> at >= AddCreateOrg
      /\ there("isMember") <=> at = WidenPeers

\* A database at the latest revision serves the application without a repair:
\* the role is there and may use every table and function, and PUBLIC may call
\* no SECURITY DEFINER function, whoever ran which script or migration and
\* wherever a script stopped.
RuntimeReady ==
  db.rev = Latest =>
    /\ App \in db.roles
    /\ db.app = Definer \cup {"tables"} /\ db.public = {}

\* What provision_migration_role.sh promises: after the bootstrap the migration
\* role needs no superuser.  Once it owns the schema and whatever there is in
\* it, an upgrade to the latest revision does not fail, from any revision that
\* upgrades and downgrades, its own or the operator's, have led to.
MigrateSuffices ==
  /\ db.roles = {Migrate, App} /\ db.owner["schema"] = Migrate
  /\ db.owner["extensions"] # None
  /\ \A o \in Object \ {"extensions"} : db.owner[o] # Operator
  => \A a \in Runner : run[a].by = Migrate /\ run[a].to = Latest /\ StillAt(a) => Outcome(a).ok

\* The function runs as its owner, and FORCE ROW LEVEL SECURITY spares only
\* superusers.  Its INSERT ... RETURNING is subject to the policy that shows
\* an organization to its members, and the first membership is inserted after
\* it: only an owner whom the policies spare gets that far.
CreatesOrganizations(d) == d.owner["createOrg"] = Operator

\* What the docstring of c3f8a91d2e47 promises: an organization and its owner's
\* membership can be created under FORCE RLS, for the function bypasses it.
OrganizationsCanBeCreated == db.rev = Latest => CreatesOrganizations(db)
=============================================================================
