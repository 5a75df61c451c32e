------------------------------ MODULE Tenancy ------------------------------
(***************************************************************************)
(* Tenants on one pool of connections: the dependencies get_current_user   *)
(* and get_org_uow, SqlAlchemyUnitOfWork, set_rls_context, and the row-    *)
(* level security policies that read what it sets.                         *)
(*                                                                         *)
(* A session takes a connection from the pool with its first statement and *)
(* returns it at COMMIT or ROLLBACK, where transaction-local settings end. *)
(* What services do is reduced to statements on one row: find it, insert,  *)
(* change or delete it, and for a rotation read it back after the commit.  *)
(* A write and its COMMIT are one step: other transactions can only wait   *)
(* for the rows in between, which Secrets and Catalog model.  The rows are *)
(* a forest below the organizations.  Of roles it tells apart those that   *)
(* may write (member and above) from viewer; who changes them, and why, is *)
(* the subject of Membership; users that are not active, of RefreshTokens. *)
(***************************************************************************)
EXTENDS Naturals, FiniteSets

CONSTANTS
  Request, User, Org,
  Connection,  \* pool_size + max_overflow
  Row,         \* rows there are or may be inserted
  KindOf,      \* the table of each row
  Parent,      \* what its foreign key refers to: a row or an organization
  Named,       \* rows that requests name in their paths
  SeedRows,    \* rows there are at the start
  SeedRole,    \* memberships there are at the start
  None

VARIABLES
  pc,       \* what each request does next, or its answer
  job,      \* its user, the organization in its path, and the row it is about
  holder,   \* the request that has a connection checked out, or None
  setting,  \* app.current_user_id and app.current_org_id on each connection
  rows,     \* committed rows
  role,     \* committed memberships: role[u][o], None if there is none
  rank,     \* the role in the membership that the session of each request keeps
  touched,  \* history: the rows each request's statements have returned or changed
  held      \* history: the roles its user has held while each request ran

vars == <<pc, job, holder, setting, rows, role, rank, touched, held>>

Kind == {"project", "environment", "key", "secret", "version", "entry"}
Operation == {"read", "insert", "change", "delete"}
Role == {"member", "viewer"}

ASSUME NoneAssumption == None \notin Request \cup User \cup Org \cup Row
ASSUME ForestAssumption ==
  /\ Row \cap Org = {}
  /\ KindOf \in [Row -> Kind] /\ Parent \in [Row -> Row \cup Org]
  /\ \A x \in Row :
       CASE KindOf[x] \in {"project", "entry"} -> Parent[x] \in Org
         [] KindOf[x] = "environment" -> Parent[x] \in Row /\ KindOf[Parent[x]] = "project"
         [] KindOf[x] \in {"key", "secret"} ->
              Parent[x] \in Row /\ KindOf[Parent[x]] = "environment"
         [] KindOf[x] = "version" -> Parent[x] \in Row /\ KindOf[Parent[x]] = "secret"
  /\ SeedRows \cup Named \subseteq Row /\ SeedRole \in [User -> [Org -> Role \cup {None}]]
  /\ \A x \in SeedRows : Parent[x] \in SeedRows \cup Org

\* The organization a row belongs to, whatever the policies say.
Root[x \in Row] == IF Parent[x] \in Org THEN Parent[x] ELSE Root[Parent[x]]

\* Everything below a row, which ON DELETE CASCADE takes with it.
Below[x \in Row] ==
  LET children == {y \in Row : Parent[y] = x}
  IN  children \cup UNION {Below[y] : y \in children}

\* waiting for a connection / running a statement on one
Waiting == {"authenticate", "enter", "reapply"}
Stating == {"readUser", "gate", "authorize", "find", "write", "resume"}
Ended == {"ok", "refused", "broken", "aborted"}

\* Statements that some endpoint runs on a row of a table.
Offered(kind) ==
  CASE kind = "project"     -> Operation
    [] kind = "environment" -> {"read", "insert", "delete"}
    [] kind = "key"         -> {"read", "insert"}
    [] kind = "secret"      -> {"read", "insert", "change"}
    [] kind \in {"version", "entry"} -> {"read", "insert"}

\* The roles require_org_role lets through: a viewer may list, but not reveal.
Required(op, x) ==
  IF op = "read" /\ KindOf[x] \notin {"key", "version"} THEN Role ELSE {"member"}

Unset == [user |-> None, org |-> None]

---------------------------------------------------------------------------
(* The policies, one predicate for all four commands of a table.  A        *)
(* setting that is not set is NULL and equals nothing.                     *)

\* current_user_belongs_to_current_org, which every table's restrictive
\* policy asks for at every statement
Guard(s) == s.user # None /\ s.org # None /\ role[s.user][s.org] # None

ProjectVisible(x, s) == x \in rows /\ Guard(s) /\ Parent[x] = s.org

EnvironmentVisible(x, s) == x \in rows /\ ProjectVisible(Parent[x], s)

KeyVisible(x, s) == x \in rows /\ EnvironmentVisible(Parent[x], s)

\* mutant: the policy on secrets tests nothing but the restrictive one
SecretOpen(x, s) == x \in rows /\ Guard(s)

SecretVisible(x, s) == x \in rows /\ EnvironmentVisible(Parent[x], s)

VersionVisible(x, s) == x \in rows /\ SecretVisible(Parent[x], s)

EntryVisible(x, s) == x \in rows /\ Guard(s) /\ Parent[x] = s.org

Visible(x, s) ==
  CASE KindOf[x] = "project"     -> ProjectVisible(x, s)
    [] KindOf[x] = "environment" -> EnvironmentVisible(x, s)
    [] KindOf[x] = "key"         -> KeyVisible(x, s)
    [] KindOf[x] = "secret"      -> SecretVisible(x, s)
    [] KindOf[x] = "version"     -> VersionVisible(x, s)
    [] KindOf[x] = "entry"       -> EntryVisible(x, s)

\* WITH CHECK of an INSERT: what would be seen of the row.
MayInsert(x, s) ==
  IF Parent[x] \in Org THEN Guard(s) /\ Parent[x] = s.org
                       ELSE Visible(Parent[x], s)

\* org_memberships_select, for the row of the user itself
SeesMembership(s, u, o) == role[u][o] # None /\ s.user = u

---------------------------------------------------------------------------
(* Sessions and the pool.                                                  *)

Held(r) == {c \in Connection : holder[c] = r}
Current(r) == setting[CHOOSE c \in Held(r) : TRUE]

\* mutant: commit() does not call set_rls_context
ContextOnce(r) ==
  IF pc[r] \in {"reapply", "resume"} THEN Unset
  ELSE [user |-> job[r].user,
        org |-> IF pc[r] \in {"authenticate", "readUser"} THEN None ELSE job[r].org]

\* mutant: the arguments of set_rls_context are swapped
ContextSwapped(r) ==
  [user |-> IF pc[r] \in {"authenticate", "readUser"} THEN None ELSE job[r].org,
   org  |-> job[r].user]

\* What set_rls_context writes: get_current_user has no organization yet.
Context(r) ==
  [user |-> job[r].user,
   org  |-> IF pc[r] \in {"authenticate", "readUser"} THEN None ELSE job[r].org]

Goto(r, label) == pc' = [pc EXCEPT ![r] = label]

\* mutant: set_config(..., is_local => false)
ReleaseUnreset(r) ==
  /\ holder' = [c \in Connection |-> IF holder[c] = r THEN None ELSE holder[c]]
  /\ UNCHANGED setting

\* The transaction ends and the connection returns to the pool.
Release(r) ==
  /\ holder' = [c \in Connection |-> IF holder[c] = r THEN None ELSE holder[c]]
  /\ setting' = [c \in Connection |-> IF holder[c] = r THEN Unset ELSE setting[c]]

\* __aexit__: rollback and close, and what the session kept is gone.
End(r, label) ==
  /\ Goto(r, label)
  /\ Release(r)
  /\ rank' = [rank EXCEPT ![r] = IF label \in Ended THEN None ELSE @]
  /\ held' = [held EXCEPT ![r] = IF label \in Ended THEN {} ELSE @]

Proceed(r, label) == Goto(r, label) /\ UNCHANGED <<holder, setting, rank, held>>

Touch(r, X) == touched' = [touched EXCEPT ![r] = @ \cup X]

---------------------------------------------------------------------------
Arrive(r) ==
  /\ pc[r] = "idle"
  /\ \E u \in User, o \in Org, op \in Operation, x \in Row :
       /\ op \in Offered(KindOf[x])
       /\ IF op = "insert" THEN x \notin rows ELSE x \in Named
       /\ op = "insert" /\ Parent[x] \in Org => Parent[x] = o
       /\ job' = [job EXCEPT ![r] = [user |-> u, org |-> o, op |-> op, row |-> x]]
       /\ held' = [held EXCEPT ![r] = {role[u][o]} \ {None}]
  /\ Goto(r, "authenticate")
  /\ UNCHANGED <<holder, setting, rows, role, rank, touched>>

\* __aenter__, or commit() once its COMMIT is done
Enter(r) ==
  /\ pc[r] \in Waiting
  /\ \E c \in Connection :
       /\ holder[c] = None
       /\ holder' = [holder EXCEPT ![c] = r]
       /\ setting' = [setting EXCEPT ![c] = Context(r)]
  /\ Goto(r, CASE pc[r] = "authenticate" -> "readUser"
               [] pc[r] = "enter"        -> "gate"
               [] pc[r] = "reapply"      -> "resume")
  /\ UNCHANGED <<job, rows, role, rank, touched, held>>

\* get_current_user has a unit of work of its own, closed before the next.
ReadUser(r) ==
  /\ pc[r] = "readUser"
  /\ End(r, "enter")
  /\ UNCHANGED <<job, rows, role, touched>>

MyRole(r) == role[job[r].user][job[r].org]
SeesMine(r) == SeesMembership(Current(r), job[r].user, job[r].org)

\* get_org_uow.  The membership stays in the session's identity map.
Gate(r) ==
  /\ pc[r] = "gate"
  /\ IF SeesMine(r)
       THEN /\ Goto(r, "authorize")
            /\ rank' = [rank EXCEPT ![r] = MyRole(r)]
            /\ UNCHANGED <<holder, setting, held>>
       ELSE End(r, "refused")
  /\ UNCHANGED <<job, rows, role, touched>>

\* mutant: require_org_role is not called, or asks for too little
AuthorizeAny(r) ==
  /\ pc[r] = "authorize"
  /\ IF SeesMine(r)
       THEN Proceed(r, "find") ELSE End(r, "refused")
  /\ UNCHANGED <<job, rows, role, touched>>

\* require_org_role reads the membership again, and gets the row that the
\* session keeps.
Authorize(r) ==
  /\ pc[r] = "authorize"
  /\ IF SeesMine(r) /\ rank[r] \in Required(job[r].op, job[r].row)
       THEN Proceed(r, "find") ELSE End(r, "refused")
  /\ UNCHANGED <<job, rows, role, touched>>

\* The row a service looks up first; an audit entry or a project to be
\* inserted has none.
Target(r) == IF job[r].op = "insert" THEN Parent[job[r].row] ELSE job[r].row

\* get, under the policies, and then the services' own test that the row
\* belongs to the organization in the path.
Find(r) ==
  LET x     == Target(r)
      found == x \in Row /\ Visible(x, Current(r))
  IN  /\ pc[r] = "find"
      /\ Touch(r, IF found THEN {x} ELSE {})
      /\ IF x \in Row /\ (~found \/ Root[x] # job[r].org)
           THEN End(r, "refused")
         ELSE IF job[r].op = "read" THEN End(r, "ok")
         ELSE Proceed(r, "write")
      /\ UNCHANGED <<job, rows, role>>

\* An INSERT is refused by the policy, the foreign key or a unique key; an
\* UPDATE that changes no row is an error, a DELETE that deletes none is not.
Fails(r) ==
  LET x == job[r].row
  IN  CASE job[r].op = "insert" -> x \in rows \/ ~MayInsert(x, Current(r))
        [] job[r].op = "change" -> ~Visible(x, Current(r))
        [] job[r].op = "delete" -> FALSE

\* The rows a DELETE takes away.
Deleted(r) ==
  IF job[r].op = "delete" /\ Visible(job[r].row, Current(r))
    THEN ({job[r].row} \cup Below[job[r].row]) \cap rows ELSE {}

\* The statement that writes, and COMMIT.
Write(r) ==
  /\ pc[r] = "write"
  /\ IF Fails(r)
       THEN End(r, "broken") /\ UNCHANGED <<rows, touched>>
       ELSE /\ rows' = (rows \ Deleted(r))
                         \cup (IF job[r].op = "insert" THEN {job[r].row} ELSE {})
            /\ Touch(r, Deleted(r) \cup
                        (IF job[r].op = "delete" THEN {} ELSE {job[r].row}))
            /\ End(r, "reapply")
  /\ UNCHANGED <<job, role>>

\* The answer.  rotate_secret reads the secret again and asserts it is there.
Resume(r) ==
  LET s == Target(r)
  IN  /\ pc[r] = "resume"
      /\ IF job[r].op = "insert" /\ KindOf[job[r].row] = "version"
           THEN /\ Touch(r, IF Visible(s, Current(r)) THEN {s} ELSE {})
                /\ End(r, IF Visible(s, Current(r)) THEN "ok" ELSE "broken")
           ELSE End(r, "ok") /\ UNCHANGED touched
      /\ UNCHANGED <<job, rows, role>>

\* The client is gone, the connection is lost, or none was free in time
\* (pool_timeout): the session is closed.
Cancel(r) ==
  /\ pc[r] \in Waiting \cup Stating
  /\ End(r, "aborted")
  /\ UNCHANGED <<job, rows, role, touched>>

\* MembershipService.update_role and remove, by some other request
ChangeRole(u, o) ==
  /\ role[u][o] # None
  /\ \E n \in (Role \cup {None}) \ {role[u][o]} :
       /\ role' = [role EXCEPT ![u][o] = n]
       /\ held' = [r \in Request |->
            IF pc[r] \in Waiting \cup Stating /\ job[r].user = u /\ job[r].org = o
              THEN held[r] \cup ({n} \ {None}) ELSE held[r]]
  /\ UNCHANGED <<pc, job, holder, setting, rows, rank, touched>>

---------------------------------------------------------------------------
Init ==
  /\ pc = [r \in Request |-> "idle"]
  /\ job = [r \in Request |-> [user |-> None, org |-> None, op |-> "read", row |-> None]]
  /\ holder = [c \in Connection |-> None]
  /\ setting = [c \in Connection |-> Unset]
  /\ rows = SeedRows
  /\ role = SeedRole
  /\ rank = [r \in Request |-> None]
  /\ touched = [r \in Request |-> {}]
  /\ held = [r \in Request |-> {}]

Advance(r) ==
  Enter(r) \/ ReadUser(r) \/ Gate(r) \/ Authorize(r) \/ Find(r) \/ Write(r) \/ Resume(r)

Next ==
  \/ \E r \in Request : Arrive(r) \/ Advance(r) \/ Cancel(r)
  \/ \E u \in User, o \in Org : ChangeRole(u, o)

Spec == Init /\ [][Next]_vars

---------------------------------------------------------------------------
(* Properties.                                                             *)

\* Connections, settings, rows and requests are what they may be.
TypeOK ==
  /\ pc \in [Request -> {"idle"} \cup Waiting \cup Stating \cup Ended]
  /\ job \in [Request -> [user : User \cup {None}, org : Org \cup {None},
                          op : Operation, row : Row \cup {None}]]
  /\ holder \in [Connection -> Request \cup {None}]
  /\ setting \in [Connection -> [user : User \cup {None}, org : Org \cup {None}]]
  /\ rows \subseteq Row
  /\ role \in [User -> [Org -> Role \cup {None}]]
  /\ rank \in [Request -> Role \cup {None}]
  /\ touched \in [Request -> SUBSET Row]
  /\ held \in [Request -> SUBSET Role]

\* Whatever ids a request names, whatever ran on its connection before and
\* whatever commits meanwhile: its statements return and change only rows of
\* the organization in its path.
Isolation == \A r \in Request : \A x \in touched[r] : Root[x] = job[r].org

\* Whoever is returned or changes a row is a member of the organization in
\* that very statement, though the gate was passed before, and has had the role
\* that the operation takes while the request ran: no viewer ever changes a row
\* or is given a key or a version, although the policies let every member.
RoleHeld ==
  [][\A r \in Request :
       touched'[r] # touched[r] =>
         MyRole(r) # None /\ held[r] \cap Required(job[r].op, job[r].row) # {}]_vars

\* The pool is sound.  No session is left open: a request has one connection
\* while it runs statements and none when it has ended; it also has none while
\* it waits for one, so requests cannot exhaust the pool against each other.
\* The settings in force are those of the request that runs on a connection,
\* and an idle connection has none that the next one could inherit.
PoolSound ==
  /\ \A r \in Request :
       Cardinality(Held(r)) = IF pc[r] \in Stating THEN 1 ELSE 0
  /\ \A c \in Connection :
       setting[c] = IF holder[c] = None THEN Unset ELSE Context(holder[c])

\* A committed rotation is answered 500 only if since then its secret has
\* been deleted or its user removed: the settings are in force again after the
\* COMMIT, on whichever connection the session is given.
ReloadFinds ==
  [][\A r \in Request :
       pc[r] = "resume" /\ pc'[r] = "broken" =>
         Target(r) \notin rows \/ MyRole(r) = None]_vars
=============================================================================
