------------------------------ MODULE Catalog ------------------------------
(***************************************************************************)
(* Users, organizations and projects, the rows that carry a unique name:   *)
(* AuthService.register, OrganizationService and ProjectService, and the   *)
(* audit entry of a reveal, which refers to its organization.              *)
(*                                                                         *)
(* Every HTTP request is one READ COMMITTED transaction with at most one   *)
(* statement that writes.  The statement finds its row and asks the        *)
(* policies in the snapshot it starts with (action Start) and takes its    *)
(* locks one after the other, keeping those it has while it waits for the  *)
(* next: an UPDATE and a DELETE their row (LockRow), an INSERT and an      *)
(* UPDATE the entry of the unique index (AddEntry), an INSERT what its     *)
(* foreign key refers to (Refer), a DELETE the rows it cascades to         *)
(* (Cascade).  Commit publishes the transaction.  PostgreSQL ends a        *)
(* transaction that waits for itself (Victim).  Requests interleave at     *)
(* every step.  A row is named after the request that inserts it, or was   *)
(* there at the start.  The gate                                           *)
(* of get_org_uow and the service's own test of the role are one step:     *)
(* what may happen between them is the subject of Membership.  Names and   *)
(* descriptions that are not unique, the read-only endpoints, and what     *)
(* hangs below a project are left out.                                     *)
(***************************************************************************)
EXTENDS Naturals

CONSTANTS
  Request,
  User,       \* users who sign requests
  Name,       \* slugs and e-mail addresses
  Seed,       \* rows there are at the start
  SeedRow,    \* what they are
  SeedRole,   \* who has which role in them
  Reduced,    \* roles that members are reduced to
  Nowhere     \* the parent of a user or an organization

VARIABLES
  pc,    \* the next statement of each request, or its answer
  req,   \* the operation, its arguments and what it has read
  row,   \* committed users, organizations and projects
  role,  \* committed memberships: role[u][o]
  audit, \* committed audit entries: the request and organization_id
  held   \* the rows each transaction has updated or deleted

vars == <<pc, req, row, role, audit, held>>

Id == Request \cup Seed
Kind == {"user", "org", "project"}
Operation == {"make", "rename", "drop", "reveal"}
Role == {"owner", "admin", "member", "viewer", "none"}

\* The primary key columns and the unique one; parent is organization_id.
Row == [kind : Kind, parent : Id \cup {Nowhere}, name : Name]

\* Where a statement waits for a lock.
Waiting == {"row", "index", "refer", "cascade"}
Running == {"authorize", "read", "check", "start", "written"} \cup Waiting

\* 2xx; 403 or 404; 409; 500; the client is gone or the connection lost
Ended == {"ok", "refused", "conflict", "broken", "aborted"}

ASSUME Disjoint == Request \cap Seed = {} /\ Nowhere \notin Id \cup Name
ASSUME SeedAssumption ==
  /\ SeedRow \in [Seed -> Row] /\ SeedRole \in [User -> [Seed -> Role]]
  /\ \A i, k \in Seed :
       SeedRow[i].kind = SeedRow[k].kind /\ SeedRow[i].parent = SeedRow[k].parent
         /\ SeedRow[i].name = SeedRow[k].name => i = k
  /\ \A i \in Seed :
       IF SeedRow[i].kind = "project"
         THEN SeedRow[i].parent \in Seed /\ SeedRow[SeedRow[i].parent].kind = "org"
         ELSE SeedRow[i].parent = Nowhere

Rows == DOMAIN row
Orgs == {i \in Rows : row[i].kind = "org"}
ProjectsOf(o) == {i \in Rows : row[i].kind = "project" /\ row[i].parent = o}

\* Roles at or above a minimum (ROLE_RANK).
AtLeast(least) ==
  CASE least = "member" -> {"owner", "admin", "member"}
    [] least = "admin"  -> {"owner", "admin"}
    [] least = "owner"  -> {"owner"}

\* What a member may be reduced to, up to its removal.
Lower(old) ==
  CASE old = "owner"  -> {"admin", "member", "viewer", "none"}
    [] old = "admin"  -> {"member", "viewer", "none"}
    [] old = "member" -> {"viewer", "none"}
    [] old = "viewer" -> {"none"}
    [] old = "none"   -> {}

\* A unique constraint: users.email, organizations.slug, or
\* uq_project_slug_per_org within one organization.
Entry(k, p, n) == <<k, p, n>>
EntryOf(i) == Entry(row[i].kind, row[i].parent, row[i].name)
Wanted(r) == Entry(req[r].kind, req[r].parent, req[r].name)

TakenBy(r) == {i \in Rows \ {req[r].id} : EntryOf(i) = Wanted(r)}

\* The organization a request works in, and its actor's role there.
OrgOf(r) == IF req[r].kind = "project" THEN req[r].parent ELSE req[r].id
RoleOf(r) == role[req[r].actor][OrgOf(r)]

\* Row-level security shows the row of a project or an organization to the
\* members of its organization, at every statement anew, and users to all.
Visible(r, i) ==
  CASE row[i].kind = "user"    -> TRUE
    [] row[i].kind = "org"     -> role[req[r].actor][i] # "none"
    [] row[i].kind = "project" -> role[req[r].actor][row[i].parent] # "none"

Idle == [op |-> "none", kind |-> "user", actor |-> Nowhere, id |-> Nowhere,
         parent |-> Nowhere, name |-> Nowhere]

Goto(r, label) == pc' = [pc EXCEPT ![r] = label]

\* COMMIT and ROLLBACK release what a transaction has locked.
Go(r, label, locks) ==
  /\ Goto(r, label)
  /\ held' = [held EXCEPT ![r] = IF label \in Ended THEN {} ELSE locks]
  /\ UNCHANGED <<req, row, role, audit>>

\* A statement that locks nothing.
Reads(r, label) == Go(r, label, held[r])

---------------------------------------------------------------------------
(* A request arrives.                                                      *)

Begin(r, job, first) ==
  /\ pc[r] = "idle"
  /\ req' = [req EXCEPT ![r] = job]
  /\ Goto(r, first)
  /\ UNCHANGED <<row, role, audit, held>>

\* register, which nobody signs
BeginRegister(r) ==
  \E n \in Name :
    Begin(r, [Idle EXCEPT !.op = "make", !.id = r, !.name = n], "check")

BeginMakeOrg(r) ==
  \E u \in User, n \in Name :
    Begin(r, [Idle EXCEPT !.op = "make", !.kind = "org", !.actor = u,
                          !.id = r, !.name = n], "check")

BeginMakeProject(r) ==
  \E u \in User, o \in Orgs, n \in Name :
    Begin(r, [Idle EXCEPT !.op = "make", !.kind = "project", !.actor = u,
                          !.id = r, !.parent = o, !.name = n], "authorize")

BeginOnOrg(r) ==
  \E u \in User, o \in Orgs, n \in Name, op \in {"rename", "drop", "reveal"} :
    Begin(r, [Idle EXCEPT !.op = op, !.kind = "org", !.actor = u, !.id = o,
                          !.name = IF op = "rename" THEN n ELSE row[o].name],
          "authorize")

BeginOnProject(r) ==
  \E u \in User, o \in Orgs, n \in Name, op \in {"rename", "drop"} :
    \E p \in ProjectsOf(o) :
      Begin(r, [Idle EXCEPT !.op = op, !.kind = "project", !.actor = u, !.id = p,
                            !.parent = o,
                            !.name = IF op = "rename" THEN n ELSE row[p].name],
            "authorize")

---------------------------------------------------------------------------
(* Reads.                                                                  *)

Minimum(r) ==
  IF req[r].kind = "project" \/ req[r].op = "reveal" THEN "member"
  ELSE IF req[r].op = "rename" THEN "admin" ELSE "owner"

AfterAuthorize(r) ==
  CASE req[r].op = "make"   -> "check"
    [] req[r].op = "reveal" -> "start"
    [] OTHER                -> "read"

\* get_org_uow and require_org_role
Authorize(r) ==
  /\ pc[r] = "authorize"
  /\ Reads(r, IF RoleOf(r) \in AtLeast(Minimum(r))
                THEN AfterAuthorize(r) ELSE "refused")

\* get: a name that is already the row's makes an UPDATE of nothing.
Read(r) ==
  /\ pc[r] = "read"
  /\ Reads(r,
       IF req[r].id \notin Rows \/ ~Visible(r, req[r].id) THEN "refused"
       ELSE IF req[r].op = "drop" THEN "start"
       ELSE IF row[req[r].id].name = req[r].name THEN "ok"
       ELSE "check")

\* get_by_email, get_by_slug, get_by_org_and_slug
CheckName(r) ==
  /\ pc[r] = "check"
  /\ Reads(r, IF \E i \in TakenBy(r) : Visible(r, i) THEN "conflict" ELSE "start")

---------------------------------------------------------------------------
(* The statement that writes.                                              *)

\* mutant: a policy hides projects from those who do not own the organization
PermittedToOwners(r) == req[r].op = "make" \/ RoleOf(r) = "owner"

\* A member may do anything to a project; an organization may be renamed by
\* its admins and deleted by its owners.
Permitted(r) ==
  CASE req[r].op = "make" /\ req[r].kind # "project" -> TRUE
    [] req[r].op = "rename" /\ req[r].kind = "org"   -> RoleOf(r) \in AtLeast("admin")
    [] req[r].op = "drop" /\ req[r].kind = "org"     -> RoleOf(r) = "owner"
    [] OTHER                                         -> RoleOf(r) # "none"

FirstLock(r) ==
  CASE req[r].op = "make"   -> "index"
    [] req[r].op = "reveal" -> "refer"
    [] OTHER                -> "row"

\* A row that is gone or hidden by its policy: an UPDATE of none is a
\* StaleDataError, a DELETE of none is a success.  An INSERT against the
\* policy is an error.
Start(r) ==
  LET found == /\ Permitted(r)
               /\ req[r].op \in {"rename", "drop"} => req[r].id \in Rows
  IN  /\ pc[r] = "start"
      /\ Reads(r, IF found THEN FirstLock(r)
                  ELSE IF req[r].op = "drop" THEN "ok" ELSE "broken")

\* mutant: the foreign key of a project does not lock its organization
ShareAudited(r) == IF pc[r] = "written" /\ req[r].op = "reveal" THEN {OrgOf(r)} ELSE {}

\* mutant: a deletion reads its row FOR KEY SHARE before it deletes it
ShareRead(r) ==
  IF \/ pc[r] = "written" /\ req[r].op = "reveal"
     \/ pc[r] = "written" /\ req[r].op = "make" /\ req[r].kind = "project"
    THEN {OrgOf(r)}
  ELSE IF pc[r] = "row" /\ req[r].op = "drop" THEN {req[r].id} ELSE {}

\* The organization a foreign key has locked FOR KEY SHARE: it cannot be
\* deleted, nor have its slug changed.
Shares(r) ==
  IF /\ pc[r] = "written"
     /\ req[r].op = "reveal" \/ (req[r].op = "make" /\ req[r].kind = "project")
    THEN {OrgOf(r)} ELSE {}

\* Entries of a unique index that a transaction has added or is removing.
Entries(r) ==
  {EntryOf(i) : i \in held[r]}
    \cup (IF req[r].op \in {"make", "rename"} /\ pc[r] \in {"refer", "written"}
            THEN {Wanted(r)} ELSE {})

\* The projects a deletion has yet to cascade to.
Remaining(r) == ProjectsOf(req[r].id) \ held[r]

\* The transactions that must end before a statement gets its next lock; a
\* cascade may have come to any of the projects that remain.
Blockers(r) ==
  {q \in Request \ {r} :
     \/ pc[r] = "row" /\ req[r].id \in held[q] \cup Shares(q)
     \/ pc[r] = "index" /\ Wanted(r) \in Entries(q)
     \/ pc[r] = "refer" /\ OrgOf(r) \in held[q]
     \/ pc[r] = "cascade" /\ Remaining(r) \cap held[q] # {}}

\* mutant: a row that is not there any more is an answer of its own
FoundExpecting(r) ==
  IF req[r].id \notin Rows THEN "gone"
  ELSE CASE req[r].op = "rename"                        -> "index"
         [] req[r].op = "drop" /\ req[r].kind = "org"   -> "cascade"
         [] req[r].op = "drop" /\ req[r].kind # "org"   -> "written"

\* What comes after the row: the index, the cascade, or nothing.
Found(r) ==
  IF req[r].id \notin Rows THEN IF req[r].op = "drop" THEN "ok" ELSE "broken"
  ELSE CASE req[r].op = "rename"                        -> "index"
         [] req[r].op = "drop" /\ req[r].kind = "org"   -> "cascade"
         [] req[r].op = "drop" /\ req[r].kind # "org"   -> "written"

LockRow(r) == pc[r] = "row" /\ Blockers(r) = {} /\ Go(r, Found(r), {req[r].id})

\* mutant: the check is trusted, there is no unique constraint
InsertUnchecked(r) ==
  IF req[r].op = "make" /\ req[r].kind = "project" THEN "refer" ELSE "written"

\* The unique constraint raises the IntegrityError that the services report
\* as a name that exists; only a project's INSERT has a foreign key to follow.
Insert(r) ==
  IF TakenBy(r) # {} THEN "conflict"
  ELSE IF req[r].op = "make" /\ req[r].kind = "project" THEN "refer" ELSE "written"

AddEntry(r) == pc[r] = "index" /\ Blockers(r) = {} /\ Reads(r, Insert(r))

\* projects.organization_id is reported like a name that exists,
\* audit_logs.organization_id not at all.
Refer(r) ==
  /\ pc[r] = "refer" /\ Blockers(r) = {}
  /\ Reads(r, IF OrgOf(r) \in Rows THEN "written"
              ELSE IF req[r].op = "make" THEN "conflict" ELSE "broken")

\* ON DELETE CASCADE deletes the projects one after the other, and ON DELETE
\* SET NULL would then update the audit entries, which their trigger forbids.
Cascade(r) ==
  /\ pc[r] = "cascade"
  /\ \/ \E i \in Remaining(r) :
          /\ \A q \in Request : i \notin held[q]
          /\ Go(r, "cascade", held[r] \cup {i})
     \/ /\ Remaining(r) = {}
        /\ Reads(r, IF \E e \in audit : e.org = req[r].id THEN "broken" ELSE "written")

\* A transaction that waits for others that wait for it is ended with an
\* error nobody handles.
Victim(r) ==
  /\ \A T \in SUBSET Request :
       Blockers(r) \subseteq T /\ (\A q \in T : Blockers(q) \subseteq T) => r \in T
  /\ Reads(r, "broken")

Without(gone) == [i \in Rows \ gone |-> row[i]]

Commit(r) ==
  LET j == req[r]
  IN  /\ pc[r] = "written"
      /\ Goto(r, "ok")
      /\ UNCHANGED req
      /\ row' = CASE j.op = "make" ->
                       [i \in Rows \cup {r} |->
                          IF i = r THEN [kind |-> j.kind, parent |-> j.parent, name |-> j.name]
                                   ELSE row[i]]
                  [] j.op = "rename" -> [row EXCEPT ![j.id].name = j.name]
                  [] j.op = "drop"   -> Without(held[r])
                  [] j.op = "reveal" -> row
      /\ role' = [u \in User |-> [i \in Id |->
                    IF j.op = "make" /\ j.kind = "org" /\ i = r /\ u = j.actor THEN "owner"
                    ELSE IF j.op = "drop" /\ i = j.id THEN "none"
                    ELSE role[u][i]]]
      /\ audit' = IF j.op = "reveal" THEN audit \cup {[by |-> r, org |-> j.id]} ELSE audit
      /\ held' = [held EXCEPT ![r] = {}]

\* The client goes away, the connection breaks or the process dies: ROLLBACK.
Abort(r) == pc[r] \in Running /\ Reads(r, "aborted")

\* Requests of Membership: a member's role is lowered, or the member removed.
Demote(u, o) ==
  /\ \E n \in Lower(role[u][o]) \cap Reduced : role' = [role EXCEPT ![u][o] = n]
  /\ UNCHANGED <<pc, req, row, audit, held>>

---------------------------------------------------------------------------
Init ==
  /\ pc = [r \in Request |-> "idle"]
  /\ req = [r \in Request |-> Idle]
  /\ row = SeedRow
  /\ role = [u \in User |-> [i \in Id |-> IF i \in Seed THEN SeedRole[u][i] ELSE "none"]]
  /\ audit = {}
  /\ held = [r \in Request |-> {}]

Arrive(r) ==
  \/ BeginRegister(r) \/ BeginMakeOrg(r) \/ BeginMakeProject(r)
  \/ BeginOnOrg(r) \/ BeginOnProject(r)

Advance(r) ==
  \/ Authorize(r) \/ Read(r) \/ CheckName(r) \/ Start(r)
  \/ LockRow(r) \/ AddEntry(r) \/ Refer(r) \/ Cascade(r) \/ Commit(r)

Next ==
  \/ \E r \in Request : Arrive(r) \/ Advance(r) \/ Victim(r) \/ Abort(r)
  \/ \E u \in User, o \in Orgs : Demote(u, o)

Spec == Init /\ [][Next]_vars

---------------------------------------------------------------------------
(* Properties.                                                             *)

\* Every table holds what it may hold, and a request has a next statement.
TypeOK ==
  /\ pc \in [Request -> {"idle"} \cup Running \cup Ended]
  /\ \A r \in Request :
       /\ req[r].op \in Operation \cup {"none"} /\ req[r].kind \in Kind
       /\ req[r].actor \in User \cup {Nowhere}
       /\ req[r].id \in Id \cup {Nowhere} /\ req[r].parent \in Id \cup {Nowhere}
       /\ req[r].name \in Name \cup {Nowhere}
  /\ Rows \subseteq Id /\ \A i \in Rows : row[i] \in Row
  /\ role \in [User -> [Id -> Role]]
  /\ audit \subseteq [by : Request, org : Id]
  /\ held \in [Request -> SUBSET Id]

\* The checks in the services see committed rows only, and of organizations
\* only one's own.  Still no two users share an e-mail address, no two
\* organizations a slug, and no two projects a slug within an organization.
NamesUnique == \A i, k \in Rows : EntryOf(i) = EntryOf(k) => i = k

\* No project outlives its organization, whichever of creating the one and
\* deleting the other commits first; and no audit entry loses its organization,
\* also when it is written while the deletion that would fail for it runs.
NothingOutlivesItsOrg ==
  /\ \A p \in Rows : row[p].kind = "project" => row[p].parent \in Orgs
  /\ \A e \in audit : e.org \in Orgs

\* A deletion answered 204 has deleted its row, unless the actor lost the role
\* it takes after it was tested.
DropOkUnlessDemoted ==
  \A r \in Request :
    pc[r] = "ok" /\ req[r].op = "drop" =>
      \/ req[r].id \notin Rows
      \/ RoleOf(r) \notin AtLeast(Minimum(r))

\* A transaction keeps its locks while it waits for the next, and two that
\* wait for each other are a deadlock, as two organizations that swap slugs.
\* Only renames wait for a name while they keep their row, so every deadlock
\* has one in it: creations, reveals and deletions, cascades included, take
\* their locks in orders that agree.
OnlyRenamesDeadlock ==
  \A S \in (SUBSET Request) \ {{}} :
    (\A r \in S : Blockers(r) \cap S # {}) => \E r \in S : req[r].op = "rename"
=============================================================================
