----------------------------- MODULE Membership -----------------------------
(***************************************************************************)
(* Members of one organization: the gate of get_org_uow, MembershipService *)
(* and the row-level security policies of the table memberships.           *)
(*                                                                         *)
(* Every HTTP request is one READ COMMITTED transaction; requests          *)
(* interleave at every awaited statement.  A row is named after the invite *)
(* that inserts it, or after its user when it was there at the start.  A   *)
(* request that is cut off is one that takes no further step: only its     *)
(* last statement is committed.  Requests the services refuse before they  *)
(* read a table (an owner invited, a malformed role, an unknown e-mail)    *)
(* and the read-only list are left out.                                    *)
(***************************************************************************)
EXTENDS Naturals, FiniteSets

CONSTANTS
  Request,
  User,
  RolesInUse,   \* the roles that users have and requests ask for
  None

VARIABLES
  pc,    \* the next statement of each request, or its answer
  req,   \* the operation, its arguments and what it has read
  role,  \* committed memberships: the role of each row, None if there is no row
  held   \* history: the roles the actor has held while its request ran

vars == <<pc, req, role, held>>

Role == {"owner", "admin", "member", "viewer"}

ASSUME Disjoint == Request \cap User = {} /\ None \notin Request \cup User \cup Role
ASSUME RolesAssumption == RolesInUse \subseteq Role

AdminRoles == {"owner", "admin"}
InvitableRoles == {"admin", "member", "viewer"}
Operation == {"invite", "update", "remove"}

Row == Request \cup User

Running == {"gate", "authorize", "findExisting", "readTarget", "count", "write", "apply"}

\* 2xx, 403 (the last owner's refusal too), 404, 409, 500 (nothing maps the error)
Ended == {"ok", "forbidden", "notFound", "conflict", "failed"}

Untouched == [op |-> "none", actor |-> None, row |-> None, user |-> None,
              newRole |-> None, own |-> None, actorRole |-> None, target |-> None,
              owners |-> {}]

UserOf(x) == IF x \in User THEN x ELSE req[x].user
RowsOf(u) == {x \in Row : role[x] # None /\ UserOf(x) = u}
Owners == {x \in Row : role[x] = "owner"}
HasRole(u, R) == \E x \in RowsOf(u) : role[x] \in R

Goto(r, label) == pc' = [pc EXCEPT ![r] = label]
Reads(r, label) == Goto(r, label) /\ UNCHANGED <<role, held>>

---------------------------------------------------------------------------
(* A request arrives.  It names a row the API has shown to somebody.       *)

Shown == User \cup {x \in Request : pc[x] = "ok" /\ req[x].op = "invite"}

Begin(r, job) ==
  /\ pc[r] = "idle"
  /\ req' = [req EXCEPT ![r] = job]
  /\ held' = [held EXCEPT ![r] = {role[x] : x \in RowsOf(job.actor)}]
  /\ Goto(r, "gate")
  /\ UNCHANGED role

BeginInvite(r) ==
  \E a, u \in User, n \in InvitableRoles \cap RolesInUse :
    Begin(r, [Untouched EXCEPT !.op = "invite", !.actor = a, !.row = r,
                               !.user = u, !.newRole = n])

BeginUpdate(r) ==
  \E a \in User, x \in Shown, n \in RolesInUse :
    Begin(r, [Untouched EXCEPT !.op = "update", !.actor = a, !.row = x, !.newRole = n])

BeginRemove(r) ==
  \E a \in User, x \in Shown :
    Begin(r, [Untouched EXCEPT !.op = "remove", !.actor = a, !.row = x])

---------------------------------------------------------------------------
(* Reads.  A user sees the other rows of the organization only while it    *)
(* has one itself (policy org_memberships_select).                         *)

Sees(r, x) ==
  role[x] # None /\ (UserOf(x) = req[r].actor \/ RowsOf(req[r].actor) # {})

\* get_org_uow.  The session keeps the row: a later SELECT that returns the
\* same row does not refresh the role read here.
Gate(r) ==
  LET mine == RowsOf(req[r].actor)
  IN  /\ pc[r] = "gate"
      /\ \/ /\ mine = {} /\ Reads(r, "forbidden") /\ UNCHANGED req
         \/ \E x \in mine :
              /\ req' = [req EXCEPT ![r].own = x, ![r].actorRole = role[x]]
              /\ Reads(r, "authorize")

\* require_org_role reads the actor's row once more.
Authorize(r) ==
  LET mine == RowsOf(req[r].actor)
      cached == req[r].own \in mine
  IN  /\ pc[r] = "authorize"
      /\ \/ mine = {} /\ Reads(r, "forbidden") /\ UNCHANGED req
         \/ \E x \in mine :
              LET rank == IF cached THEN req[r].actorRole ELSE role[x]
              IN  /\ req' = [req EXCEPT ![r].own = x, ![r].actorRole = rank]
                  /\ Reads(r,
                       IF rank \notin AdminRoles THEN "forbidden"
                       ELSE IF req[r].op # "invite" THEN "readTarget"
                       ELSE IF req[r].newRole = "admin" /\ rank # "owner" THEN "forbidden"
                       ELSE "findExisting")

\* invite: get_by_user_and_org of the invited user
FindExisting(r) ==
  /\ pc[r] = "findExisting"
  /\ Reads(r, IF \E x \in RowsOf(req[r].user) : Sees(r, x) THEN "conflict" ELSE "write")
  /\ UNCHANGED req

\* mutant: any admin may promote to admin
AfterTargetLenient(r, target) ==
  LET owner == req[r].actorRole = "owner"
      new == req[r].newRole
  IN  IF req[r].op = "update" /\ target = new THEN "ok"
      ELSE IF "owner" \in {target, new} /\ ~owner THEN "forbidden"
      ELSE IF target = "owner" THEN "count" ELSE "write"

\* mutant: the rules on owners are asked only of owners
AfterTargetNested(r, target) ==
  LET owner == req[r].actorRole = "owner"
      new == req[r].newRole
  IN  IF req[r].op = "update" /\ target = new THEN "ok"
      ELSE IF owner /\ target = "owner" THEN "count"
      ELSE IF new \in AdminRoles /\ ~owner THEN "forbidden"
      ELSE "write"

\* update_role and remove decide on the role they read, which for the
\* actor's own row is the one the session has kept.
AfterTarget(r, target) ==
  LET owner == req[r].actorRole = "owner"
      new == req[r].newRole
  IN  IF req[r].op = "update" /\ target = new THEN "ok"
      ELSE IF "owner" \in {target, new} /\ ~owner THEN "forbidden"
      ELSE IF target = "owner" THEN "count"
      ELSE IF new = "admin" /\ ~owner THEN "forbidden"
      ELSE "write"

ReadTarget(r) ==
  LET x == req[r].row
      target == IF x = req[r].own THEN req[r].actorRole ELSE role[x]
  IN  /\ pc[r] = "readTarget"
      /\ IF Sees(r, x)
           THEN /\ req' = [req EXCEPT ![r].target = target]
                /\ Reads(r, AfterTarget(r, target))
           ELSE Reads(r, "notFound") /\ UNCHANGED req

\* mutant: off by one, owners < 1
CountOwnersOff(r) ==
  LET seen == {x \in Owners : Sees(r, x)}
  IN  /\ pc[r] = "count"
      /\ req' = [req EXCEPT ![r].owners = seen]
      /\ Reads(r, IF Cardinality(seen) < 1 THEN "forbidden" ELSE "write")

\* count_owners <= 1 is refused.  The set stands for the number.
CountOwners(r) ==
  LET seen == {x \in Owners : Sees(r, x)}
  IN  /\ pc[r] = "count"
      /\ req' = [req EXCEPT ![r].owners = seen]
      /\ Reads(r, IF Cardinality(seen) <= 1 THEN "forbidden" ELSE "write")

---------------------------------------------------------------------------
(* Writes.  The statement finds its row and evaluates the policies in the  *)
(* snapshot it starts with; then it waits for the transaction that has     *)
(* changed the row, changes it and is committed.                           *)

\* policies org_memberships_insert, _update and _delete
Permitted(r) ==
  LET a == req[r].actor
  IN  /\ HasRole(a, AdminRoles)
      /\ req[r].op = "update" /\ req[r].newRole = "owner" => HasRole(a, {"owner"})
      /\ req[r].op = "remove" /\ UserOf(req[r].row) = a => HasRole(a, {"owner"})

\* Without a row to change, an UPDATE through the ORM is an error and a
\* DELETE is not; an INSERT against the policy is an error.
StartWrite(r) ==
  LET found == Permitted(r) /\ (req[r].op = "invite" \/ role[req[r].row] # None)
  IN  /\ pc[r] = "write"
      /\ Reads(r, IF found THEN "apply" ELSE IF req[r].op = "remove" THEN "ok" ELSE "failed")
      /\ UNCHANGED req

\* COMMIT: the row x gets role n.
Store(r, x, n) ==
  /\ role' = [role EXCEPT ![x] = n]
  /\ held' = [q \in Request |->
       IF q # r /\ pc[q] \in Running /\ req[q].actor = UserOf(x) /\ n # None
         THEN held[q] \cup {n} ELSE held[q]]
  /\ Goto(r, "ok")

\* mutant: uq_membership is missing
ApplyInviteUnchecked(r) ==
  /\ pc[r] = "apply" /\ req[r].op = "invite"
  /\ Store(r, r, req[r].newRole)
  /\ UNCHANGED req

\* uq_membership
ApplyInvite(r) ==
  /\ pc[r] = "apply" /\ req[r].op = "invite"
  /\ IF RowsOf(req[r].user) # {} THEN Reads(r, "conflict") ELSE Store(r, r, req[r].newRole)
  /\ UNCHANGED req

ApplyUpdate(r) ==
  /\ pc[r] = "apply" /\ req[r].op = "update"
  /\ IF role[req[r].row] = None THEN Reads(r, "failed")
                                ELSE Store(r, req[r].row, req[r].newRole)
  /\ UNCHANGED req

\* mutant: a removed member keeps its row, with a role that is none
ApplyMark(r) ==
  /\ pc[r] = "apply" /\ req[r].op = "remove"
  /\ Store(r, req[r].row, "removed")
  /\ UNCHANGED req

ApplyRemove(r) ==
  /\ pc[r] = "apply" /\ req[r].op = "remove"
  /\ Store(r, req[r].row, None)
  /\ UNCHANGED req

---------------------------------------------------------------------------
\* Any organization that create_organization_with_owner and a sequence of
\* requests, one after the other, can have led to.
Init ==
  /\ pc = [r \in Request |-> "idle"]
  /\ req = [r \in Request |-> Untouched]
  /\ \E start \in [User -> RolesInUse \cup {None}] :
       /\ \E u \in User : start[u] = "owner"
       /\ role = [x \in Row |-> IF x \in User THEN start[x] ELSE None]
  /\ held = [r \in Request |-> {}]

Arrive(r) == BeginInvite(r) \/ BeginUpdate(r) \/ BeginRemove(r)

Step(r) ==
  \/ Gate(r) \/ Authorize(r) \/ FindExisting(r) \/ ReadTarget(r) \/ CountOwners(r)
  \/ StartWrite(r) \/ ApplyInvite(r) \/ ApplyUpdate(r) \/ ApplyRemove(r)

Next == \E r \in Request : Arrive(r) \/ Step(r)

Spec == Init /\ [][Next]_vars

---------------------------------------------------------------------------
(* Properties.                                                             *)

\* Type invariant.
TypeOK ==
  /\ pc \in [Request -> Running \cup Ended \cup {"idle"}]
  /\ req \in [Request -> [op : Operation \cup {"none"}, actor : User \cup {None},
                          row : Row \cup {None}, user : User \cup {None},
                          newRole : Role \cup {None}, own : Row \cup {None},
                          actorRole : Role \cup {None}, target : Role \cup {None},
                          owners : SUBSET Row]]
  /\ role \in [Row -> Role \cup {None}]
  /\ held \in [Request -> SUBSET Role]

\* A user has at most one membership, however concurrent invitations of the
\* same user interleave with each other and with removals.
OneMembershipPerUser ==
  \A x, y \in Row : role[x] # None /\ role[y] # None /\ UserOf(x) = UserOf(y) => x = y

\* The request that commits in this step.
Commits(r) == pc[r] = "apply" /\ pc'[r] = "ok"

\* The last owner is lost only to a stale count: the request that takes it
\* did not read the owners there are when it writes.
LastOwnerLostOnlyToRace ==
  [][Owners # {} /\ Owners' = {} =>
       \E r \in Request : Commits(r) /\ req[r].owners # Owners]_vars

\* Nobody becomes owner or admin but by the act of a user who was an owner
\* while its request ran, although the service trusts the role read at the
\* gate and the policies do not ask an owner for a promotion to admin.
PromotedByOwner ==
  [][\A x \in Row : role'[x] \in AdminRoles /\ role'[x] # role[x] =>
       \E r \in Request : Commits(r) /\ req[r].row = x /\ "owner" \in held[r]]_vars

\* A user who is no owner while its request runs demotes or removes an owner
\* only by being overtaken: the row was not an owner's when it was read.
OwnersChangedOnlyByRace ==
  [][\A x \in Row : role[x] = "owner" /\ role'[x] # "owner" =>
       \E r \in Request :
         /\ Commits(r) /\ req[r].row = x
         /\ "owner" \in held[r] \/ req[r].target # "owner"]_vars

\* What the docstring of MembershipService promises: the last owner cannot be
\* demoted or removed, so an organization always has an owner.
AtLeastOneOwner == Owners # {}

=============================================================================
