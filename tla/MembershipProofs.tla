-------------------------- MODULE MembershipProofs --------------------------
(***************************************************************************)
(* For any number of users, requests and roles in use: a user has one      *)
(* membership at most, administrators are made by owners, and the last     *)
(* owner is lost only by a request that counted the owners too early.      *)
(***************************************************************************)
EXTENDS Membership, FiniteSetTheorems, TLAPS

\* What a request names and where it can be.  A row exists for a user who
\* was a member at the start or for an invitation that was accepted.
RequestShape ==
  \A r \in Request :
    /\ pc[r] = "idle" => req[r] = Untouched
    /\ pc[r] # "idle" =>
         req[r].op \in Operation /\ req[r].actor \in User /\ req[r].row \in Row
    /\ req[r].op = "invite" => /\ req[r].row = r /\ req[r].user \in User
                               /\ req[r].newRole \in InvitableRoles
    /\ req[r].op = "update" => req[r].newRole \in Role
    /\ req[r].op = "remove" => req[r].newRole = None
    /\ pc[r] = "findExisting" => req[r].op = "invite"
    /\ pc[r] \in {"readTarget", "count"} => req[r].op \in {"update", "remove"}
    /\ role[r] # None => pc[r] = "ok" /\ req[r].op = "invite"

\* The actor's role, as the session has kept it, is one the actor has held
\* since the request began; so is the role of every row it has now.
ActorShape ==
  \A r \in Request :
    /\ req[r].actorRole # None => req[r].actorRole \in held[r]
    /\ pc[r] \in Running => \A x \in RowsOf(req[r].actor) : role[x] \in held[r]

\* What the services have established when they go on to write.
DecisionShape ==
  \A r \in Request :
    /\ pc[r] \in {"findExisting", "count", "write", "apply"}
    /\ req[r].newRole \in AdminRoles \/ req[r].target = "owner"
    => req[r].actorRole = "owner"

\* A count of one owner ends the request.
CountShape ==
  \A r \in Request : pc[r] \in Running => \A x \in Row : req[r].owners # {x}

\* No target has been read before readTarget.
TargetShape ==
  \A r \in Request :
    /\ pc[r] \in {"idle", "gate", "authorize", "findExisting"} => req[r].target = None
    /\ req[r].op = "invite" => req[r].target = None

MemberInv ==
  /\ TypeOK /\ RequestShape /\ ActorShape /\ DecisionShape /\ CountShape /\ TargetShape
  /\ OneMembershipPerUser

\* A row's user is the one its invitation names, or the one it is named after.
LEMMA InitMember == Init => MemberInv
<1> SUFFICES ASSUME Init PROVE MemberInv
  OBVIOUS
<1> USE Disjoint, RolesAssumption
<1>1. TypeOK
  BY DEF Init, TypeOK, Running, Ended, Operation, Untouched, Row, Role
<1>2. \A r \in Request : pc[r] = "idle" /\ req[r] = Untouched /\ role[r] = None
  BY DEF Init, Row
<1>3. Untouched.op = "none" /\ Untouched.actorRole = None /\ Untouched.target = None
      /\ Untouched.owners = {}
  BY DEF Untouched
<1>4. RequestShape
  BY <1>2, <1>3 DEF RequestShape
<1>5. ActorShape
  BY <1>2, <1>3 DEF ActorShape, Running
<1>6. DecisionShape
  BY <1>2 DEF DecisionShape
<1>7. CountShape
  BY <1>2 DEF CountShape, Running
<1>8. TargetShape
  BY <1>2, <1>3 DEF TargetShape
<1>9. OneMembershipPerUser
  BY <1>2 DEF OneMembershipPerUser, Row, UserOf
<1> QED  BY <1>1, <1>4, <1>5, <1>6, <1>7, <1>8, <1>9 DEF MemberInv

\* What the entry of a request can hold.
Job == [op : Operation \cup {"none"}, actor : User \cup {None},
        row : Row \cup {None}, user : User \cup {None},
        newRole : Role \cup {None}, own : Row \cup {None},
        actorRole : Role \cup {None}, target : Role \cup {None},
        owners : SUBSET Row]

\* What the three operations present: nothing has been read yet.
Fresh(r, job) ==
  /\ job \in Job /\ job.op \in Operation /\ job.actor \in User /\ job.row \in Row
  /\ job.own = None /\ job.actorRole = None /\ job.target = None /\ job.owners = {}
  /\ job.op = "invite" => job.row = r /\ job.user \in User /\ job.newRole \in InvitableRoles
  /\ job.op = "update" => job.newRole \in Role
  /\ job.op = "remove" => job.newRole = None

\* A request begins with no row of its own; the roles its actor has now are
\* held from the start.
LEMMA BeginMember ==
  ASSUME MemberInv, NEW r \in Request, NEW job, Fresh(r, job), Begin(r, job)
  PROVE  MemberInv'
<1> USE Disjoint DEF MemberInv
<1>1. /\ pc[r] = "idle" /\ pc'[r] = "gate" /\ req'[r] = job
      /\ held'[r] = {role[x] : x \in RowsOf(job.actor)}
      /\ \A q \in Request \ {r} : req'[q] = req[q] /\ pc'[q] = pc[q] /\ held'[q] = held[q]
      /\ role' = role
  BY DEF Begin, Goto, TypeOK
<1>2. role[r] = None
  BY <1>1 DEF RequestShape
<1>3. \A x \in Row : role[x] # None => UserOf(x)' = UserOf(x)
  BY <1>1, <1>2 DEF UserOf, Row
<1>4. \A u : RowsOf(u)' = RowsOf(u)
  BY <1>1, <1>3 DEF RowsOf
<1>5. TypeOK'
  <2>1. req' \in [Request -> Job]
    BY DEF TypeOK, Begin, Fresh, Job
  <2>2. pc' \in [Request -> Running \cup Ended \cup {"idle"}]
    BY DEF TypeOK, Begin, Goto, Running
  <2>3. {role[x] : x \in RowsOf(job.actor)} \subseteq Role
    BY DEF TypeOK, RowsOf
  <2>4. held' \in [Request -> SUBSET Role]
    BY <2>3 DEF TypeOK, Begin
  <2> QED  BY <1>1, <2>1, <2>2, <2>4 DEF TypeOK, Job
<1>6. RequestShape'
  BY <1>1, <1>2 DEF RequestShape, Fresh
<1>7. ActorShape'
  BY <1>1, <1>4 DEF ActorShape, Fresh
<1>8. DecisionShape'
  BY <1>1 DEF DecisionShape
<1>9. CountShape'
  BY <1>1 DEF CountShape, Fresh
<1>10. TargetShape'
  BY <1>1 DEF TargetShape, Fresh
<1>11. OneMembershipPerUser'
  BY <1>1, <1>3 DEF OneMembershipPerUser
<1> QED  BY <1>5, <1>6, <1>7, <1>8, <1>9, <1>10, <1>11

\* The three actions by which requests arrive.
LEMMA ArriveMember == ASSUME MemberInv, NEW r \in Request, Arrive(r) PROVE MemberInv'
<1> USE Disjoint, RolesAssumption
<1>1. Untouched \in Job /\ Shown \subseteq Row /\ r \in Row /\ InvitableRoles \subseteq Role
  BY DEF Untouched, Job, Shown, Row, InvitableRoles, Role
<1>2. CASE BeginInvite(r)
  <2>1. PICK a \in User, u \in User, n \in InvitableRoles \cap RolesInUse :
          Begin(r, [Untouched EXCEPT !.op = "invite", !.actor = a, !.row = r,
                                     !.user = u, !.newRole = n])
    BY <1>2 DEF BeginInvite
  <2>2. Fresh(r, [Untouched EXCEPT !.op = "invite", !.actor = a, !.row = r,
                                   !.user = u, !.newRole = n])
    BY <1>1 DEF Fresh, Job, Operation, Untouched
  <2> QED  BY <2>1, <2>2, BeginMember
<1>3. CASE BeginUpdate(r)
  <2>1. PICK a \in User, x \in Shown, n \in RolesInUse :
          Begin(r, [Untouched EXCEPT !.op = "update", !.actor = a, !.row = x, !.newRole = n])
    BY <1>3 DEF BeginUpdate
  <2>2. Fresh(r, [Untouched EXCEPT !.op = "update", !.actor = a, !.row = x, !.newRole = n])
    BY <1>1 DEF Fresh, Job, Operation, Untouched
  <2> QED  BY <2>1, <2>2, BeginMember
<1>4. CASE BeginRemove(r)
  <2>1. PICK a \in User, x \in Shown :
          Begin(r, [Untouched EXCEPT !.op = "remove", !.actor = a, !.row = x])
    BY <1>4 DEF BeginRemove
  <2>2. Fresh(r, [Untouched EXCEPT !.op = "remove", !.actor = a, !.row = x])
    BY <1>1 DEF Fresh, Job, Operation, Untouched
  <2> QED  BY <2>1, <2>2, BeginMember
<1> QED  BY <1>2, <1>3, <1>4 DEF Arrive

\* What request r may note while it reads, and the statement it may go on to.
Reading(r, job, label) ==
  /\ job \in Job /\ label \in (Running \ {"gate"}) \cup Ended
  /\ job.op = req[r].op /\ job.actor = req[r].actor /\ job.row = req[r].row
  /\ job.user = req[r].user /\ job.newRole = req[r].newRole
  /\ job.actorRole # None => job.actorRole \in held[r]
  /\ label = "findExisting" => job.op = "invite"
  /\ label \in {"readTarget", "count"} => job.op \in {"update", "remove"}
  /\ /\ label \in {"findExisting", "count", "write", "apply"}
     /\ job.newRole \in AdminRoles \/ job.target = "owner"
     => job.actorRole = "owner"
  /\ label \in Running => \A x \in Row : job.owners # {x}
  /\ label \in {"authorize", "findExisting"} \/ job.op = "invite" => job.target = None

\* A read changes the entry of its own request only, and no row.
LEMMA ReadsMember ==
  ASSUME MemberInv, NEW r \in Request, pc[r] \in Running,
         NEW job, NEW label, Reading(r, job, label),
         req' = [req EXCEPT ![r] = job], Reads(r, label)
  PROVE  MemberInv'
<1> USE Disjoint DEF MemberInv
<1>1. /\ req'[r] = job /\ pc'[r] = label /\ pc[r] # "idle" /\ label \notin {"idle", "gate"}
      /\ \A q \in Request \ {r} : req'[q] = req[q] /\ pc'[q] = pc[q]
      /\ role' = role /\ held' = held
  BY DEF Reads, Goto, TypeOK, Running, Ended, Reading
<1>2. role[r] = None
  BY DEF RequestShape, Running
<1>3. \A x \in Row : UserOf(x)' = UserOf(x)
  BY <1>1 DEF UserOf, Row, Reading
<1>4. \A u : RowsOf(u)' = RowsOf(u)
  BY <1>1, <1>3 DEF RowsOf
<1>5. TypeOK'
  <2>1. req' \in [Request -> Job]
    BY DEF TypeOK, Reading, Job
  <2>2. pc' \in [Request -> Running \cup Ended \cup {"idle"}]
    BY DEF TypeOK, Reads, Goto, Reading, Running
  <2> QED  BY <1>1, <2>1, <2>2 DEF TypeOK, Job
<1>6. RequestShape'
  <2>1. ASSUME NEW q \in Request PROVE RequestShape!(q)'
    <3>1. CASE q = r
      BY <1>1, <1>2, <3>1 DEF RequestShape, Reading
    <3>2. CASE q # r
      BY <1>1, <3>2 DEF RequestShape
    <3> QED  BY <3>1, <3>2
  <2> QED  BY <2>1 DEF RequestShape
<1>7. ActorShape'
  BY <1>1, <1>4 DEF ActorShape, Reading
<1>8. DecisionShape'
  BY <1>1 DEF DecisionShape, Reading
<1>9. CountShape'
  BY <1>1 DEF CountShape, Reading
<1>10. TargetShape'
  BY <1>1 DEF TargetShape, Reading
<1>11. OneMembershipPerUser'
  BY <1>1, <1>3 DEF OneMembershipPerUser
<1> QED  BY <1>5, <1>6, <1>7, <1>8, <1>9, <1>10, <1>11

\* A read that notes nothing.
LEMMA PlainReadsMember ==
  ASSUME MemberInv, NEW r \in Request, pc[r] \in Running,
         NEW label, Reading(r, req[r], label), Reads(r, label), UNCHANGED req
  PROVE  MemberInv'
<1>1. req' = [req EXCEPT ![r] = req[r]]
  BY DEF MemberInv, TypeOK
<1> QED  BY <1>1, ReadsMember

\* What the gate and require_org_role note is well typed.
LEMMA NotedJob ==
  ASSUME NEW j \in Job, NEW x \in Row, NEW n \in Role \cup {None}
  PROVE  [j EXCEPT !.own = x, !.actorRole = n] \in Job
  BY DEF Job

\* get_org_uow keeps a role the actor has now.
LEMMA GateMember == ASSUME MemberInv, NEW r \in Request, Gate(r) PROVE MemberInv'
<1> USE DEF MemberInv
<1>1. /\ pc[r] = "gate" /\ pc[r] \in Running /\ req[r] \in Job
      /\ req[r].target = None /\ \A x \in Row : req[r].owners # {x}
  BY DEF Gate, Running, TypeOK, Job, TargetShape, CountShape
<1>2. CASE Reads(r, "forbidden") /\ UNCHANGED req
  <2>1. Reading(r, req[r], "forbidden")
    BY <1>1 DEF Reading, Running, Ended, ActorShape, TargetShape
  <2> QED  BY <1>1, <1>2, <2>1, PlainReadsMember
<1>3. ASSUME NEW x \in RowsOf(req[r].actor), Reads(r, "authorize"),
             req' = [req EXCEPT ![r].own = x, ![r].actorRole = role[x]]
      PROVE  MemberInv'
  <2> DEFINE job == [req[r] EXCEPT !.own = x, !.actorRole = role[x]]
  <2>1. x \in Row /\ role[x] \in Role /\ role[x] \in held[r]
    BY <1>1 DEF RowsOf, TypeOK, ActorShape
  <2>2. req' = [req EXCEPT ![r] = job]
    BY <1>3 DEF TypeOK
  <2>3. job \in Job
    BY <1>1, <2>1, NotedJob
  <2>4. Reading(r, job, "authorize")
    BY <1>1, <2>1, <2>3 DEF Reading, Running, Job
  <2> HIDE DEF job
  <2> QED  BY <1>1, <1>3, <2>2, <2>4, ReadsMember
<1> QED  BY <1>2, <1>3 DEF Gate

\* require_org_role keeps the role it had, or one the actor has now.
LEMMA AuthorizeMember == ASSUME MemberInv, NEW r \in Request, Authorize(r) PROVE MemberInv'
<1> USE DEF MemberInv
<1>1. /\ pc[r] = "authorize" /\ pc[r] \in Running /\ req[r] \in Job
      /\ req[r].target = None /\ \A x \in Row : req[r].owners # {x}
      /\ req[r].op \in Operation
  BY DEF Authorize, Running, TypeOK, Job, TargetShape, CountShape, RequestShape
<1>2. CASE Reads(r, "forbidden") /\ UNCHANGED req
  <2>1. Reading(r, req[r], "forbidden")
    BY <1>1 DEF Reading, Running, Ended, ActorShape, TargetShape
  <2> QED  BY <1>1, <1>2, <2>1, PlainReadsMember
<1> DEFINE Rank(x) == IF req[r].own \in RowsOf(req[r].actor) THEN req[r].actorRole ELSE role[x]
           After(x) == IF Rank(x) \notin AdminRoles THEN "forbidden"
                       ELSE IF req[r].op # "invite" THEN "readTarget"
                       ELSE IF req[r].newRole = "admin" /\ Rank(x) # "owner" THEN "forbidden"
                       ELSE "findExisting"
<1>3. ASSUME NEW x \in RowsOf(req[r].actor), Reads(r, After(x)),
             req' = [req EXCEPT ![r].own = x, ![r].actorRole = Rank(x)]
      PROVE  MemberInv'
  <2> DEFINE job == [req[r] EXCEPT !.own = x, !.actorRole = Rank(x)]
  <2>1. x \in Row /\ Rank(x) \in Role \cup {None} /\ (Rank(x) # None => Rank(x) \in held[r])
    BY <1>1 DEF RowsOf, TypeOK, ActorShape
  <2>2. req' = [req EXCEPT ![r] = job]
    BY <1>3 DEF TypeOK
  <2>3. job \in Job
    BY <1>1, <2>1, NotedJob
  <2>4. Reading(r, job, After(x))
    <3> HIDE DEF Rank
    <3>1. /\ job.op = req[r].op /\ job.actor = req[r].actor /\ job.row = req[r].row
          /\ job.user = req[r].user /\ job.newRole = req[r].newRole
          /\ job.actorRole = Rank(x) /\ job.target = req[r].target
          /\ job.owners = req[r].owners
      BY <1>1 DEF Job
    <3>2. req[r].op = "invite" => req[r].newRole \in InvitableRoles
      BY DEF RequestShape
    <3>3. /\ After(x) \in {"forbidden", "readTarget", "findExisting"}
          /\ After(x) = "readTarget" => req[r].op # "invite"
          /\ After(x) = "findExisting" =>
               req[r].op = "invite" /\ (req[r].newRole = "admin" => Rank(x) = "owner")
      OBVIOUS
    <3> HIDE DEF job, After
    <3>4. None # "owner"
      BY Disjoint DEF Role
    <3> QED  BY <1>1, <2>1, <2>3, <3>1, <3>2, <3>3, <3>4
             DEF Reading, Running, Ended, Operation, AdminRoles, InvitableRoles
  <2> HIDE DEF job, After
  <2> QED  BY <1>1, <1>3, <2>2, <2>4, ReadsMember
<1> QED  BY <1>2, <1>3 DEF Authorize

\* invite goes on to write, or answers that the user is a member.
LEMMA FindExistingMember == ASSUME MemberInv, NEW r \in Request, FindExisting(r) PROVE MemberInv'
<1> USE DEF MemberInv
<1>1. pc[r] = "findExisting" /\ pc[r] \in Running /\ req[r] \in Job
  BY DEF FindExisting, Running, TypeOK, Job
<1>2. ASSUME NEW label \in {"conflict", "write"} PROVE Reading(r, req[r], label)
  BY <1>1 DEF Reading, Running, Ended, ActorShape, DecisionShape, CountShape, TargetShape
<1> QED  BY <1>1, <1>2, PlainReadsMember DEF FindExisting

\* Whoever goes on from readTarget to change an owner, or to make an owner
\* or an admin, has been found to be an owner.
LEMMA AfterTargetDecides ==
  ASSUME NEW r \in Request, NEW target, AfterTarget(r, target) \in {"count", "write"},
         req[r].newRole \in AdminRoles \/ target = "owner"
  PROVE  req[r].actorRole = "owner"
  BY DEF AfterTarget, AdminRoles

\* update_role and remove decide on the target they have just read.
LEMMA ReadTargetMember == ASSUME MemberInv, NEW r \in Request, ReadTarget(r) PROVE MemberInv'
<1> USE DEF MemberInv
<1>1. /\ pc[r] = "readTarget" /\ pc[r] \in Running /\ req[r] \in Job
      /\ req[r].op \in {"update", "remove"} /\ req[r].row \in Row
      /\ \A x \in Row : req[r].owners # {x}
  BY DEF ReadTarget, Running, TypeOK, Job, CountShape, RequestShape
<1>2. CASE Reads(r, "notFound") /\ UNCHANGED req
  <2>1. Reading(r, req[r], "notFound")
    BY <1>1 DEF Reading, Running, Ended, ActorShape, TargetShape
  <2> QED  BY <1>1, <1>2, <2>1, PlainReadsMember
<1> DEFINE target == IF req[r].row = req[r].own THEN req[r].actorRole ELSE role[req[r].row]
           job == [req[r] EXCEPT !.target = target]
<1>3. ASSUME Reads(r, AfterTarget(r, target)), req' = [req EXCEPT ![r].target = target]
      PROVE  MemberInv'
  <2>1. target \in Role \cup {None}
    BY <1>1 DEF TypeOK, Job
  <2> HIDE DEF target
  <2>2. req' = [req EXCEPT ![r] = job]
    BY <1>3 DEF TypeOK
  <2>3. job \in Job
    BY <1>1, <2>1 DEF Job
  <2>4. /\ job.op = req[r].op /\ job.actor = req[r].actor /\ job.row = req[r].row
        /\ job.user = req[r].user /\ job.newRole = req[r].newRole
        /\ job.actorRole = req[r].actorRole /\ job.target = target
        /\ job.owners = req[r].owners
    BY <1>1 DEF Job
  <2>5. AfterTarget(r, target) \in {"ok", "forbidden", "count", "write"}
    BY DEF AfterTarget
  <2>6. job.actorRole # None => job.actorRole \in held[r]
    BY <2>4 DEF ActorShape
  <2> HIDE DEF job
  <2>7. Reading(r, job, AfterTarget(r, target))
    BY <1>1, <2>3, <2>4, <2>5, <2>6, AfterTargetDecides DEF Reading, Running, Ended
  <2> QED  BY <1>1, <1>3, <2>2, <2>7, ReadsMember
<1> QED  BY <1>2, <1>3 DEF ReadTarget

\* A set of one element is counted as one: count_owners <= 1 is refused.
LEMMA CountOwnersMember == ASSUME MemberInv, NEW r \in Request, CountOwners(r) PROVE MemberInv'
<1> USE DEF MemberInv
<1>1. /\ pc[r] = "count" /\ pc[r] \in Running /\ req[r] \in Job
      /\ req[r].op \in {"update", "remove"}
  BY DEF CountOwners, Running, TypeOK, Job, RequestShape
<1> DEFINE seen == {x \in Owners : Sees(r, x)}
           label == IF Cardinality(seen) <= 1 THEN "forbidden" ELSE "write"
           job == [req[r] EXCEPT !.owners = seen]
<1>2. seen \subseteq Row
  BY DEF Owners
<1>3. ASSUME NEW x \in Row, seen = {x} PROVE label = "forbidden"
  BY <1>3, FS_Singleton
<1>4. label \in {"forbidden", "write"}
  OBVIOUS
<1>5. req' = [req EXCEPT ![r].owners = seen] /\ Reads(r, label)
  BY DEF CountOwners
<1> HIDE DEF seen, label
<1>6. req' = [req EXCEPT ![r] = job]
  BY <1>5 DEF TypeOK
<1>7. job \in Job
  BY <1>1, <1>2 DEF Job
<1>8. /\ job.op = req[r].op /\ job.actor = req[r].actor /\ job.row = req[r].row
      /\ job.user = req[r].user /\ job.newRole = req[r].newRole
      /\ job.actorRole = req[r].actorRole /\ job.target = req[r].target
      /\ job.owners = seen
  BY <1>1 DEF Job
<1>9. /\ job.actorRole # None => job.actorRole \in held[r]
      /\ job.newRole \in AdminRoles \/ job.target = "owner" => job.actorRole = "owner"
  BY <1>1, <1>8 DEF ActorShape, DecisionShape
<1> HIDE DEF job
<1>10. Reading(r, job, label)
  BY <1>1, <1>3, <1>4, <1>7, <1>8, <1>9 DEF Reading, Running, Ended
<1> QED  BY <1>1, <1>5, <1>6, <1>10, ReadsMember

\* The statement finds its row, or it ends the request.
LEMMA StartWriteMember == ASSUME MemberInv, NEW r \in Request, StartWrite(r) PROVE MemberInv'
<1> USE DEF MemberInv
<1>1. pc[r] = "write" /\ pc[r] \in Running /\ req[r] \in Job
  BY DEF StartWrite, Running, TypeOK, Job
<1>2. ASSUME NEW label \in {"apply", "ok", "failed"} PROVE Reading(r, req[r], label)
  BY <1>1 DEF Reading, Running, Ended, ActorShape, DecisionShape, CountShape, TargetShape
<1> QED  BY <1>1, <1>2, PlainReadsMember DEF StartWrite

\* The user of a row is told by the entry of its invitation.
LEMMA RowsKeepUser ==
  ASSUME UNCHANGED req
  PROVE  \A x : UserOf(x)' = UserOf(x)
  BY DEF UserOf

\* A commit changes one row; who is running and gets it has held its role.
LEMMA StoreMember ==
  ASSUME MemberInv, NEW r \in Request, pc[r] = "apply", NEW x \in Row, NEW n \in Role \cup {None},
         Store(r, x, n), UNCHANGED req,
         n # None /\ role[x] = None =>
           x = r /\ req[r].op = "invite" /\ RowsOf(req[r].user) = {}
  PROVE  MemberInv'
<1> USE Disjoint DEF MemberInv
<1>1. /\ pc'[r] = "ok" /\ \A q \in Request \ {r} : pc'[q] = pc[q]
      /\ role'[x] = n /\ \A y \in Row \ {x} : role'[y] = role[y]
      /\ req' = req
  BY DEF Store, Goto, TypeOK
<1>2. \A y : UserOf(y)' = UserOf(y)
  BY RowsKeepUser
<1>3. \A q \in Request : held[q] \subseteq held'[q]
  BY DEF Store
<1>4. \A q \in Request \ {r} :
        pc[q] \in Running /\ req[q].actor = UserOf(x) /\ n # None => n \in held'[q]
  BY DEF Store
<1>5. TypeOK'
  <2>1. role' \in [Row -> Role \cup {None}]
    BY DEF TypeOK, Store
  <2>2. pc' \in [Request -> Running \cup Ended \cup {"idle"}]
    BY DEF TypeOK, Store, Goto, Ended
  <2>3. held' \in [Request -> SUBSET Role]
    BY DEF TypeOK, Store
  <2> QED  BY <1>1, <2>1, <2>2, <2>3 DEF TypeOK
<1>6. RequestShape'
  <2>1. \A q \in Request \ {r} : role'[q] # None => role[q] # None
    BY <1>1 DEF Row
  <2>2. role'[r] # None => req[r].op = "invite"
    BY <1>1 DEF RequestShape, Row
  <2> QED  BY <1>1, <2>1, <2>2 DEF RequestShape
<1>7. ActorShape'
  <2>1. ASSUME NEW q \in Request, pc'[q] \in Running, NEW y \in RowsOf(req[q].actor)'
        PROVE  role'[y] \in held'[q]
    <3>1. q # r /\ pc[q] \in Running
      BY <1>1, <2>1 DEF Running
    <3>2. y \in Row /\ role'[y] # None /\ UserOf(y) = req[q].actor
      BY <1>1, <1>2, <2>1 DEF RowsOf
    <3>3. CASE y = x
      BY <1>1, <1>4, <3>1, <3>2, <3>3
    <3>4. CASE y # x
      BY <1>1, <1>3, <3>1, <3>2, <3>4 DEF ActorShape, RowsOf
    <3> QED  BY <3>3, <3>4
  <2>2. \A q \in Request : req'[q].actorRole # None => req'[q].actorRole \in held'[q]
    BY <1>1, <1>3 DEF ActorShape
  <2> QED  BY <2>1, <2>2 DEF ActorShape
<1>8. DecisionShape'
  BY <1>1 DEF DecisionShape
<1>9. CountShape'
  BY <1>1 DEF CountShape, Running
<1>10. TargetShape'
  BY <1>1 DEF TargetShape
<1>11. OneMembershipPerUser'
  <2>1. ASSUME NEW y \in Row, role'[y] # None, y # x, n # None, UserOf(y) = UserOf(x)
        PROVE  FALSE
    <3>1. role[y] # None
      BY <1>1, <2>1
    <3>2. CASE role[x] # None
      BY <2>1, <3>1, <3>2 DEF OneMembershipPerUser
    <3>3. CASE role[x] = None
      BY <2>1, <3>1, <3>3 DEF RowsOf, UserOf
    <3> QED  BY <3>2, <3>3
  <2> QED  BY <1>1, <1>2, <2>1 DEF OneMembershipPerUser
<1> QED  BY <1>5, <1>6, <1>7, <1>8, <1>9, <1>10, <1>11

\* The unique index turns a second membership into a conflict; an UPDATE of
\* a row that is gone fails; a DELETE of one changes nothing.
LEMMA ApplyMember ==
  ASSUME MemberInv, NEW r \in Request, ApplyInvite(r) \/ ApplyUpdate(r) \/ ApplyRemove(r)
  PROVE  MemberInv'
<1> USE DEF MemberInv
<1>1. /\ pc[r] = "apply" /\ pc[r] \in Running /\ req[r] \in Job /\ UNCHANGED req
      /\ r \in Row /\ req[r].row \in Row
  BY DEF ApplyInvite, ApplyUpdate, ApplyRemove, Running, TypeOK, Job, Row, RequestShape
<1>2. ASSUME NEW label \in {"conflict", "failed"} PROVE Reading(r, req[r], label)
  BY <1>1 DEF Reading, Running, Ended, ActorShape, TargetShape
<1>3. CASE ApplyInvite(r)
  <2>1. req[r].newRole \in Role
    BY <1>3 DEF ApplyInvite, RequestShape, InvitableRoles, Role
  <2> QED  BY <1>1, <1>2, <1>3, <2>1, PlainReadsMember, StoreMember DEF ApplyInvite
<1>4. CASE ApplyUpdate(r)
  <2>1. req[r].newRole \in Role
    BY <1>4 DEF ApplyUpdate, RequestShape
  <2> QED  BY <1>1, <1>2, <1>4, <2>1, PlainReadsMember, StoreMember DEF ApplyUpdate
<1>5. CASE ApplyRemove(r)
  BY <1>1, <1>5, StoreMember DEF ApplyRemove
<1> QED  BY <1>3, <1>4, <1>5

\* Nothing changes.
LEMMA StutterMember == ASSUME MemberInv, UNCHANGED vars PROVE MemberInv'
<1> USE DEF MemberInv, vars
<1>1. \A x : UserOf(x)' = UserOf(x) /\ RowsOf(x)' = RowsOf(x)
  BY DEF UserOf, RowsOf
<1> QED  BY <1>1 DEF TypeOK, RequestShape, ActorShape, DecisionShape, CountShape, TargetShape,
                OneMembershipPerUser

\* Every step preserves the invariant.
LEMMA StepMember == MemberInv /\ [Next]_vars => MemberInv'
  BY ArriveMember, GateMember, AuthorizeMember, FindExistingMember, ReadTargetMember,
     CountOwnersMember, StartWriteMember, ApplyMember, StutterMember DEF Next, Step

\* The invariant the theorems rest on.
LEMMA MemberInvariant == Spec => []MemberInv
  BY InitMember, StepMember, PTL DEF Spec

\* Type correctness.
THEOREM MembershipTypes == Spec => []TypeOK
<1>1. MemberInv => TypeOK
  BY DEF MemberInv
<1> QED  BY MemberInvariant, <1>1, PTL

\* However invitations of one user interleave with each other and with
\* removals, the user has one membership at most.
THEOREM OneMembership == Spec => []OneMembershipPerUser
<1>1. MemberInv => OneMembershipPerUser
  BY DEF MemberInv
<1> QED  BY MemberInvariant, <1>1, PTL

---------------------------------------------------------------------------

\* A step that changes a role is a commit of the request that names the row,
\* and only a commit changes one.
LEMMA RolesChange ==
  ASSUME MemberInv, [Next]_vars, NEW x \in Row, role'[x] # role[x]
  PROVE  \E r \in Request :
           /\ Commits(r) /\ req[r].row = x /\ role'[x] \in {req[r].newRole, None}
           /\ role' = [role EXCEPT ![x] = role'[x]]
           /\ role[x] # None \/ req[r].op = "invite"
           /\ req[r].op = "invite" => role[x] = None
<1>1. PICK r \in Request : ApplyInvite(r) \/ ApplyUpdate(r) \/ ApplyRemove(r)
  BY DEF Next, vars, Arrive, BeginInvite, BeginUpdate, BeginRemove, Begin, Step, Gate, Authorize,
         FindExisting, ReadTarget, CountOwners, StartWrite, Reads
<1>2. pc[r] = "apply" /\ role[r] = None /\ (req[r].op = "invite" => req[r].row = r)
  BY <1>1 DEF ApplyInvite, ApplyUpdate, ApplyRemove, MemberInv, RequestShape
<1>3. PICK y \in Row, n \in {req[r].newRole, None} :
         /\ y = req[r].row /\ Store(r, y, n)
         /\ n # None => role[y] # None \/ req[r].op = "invite"
  <2>1. req[r].row \in Row
    BY <1>2 DEF MemberInv, RequestShape
  <2> QED  BY <1>1, <1>2, <2>1 DEF ApplyInvite, ApplyUpdate, ApplyRemove, Reads
<1>4. y = x /\ role' = [role EXCEPT ![x] = n] /\ role'[x] = n /\ Commits(r)
  BY <1>2, <1>3 DEF Store, Goto, Commits, MemberInv, TypeOK
<1> QED  BY <1>2, <1>3, <1>4

\* Promotions to admin and owner are acts of users who were owners while
\* their request ran.
THEOREM OwnersPromote == Spec => PromotedByOwner
<1>1. ASSUME MemberInv, [Next]_vars
      PROVE  \A x \in Row : role'[x] \in AdminRoles /\ role'[x] # role[x] =>
               \E r \in Request : Commits(r) /\ req[r].row = x /\ "owner" \in held[r]
  <2> SUFFICES ASSUME NEW x \in Row, role'[x] \in AdminRoles, role'[x] # role[x]
               PROVE  \E r \in Request : Commits(r) /\ req[r].row = x /\ "owner" \in held[r]
    OBVIOUS
  <2>1. None \notin AdminRoles
    BY Disjoint DEF AdminRoles, Role
  <2>2. PICK r \in Request : Commits(r) /\ req[r].row = x /\ role'[x] = req[r].newRole
    BY <1>1, <2>1, RolesChange
  <2>3. req[r].actorRole = "owner"
    BY <1>1, <2>2 DEF Commits, MemberInv, DecisionShape
  <2>4. "owner" \in held[r]
    BY <1>1, <2>3, Disjoint DEF MemberInv, ActorShape, Role
  <2> QED  BY <2>2, <2>4
<1> QED  BY <1>1, MemberInvariant, PTL DEF PromotedByOwner, Spec

\* An owner is demoted or removed by an owner, or by a request that read the
\* row before it became an owner's.
THEOREM OwnersFallToOwnersOrRace == Spec => OwnersChangedOnlyByRace
<1>1. ASSUME MemberInv, [Next]_vars
      PROVE  \A x \in Row : role[x] = "owner" /\ role'[x] # "owner" =>
               \E r \in Request :
                 /\ Commits(r) /\ req[r].row = x
                 /\ "owner" \in held[r] \/ req[r].target # "owner"
  <2> SUFFICES ASSUME NEW x \in Row, role[x] = "owner", role'[x] # "owner"
               PROVE  \E r \in Request :
                        /\ Commits(r) /\ req[r].row = x
                        /\ "owner" \in held[r] \/ req[r].target # "owner"
    OBVIOUS
  <2>1. PICK r \in Request : Commits(r) /\ req[r].row = x
    BY <1>1, RolesChange
  <2>2. req[r].target = "owner" => req[r].actorRole = "owner"
    BY <1>1, <2>1 DEF Commits, MemberInv, DecisionShape
  <2>3. req[r].actorRole = "owner" => "owner" \in held[r]
    BY <1>1, Disjoint DEF MemberInv, ActorShape, Role
  <2> QED  BY <2>1, <2>2, <2>3
<1> QED  BY <1>1, MemberInvariant, PTL DEF OwnersChangedOnlyByRace, Spec

\* The last owner is lost only by a request whose count is stale: a count of
\* one owner refuses, so the owners it counted are not the one it takes.
THEOREM LastOwnerFallsToRace == Spec => LastOwnerLostOnlyToRace
<1>1. ASSUME MemberInv, [Next]_vars, Owners # {}, Owners' = {}
      PROVE  \E r \in Request : Commits(r) /\ req[r].owners # Owners
  <2>1. PICK x \in Row : role[x] = "owner" /\ role'[x] # "owner"
    BY <1>1 DEF Owners
  <2>2. PICK r \in Request :
          Commits(r) /\ req[r].row = x /\ role' = [role EXCEPT ![x] = role'[x]]
    BY <1>1, <2>1, RolesChange
  <2>3. Owners = {x}
    BY <1>1, <2>1, <2>2 DEF Owners, MemberInv, TypeOK
  <2>4. req[r].owners # {x}
    BY <1>1, <2>2 DEF Commits, MemberInv, CountShape, Running
  <2> QED  BY <2>2, <2>3, <2>4
<1> QED  BY <1>1, MemberInvariant, PTL DEF LastOwnerLostOnlyToRace, Spec
=============================================================================
