---------------------------- MODULE TenancyProofs ----------------------------
(***************************************************************************)
(* For any number of users, organizations, requests and connections and    *)
(* any forest of rows: statements return and change rows of the            *)
(* organization in the path only, by members who have held the role the    *)
(* operation takes, and the pool leaks neither connections nor settings.   *)
(***************************************************************************)
EXTENDS Tenancy, FiniteSetTheorems, TLAPS

\* The four tables a row can be in, top down, and what it refers to.
Top == {x \in Row : KindOf[x] \in {"project", "entry"}}
Second == {x \in Row : KindOf[x] = "environment"}
Third == {x \in Row : KindOf[x] \in {"key", "secret"}}
Fourth == {x \in Row : KindOf[x] = "version"}

\* A row refers to an organization or to a row one level up.
LEMMA Levels ==
  /\ Row = Top \cup Second \cup Third \cup Fourth
  /\ \A x \in Top : Parent[x] \in Org
  /\ \A x \in Second : Parent[x] \in Top /\ KindOf[Parent[x]] = "project"
  /\ \A x \in Third : Parent[x] \in Second
  /\ \A x \in Fourth : Parent[x] \in Third /\ KindOf[Parent[x]] = "secret"
<1>1. \A x \in Row :
        /\ KindOf[x] \in Kind
        /\ KindOf[x] \in {"project", "entry"} => Parent[x] \in Org
        /\ KindOf[x] = "environment" => Parent[x] \in Row /\ KindOf[Parent[x]] = "project"
        /\ KindOf[x] \in {"key", "secret"} => Parent[x] \in Row /\ KindOf[Parent[x]] = "environment"
        /\ KindOf[x] = "version" => Parent[x] \in Row /\ KindOf[Parent[x]] = "secret"
  BY ForestAssumption
<1> QED  BY <1>1 DEF Top, Second, Third, Fourth, Kind

\* The recursion of Root ends: its equation has a solution.
LEMMA RootEquation ==
  \A x \in Row : Root[x] = IF Parent[x] \in Org THEN Parent[x] ELSE Root[Parent[x]]
<1> DEFINE P(x) == Parent[x]
           F == [x \in Row |-> IF x \in Top THEN P(x)
                               ELSE IF x \in Second THEN P(P(x))
                               ELSE IF x \in Third THEN P(P(P(x))) ELSE P(P(P(P(x))))]
           G(f) == [x \in Row |-> IF Parent[x] \in Org THEN Parent[x] ELSE f[Parent[x]]]
<1>1. Top \cap (Second \cup Third \cup Fourth) = {} /\ Second \cap (Third \cup Fourth) = {}
      /\ Third \cap Fourth = {}
  BY DEF Top, Second, Third, Fourth
<1>2. Row \cap Org = {}
  BY ForestAssumption
<1>3. \A x \in Row : F[x] = G(F)[x]
  BY <1>1, <1>2, Levels
<1>4. F = G(F)
  BY <1>3
<1>5. \E f : f = G(f)
  BY <1>4
<1>6. Root = CHOOSE f : f = G(f)
  BY DEF Root
<1> HIDE DEF F, G
<1>7. Root = G(Root)
  BY <1>5, <1>6
<1> QED  BY <1>7 DEF G

\* Where the recursion leads, table by table.
LEMMA RootOf ==
  /\ \A x \in Top : Root[x] = Parent[x]
  /\ \A x \in Row \ Top : Root[x] = Root[Parent[x]] /\ Parent[x] \in Row
<1>1. Row \cap Org = {}
  BY ForestAssumption
<1>2. Top \subseteq Row
  BY DEF Top
<1>3. \A x \in Row \ Top : Parent[x] \in Row
  BY Levels DEF Top, Second, Third, Fourth
<1> QED  BY <1>1, <1>2, <1>3, Levels, RootEquation

\* What refers to a row.
Children(x) == {y \in Row : Parent[y] = x}

\* So does the recursion of Below.
LEMMA BelowEquation ==
  \A x \in Row : Below[x] = Children(x) \cup UNION {Below[y] : y \in Children(x)}
<1> DEFINE P(x) == Parent[x]
           Up2(y, x) == y \in Row \ Top /\ P(P(y)) = x
           Up3(y, x) == y \in Third \cup Fourth /\ P(P(P(y))) = x
           F == [x \in Row |-> {y \in Row : P(y) = x \/ Up2(y, x) \/ Up3(y, x)}]
           G(f) == [x \in Row |->
                     LET children == {y \in Row : Parent[y] = x}
                     IN  children \cup UNION {f[y] : y \in children}]
<1>1. Top \cap (Second \cup Third \cup Fourth) = {} /\ Second \cap (Third \cup Fourth) = {}
      /\ Third \cap Fourth = {}
  BY DEF Top, Second, Third, Fourth
<1>2. Row \cap Org = {}
  BY ForestAssumption
<1>3. ASSUME NEW x \in Row PROVE F[x] = G(F)[x]
  <2>1. ASSUME NEW y \in Row, P(y) = x, NEW z \in F[y]
        PROVE  z \in F[x]
    BY <1>1, <1>2, <2>1, Levels
  <2>2. ASSUME NEW z \in F[x], P(z) # x
        PROVE  \E y \in Row : P(y) = x /\ z \in F[y]
    BY <1>1, <1>2, <2>2, Levels
  <2> QED  BY <2>1, <2>2
<1>4. F = G(F)
  BY <1>3
<1>5. \E f : f = G(f)
  BY <1>4
<1>6. Below = CHOOSE f : f = G(f)
  BY DEF Below
<1> HIDE DEF F, G
<1>7. Below = G(Below)
  BY <1>5, <1>6
<1> QED  BY <1>7 DEF G, Children

\* What a deletion cascades to belongs to the same organization, and nothing
\* below it is spared.
LEMMA BelowIsOwn ==
  \A x \in Row : \A y \in Below[x] : y \in Row /\ Root[y] = Root[x] /\ Children(y) \subseteq Below[x]
<1> DEFINE Kept(x) ==
             \A y \in Below[x] : y \in Row /\ Root[y] = Root[x] /\ Children(y) \subseteq Below[x]
<1>1. ASSUME NEW x \in Row, \A y \in Children(x) : Kept(y) PROVE Kept(x)
  <2>1. \A y \in Children(x) : y \in Row /\ Root[y] = Root[x]
    <3>1. Row \cap Org = {}
      BY ForestAssumption
    <3> QED  BY <3>1, RootOf, Levels DEF Children
  <2> QED  BY <1>1, <2>1, BelowEquation
<1> HIDE DEF Kept
<1>2. \A x \in Fourth : x \in Row /\ Children(x) = {}
  BY Levels, ForestAssumption DEF Children, Top, Second, Third, Fourth
<1>3. \A x \in Third : x \in Row /\ Children(x) \subseteq Fourth
  BY Levels, ForestAssumption DEF Children, Top, Second, Third, Fourth
<1>4. \A x \in Second : x \in Row /\ Children(x) \subseteq Third
  BY Levels, ForestAssumption DEF Children, Top, Second, Third, Fourth
<1>5. \A x \in Top : x \in Row /\ Children(x) \subseteq Second
  BY Levels, ForestAssumption DEF Children, Top, Second, Third, Fourth
<1>6. \A x \in Fourth : Kept(x)
  BY <1>1, <1>2
<1>7. \A x \in Third : Kept(x)
  BY <1>1, <1>3, <1>6
<1>8. \A x \in Second : Kept(x)
  BY <1>1, <1>4, <1>7
<1>9. \A x \in Top : Kept(x)
  BY <1>1, <1>5, <1>8
<1>10. \A x \in Row : Kept(x)
  BY <1>6, <1>7, <1>8, <1>9, Levels
<1> QED  BY <1>10 DEF Kept

\* The policies are transitive: they show a row to a session only if it is
\* there, if the session's organization is the row's, and if its user is a
\* member of that organization in this statement.
LEMMA VisibleIsOwn ==
  ASSUME NEW x \in Row, NEW s, Visible(x, s)
  PROVE  x \in rows /\ Guard(s) /\ Root[x] = s.org
<1>1. \A y \in Row : ProjectVisible(y, s) /\ y \in Top => Guard(s) /\ Root[y] = s.org
  BY RootOf DEF ProjectVisible
<1>2. \A y \in Second : EnvironmentVisible(y, s) => Guard(s) /\ Root[y] = s.org
  BY <1>1, RootOf, Levels DEF EnvironmentVisible, Top, Second
<1>3. \A y \in Third :
        KeyVisible(y, s) \/ SecretVisible(y, s) => Guard(s) /\ Root[y] = s.org
  BY <1>2, RootOf, Levels DEF KeyVisible, SecretVisible, Top, Third
<1>4. \A y \in Fourth : VersionVisible(y, s) => Guard(s) /\ Root[y] = s.org
  BY <1>3, RootOf, Levels DEF VersionVisible, Top, Fourth
<1>5. CASE KindOf[x] = "project"
  BY <1>1, <1>5 DEF Visible, ProjectVisible, Top
<1>6. CASE KindOf[x] = "environment"
  BY <1>2, <1>6 DEF Visible, EnvironmentVisible, Second
<1>7. CASE KindOf[x] = "key"
  BY <1>3, <1>7 DEF Visible, KeyVisible, Third
<1>8. CASE KindOf[x] = "secret"
  BY <1>3, <1>8 DEF Visible, SecretVisible, Third
<1>9. CASE KindOf[x] = "version"
  BY <1>4, <1>9 DEF Visible, VersionVisible, Fourth
<1>10. CASE KindOf[x] = "entry"
  BY RootOf, <1>10 DEF Visible, EntryVisible, Top
<1>11. KindOf[x] \in Kind
  BY ForestAssumption
<1> QED  BY <1>5, <1>6, <1>7, <1>8, <1>9, <1>10, <1>11 DEF Kind

\* WITH CHECK lets a row in only below what the session may see.
LEMMA InsertIsOwn ==
  ASSUME NEW x \in Row, NEW s, MayInsert(x, s)
  PROVE  Guard(s) /\ Root[x] = s.org /\ Parent[x] \in rows \cup Org
<1>1. CASE Parent[x] \in Org
  BY <1>1, RootEquation DEF MayInsert
<1>2. CASE Parent[x] \notin Org
  <2>1. Parent[x] \in Row /\ Root[x] = Root[Parent[x]]
    BY <1>2, RootEquation, ForestAssumption
  <2> QED  BY <1>2, <2>1, VisibleIsOwn DEF MayInsert
<1> QED  BY <1>1, <1>2

---------------------------------------------------------------------------
\* A request has one connection while it runs statements, none while it
\* waits, and the settings on it are its own.
PoolShape ==
  /\ \A r \in Request :
       IF pc[r] \in Stating THEN \E c \in Connection : Held(r) = {c} ELSE Held(r) = {}
  /\ \A c \in Connection :
       setting[c] = IF holder[c] = None THEN Unset ELSE Context(holder[c])

\* What a request names, and what it has touched before it arrives.
JobShape ==
  \A r \in Request :
    /\ pc[r] = "idle" => touched[r] = {}
    /\ pc[r] # "idle" => job[r].user \in User /\ job[r].org \in Org /\ job[r].row \in Row
    /\ pc[r] \in {"write", "reapply", "resume"} => job[r].op # "read"
    /\ pc[r] \in {"reapply", "resume"} /\ job[r].op # "delete" => job[r].row \in touched[r]

\* The role the session keeps is one the user has held meanwhile, and one
\* that suffices once require_org_role has let the request through.
RoleShape ==
  \A r \in Request :
    /\ pc[r] \in Waiting \cup Stating => {MyRole(r)} \ {None} \subseteq held[r]
    /\ pc[r] \in {"authorize", "find", "write", "reapply", "resume"} => rank[r] \in held[r]
    /\ pc[r] \in {"find", "write", "reapply", "resume"} =>
         rank[r] \in Required(job[r].op, job[r].row)

\* Foreign keys: what a row refers to is there.
RowShape == \A x \in rows : Parent[x] \in rows \cup Org

TenantInv == TypeOK /\ PoolShape /\ JobShape /\ RoleShape /\ RowShape /\ Isolation

\* At the start every connection is idle.
LEMMA InitTenant == Init => TenantInv
<1> SUFFICES ASSUME Init PROVE TenantInv
  OBVIOUS
<1> USE NoneAssumption, ForestAssumption
<1>1. TypeOK
  BY DEF Init, TypeOK, Unset, Operation
<1>2. PoolShape
  BY DEF Init, PoolShape, Held, Stating
<1>3. JobShape
  BY DEF Init, JobShape
<1>4. RoleShape
  BY DEF Init, RoleShape, Waiting, Stating
<1>5. RowShape
  BY DEF Init, RowShape
<1>6. Isolation
  BY DEF Init, Isolation
<1> QED  BY <1>1, <1>2, <1>3, <1>4, <1>5, <1>6 DEF TenantInv

\* While a request runs statements the settings in force are its own.
LEMMA CurrentIsOwn ==
  ASSUME PoolShape, NEW r \in Request, pc[r] \in Stating
  PROVE  Current(r) = Context(r)
<1>1. PICK c \in Connection : Held(r) = {c}
  BY DEF PoolShape
<1>2. holder[c] = r /\ (CHOOSE d \in Held(r) : TRUE) = c
  BY <1>1 DEF Held
<1>3. holder[c] # None
  BY <1>2, NoneAssumption
<1> QED  BY <1>2, <1>3 DEF Current, PoolShape

---------------------------------------------------------------------------
(* Connections: what Arrive, Enter, End and Proceed do to the pool.        *)

\* A session that is closed, or commits, returns its connection unset.
LEMMA EndPool ==
  ASSUME TypeOK, PoolShape, NEW r \in Request, pc[r] \in Waiting \cup Stating,
         NEW label \in Waiting \cup Ended, End(r, label), UNCHANGED job
  PROVE  PoolShape'
<1> USE NoneAssumption
<1>1. /\ pc'[r] = label /\ \A q \in Request \ {r} : pc'[q] = pc[q]
      /\ \A c \in Connection : holder[c] = r => holder'[c] = None /\ setting'[c] = Unset
      /\ \A c \in Connection : holder[c] # r => holder'[c] = holder[c] /\ setting'[c] = setting[c]
  BY DEF End, Goto, Release, TypeOK
<1>2. pc'[r] \notin Stating
  BY <1>1 DEF Waiting, Stating, Ended
<1>3. Held(r)' = {} /\ \A q \in Request \ {r} : Held(q)' = Held(q)
  BY <1>1 DEF Held
<1>4. \A q \in Request \ {r} : Context(q)' = Context(q)
  BY <1>1 DEF Context
<1>5. ASSUME NEW c \in Connection
      PROVE  (setting[c] = IF holder[c] = None THEN Unset ELSE Context(holder[c]))'
  <2>1. CASE holder[c] = r
    BY <1>1, <2>1
  <2>2. CASE holder[c] # r
    <3>1. holder'[c] = holder[c] /\ holder[c] \in (Request \ {r}) \cup {None}
      BY <1>1, <2>2 DEF TypeOK
    <3> QED  BY <1>1, <1>4, <2>2, <3>1 DEF PoolShape
  <2> QED  BY <2>1, <2>2
<1> QED  BY <1>1, <1>2, <1>3, <1>5 DEF PoolShape

\* A statement that is followed by another keeps connection and settings.
LEMMA ProceedPool ==
  ASSUME TypeOK, PoolShape, NEW r \in Request, pc[r] \in Stating \ {"readUser"},
         NEW label \in Stating \ {"readUser"}, Goto(r, label), UNCHANGED <<job, holder, setting>>
  PROVE  PoolShape'
<1>1. pc'[r] = label /\ \A q \in Request \ {r} : pc'[q] = pc[q]
  BY DEF Goto, TypeOK
<1>2. \A q \in Request : Context(q)' = Context(q)
  BY <1>1 DEF Context, Stating
<1>3. \A q \in Request : Held(q)' = Held(q)
  BY DEF Held
<1>4. \A c \in Connection : holder[c] \in Request \cup {None}
  BY DEF TypeOK
<1> QED  BY <1>1, <1>2, <1>3, <1>4 DEF PoolShape

\* set_rls_context is the first statement on a connection.
LEMMA EnterPool ==
  ASSUME TypeOK, PoolShape, NEW r \in Request, Enter(r)
  PROVE  PoolShape'
<1> USE NoneAssumption
<1>1. PICK d \in Connection :
        /\ holder[d] = None
        /\ holder' = [holder EXCEPT ![d] = r] /\ setting' = [setting EXCEPT ![d] = Context(r)]
  BY DEF Enter
<1>2. /\ pc'[r] \in Stating /\ pc[r] \notin Stating
      /\ pc[r] = "authenticate" <=> pc'[r] = "readUser"
      /\ pc[r] # "readUser" /\ pc'[r] # "authenticate"
      /\ job' = job /\ \A q \in Request \ {r} : pc'[q] = pc[q]
  BY DEF Enter, Goto, TypeOK, Waiting, Stating
<1>3. \A q \in Request : Context(q)' = Context(q)
  BY <1>2 DEF Context
<1>4. \A c \in Connection \ {d} : holder'[c] = holder[c] /\ setting'[c] = setting[c]
  BY <1>1
<1>5. holder'[d] = r /\ setting'[d] = Context(r)
  BY <1>1 DEF TypeOK
<1>6. Held(r) = {}
  BY <1>2 DEF PoolShape
<1>7. Held(r)' = {d} /\ \A q \in Request \ {r} : Held(q)' = Held(q)
  BY <1>1, <1>4, <1>5, <1>6 DEF Held
<1>8. \A c \in Connection : holder[c] \in Request \cup {None}
  BY DEF TypeOK
<1> QED  BY <1>2, <1>3, <1>4, <1>5, <1>7, <1>8 DEF PoolShape

\* A request that arrives holds nothing yet.
LEMMA ArrivePool ==
  ASSUME TypeOK, PoolShape, NEW r \in Request, Arrive(r)
  PROVE  PoolShape'
<1>1. /\ pc[r] = "idle" /\ pc'[r] = "authenticate" /\ UNCHANGED <<holder, setting>>
      /\ \A q \in Request \ {r} : pc'[q] = pc[q] /\ job'[q] = job[q]
  BY DEF Arrive, Goto, TypeOK
<1>2. Held(r) = {} /\ pc'[r] \notin Stating
  BY <1>1 DEF PoolShape, Stating
<1>3. \A q \in Request : Held(q)' = Held(q)
  BY <1>1 DEF Held
<1>4. \A q \in Request \ {r} : Context(q)' = Context(q)
  BY <1>1 DEF Context
<1>5. \A c \in Connection : holder[c] \in (Request \ {r}) \cup {None}
  BY <1>2 DEF TypeOK, Held
<1> QED  BY <1>1, <1>2, <1>3, <1>4, <1>5 DEF PoolShape

---------------------------------------------------------------------------
\* The types that End and Proceed touch.
SessionTypes ==
  /\ pc \in [Request -> {"idle"} \cup Waiting \cup Stating \cup Ended]
  /\ holder \in [Connection -> Request \cup {None}]
  /\ setting \in [Connection -> [user : User \cup {None}, org : Org \cup {None}]]
  /\ rank \in [Request -> Role \cup {None}]
  /\ held \in [Request -> SUBSET Role]

\* A closed session leaves them well typed.
LEMMA EndTypes ==
  ASSUME TypeOK, NEW r \in Request, NEW label \in Waiting \cup Ended, End(r, label)
  PROVE  SessionTypes'
<1>1. Unset \in [user : User \cup {None}, org : Org \cup {None}]
  BY DEF Unset
<1>2. pc' \in [Request -> {"idle"} \cup Waiting \cup Stating \cup Ended]
  BY DEF End, Goto, TypeOK
<1>3. holder' \in [Connection -> Request \cup {None}]
  BY DEF End, Release, TypeOK
<1>4. setting' \in [Connection -> [user : User \cup {None}, org : Org \cup {None}]]
  BY <1>1 DEF End, Release, TypeOK
<1>5. rank' \in [Request -> Role \cup {None}] /\ held' \in [Request -> SUBSET Role]
  BY DEF End, TypeOK
<1> QED  BY <1>2, <1>3, <1>4, <1>5 DEF SessionTypes

\* A request arrives with nothing touched and the role its user has.
LEMMA ArriveTenant ==
  ASSUME TenantInv, NEW r \in Request, Arrive(r)
  PROVE  TenantInv'
<1> USE NoneAssumption DEF TenantInv
<1>1. TypeOK'
  BY DEF Arrive, Goto, Operation, Offered, TypeOK, Waiting
<1>2. PoolShape'
  BY ArrivePool
<1>3. JobShape'
  BY DEF Arrive, Goto, Operation, Offered, TypeOK, JobShape
<1>4. RoleShape'
  BY DEF Arrive, Goto, Operation, Offered, TypeOK, PoolShape, JobShape, RoleShape,
     Isolation, MyRole
<1>5. RowShape'
  BY DEF Arrive, Goto, Operation, Offered, RowShape
<1>6. Isolation'
  BY DEF Arrive, Goto, Operation, Offered, JobShape, Isolation
<1> QED  BY <1>1, <1>2, <1>3, <1>4, <1>5, <1>6

\* The session is given a connection, and the context is set on it.
LEMMA EnterTenant ==
  ASSUME TenantInv, NEW r \in Request, Enter(r)
  PROVE  TenantInv'
<1> USE NoneAssumption DEF TenantInv
<1>1. TypeOK'
  BY DEF Enter, Goto, TypeOK, Waiting, Stating, Context
<1>2. PoolShape'
  BY EnterPool
<1>3. JobShape'
  BY DEF Enter, Goto, JobShape, Waiting
<1>4. RoleShape'
  BY DEF Enter, Goto, RoleShape, Waiting, MyRole
<1>5. RowShape'
  BY DEF Enter, Goto, RowShape
<1>6. Isolation'
  BY DEF Enter, Goto, Isolation
<1> QED  BY <1>1, <1>2, <1>3, <1>4, <1>5, <1>6

\* get_current_user closes its unit of work.
LEMMA ReadUserTenant ==
  ASSUME TenantInv, NEW r \in Request, ReadUser(r)
  PROVE  TenantInv'
<1> USE NoneAssumption DEF TenantInv
<1>1. TypeOK'
  BY DEF ReadUser, End, Goto, Release, TypeOK, Waiting, Unset
<1>2. PoolShape'
  BY EndPool DEF ReadUser, Waiting, Stating
<1>3. JobShape'
  BY DEF ReadUser, End, Goto, Release, JobShape
<1>4. RoleShape'
  BY DEF ReadUser, End, Goto, Release, TypeOK, RoleShape, Waiting, Ended, MyRole
<1>5. RowShape'
  BY DEF ReadUser, End, Goto, Release, RowShape
<1>6. Isolation'
  BY DEF ReadUser, End, Goto, Release, Isolation
<1> QED  BY <1>1, <1>2, <1>3, <1>4, <1>5, <1>6

\* get_org_uow keeps the role the user has now.
LEMMA GateTenant ==
  ASSUME TenantInv, NEW r \in Request, Gate(r)
  PROVE  TenantInv'
<1> USE NoneAssumption DEF TenantInv
<1>1. TypeOK'
  <2>1. MyRole(r) \in Role \cup {None}
    BY DEF Gate, MyRole, TypeOK, JobShape
  <2>2. CASE End(r, "refused")
    BY <2>2, EndTypes DEF Gate, TypeOK, SessionTypes, Ended
  <2>3. CASE ~End(r, "refused")
    BY <2>1, <2>3 DEF Gate, Goto, TypeOK, Stating
  <2> QED  BY <2>2, <2>3
<1>2. PoolShape'
  BY EndPool, ProceedPool DEF Gate, Stating, Ended
<1>3. JobShape'
  BY DEF Gate, SeesMine, SeesMembership, End, Goto, Release, TypeOK, JobShape
<1>4. RoleShape'
  BY DEF Gate, SeesMine, SeesMembership, End, Goto, Release, TypeOK, RoleShape, Waiting,
     Stating, MyRole, Required
<1>5. RowShape'
  BY DEF Gate, SeesMine, SeesMembership, End, Goto, Release, RowShape
<1>6. Isolation'
  BY DEF Gate, SeesMine, SeesMembership, End, Goto, Release, Isolation
<1> QED  BY <1>1, <1>2, <1>3, <1>4, <1>5, <1>6

\* require_org_role tests the role that was kept.
LEMMA AuthorizeTenant ==
  ASSUME TenantInv, NEW r \in Request, Authorize(r)
  PROVE  TenantInv'
<1> USE NoneAssumption DEF TenantInv
<1>1. TypeOK'
  <2>1. CASE End(r, "refused")
    BY <2>1, EndTypes DEF Authorize, TypeOK, SessionTypes, Ended
  <2>2. CASE Proceed(r, "find")
    BY <2>2 DEF Authorize, Proceed, Goto, TypeOK, Stating
  <2> QED  BY <2>1, <2>2 DEF Authorize
<1>2. PoolShape'
  BY EndPool, ProceedPool DEF Authorize, Proceed, Stating, Ended
<1>3. JobShape'
  BY DEF Authorize, Proceed, SeesMine, SeesMembership, End, Goto, Release, TypeOK,
     JobShape
<1>4. RoleShape'
  BY DEF Authorize, Proceed, SeesMine, SeesMembership, End, Goto, Release, TypeOK,
     RoleShape, Waiting, Stating, MyRole
<1>5. RowShape'
  BY DEF Authorize, Proceed, SeesMine, SeesMembership, End, Goto, Release, RowShape
<1>6. Isolation'
  BY DEF Authorize, Proceed, SeesMine, SeesMembership, End, Goto, Release, Isolation
<1> QED  BY <1>1, <1>2, <1>3, <1>4, <1>5, <1>6

\* A request that is cut off returns its connection.
LEMMA CancelTenant ==
  ASSUME TenantInv, NEW r \in Request, Cancel(r)
  PROVE  TenantInv'
<1> USE NoneAssumption DEF TenantInv
<1>1. TypeOK'
  BY DEF Cancel, End, Goto, Release, TypeOK, Ended, Unset
<1>2. PoolShape'
  BY EndPool DEF Cancel, Ended
<1>3. JobShape'
  BY DEF Cancel, End, Goto, Release, JobShape, Waiting, Stating
<1>4. RoleShape'
  BY DEF Cancel, End, Goto, Release, TypeOK, RoleShape, Waiting, Stating, MyRole
<1>5. RowShape'
  BY DEF Cancel, End, Goto, Release, RowShape
<1>6. Isolation'
  BY DEF Cancel, End, Goto, Release, Isolation
<1> QED  BY <1>1, <1>2, <1>3, <1>4, <1>5, <1>6

\* The settings of a request that is past the gate.
LEMMA ContextOf ==
  ASSUME PoolShape, NEW r \in Request, pc[r] \in {"gate", "authorize", "find", "write", "resume"}
  PROVE  Current(r) = [user |-> job[r].user, org |-> job[r].org]
<1>1. pc[r] \in Stating /\ pc[r] \notin {"authenticate", "readUser"}
  BY DEF Stating
<1>2. Current(r) = Context(r)
  BY <1>1, CurrentIsOwn
<1> QED  BY <1>1, <1>2 DEF Context

\* What the policies show to such a request belongs to the organization in
\* its path, of which its user is a member in that statement.
LEMMA SeenIsOwn ==
  ASSUME TypeOK, PoolShape, NEW r \in Request, pc[r] \in {"find", "write", "resume"}
  PROVE  /\ \A x \in Row : Visible(x, Current(r)) =>
              x \in rows /\ Root[x] = job[r].org /\ MyRole(r) # None
         /\ \A x \in Row : MayInsert(x, Current(r)) =>
              /\ Root[x] = job[r].org /\ MyRole(r) # None
              /\ Parent[x] \in rows \cup Org
<1>1. Current(r) = [user |-> job[r].user, org |-> job[r].org]
  BY ContextOf
<1> DEFINE s == Current(r)
<1>2. s.user = job[r].user /\ s.org = job[r].org
  BY <1>1
<1> HIDE DEF s
<1>3. Guard(s) => MyRole(r) # None
  BY <1>2 DEF Guard, MyRole
<1>4. \A x \in Row : Visible(x, s) => x \in rows /\ Guard(s) /\ Root[x] = s.org
  BY VisibleIsOwn
<1>5. \A x \in Row : MayInsert(x, s) => Guard(s) /\ Root[x] = s.org /\ Parent[x] \in rows \cup Org
  BY InsertIsOwn
<1> QED  BY <1>2, <1>3, <1>4, <1>5 DEF s

\* A request touches rows of its own organization only, as a member with a
\* role that suffices.
TouchesOwn(r) ==
  /\ touched' = [touched EXCEPT ![r] = touched'[r]] /\ touched[r] \subseteq touched'[r]
  /\ \A x \in touched'[r] \ touched[r] : x \in Row /\ Root[x] = job[r].org
  /\ touched'[r] # touched[r] =>
       MyRole(r) # None /\ held[r] \cap Required(job[r].op, job[r].row) # {}

\* get, under the policies.
LEMMA FindTouches == ASSUME TenantInv, NEW r \in Request, Find(r) PROVE TouchesOwn(r)
<1> USE DEF TenantInv
<1>1. pc[r] = "find" /\ rank[r] \in held[r] \cap Required(job[r].op, job[r].row)
  BY DEF Find, RoleShape
<1>2. PICK X \in {{}, {Target(r)}} :
        /\ touched' = [touched EXCEPT ![r] = touched[r] \cup X]
        /\ X # {} => Target(r) \in Row /\ Visible(Target(r), Current(r))
  BY DEF Find, Touch
<1>3. touched'[r] = touched[r] \cup X
  BY <1>2 DEF TypeOK
<1> QED  BY <1>1, <1>2, <1>3, SeenIsOwn DEF TouchesOwn

\* The rows a DELETE takes with it are the organization's too.
LEMMA DeletedIsOwn ==
  ASSUME TenantInv, NEW r \in Request, pc[r] = "write"
  PROVE  /\ Deleted(r) \subseteq Row /\ \A x \in Deleted(r) : Root[x] = job[r].org
         /\ Deleted(r) # {} => MyRole(r) # None
         /\ \A x \in rows : Parent[x] \in Deleted(r) => x \in Deleted(r)
<1> USE DEF TenantInv
<1>1. CASE Deleted(r) = {}
  BY <1>1
<1>2. CASE Deleted(r) # {}
  <2>1. /\ Visible(job[r].row, Current(r))
        /\ Deleted(r) = ({job[r].row} \cup Below[job[r].row]) \cap rows
    BY <1>2 DEF Deleted
  <2>2. job[r].row \in Row
    BY DEF JobShape
  <2>3. Root[job[r].row] = job[r].org /\ MyRole(r) # None
    BY <2>1, <2>2, SeenIsOwn
  <2>4. \A y \in Row : Children(y) \subseteq Row /\ \A x \in Row : Parent[x] = y => x \in Children(y)
    BY DEF Children
  <2>5. Children(job[r].row) \subseteq Below[job[r].row]
    BY <2>2, BelowEquation
  <2>6. rows \subseteq Row
    BY DEF TypeOK
  <2> QED  BY <2>1, <2>2, <2>3, <2>4, <2>5, <2>6, BelowIsOwn
<1> QED  BY <1>1, <1>2

\* The statement that writes.
LEMMA WriteTouches == ASSUME TenantInv, NEW r \in Request, Write(r) PROVE TouchesOwn(r)
<1> USE DEF TenantInv
<1>1. pc[r] = "write" /\ rank[r] \in held[r] \cap Required(job[r].op, job[r].row)
  BY DEF Write, RoleShape
<1>2. CASE Fails(r)
  BY <1>2 DEF Write, TouchesOwn, TypeOK
<1>3. CASE ~Fails(r)
  <2> DEFINE X == Deleted(r) \cup (IF job[r].op = "delete" THEN {} ELSE {job[r].row})
  <2>1. touched' = [touched EXCEPT ![r] = touched[r] \cup X] /\ touched'[r] = touched[r] \cup X
    BY <1>3 DEF Write, Touch, TypeOK
  <2>2. job[r].row \in Row /\ job[r].op \in Operation
    BY <1>1 DEF JobShape, TypeOK
  <2>3. ASSUME job[r].op # "delete"
        PROVE  Root[job[r].row] = job[r].org /\ MyRole(r) # None
    <3>1. CASE job[r].op = "read"
      BY <1>1, <3>1 DEF JobShape
    <3>2. CASE job[r].op = "insert"
      BY <1>1, <1>3, <2>2, <3>2, SeenIsOwn DEF Fails
    <3>3. CASE job[r].op = "change"
      BY <1>1, <1>3, <2>2, <3>3, SeenIsOwn DEF Fails
    <3> QED  BY <2>2, <2>3, <3>1, <3>2, <3>3 DEF Operation
  <2>4. X \subseteq Row /\ (\A x \in X : Root[x] = job[r].org) /\ (X # {} => MyRole(r) # None)
    BY <1>1, <2>2, <2>3, DeletedIsOwn
  <2> HIDE DEF X
  <2> QED  BY <1>1, <2>1, <2>4 DEF TouchesOwn
<1> QED  BY <1>2, <1>3

\* The secret that rotate_secret reads again.
LEMMA ResumeTouches == ASSUME TenantInv, NEW r \in Request, Resume(r) PROVE TouchesOwn(r)
<1> USE DEF TenantInv
<1>1. pc[r] = "resume" /\ rank[r] \in held[r] \cap Required(job[r].op, job[r].row)
  BY DEF Resume, RoleShape
<1>2. CASE UNCHANGED touched
  BY <1>2 DEF TouchesOwn, TypeOK
<1>3. CASE touched' # touched
  <2>1. /\ job[r].op = "insert" /\ KindOf[job[r].row] = "version" /\ Visible(Target(r), Current(r))
        /\ touched' = [touched EXCEPT ![r] = touched[r] \cup {Target(r)}]
    <3>1. touched = [touched EXCEPT ![r] = touched[r] \cup {}]
      BY DEF TypeOK
    <3> QED  BY <1>3, <3>1 DEF Resume, Touch
  <2>2. touched'[r] = touched[r] \cup {Target(r)}
    BY <2>1 DEF TypeOK
  <2>3. job[r].row \in Fourth
    BY <1>1, <2>1 DEF JobShape, Fourth
  <2>4. Target(r) \in Row
    BY <2>1, <2>3, Levels DEF Target
  <2> QED  BY <1>1, <2>1, <2>2, <2>4, SeenIsOwn DEF TouchesOwn
<1> QED  BY <1>2, <1>3

\* A service looks its row up.
LEMMA FindTenant ==
  ASSUME TenantInv, NEW r \in Request, Find(r)
  PROVE  TenantInv'
<1> USE NoneAssumption DEF TenantInv
<1>1. TypeOK'
  <2>1. touched' \in [Request -> SUBSET Row]
    BY FindTouches DEF TouchesOwn, TypeOK
  <2>2. CASE \E label \in Waiting \cup Ended : End(r, label)
    BY <2>1, <2>2, EndTypes DEF Find, TypeOK, SessionTypes
  <2>3. CASE Proceed(r, "write")
    BY <2>1, <2>3 DEF Find, Proceed, Goto, TypeOK, Stating
  <2> QED  BY <2>2, <2>3 DEF Find, Ended
<1>2. PoolShape'
  BY EndPool, ProceedPool DEF Find, Proceed, Stating, Ended
<1>3. JobShape'
  <2>1. touched[r] \subseteq touched'[r] /\ \A q \in Request \ {r} : touched'[q] = touched[q]
    BY FindTouches DEF TouchesOwn, TypeOK
  <2>2. pc[r] = "find" /\ pc'[r] \in {"refused", "ok", "write"} /\ job' = job
        /\ (pc'[r] = "write" => job[r].op # "read")
        /\ \A q \in Request \ {r} : pc'[q] = pc[q]
    BY DEF Find, Proceed, End, Goto, TypeOK
  <2> QED  BY <2>1, <2>2 DEF JobShape
<1>4. RoleShape'
  BY DEF Find, Proceed, End, Goto, TypeOK, RoleShape, Waiting, Stating, Unset, MyRole
<1>5. RowShape'
  BY DEF Find, Proceed, End, Goto, RowShape
<1>6. Isolation'
  <2>1. TouchesOwn(r) /\ job' = job
    BY FindTouches DEF Find
  <2>2. \A q \in Request \ {r} : touched'[q] = touched[q]
    BY <2>1 DEF TouchesOwn, TypeOK
  <2> QED  BY <2>1, <2>2 DEF TouchesOwn, Isolation
<1> QED  BY <1>1, <1>2, <1>3, <1>4, <1>5, <1>6

\* A row is inserted below what the session sees, changed if it is seen, or
\* deleted with all that is below it; the connection goes back to the pool.
LEMMA WriteTenant ==
  ASSUME TenantInv, NEW r \in Request, Write(r)
  PROVE  TenantInv'
<1> USE NoneAssumption DEF TenantInv
<1>1. TypeOK'
  <2>1. touched' \in [Request -> SUBSET Row]
    BY WriteTouches DEF TouchesOwn, TypeOK
  <2>3. rows' \subseteq Row
    BY DEF Write, TypeOK, JobShape
  <2>2. CASE \E label \in Waiting \cup Ended : End(r, label)
    BY <2>1, <2>2, <2>3, EndTypes DEF Write, TypeOK, SessionTypes
  <2> QED  BY <2>2 DEF Write, Ended, Waiting
<1>2. PoolShape'
  BY EndPool DEF Write, Waiting, Stating, Ended
<1>3. JobShape'
  <2>1. touched[r] \subseteq touched'[r] /\ \A q \in Request \ {r} : touched'[q] = touched[q]
    BY WriteTouches DEF TouchesOwn, TypeOK
  <2>2. pc[r] = "write" /\ pc'[r] \in {"broken", "reapply"} /\ job' = job
        /\ \A q \in Request \ {r} : pc'[q] = pc[q]
    BY DEF Write, End, Goto, TypeOK
  <2>3. pc'[r] = "reapply" /\ job[r].op # "delete" => job[r].row \in touched'[r]
    BY DEF Write, End, Goto, Touch, TypeOK
  <2> QED  BY <2>1, <2>2, <2>3 DEF JobShape
<1>4. RoleShape'
  BY DEF Write, End, Goto, TypeOK, PoolShape, RoleShape, Waiting, Stating, Ended, Held,
     MyRole
<1>5. RowShape'
  <2>1. CASE rows' = rows
    BY <2>1 DEF RowShape
  <2>2. CASE rows' # rows
    <3>1. /\ pc[r] = "write" /\ ~Fails(r)
          /\ rows' = (rows \ Deleted(r)) \cup (IF job[r].op = "insert" THEN {job[r].row} ELSE {})
      BY <2>2 DEF Write
    <3>2. job[r].op = "insert" => Deleted(r) = {} /\ Parent[job[r].row] \in rows \cup Org
      <4>1. job[r].row \in Row
        BY <3>1 DEF JobShape
      <4> QED  BY <3>1, <4>1, SeenIsOwn DEF Deleted, Fails
    <3> QED  BY <3>1, <3>2, DeletedIsOwn, ForestAssumption DEF RowShape
  <2> QED  BY <2>1, <2>2
<1>6. Isolation'
  <2>1. TouchesOwn(r) /\ job' = job
    BY WriteTouches DEF Write
  <2>2. \A q \in Request \ {r} : touched'[q] = touched[q]
    BY <2>1 DEF TouchesOwn, TypeOK
  <2> QED  BY <2>1, <2>2 DEF TouchesOwn, Isolation
<1> QED  BY <1>1, <1>2, <1>3, <1>4, <1>5, <1>6

\* The answer is made on another connection.
LEMMA ResumeTenant ==
  ASSUME TenantInv, NEW r \in Request, Resume(r)
  PROVE  TenantInv'
<1> USE NoneAssumption DEF TenantInv
<1>1. TypeOK'
  <2>1. touched' \in [Request -> SUBSET Row]
    BY ResumeTouches DEF TouchesOwn, TypeOK
  <2>2. CASE \E label \in Waiting \cup Ended : End(r, label)
    BY <2>1, <2>2, EndTypes DEF Resume, TypeOK, SessionTypes
  <2> QED  BY <2>2 DEF Resume, Ended
<1>2. PoolShape'
  BY EndPool DEF Resume, Stating, Ended
<1>3. JobShape'
  <2>1. touched[r] \subseteq touched'[r] /\ \A q \in Request \ {r} : touched'[q] = touched[q]
    BY ResumeTouches DEF TouchesOwn, TypeOK
  <2>2. pc[r] = "resume" /\ pc'[r] \in {"broken", "ok"} /\ job' = job
        /\ \A q \in Request \ {r} : pc'[q] = pc[q]
    BY DEF Resume, End, Goto, TypeOK
  <2> QED  BY <2>1, <2>2 DEF JobShape
<1>4. RoleShape'
  BY DEF Resume, End, Goto, TypeOK, RoleShape, Waiting, Stating, Ended, MyRole
<1>5. RowShape'
  BY DEF Resume, End, Goto, RowShape
<1>6. Isolation'
  <2>1. TouchesOwn(r) /\ job' = job
    BY ResumeTouches DEF Resume
  <2>2. \A q \in Request \ {r} : touched'[q] = touched[q]
    BY <2>1 DEF TouchesOwn, TypeOK
  <2> QED  BY <2>1, <2>2 DEF TouchesOwn, Isolation
<1> QED  BY <1>1, <1>2, <1>3, <1>4, <1>5, <1>6

\* Who is running when its role changes has held the new one too.
LEMMA ChangeRoleTenant ==
  ASSUME TenantInv, NEW u \in User, NEW o \in Org, ChangeRole(u, o)
  PROVE  TenantInv'
<1> USE NoneAssumption DEF TenantInv
<1>1. TypeOK'
  BY DEF ChangeRole, TypeOK
<1>2. PoolShape'
  BY DEF ChangeRole, PoolShape, RoleShape, Isolation, Stating, Context, Held, MyRole,
     Required
<1>3. JobShape'
  BY DEF ChangeRole, JobShape
<1>4. RoleShape'
  <2>1. ASSUME NEW r \in Request, pc[r] \in Waiting \cup Stating
        PROVE  {MyRole(r)'} \ {None} \subseteq held'[r]
    <3>1. CASE job[r].user = u /\ job[r].org = o
      <4>1. held'[r] = held[r] \cup ({role'[u][o]} \ {None})
        BY <2>1, <3>1 DEF ChangeRole, TypeOK
      <4> QED  BY <3>1, <4>1 DEF MyRole, ChangeRole
    <3>2. CASE ~(job[r].user = u /\ job[r].org = o)
      <4>1. job[r].user \in User /\ job[r].org \in Org
        BY <2>1 DEF JobShape, Waiting, Stating
      <4>2. MyRole(r)' = MyRole(r)
        BY <3>2, <4>1 DEF MyRole, ChangeRole
      <4> QED  BY <2>1, <4>2 DEF RoleShape, ChangeRole
    <3> QED  BY <3>1, <3>2
  <2>2. \A r \in Request : held[r] \subseteq held'[r] /\ rank'[r] = rank[r] /\ pc'[r] = pc[r]
                          /\ job'[r] = job[r]
    BY DEF ChangeRole
  <2> QED  BY <2>1, <2>2 DEF RoleShape, Required
<1>5. RowShape'
  BY DEF ChangeRole, RowShape
<1>6. Isolation'
  BY DEF ChangeRole, Isolation
<1> QED  BY <1>1, <1>2, <1>3, <1>4, <1>5, <1>6

\* Nothing changes.
LEMMA StutterTenant ==
  ASSUME TenantInv, UNCHANGED vars
  PROVE  TenantInv'
<1> USE NoneAssumption DEF TenantInv
<1>1. TypeOK'
  BY DEF vars, TypeOK
<1>2. PoolShape'
  BY DEF vars, PoolShape, Ended, Context, Held, Required, Role
<1>3. JobShape'
  BY DEF vars, JobShape
<1>4. RoleShape'
  BY DEF vars, RoleShape, MyRole
<1>5. RowShape'
  BY DEF vars, RowShape
<1>6. Isolation'
  BY DEF vars, Isolation
<1> QED  BY <1>1, <1>2, <1>3, <1>4, <1>5, <1>6

\* Every step preserves the invariant.
LEMMA StepTenant == TenantInv /\ [Next]_vars => TenantInv'
  BY ArriveTenant, EnterTenant, ReadUserTenant, GateTenant, AuthorizeTenant, FindTenant,
     WriteTenant, ResumeTenant, CancelTenant, ChangeRoleTenant, StutterTenant
  DEF Next, Advance

\* The invariant the theorems rest on.
LEMMA TenantInvariant == Spec => []TenantInv
  BY InitTenant, StepTenant, PTL DEF Spec

\* Type correctness.
THEOREM TenancyTypes == Spec => []TypeOK
<1>1. TenantInv => TypeOK
  BY DEF TenantInv
<1> QED  BY TenantInvariant, <1>1, PTL

\* Tenants are isolated: for any number of users, organizations, connections
\* and requests and any forest of rows, statements return and change only
\* rows of the organization in the path.
THEOREM TenantsIsolated == Spec => []Isolation
<1>1. TenantInv => Isolation
  BY DEF TenantInv
<1> QED  BY TenantInvariant, <1>1, PTL

\* No session leaks a connection and no connection leaks a setting.
THEOREM PoolIsSound == Spec => []PoolSound
<1>1. TenantInv => PoolSound
  BY FS_EmptySet, FS_Singleton DEF TenantInv, PoolShape, PoolSound
<1> QED  BY TenantInvariant, <1>1, PTL

\* The membership tested at the gate may be gone or lowered by the time a
\* statement runs; who is returned or changes a row is still a member then,
\* and has held a role that suffices while the request ran.
THEOREM RoleIsHeld == Spec => RoleHeld
<1>1. ASSUME TenantInv, [Next]_vars
      PROVE  \A r \in Request : touched'[r] # touched[r] =>
               MyRole(r) # None /\ held[r] \cap Required(job[r].op, job[r].row) # {}
  <2> SUFFICES ASSUME NEW r \in Request, touched'[r] # touched[r]
               PROVE  MyRole(r) # None /\ held[r] \cap Required(job[r].op, job[r].row) # {}
    OBVIOUS
  <2>1. PICK q \in Request : Find(q) \/ Write(q) \/ Resume(q)
    BY <1>1 DEF Next, Advance, Arrive, Enter, ReadUser, Gate, Authorize, Cancel,
       ChangeRole, vars
  <2>2. TouchesOwn(q)
    BY <1>1, <2>1, FindTouches, WriteTouches, ResumeTouches
  <2>3. q = r
    BY <1>1, <2>2 DEF TouchesOwn, TenantInv, TypeOK
  <2> QED  BY <2>2, <2>3 DEF TouchesOwn
<1> QED  BY <1>1, TenantInvariant, PTL DEF RoleHeld, Spec

\* What is there, with everything it hangs on, is shown to the members of its
\* organization.
LEMMA SecretIsSeen ==
  ASSUME TenantInv, NEW x \in rows, KindOf[x] = "secret", NEW s, Guard(s), Root[x] = s.org
  PROVE  Visible(x, s)
<1> USE DEF TenantInv
<1>1. rows \subseteq Row /\ Row \cap Org = {}
  BY ForestAssumption DEF TypeOK
<1>2. x \in Third
  BY <1>1 DEF Third
<1>3. Parent[x] \in Second /\ Parent[x] \in rows
  BY <1>1, <1>2, Levels DEF RowShape, Second
<1>4. Parent[Parent[x]] \in Top /\ Parent[Parent[x]] \in rows
  BY <1>1, <1>3, Levels DEF RowShape, Top
<1>5. Root[x] = Root[Parent[x]] /\ Root[Parent[x]] = Root[Parent[Parent[x]]]
  BY <1>1, <1>2, <1>3, RootOf DEF Top, Second, Third
<1>6. Parent[Parent[Parent[x]]] = s.org
  BY <1>4, <1>5, RootOf
<1> QED  BY <1>3, <1>4, <1>6 DEF Visible, SecretVisible, EnvironmentVisible,
            ProjectVisible

\* The secret of a committed rotation is found again, on whichever connection
\* the session is given, unless it is deleted or the user removed meanwhile.
THEOREM RotationIsReread == Spec => ReloadFinds
<1>1. ASSUME TenantInv, [Next]_vars
      PROVE  \A r \in Request : pc[r] = "resume" /\ pc'[r] = "broken" =>
               Target(r) \notin rows \/ MyRole(r) = None
  <2> SUFFICES ASSUME NEW r \in Request, pc[r] = "resume", pc'[r] = "broken",
                      Target(r) \in rows, MyRole(r) # None
               PROVE  FALSE
    OBVIOUS
  <2> USE DEF TenantInv
  <2>1. /\ job[r].op = "insert" /\ KindOf[job[r].row] = "version"
        /\ ~Visible(Target(r), Current(r))
    <3>1. PICK q \in Request : Arrive(q) \/ Advance(q) \/ Cancel(q)
      BY <1>1 DEF Next, ChangeRole, vars
    <3>2. q = r
      <4>1. \E label : pc' = [pc EXCEPT ![q] = label]
        BY <3>1 DEF Advance, Arrive, Enter, ReadUser, Gate, Authorize, Find, Write,
           Resume, Cancel,
                    End, Proceed, Goto
      <4> QED  BY <1>1, <4>1 DEF TypeOK
    <3>3. Resume(r)
      BY <1>1, <3>1, <3>2 DEF Advance, Arrive, Enter, ReadUser, Gate, Authorize, Find,
         Write,
                              Cancel, End, Goto, TypeOK, Waiting
    <3> QED  BY <1>1, <3>3 DEF Resume, End, Goto, TypeOK
  <2>2. job[r].row \in Fourth /\ Root[job[r].row] = job[r].org
    BY <1>1, <2>1 DEF JobShape, Isolation, Fourth
  <2>3. KindOf[Target(r)] = "secret" /\ Root[Target(r)] = job[r].org
    BY <2>1, <2>2, Levels, RootOf DEF Target, Fourth, Top
  <2>4. Current(r) = [user |-> job[r].user, org |-> job[r].org]
    BY <1>1, ContextOf
  <2>5. job[r].user # None /\ job[r].org # None
    BY <1>1, NoneAssumption DEF JobShape
  <2>6. Guard(Current(r))
    BY <2>4, <2>5 DEF Guard, MyRole
  <2> QED  BY <1>1, <2>1, <2>3, <2>4, <2>6, SecretIsSeen
<1> QED  BY <1>1, TenantInvariant, PTL DEF ReloadFinds, Spec
=============================================================================
