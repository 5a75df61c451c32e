---------------------------- MODULE CatalogProofs ----------------------------
(***************************************************************************)
(* For any number of requests, users, names and rows: unique names stay    *)
(* unique, nothing outlives its organization, a deletion is answered with  *)
(* success only when the row is gone or the right to it was lost, and no   *)
(* deadlock is without a rename.                                           *)
(***************************************************************************)
EXTENDS Catalog, TLAPS

\* The entry of a request.
Job == [op : Operation \cup {"none"}, kind : Kind, actor : User \cup {Nowhere},
        id : Id \cup {Nowhere}, parent : Id \cup {Nowhere}, name : Name \cup {Nowhere}]

\* The tables are functions.
Tables ==
  /\ pc \in [Request -> {"idle"} \cup Running \cup Ended]
  /\ req \in [Request -> Job]
  /\ row \in [Rows -> Row] /\ Rows \subseteq Id
  /\ role \in [User -> [Id -> Role]]
  /\ audit \subseteq [by : Request, org : Id]
  /\ held \in [Request -> SUBSET Id]

\* Rows that have been there, and what they were inserted as.
Known(i) ==
  \/ i \in Seed
  \/ i \in Request /\ pc[i] = "ok" /\ req[i].op = "make"
Born(i) == IF i \in Seed THEN [kind |-> SeedRow[i].kind, parent |-> SeedRow[i].parent]
                         ELSE [kind |-> req[i].kind, parent |-> req[i].parent]

\* A row keeps its kind and its parent.
RowShape ==
  \A i \in Rows : Known(i) /\ row[i].kind = Born(i).kind /\ row[i].parent = Born(i).parent

\* What requests name has been there, and is what they take it for.
RequestShape ==
  \A r \in Request :
    /\ pc[r] = "idle" => req[r] = Idle
    /\ pc[r] # "idle" => req[r].op \in Operation /\ req[r].name \in Name
    /\ req[r].op = "make" => req[r].id = r
    /\ req[r].op = "reveal" => req[r].kind = "org"
    /\ req[r].op \in {"rename", "drop", "reveal"} =>
         /\ Known(req[r].id) /\ req[r].actor \in User
         /\ Born(req[r].id) = [kind |-> req[r].kind, parent |-> req[r].parent]
    /\ IF req[r].kind = "project"
         THEN Known(req[r].parent) /\ Born(req[r].parent).kind = "org"
         ELSE req[r].parent = Nowhere
    /\ pc[r] = "read" => req[r].op \in {"rename", "drop"}
    /\ pc[r] \in {"check", "index"} => req[r].op \in {"make", "rename"}
    /\ pc[r] = "row" => req[r].op \in {"rename", "drop"}
    /\ pc[r] = "refer" =>
         req[r].op = "reveal" \/ (req[r].op = "make" /\ req[r].kind = "project")
    /\ pc[r] = "cascade" => req[r].op = "drop" /\ req[r].kind = "org"

\* What a transaction has locked: its row first, then what it cascades to; and
\* what it has locked is there.
LocksOwned ==
  \A r \in Request :
    /\ held[r] \cup Shares(r) \subseteq Rows
    /\ held[r] # {} =>
         /\ pc[r] \in {"index", "cascade", "written"}
         /\ req[r].op \in {"rename", "drop"} /\ req[r].id \in held[r]
         /\ held[r] \subseteq
              {req[r].id} \cup (IF req[r].op = "drop" THEN ProjectsOf(req[r].id) ELSE {})
    /\ pc[r] \in {"index", "cascade", "written"} /\ req[r].op \in {"rename", "drop"} =>
         req[r].id \in held[r]
    /\ pc[r] = "written" /\ req[r].op = "drop" =>
         /\ ProjectsOf(req[r].id) \subseteq held[r]
         /\ \A e \in audit : e.org # req[r].id

\* No row is locked against a transaction that has locked it.
LocksApart ==
  \A r \in Request : \A q \in Request \ {r} : held[r] \cap (held[q] \cup Shares(q)) = {}

\* Has added an entry to a unique index.
Named(r) == pc[r] \in {"refer", "written"} /\ req[r].op \in {"make", "rename"}

\* An entry that was free when it was added is still free.
EntriesApart ==
  \A r \in Request : Named(r) =>
    TakenBy(r) = {} /\ \A q \in Request \ {r} : Wanted(r) \notin Entries(q)

CatalogInv ==
  /\ Tables /\ RowShape /\ RequestShape /\ LocksOwned /\ LocksApart /\ EntriesApart
  /\ NamesUnique /\ NothingOutlivesItsOrg /\ DropOkUnlessDemoted

---------------------------------------------------------------------------
(* Locks.                                                                  *)

\* What a request has locked depends on itself and on the rows.
LEMMA LocksKept ==
  ASSUME NEW q, req'[q] = req[q], row' = row
  PROVE  /\ TakenBy(q)' = TakenBy(q) /\ Wanted(q)' = Wanted(q) /\ OrgOf(q)' = OrgOf(q)
         /\ \A i : EntryOf(i)' = EntryOf(i) /\ ProjectsOf(i)' = ProjectsOf(i)
         /\ pc'[q] = pc[q] => Shares(q)' = Shares(q) /\ Named(q)' = Named(q)
         /\ pc'[q] = pc[q] /\ held'[q] = held[q] => Entries(q)' = Entries(q)
<1>1. Rows' = Rows /\ \A i : EntryOf(i)' = EntryOf(i) /\ ProjectsOf(i)' = ProjectsOf(i)
  BY DEF Rows, EntryOf, ProjectsOf
<1>2. Wanted(q)' = Wanted(q) /\ OrgOf(q)' = OrgOf(q)
  BY DEF Wanted, OrgOf
<1>3. pc'[q] = pc[q] /\ held'[q] = held[q] => Entries(q)' = Entries(q)
  BY <1>1, <1>2 DEF Entries
<1> QED  BY <1>1, <1>2, <1>3 DEF Shares, TakenBy, Named

\* Rows that are locked have other entries than those that have been added.
LEMMA LockedNamed ==
  ASSUME CatalogInv, NEW q \in Request, Named(q), NEW i \in Rows \ held[q]
  PROVE  EntryOf(i) # Wanted(q)
<1>1. req[q].id # i
  <2>1. CASE req[q].op = "make"
    <3>1. req[q].id = q /\ pc[q] # "ok" /\ Known(i)
      BY <2>1 DEF CatalogInv, RequestShape, RowShape, Named
    <3> QED  BY <3>1, Disjoint DEF Known
  <2>2. CASE req[q].op = "rename"
    BY <2>2 DEF CatalogInv, RequestShape, LocksOwned, Named
  <2> QED  BY <2>1, <2>2 DEF Named
<1> QED  BY <1>1 DEF CatalogInv, EntriesApart, TakenBy

---------------------------------------------------------------------------
\* A foreign key locks organizations.
LEMMA ShareIsOrg ==
  ASSUME CatalogInv, NEW q \in Request, NEW i \in Shares(q)
  PROVE  i \in Rows /\ row[i].kind = "org"
<1> USE DEF CatalogInv
<1>1. i \in Rows /\ i = OrgOf(q)
  BY DEF LocksOwned, Shares
<1>2. Born(i).kind = "org"
  <2>1. CASE req[q].op = "reveal"
    <3>1. req[q].kind = "org" /\ Born(req[q].id) = [kind |-> req[q].kind, parent |-> req[q].parent]
      BY <2>1 DEF RequestShape
    <3> QED  BY <1>1, <3>1 DEF OrgOf
  <2>2. CASE req[q].op = "make" /\ req[q].kind = "project"
    BY <1>1, <2>2 DEF RequestShape, OrgOf
  <2> QED  BY <2>1, <2>2 DEF Shares
<1> QED  BY <1>1, <1>2 DEF RowShape

\* The rows at the start are as the constants say.
LEMMA InitCatalog == Init => CatalogInv
<1> SUFFICES ASSUME Init PROVE CatalogInv
  OBVIOUS
<1> USE Disjoint, SeedAssumption
<1>1. Rows = Seed /\ \A i \in Rows : row[i] = SeedRow[i]
  BY DEF Init, Rows
<1>2. \A r \in Request : pc[r] = "idle" /\ req[r] = Idle
  BY DEF Init
<1>3. Idle.op = "none" /\ Idle.kind = "user" /\ Idle.parent = Nowhere
  BY DEF Idle
<1>4. Tables
  <2>1. Idle \in Job
    BY DEF Idle, Job, Kind
  <2>2. row \in [Rows -> Row] /\ Rows \subseteq Id
    BY <1>1 DEF Init, Id
  <2>3. role \in [User -> [Id -> Role]]
    BY DEF Init, Role
  <2> QED  BY <2>1, <2>2, <2>3 DEF Init, Tables
<1>5. RowShape
  BY <1>1 DEF RowShape, Known, Born
<1>6. RequestShape
  BY <1>2, <1>3 DEF RequestShape
<1>7. LocksOwned /\ LocksApart /\ EntriesApart
  <2>1. \A r \in Request : held[r] = {} /\ Shares(r) = {} /\ ~Named(r)
    BY <1>2 DEF Init, Shares, Named
  <2> QED  BY <1>2, <2>1 DEF LocksOwned, LocksApart, EntriesApart
<1>8. NamesUnique
  BY <1>1 DEF NamesUnique, EntryOf, Entry
<1>9. NothingOutlivesItsOrg
  BY <1>1 DEF NothingOutlivesItsOrg, Orgs, Init
<1>10. DropOkUnlessDemoted
  BY <1>2 DEF DropOkUnlessDemoted
<1> QED  BY <1>4, <1>5, <1>6, <1>7, <1>8, <1>9, <1>10 DEF CatalogInv

\* What a request presents when it begins.
Fresh(r, job, first) ==
  /\ job \in Job /\ job.op \in Operation /\ job.name \in Name
  /\ first \in {"check", "authorize"} /\ (first = "check" => job.op = "make")
  /\ job.op = "make" => job.id = r
  /\ job.op = "reveal" => job.kind = "org"
  /\ job.op # "make" => /\ job.actor \in User /\ job.id \in Rows
                        /\ row[job.id].kind = job.kind /\ row[job.id].parent = job.parent
  /\ IF job.kind = "project" THEN job.parent \in Orgs ELSE job.parent = Nowhere

\* A request that begins names rows that are there.
LEMMA BeginCatalog ==
  ASSUME CatalogInv, NEW r \in Request, NEW job, NEW first, Fresh(r, job, first),
         Begin(r, job, first)
  PROVE  CatalogInv'
<1> USE Disjoint DEF CatalogInv
<1>1. /\ pc[r] = "idle" /\ pc'[r] = first /\ req'[r] = job /\ req[r].op = "none"
      /\ \A q \in Request \ {r} : req'[q] = req[q] /\ pc'[q] = pc[q]
      /\ row' = row /\ role' = role /\ audit' = audit /\ held' = held /\ Rows' = Rows
  <2>1. pc[r] = "idle" /\ req[r] = Idle
    BY DEF Begin, RequestShape
  <2> QED  BY <2>1 DEF Begin, Goto, Tables, Idle, Rows
<1>2. \A i : Known(i) => Known(i)' /\ Born(i)' = Born(i)
  BY <1>1 DEF Known, Born
<1>3. Tables'
  <2>1. req' \in [Request -> Job]
    BY DEF Tables, Begin, Fresh
  <2>2. pc' \in [Request -> {"idle"} \cup Running \cup Ended]
    BY DEF Tables, Begin, Goto, Fresh, Running
  <2> QED  BY <1>1, <2>1, <2>2 DEF Tables
<1>4. RowShape'
  BY <1>1, <1>2 DEF RowShape
<1>5. RequestShape'
  <2>1. job.op # "make" =>
          Known(job.id) /\ Born(job.id) = [kind |-> job.kind, parent |-> job.parent]
    BY DEF Fresh, RowShape, Born
  <2>2. job.kind = "project" => Known(job.parent) /\ Born(job.parent).kind = "org"
    BY DEF Fresh, RowShape, Orgs
  <2> QED  BY <1>1, <1>2, <2>1, <2>2 DEF RequestShape, Fresh, Operation
<1>6. LocksOwned' /\ LocksApart' /\ EntriesApart'
  <2>1. first \in {"check", "authorize"} /\ held[r] = {}
    BY <1>1 DEF Fresh, LocksOwned
  <2>2. Shares(r)' = {} /\ Entries(r)' = {} /\ ~Named(r)'
    BY <1>1, <2>1 DEF Shares, Entries, Named
  <2>3. \A q \in Request \ {r} :
          /\ Shares(q)' = Shares(q) /\ Entries(q)' = Entries(q) /\ Named(q)' = Named(q)
          /\ TakenBy(q)' = TakenBy(q) /\ Wanted(q)' = Wanted(q)
    BY <1>1, LocksKept
  <2>4. \A i : ProjectsOf(i)' = ProjectsOf(i)
    BY <1>1 DEF ProjectsOf
  <2>5. LocksOwned'
    BY <1>1, <2>1, <2>2, <2>3, <2>4 DEF LocksOwned
  <2>6. LocksApart'
    BY <1>1, <2>1, <2>2, <2>3 DEF LocksApart
  <2>7. EntriesApart'
    BY <2>2, <2>3 DEF EntriesApart
  <2> QED  BY <2>5, <2>6, <2>7
<1>7. NamesUnique'
  BY <1>1 DEF NamesUnique, EntryOf
<1>8. NothingOutlivesItsOrg'
  BY <1>1 DEF NothingOutlivesItsOrg, Orgs
<1>9. DropOkUnlessDemoted'
  <2>1. first # "ok"
    BY DEF Fresh
  <2> QED  BY <1>1, <2>1 DEF DropOkUnlessDemoted, RoleOf, OrgOf, Minimum
<1> QED  BY <1>3, <1>4, <1>5, <1>6, <1>7, <1>8, <1>9

\* The five actions by which requests arrive.
LEMMA ArriveCatalog == ASSUME CatalogInv, NEW r \in Request, Arrive(r) PROVE CatalogInv'
<1>1. /\ Idle \in Job /\ r \in Id /\ Rows \subseteq Id /\ Orgs \subseteq Rows
      /\ \A i \in Rows : row[i] \in Row /\ row[i].name \in Name /\ row[i].kind \in Kind
      /\ \A i \in Orgs : row[i].kind = "org" /\ row[i].parent = Nowhere
  <2>1. ASSUME NEW i \in Rows, row[i].kind = "org" PROVE row[i].parent = Nowhere
    <3>1. Known(i) /\ row[i].kind = Born(i).kind /\ row[i].parent = Born(i).parent
      BY DEF CatalogInv, RowShape
    <3>2. CASE i \in Seed
      BY <2>1, <3>1, <3>2, SeedAssumption DEF Born
    <3>3. CASE i \notin Seed
      <4>1. i \in Request /\ req[i].kind = "org"
        BY <2>1, <3>1, <3>3 DEF Born, Known
      <4>2. req[i].parent = Nowhere
        BY <4>1 DEF CatalogInv, RequestShape
      <4> QED  BY <3>1, <3>3, <4>2 DEF Born
    <3> QED  BY <3>2, <3>3
  <2> QED  BY <2>1 DEF Idle, Job, Kind, Id, CatalogInv, Tables, Orgs, Row
<1>2. CASE BeginRegister(r)
  <2>1. PICK n \in Name : Begin(r, [Idle EXCEPT !.op = "make", !.id = r, !.name = n], "check")
    BY <1>2 DEF BeginRegister
  <2>2. Fresh(r, [Idle EXCEPT !.op = "make", !.id = r, !.name = n], "check")
    BY <1>1 DEF Fresh, Job, Idle, Operation, Kind
  <2> QED  BY <2>1, <2>2, BeginCatalog
<1>3. CASE BeginMakeOrg(r)
  <2>1. PICK u \in User, n \in Name :
          Begin(r, [Idle EXCEPT !.op = "make", !.kind = "org", !.actor = u,
                                !.id = r, !.name = n], "check")
    BY <1>3 DEF BeginMakeOrg
  <2>2. Fresh(r, [Idle EXCEPT !.op = "make", !.kind = "org", !.actor = u,
                              !.id = r, !.name = n], "check")
    BY <1>1 DEF Fresh, Job, Idle, Operation, Kind
  <2> QED  BY <2>1, <2>2, BeginCatalog
<1>4. CASE BeginMakeProject(r)
  <2>1. PICK u \in User, o \in Orgs, n \in Name :
          Begin(r, [Idle EXCEPT !.op = "make", !.kind = "project", !.actor = u,
                                !.id = r, !.parent = o, !.name = n], "authorize")
    BY <1>4 DEF BeginMakeProject
  <2>2. Fresh(r, [Idle EXCEPT !.op = "make", !.kind = "project", !.actor = u,
                              !.id = r, !.parent = o, !.name = n], "authorize")
    BY <1>1 DEF Fresh, Job, Idle, Operation, Kind
  <2> QED  BY <2>1, <2>2, BeginCatalog
<1>5. CASE BeginOnOrg(r)
  <2>1. PICK u \in User, o \in Orgs, n \in Name, op \in {"rename", "drop", "reveal"} :
          Begin(r, [Idle EXCEPT !.op = op, !.kind = "org", !.actor = u, !.id = o,
                                !.name = IF op = "rename" THEN n ELSE row[o].name], "authorize")
    BY <1>5 DEF BeginOnOrg
  <2>2. PICK m \in Name : m = IF op = "rename" THEN n ELSE row[o].name
    BY <1>1
  <2>3. Fresh(r, [Idle EXCEPT !.op = op, !.kind = "org", !.actor = u, !.id = o, !.name = m],
              "authorize")
    BY <1>1 DEF Fresh, Job, Idle, Operation, Kind
  <2> QED  BY <2>1, <2>2, <2>3, BeginCatalog
<1>6. CASE BeginOnProject(r)
  <2>0. PICK u \in User, o \in Orgs, n \in Name, op \in {"rename", "drop"} :
          \E p \in ProjectsOf(o) :
            Begin(r, [Idle EXCEPT !.op = op, !.kind = "project", !.actor = u, !.id = p,
                                  !.parent = o,
                                  !.name = IF op = "rename" THEN n ELSE row[p].name],
                  "authorize")
    BY <1>6 DEF BeginOnProject
  <2>1. PICK p \in ProjectsOf(o) :
          Begin(r, [Idle EXCEPT !.op = op, !.kind = "project", !.actor = u, !.id = p,
                                !.parent = o,
                                !.name = IF op = "rename" THEN n ELSE row[p].name],
                "authorize")
    BY <2>0
  <2>2. p \in Rows /\ row[p].kind = "project" /\ row[p].parent = o
    BY DEF ProjectsOf
  <2>3. PICK m \in Name : m = IF op = "rename" THEN n ELSE row[p].name
    BY <1>1, <2>2
  <2>4. Fresh(r, [Idle EXCEPT !.op = op, !.kind = "project", !.actor = u, !.id = p,
                              !.parent = o, !.name = m], "authorize")
    BY <1>1, <2>2 DEF Fresh, Job, Idle, Operation, Kind
  <2> QED  BY <2>1, <2>3, <2>4, BeginCatalog
<1> QED  BY <1>2, <1>3, <1>4, <1>5, <1>6 DEF Arrive

---------------------------------------------------------------------------
(* Reads, locks, refusals and rollbacks.                                   *)

\* What a request may lock on its way to a label.
MayLock(r, label, locks) ==
  /\ locks \subseteq Rows
  /\ locks # {} =>
       /\ label \in {"index", "cascade", "written"} \cup Ended
       /\ req[r].op \in {"rename", "drop"} /\ req[r].id \in locks
       /\ locks \subseteq
            {req[r].id} \cup (IF req[r].op = "drop" THEN ProjectsOf(req[r].id) ELSE {})
  /\ label \in {"index", "cascade", "written"} /\ req[r].op \in {"rename", "drop"} =>
       req[r].id \in locks
  /\ label = "written" /\ req[r].op = "drop" =>
       /\ ProjectsOf(req[r].id) \subseteq locks
       /\ \A e \in audit : e.org # req[r].id
  /\ \A q \in Request \ {r} : locks \cap (held[q] \cup Shares(q)) = {}
  /\ /\ label = "written"
     /\ req[r].op = "reveal" \/ (req[r].op = "make" /\ req[r].kind = "project")
     => OrgOf(r) \in Rows /\ \A q \in Request \ {r} : OrgOf(r) \notin held[q]
  /\ label \in {"refer", "written"} /\ req[r].op \in {"make", "rename"} =>
       TakenBy(r) = {} /\ \A q \in Request \ {r} : Wanted(r) \notin Entries(q)

\* Where a request may go on to without having changed a table.
GoesOn(r, label) ==
  /\ label \in Running \cup Ended
  /\ label \in {"check", "index"} => req[r].op \in {"make", "rename"}
  /\ label \in {"read", "row"} => req[r].op \in {"rename", "drop"}
  /\ label = "refer" =>
       req[r].op = "reveal" \/ (req[r].op = "make" /\ req[r].kind = "project")
  /\ label = "cascade" => req[r].op = "drop" /\ req[r].kind = "org"
  /\ label = "ok" /\ req[r].op = "drop" =>
       req[r].id \notin Rows \/ RoleOf(r) \notin AtLeast(Minimum(r))

\* A lock is taken when nobody has it, and all are released at the end.
LEMMA GoCatalog ==
  ASSUME CatalogInv, NEW r \in Request, pc[r] \in Running, NEW label, NEW locks,
         GoesOn(r, label), label \notin Ended => MayLock(r, label, locks),
         Go(r, label, locks)
  PROVE  CatalogInv'
<1> USE Disjoint DEF CatalogInv
<1>0. PICK kept : kept = IF label \in Ended THEN {} ELSE locks
  OBVIOUS
<1>1. /\ pc'[r] = label /\ pc[r] \notin {"idle", "ok"} /\ label # "idle"
      /\ held'[r] = kept
      /\ \A q \in Request \ {r} : pc'[q] = pc[q] /\ held'[q] = held[q]
      /\ req' = req /\ row' = row /\ role' = role /\ audit' = audit /\ Rows' = Rows
  BY <1>0 DEF Go, Goto, Tables, Running, Waiting, Ended, GoesOn, Rows
<1>2. \A i : (Known(i) => Known(i)') /\ Born(i)' = Born(i)
  BY <1>1 DEF Known, Born
<1>k. MayLock(r, label, kept)
  <2>1. CASE label \in Ended
    BY <1>0, <2>1 DEF MayLock, Ended
  <2> QED  BY <1>0, <2>1
<1>3. Tables'
  <2>1. pc' \in [Request -> {"idle"} \cup Running \cup Ended]
    BY DEF Tables, Go, Goto, GoesOn
  <2>2. held' \in [Request -> SUBSET Id]
    BY <1>0, <1>k DEF Tables, Go, MayLock
  <2> QED  BY <1>1, <2>1, <2>2 DEF Tables
<1>4. RowShape'
  BY <1>1, <1>2 DEF RowShape
<1>5. RequestShape'
  BY <1>1, <1>2 DEF RequestShape, GoesOn
<1>6. \A q \in Request :
        /\ TakenBy(q)' = TakenBy(q) /\ Wanted(q)' = Wanted(q) /\ OrgOf(q)' = OrgOf(q)
        /\ q # r => /\ Shares(q)' = Shares(q) /\ Named(q)' = Named(q)
                    /\ Entries(q)' = Entries(q)
  BY <1>1, LocksKept
<1>7. \A i : ProjectsOf(i)' = ProjectsOf(i) /\ EntryOf(i)' = EntryOf(i)
  BY <1>1 DEF ProjectsOf, EntryOf
<1>8. Shares(r)' \subseteq Rows /\ \A q \in Request \ {r} : held[q] \cap Shares(r)' = {}
  <2>1. Shares(r)' = IF /\ label = "written"
                        /\ req[r].op = "reveal" \/ (req[r].op = "make" /\ req[r].kind = "project")
                       THEN {OrgOf(r)} ELSE {}
    BY <1>1, <1>6 DEF Shares
  <2>2. Shares(r)' # {} =>
          /\ Shares(r)' = {OrgOf(r)} /\ OrgOf(r) \in Rows
          /\ \A q \in Request \ {r} : OrgOf(r) \notin held[q]
    BY <1>k, <2>1 DEF MayLock
  <2> QED  BY <2>2
<1>9. LocksOwned'
  <2>1. ASSUME NEW q \in Request \ {r}
        PROVE  held[q] \cup Shares(q)' \subseteq Rows
    BY <1>6 DEF LocksOwned
  <2>2. kept # {} => label \in {"index", "cascade", "written"}
    BY <1>0, <1>k DEF MayLock
  <2> QED  BY <1>1, <1>6, <1>7, <1>8, <1>k, <2>1, <2>2 DEF LocksOwned, MayLock
<1>10. LocksApart'
  <2>1. \A q \in Request \ {r} : kept \cap (held[q] \cup Shares(q)) = {}
    BY <1>k DEF MayLock
  <2>2. \A q \in Request \ {r} : \A p \in Request \ {q} :
          held'[q] \cap (held'[p] \cup Shares(p)') = {}
    BY <1>1, <1>6, <1>8, <2>1 DEF LocksApart
  <2>3. \A p \in Request \ {r} : held'[r] \cap (held'[p] \cup Shares(p)') = {}
    BY <1>1, <1>6, <2>1
  <2> QED  BY <2>2, <2>3 DEF LocksApart
<1>11. EntriesApart'
  <2>1. Named(r)' => TakenBy(r) = {} /\ \A q \in Request \ {r} : Wanted(r) \notin Entries(q)
    BY <1>1, <1>k DEF Named, MayLock
  <2>2. ASSUME NEW q \in Request \ {r}, Named(q) PROVE Wanted(q) \notin Entries(r)'
    <3>1. \A i \in kept : EntryOf(i) # Wanted(q)
      BY <1>k, <2>2, LockedNamed DEF MayLock
    <3>2. Wanted(q) \in Entries(q)
      BY <2>2 DEF Named, Entries
    <3>3. Named(r)' => Wanted(r) # Wanted(q)
      BY <2>1, <3>2
    <3>4. Entries(r)' = {EntryOf(i) : i \in kept} \cup (IF Named(r)' THEN {Wanted(r)} ELSE {})
      BY <1>1, <1>6, <1>7 DEF Entries, Named
    <3> QED  BY <3>1, <3>3, <3>4
  <2> QED  BY <1>6, <2>1, <2>2 DEF EntriesApart
<1>12. NamesUnique'
  BY <1>1 DEF NamesUnique, EntryOf
<1>13. NothingOutlivesItsOrg'
  BY <1>1 DEF NothingOutlivesItsOrg, Orgs
<1>14. DropOkUnlessDemoted'
  BY <1>1 DEF DropOkUnlessDemoted, RoleOf, OrgOf, Minimum, GoesOn
<1> QED  BY <1>3, <1>4, <1>5, <1>9, <1>10, <1>11, <1>12, <1>13, <1>14

\* Before its statement a request holds nothing.
LEMMA ReadsCatalog ==
  ASSUME CatalogInv, NEW r \in Request, pc[r] \in {"authorize", "read", "check", "start"},
         NEW label, GoesOn(r, label), Reads(r, label),
         label \notin Ended => label \in {"read", "check", "start", "row", "index", "refer"},
         label = "index" => req[r].op = "make", label = "refer" => req[r].op = "reveal"
  PROVE  CatalogInv'
<1>1. held[r] = {}
  BY DEF CatalogInv, LocksOwned
<1>2. label \notin Ended => MayLock(r, label, {})
  BY DEF MayLock
<1> QED  BY <1>1, <1>2, GoCatalog DEF Reads, Running

\* Nothing that is refused, found or rolled back leads anywhere else.
LEMMA ReadCatalog ==
  ASSUME CatalogInv, NEW r \in Request, Authorize(r) \/ Read(r) \/ CheckName(r) \/ Start(r)
  PROVE  CatalogInv'
<1>1. /\ pc[r] \in {"authorize", "read", "check", "start"} /\ req[r].op \in Operation
  BY DEF Authorize, Read, CheckName, Start, CatalogInv, RequestShape
<1>2. \A label \in {"refused", "conflict", "broken", "start"} : GoesOn(r, label)
  BY DEF GoesOn, Running, Ended
<1>3. CASE Authorize(r)
  <2>1. GoesOn(r, AfterAuthorize(r)) /\ AfterAuthorize(r) \in {"check", "start", "read"}
    BY <1>1 DEF GoesOn, AfterAuthorize, Running, Ended, Operation
  <2>2. "refused" \in Ended
    BY DEF Ended
  <2> QED  BY <1>1, <1>2, <1>3, <2>1, <2>2, ReadsCatalog DEF Authorize
<1>4. CASE Read(r)
  <2>1. req[r].op \in {"rename", "drop"}
    BY <1>4 DEF Read, CatalogInv, RequestShape
  <2>2. req[r].op # "drop" => GoesOn(r, "ok") /\ GoesOn(r, "check")
    BY <2>1 DEF GoesOn, Running, Ended
  <2>3. "refused" \in Ended /\ "ok" \in Ended
    BY DEF Ended
  <2> QED  BY <1>1, <1>2, <1>4, <2>2, <2>3, ReadsCatalog DEF Read
<1>5. CASE CheckName(r)
  <2>1. "conflict" \in Ended
    BY DEF Ended
  <2> QED  BY <1>1, <1>2, <1>5, <2>1, ReadsCatalog DEF CheckName
<1>6. CASE Start(r)
  <2>1. req[r].op = "drop" /\ ~(Permitted(r) /\ req[r].id \in Rows) => GoesOn(r, "ok")
    <3>1. req[r].op = "drop" /\ ~Permitted(r) => RoleOf(r) \notin AtLeast(Minimum(r))
      BY DEF Permitted, Minimum, AtLeast
    <3> QED  BY <3>1 DEF GoesOn, Ended
  <2>2. /\ GoesOn(r, FirstLock(r)) /\ FirstLock(r) \in {"row", "index", "refer"}
        /\ FirstLock(r) = "index" => req[r].op = "make"
        /\ FirstLock(r) = "refer" => req[r].op = "reveal"
    BY <1>1 DEF FirstLock, GoesOn, Running, Waiting, Ended, Operation
  <2>3. "ok" \in Ended /\ "broken" \in Ended
    BY DEF Ended
  <2> QED  BY <1>1, <1>2, <1>6, <2>1, <2>2, <2>3, ReadsCatalog DEF Start
<1> QED  BY <1>3, <1>4, <1>5, <1>6

\* The row a statement has found is still there and nobody else's.
LEMMA LockRowCatalog == ASSUME CatalogInv, NEW r \in Request, LockRow(r) PROVE CatalogInv'
<1> USE DEF CatalogInv
<1>1. /\ pc[r] = "row" /\ req[r].op \in {"rename", "drop"} /\ Blockers(r) = {}
      /\ Go(r, Found(r), {req[r].id}) /\ pc[r] \in Running
  BY DEF LockRow, RequestShape, Running, Waiting
<1>2. \A q \in Request \ {r} : req[r].id \notin held[q] \cup Shares(q)
  BY <1>1 DEF Blockers
<1>3. CASE req[r].id \notin Rows
  <2>1. Found(r) \in Ended /\ (Found(r) = "ok" \/ Found(r) = "broken")
    BY <1>1, <1>3 DEF Found, Ended
  <2>2. GoesOn(r, Found(r))
    BY <1>3, <2>1 DEF GoesOn
  <2> QED  BY <1>1, <2>1, <2>2, GoCatalog
<1>4. CASE req[r].id \in Rows
  <2>1. /\ req[r].op = "rename" => Found(r) = "index"
        /\ req[r].op = "drop" /\ req[r].kind = "org" => Found(r) = "cascade"
        /\ req[r].op = "drop" /\ req[r].kind # "org" => Found(r) = "written"
    BY <1>1, <1>4 DEF Found
  <2>2. GoesOn(r, Found(r))
    BY <1>1, <2>1 DEF GoesOn, Running, Waiting
  <2>3. req[r].kind # "org" => /\ ProjectsOf(req[r].id) = {}
                              /\ \A e \in audit : e.org # req[r].id
    <3>1. row[req[r].id].kind = req[r].kind
      <4>1. Born(req[r].id) = [kind |-> req[r].kind, parent |-> req[r].parent]
        BY <1>1 DEF RequestShape
      <4> QED  BY <1>4, <4>1 DEF RowShape
    <3> QED  BY <3>1 DEF NothingOutlivesItsOrg, Orgs, ProjectsOf
  <2>4. MayLock(r, Found(r), {req[r].id})
    BY <1>1, <1>2, <1>4, <2>1, <2>3 DEF MayLock, Ended
  <2> QED  BY <1>1, <2>2, <2>4, GoCatalog
<1> QED  BY <1>3, <1>4

\* A name is added when nobody has it and nobody is adding or giving it up.
LEMMA AddEntryCatalog == ASSUME CatalogInv, NEW r \in Request, AddEntry(r) PROVE CatalogInv'
<1> USE DEF CatalogInv
<1>1. /\ pc[r] = "index" /\ req[r].op \in {"make", "rename"} /\ Blockers(r) = {}
      /\ Go(r, Insert(r), held[r]) /\ pc[r] \in Running
  BY DEF AddEntry, Reads, RequestShape, Running, Waiting
<1>2. \A q \in Request \ {r} : Wanted(r) \notin Entries(q)
  BY <1>1 DEF Blockers
<1>3. CASE TakenBy(r) # {}
  <2>1. Insert(r) = "conflict" /\ "conflict" \in Ended
    BY <1>3 DEF Insert, Ended
  <2>2. GoesOn(r, Insert(r))
    BY <2>1 DEF GoesOn
  <2> QED  BY <1>1, <2>1, <2>2, GoCatalog
<1>4. CASE TakenBy(r) = {}
  <2>1. Insert(r) = IF req[r].op = "make" /\ req[r].kind = "project" THEN "refer" ELSE "written"
    BY <1>4 DEF Insert
  <2>2. GoesOn(r, Insert(r))
    BY <1>1, <2>1 DEF GoesOn, Running, Waiting
  <2>3. MayLock(r, Insert(r), held[r])
    BY <1>1, <1>2, <1>4, <2>1 DEF MayLock, LocksOwned, LocksApart
  <2> QED  BY <1>1, <2>2, <2>3, GoCatalog
<1> QED  BY <1>3, <1>4

\* The organization referred to stays until the transaction ends.
LEMMA ReferCatalog == ASSUME CatalogInv, NEW r \in Request, Refer(r) PROVE CatalogInv'
<1> USE DEF CatalogInv
<1> DEFINE label == IF OrgOf(r) \in Rows THEN "written"
                    ELSE IF req[r].op = "make" THEN "conflict" ELSE "broken"
<1>1. /\ pc[r] = "refer" /\ Blockers(r) = {} /\ Go(r, label, held[r]) /\ pc[r] \in Running
      /\ req[r].op = "reveal" \/ (req[r].op = "make" /\ req[r].kind = "project")
  BY DEF Refer, Reads, RequestShape, Running, Waiting
<1>2. \A q \in Request \ {r} : OrgOf(r) \notin held[q]
  BY <1>1 DEF Blockers
<1>3. GoesOn(r, label)
  BY DEF GoesOn, Running, Ended
<1>4. label \notin Ended => label = "written" /\ OrgOf(r) \in Rows
  BY DEF Ended
<1>5. held[r] = {}
  BY <1>1 DEF LocksOwned
<1>6. req[r].op = "make" =>
        TakenBy(r) = {} /\ \A q \in Request \ {r} : Wanted(r) \notin Entries(q)
  BY <1>1 DEF EntriesApart, Named
<1> HIDE DEF label
<1>7. label \notin Ended => MayLock(r, label, held[r])
  BY <1>1, <1>2, <1>4, <1>5, <1>6 DEF MayLock
<1> QED  BY <1>1, <1>3, <1>7, GoCatalog

\* A cascade takes the projects nobody holds, and ends when none remains.
LEMMA CascadeCatalog == ASSUME CatalogInv, NEW r \in Request, Cascade(r) PROVE CatalogInv'
<1> USE DEF CatalogInv
<1>1. /\ pc[r] = "cascade" /\ req[r].op = "drop" /\ req[r].kind = "org"
      /\ pc[r] \in Running /\ req[r].id \in held[r] /\ held[r] \subseteq Rows
      /\ held[r] \subseteq {req[r].id} \cup ProjectsOf(req[r].id)
  <2>1. /\ pc[r] = "cascade" /\ req[r].op = "drop" /\ req[r].kind = "org" /\ pc[r] \in Running
    BY DEF Cascade, RequestShape, Running, Waiting
  <2> QED  BY <2>1 DEF LocksOwned
<1>2. CASE \E i \in Remaining(r) : /\ \A q \in Request : i \notin held[q]
                                   /\ Go(r, "cascade", held[r] \cup {i})
  <2>1. PICK i \in Remaining(r) : /\ \A q \in Request : i \notin held[q]
                                  /\ Go(r, "cascade", held[r] \cup {i})
    BY <1>2
  <2>2. i \in ProjectsOf(req[r].id) /\ i \in Rows /\ row[i].kind = "project"
    BY DEF Remaining, ProjectsOf
  <2>3. GoesOn(r, "cascade")
    BY <1>1 DEF GoesOn, Running, Waiting
  <2>4. \A q \in Request : i \notin Shares(q)
    BY <2>2, ShareIsOrg
  <2>5. MayLock(r, "cascade", held[r] \cup {i})
    BY <1>1, <2>1, <2>2, <2>4 DEF MayLock, LocksApart
  <2> QED  BY <1>1, <2>1, <2>3, <2>5, GoCatalog
<1>3. CASE Remaining(r) = {}
           /\ Reads(r, IF \E e \in audit : e.org = req[r].id THEN "broken" ELSE "written")
  <2> DEFINE label == IF \E e \in audit : e.org = req[r].id THEN "broken" ELSE "written"
  <2>1. Go(r, label, held[r])
    BY <1>3 DEF Reads
  <2>2. GoesOn(r, label)
    BY DEF GoesOn, Running, Ended
  <2>3. label \notin Ended => label = "written" /\ \A e \in audit : e.org # req[r].id
    BY DEF Ended
  <2>4. ProjectsOf(req[r].id) \subseteq held[r]
    BY <1>3 DEF Remaining
  <2> HIDE DEF label
  <2>5. label \notin Ended => MayLock(r, label, held[r])
    BY <1>1, <2>3, <2>4 DEF MayLock, LocksApart
  <2> QED  BY <1>1, <2>1, <2>2, <2>5, GoCatalog
<1> QED  BY <1>2, <1>3 DEF Cascade

\* Who is ended has locked nothing afterwards.
LEMMA EndCatalog ==
  ASSUME CatalogInv, NEW r \in Request, Victim(r) \/ Abort(r)
  PROVE  CatalogInv'
<1>1. pc[r] \in Running
  <2>1. CASE Victim(r)
    <3>1. Blockers(r) # {}
      BY <2>1 DEF Victim
    <3> QED  BY <3>1 DEF Blockers, Running, Waiting
  <2> QED  BY <2>1 DEF Abort
<1>2. "broken" \in Ended /\ "aborted" \in Ended /\ GoesOn(r, "broken") /\ GoesOn(r, "aborted")
  BY DEF GoesOn, Ended
<1> QED  BY <1>1, <1>2, GoCatalog DEF Victim, Abort, Reads

---------------------------------------------------------------------------
(* COMMIT.                                                                 *)

\* Rows a transaction writes or removes, and those it removes.
Touched(r) == IF req[r].op = "make" THEN {r} ELSE held[r]
Gone(r) == IF req[r].op = "drop" THEN held[r] ELSE {}

\* What COMMIT makes of the rows: it writes the one the request is about.
Published(r) ==
  /\ Rows' = (Rows \ Gone(r)) \cup (IF req[r].op = "make" THEN {r} ELSE {})
  /\ \A i \in Rows' : i \notin Touched(r) => i \in Rows /\ row'[i] = row[i]
  /\ \A i \in Rows' : i \in Rows =>
       row'[i].kind = row[i].kind /\ row'[i].parent = row[i].parent
  /\ \A i \in Rows' : i \in Touched(r) =>
       /\ i = req[r].id /\ req[r].op \in {"make", "rename"}
       /\ row'[i].kind = req[r].kind /\ row'[i].parent = req[r].parent
       /\ row'[i].name = req[r].name
  /\ row' \in [Rows' -> Row]

\* The row it writes is the one it has locked or inserted.
LEMMA CommitRows == ASSUME CatalogInv, NEW r \in Request, Commit(r) PROVE Published(r)
<1> USE Disjoint DEF CatalogInv
<1>1. pc[r] = "written" /\ req[r].op \in Operation /\ req[r].name \in Name
  BY DEF Commit, RequestShape
<1>2. [kind |-> req[r].kind, parent |-> req[r].parent, name |-> req[r].name] \in Row
  BY <1>1, Disjoint DEF Tables, Job, Row
<1>3. CASE req[r].op = "make"
  <2>1. req[r].id = r /\ r \notin Rows
    BY <1>1, <1>3 DEF RequestShape, RowShape, Known
  <2>2. row' = [i \in Rows \cup {r} |->
                  IF i = r THEN [kind |-> req[r].kind, parent |-> req[r].parent,
                                 name |-> req[r].name]
                           ELSE row[i]]
    BY <1>3 DEF Commit
  <2>3. Rows' = Rows \cup {r}
    BY <2>2 DEF Rows
  <2>4. row' \in [Rows' -> Row]
    BY <1>2, <2>2, <2>3 DEF Tables
  <2> QED  BY <1>3, <2>1, <2>2, <2>3, <2>4 DEF Published, Touched, Gone
<1>4. CASE req[r].op = "rename"
  <2>1. /\ req[r].id \in Rows /\ row[req[r].id].kind = req[r].kind
        /\ row[req[r].id].parent = req[r].parent
    <3>1. req[r].id \in Rows
      BY <1>1, <1>4 DEF LocksOwned
    <3>2. Born(req[r].id) = [kind |-> req[r].kind, parent |-> req[r].parent]
      BY <1>4 DEF RequestShape
    <3> QED  BY <3>1, <3>2 DEF RowShape
  <2>2. row' = [row EXCEPT ![req[r].id].name = req[r].name]
    BY <1>4 DEF Commit
  <2>3. Rows' = Rows
    BY <2>2 DEF Rows, Tables
  <2>4. /\ \A i \in Rows \ {req[r].id} : row'[i] = row[i]
        /\ row'[req[r].id] = [kind |-> req[r].kind, parent |-> req[r].parent,
                              name |-> req[r].name]
    BY <2>1, <2>2 DEF Tables, Row
  <2>5. row' \in [Rows' -> Row]
    BY <1>2, <2>1, <2>2, <2>3, <2>4 DEF Tables
  <2>6. held[r] = {req[r].id}
    BY <1>1, <1>4 DEF LocksOwned
  <2> QED  BY <1>4, <2>1, <2>3, <2>4, <2>5, <2>6 DEF Published, Touched, Gone
<1>5. CASE req[r].op = "drop"
  <2>1. row' = [i \in Rows \ held[r] |-> row[i]]
    BY <1>5 DEF Commit, Without
  <2>2. Rows' = Rows \ held[r]
    BY <2>1 DEF Rows
  <2>3. row' \in [Rows' -> Row]
    BY <2>1, <2>2 DEF Tables
  <2> QED  BY <1>5, <2>1, <2>2, <2>3 DEF Published, Touched, Gone
<1>6. CASE req[r].op = "reveal"
  <2>1. row' = row /\ Rows' = Rows
    BY <1>6 DEF Commit, Rows
  <2>2. held[r] = {}
    BY <1>6 DEF LocksOwned
  <2> QED  BY <1>6, <2>1, <2>2 DEF Published, Touched, Gone, Tables
<1> QED  BY <1>1, <1>3, <1>4, <1>5, <1>6 DEF Operation

\* A request that makes a row is not known before it commits.
LEMMA CommitFacts ==
  ASSUME CatalogInv, NEW r \in Request, Commit(r)
  PROVE  /\ pc[r] = "written" /\ pc'[r] = "ok" /\ req' = req
         /\ \A q \in Request \ {r} : pc'[q] = pc[q]
         /\ pc' \in [Request -> {"idle"} \cup Running \cup Ended]
         /\ held'[r] = {} /\ \A q \in Request \ {r} : held'[q] = held[q]
         /\ held' \in [Request -> SUBSET Id]
         /\ req[r].op \in Operation /\ req[r].name \in Name
         /\ ~Known(r)
         /\ \A i : (Known(i) => Known(i)') /\ Born(i)' = Born(i)
<1>1. /\ pc[r] = "written" /\ pc'[r] = "ok" /\ req' = req
      /\ \A q \in Request \ {r} : pc'[q] = pc[q]
      /\ pc' \in [Request -> {"idle"} \cup Running \cup Ended]
      /\ held'[r] = {} /\ \A q \in Request \ {r} : held'[q] = held[q]
      /\ held' \in [Request -> SUBSET Id]
  BY DEF CatalogInv, Tables, Commit, Goto, Ended
<1> QED  BY <1>1, Disjoint DEF CatalogInv, RequestShape, Known, Born

\* What another transaction has locked is as it has found it.
LEMMA CommitLocks ==
  ASSUME CatalogInv, NEW r \in Request, Commit(r), NEW q \in Request \ {r}
  PROVE  /\ held'[q] = held[q] /\ Shares(q)' = Shares(q) /\ Entries(q)' = Entries(q)
         /\ Named(q)' = Named(q) /\ Wanted(q)' = Wanted(q)
         /\ (held[q] \cup Shares(q)) \cap (held[r] \cup Touched(r)) = {}
         /\ held[q] \cup Shares(q) \subseteq Rows'
         /\ held[q] \cap ProjectsOf(req[q].id) \subseteq ProjectsOf(req[q].id)'
         /\ req[q].op = "drop" /\ held[q] # {} =>
              ProjectsOf(req[q].id)' \subseteq ProjectsOf(req[q].id)
<1> USE Disjoint DEF CatalogInv
<1>1. /\ req' = req /\ pc[r] = "written" /\ ~Known(r) /\ pc'[q] = pc[q] /\ held'[q] = held[q]
  BY CommitFacts
<1>0. Published(r)
  BY CommitRows
<1>2. Shares(q)' = Shares(q) /\ Named(q)' = Named(q) /\ Wanted(q)' = Wanted(q)
  BY <1>1 DEF Shares, OrgOf, Named, Wanted
<1>3. r \notin Rows
  BY <1>1 DEF RowShape
<1>4. (held[q] \cup Shares(q)) \cap (held[r] \cup Touched(r)) = {}
  BY <1>3 DEF LocksApart, LocksOwned, Touched
<1>5. held[q] \cup Shares(q) \subseteq Rows'
  BY <1>4, <1>0 DEF Published, Gone, LocksOwned
<1>6. Entries(q)' = Entries(q)
  <2>1. \A i \in held[q] : EntryOf(i)' = EntryOf(i)
    BY <1>4, <1>5, <1>0 DEF Published, EntryOf
  <2> QED  BY <1>1, <1>2, <2>1 DEF Entries
<1>7. held[q] \cap ProjectsOf(req[q].id) \subseteq ProjectsOf(req[q].id)'
  BY <1>1, <1>5, <1>0 DEF Published, ProjectsOf
<1>8. ASSUME req[q].op = "drop", held[q] # {}, NEW p \in ProjectsOf(req[q].id)'
      PROVE  p \in ProjectsOf(req[q].id)
  <2>1. p \in Rows' /\ row'[p].kind = "project" /\ row'[p].parent = req[q].id
    BY <1>1, <1>8 DEF ProjectsOf
  <2>2. CASE p \in Rows
    BY <2>1, <2>2, <1>0 DEF Published, ProjectsOf
  <2>3. CASE p \notin Rows
    <3>1. req[r].op = "make" /\ p = r
      BY <2>1, <2>3, <1>0 DEF Published
    <3>2. req[r].kind = "project" /\ req[r].parent = req[q].id
      BY <2>1, <3>1, <1>0 DEF Published, Touched
    <3>3. req[q].id \in Shares(r)
      BY <1>1, <3>1, <3>2 DEF Shares, OrgOf
    <3>4. req[q].id \in held[q]
      BY <1>8 DEF LocksOwned
    <3> QED  BY <3>3, <3>4 DEF LocksApart
  <2> QED  BY <2>2, <2>3
<1> QED  BY <1>1, <1>2, <1>4, <1>5, <1>6, <1>7, <1>8

\* COMMIT publishes what the transaction has locked, and nothing else.
LEMMA CommitCatalog == ASSUME CatalogInv, NEW r \in Request, Commit(r) PROVE CatalogInv'
<1> USE Disjoint DEF CatalogInv
<1>1. /\ pc[r] = "written" /\ pc'[r] = "ok" /\ req' = req /\ ~Known(r)
      /\ \A q \in Request \ {r} : pc'[q] = pc[q]
      /\ req[r].op \in Operation
      /\ \A i : (Known(i) => Known(i)') /\ Born(i)' = Born(i)
  BY CommitFacts
<1>0. Published(r)
  BY CommitRows
<1>2. role' = [u \in User |-> [i \in Id |->
                 IF req[r].op = "make" /\ req[r].kind = "org" /\ i = r /\ u = req[r].actor
                   THEN "owner"
                 ELSE IF req[r].op = "drop" /\ i = req[r].id THEN "none"
                 ELSE role[u][i]]]
  BY DEF Commit
<1>3. audit' = IF req[r].op = "reveal" THEN audit \cup {[by |-> r, org |-> req[r].id]}
                                       ELSE audit
  BY DEF Commit
<1>4. Tables'
  <2>1. pc' \in [Request -> {"idle"} \cup Running \cup Ended]
    BY CommitFacts
  <2>2. row' \in [Rows' -> Row] /\ Rows' \subseteq Id
    BY <1>0 DEF Published, Tables, Id
  <2>3. role' \in [User -> [Id -> Role]]
    BY <1>2 DEF Tables, Role
  <2>4. audit' \subseteq [by : Request, org : Id]
    <3>1. req[r].op = "reveal" => req[r].id \in Id
      BY <1>1 DEF RequestShape, Known, Id
    <3> QED  BY <1>3, <3>1 DEF Tables
  <2>5. held' \in [Request -> SUBSET Id]
    BY CommitFacts
  <2> QED  BY <1>1, <2>1, <2>2, <2>3, <2>4, <2>5 DEF Tables
<1>5. RowShape'
  <2>1. ASSUME NEW i \in Rows'
        PROVE  Known(i)' /\ row'[i].kind = Born(i).kind /\ row'[i].parent = Born(i).parent
    <3>1. CASE i \in Rows
      BY <1>1, <2>1, <3>1, <1>0 DEF Published, RowShape
    <3>2. CASE i \notin Rows
      <4>1. i = r /\ req[r].op = "make"
        BY <2>1, <3>2, <1>0 DEF Published
      <4>2. row'[r].kind = req[r].kind /\ row'[r].parent = req[r].parent
        BY <2>1, <4>1, <1>0 DEF Published, Touched
      <4> QED  BY <1>1, <4>1, <4>2 DEF Born, Known
    <3> QED  BY <3>1, <3>2
  <2> QED  BY <1>1, <2>1 DEF RowShape
<1>6. RequestShape'
  BY <1>1 DEF RequestShape
<1>7. LocksOwned' /\ LocksApart' /\ EntriesApart'
  <2>1. held'[r] = {} /\ Shares(r)' = {} /\ Entries(r)' = {} /\ ~Named(r)'
    BY <1>1, CommitFacts DEF Shares, Entries, Named
  <2>2. \A q \in Request \ {r} :
          /\ held'[q] = held[q] /\ Shares(q)' = Shares(q) /\ Entries(q)' = Entries(q)
          /\ Named(q)' = Named(q) /\ Wanted(q)' = Wanted(q)
    BY CommitLocks
  <2>3. LocksApart'
    BY <2>1, <2>2 DEF LocksApart
  <2>4. LocksOwned'
    <3>1. ASSUME NEW q \in Request \ {r}
          PROVE  /\ held[q] \cup Shares(q) \subseteq Rows'
                 /\ held[q] # {} =>
                      held[q] \subseteq {req[q].id} \cup
                        (IF req[q].op = "drop" THEN ProjectsOf(req[q].id)' ELSE {})
      <4>1. /\ held[q] \cup Shares(q) \subseteq Rows'
            /\ held[q] \cap ProjectsOf(req[q].id) \subseteq ProjectsOf(req[q].id)'
        BY <3>1, CommitLocks
      <4> QED  BY <4>1 DEF LocksOwned
    <3>2. ASSUME NEW q \in Request \ {r}, pc[q] = "written", req[q].op = "drop"
          PROVE  /\ ProjectsOf(req[q].id)' \subseteq held[q]
                 /\ \A e \in audit' : e.org # req[q].id
      <4>1. req[q].id \in held[q] /\ ProjectsOf(req[q].id) \subseteq held[q]
        BY <3>2 DEF LocksOwned
      <4>2. ProjectsOf(req[q].id)' \subseteq ProjectsOf(req[q].id)
        BY <3>2, <4>1, CommitLocks
      <4>3. req[r].op = "reveal" => req[r].id \in Shares(r)
        BY <1>1 DEF Shares, OrgOf, RequestShape
      <4>4. \A e \in audit' : e.org # req[q].id
        BY <1>3, <3>2, <4>1, <4>3 DEF LocksOwned, LocksApart
      <4> QED  BY <4>1, <4>2, <4>4
    <3> QED  BY <1>1, <2>1, <2>2, <3>1, <3>2 DEF LocksOwned
  <2>5. EntriesApart'
    <3>1. ASSUME NEW q \in Request \ {r}, Named(q), NEW i \in TakenBy(q)' PROVE FALSE
      <4>1. i \in Rows' /\ i # req[q].id /\ EntryOf(i)' = Wanted(q)
        BY <1>1, <2>2, <3>1 DEF TakenBy
      <4>2. CASE i \in Touched(r)
        <5>1. req[r].op \in {"make", "rename"} /\ EntryOf(i)' = Wanted(r)
          BY <4>1, <4>2, <1>0 DEF Published, EntryOf, Wanted, Entry
        <5>2. Wanted(r) \in Entries(r)
          BY <1>1, <5>1 DEF Entries
        <5> QED  BY <3>1, <4>1, <5>1, <5>2 DEF EntriesApart
      <4>3. CASE i \notin Touched(r)
        <5>1. i \in Rows /\ EntryOf(i) = Wanted(q)
          BY <4>1, <4>3, <1>0 DEF Published, EntryOf
        <5> QED  BY <3>1, <4>1, <5>1 DEF EntriesApart, TakenBy
      <4> QED  BY <4>2, <4>3
    <3> QED  BY <2>1, <2>2, <3>1 DEF EntriesApart
  <2> QED  BY <2>3, <2>4, <2>5
<1>8. NamesUnique'
  <2>1. ASSUME NEW i \in Rows', NEW k \in Rows' \cap Touched(r),
               i # k, EntryOf(i)' = EntryOf(k)'
        PROVE  FALSE
    <3>1. k = req[r].id /\ req[r].op \in {"make", "rename"} /\ EntryOf(k)' = Wanted(r)
      BY <1>0 DEF Published, EntryOf, Wanted, Entry
    <3>2. i \in Rows /\ EntryOf(i) = Wanted(r)
      BY <2>1, <3>1, <1>0 DEF Published, EntryOf
    <3> QED  BY <1>1, <2>1, <3>1, <3>2 DEF EntriesApart, Named, TakenBy
  <2>2. ASSUME NEW i \in Rows' \ Touched(r), NEW k \in Rows' \ Touched(r),
               EntryOf(i)' = EntryOf(k)'
        PROVE  i = k
    <3>1. i \in Rows /\ k \in Rows /\ EntryOf(i) = EntryOf(k)
      BY <2>2, <1>0 DEF Published, EntryOf
    <3> QED  BY <3>1 DEF NamesUnique
  <2> QED  BY <2>1, <2>2 DEF NamesUnique
<1>9. NothingOutlivesItsOrg'
  <2>1. \A o \in Orgs : o \in Rows' => o \in Orgs'
    BY <1>0 DEF Published, Orgs
  <2>2. ASSUME NEW p \in Rows', row'[p].kind = "project" PROVE row'[p].parent \in Orgs'
    <3>1. CASE p \in Rows
      <4>1. row'[p].parent = row[p].parent /\ row[p].kind = "project" /\ row[p].parent \in Orgs
        BY <2>2, <3>1, <1>0 DEF Published, NothingOutlivesItsOrg
      <4>2. ASSUME row[p].parent \in Gone(r) PROVE FALSE
        <5>1. req[r].op = "drop" /\ row[p].parent = req[r].id
          BY <4>1, <4>2 DEF Gone, LocksOwned, ProjectsOf, Orgs
        <5>2. p \in Gone(r)
          BY <1>1, <3>1, <4>1, <5>1 DEF Gone, LocksOwned, ProjectsOf
        <5>3. r \notin Rows
          BY <1>1 DEF RowShape
        <5> QED  BY <2>2, <3>1, <5>2, <5>3, <1>0 DEF Published
      <4> QED  BY <2>1, <4>1, <4>2, <1>0 DEF Published, Orgs
    <3>2. CASE p \notin Rows
      <4>1. p = r /\ req[r].op = "make"
        BY <2>2, <3>2, <1>0 DEF Published
      <4>2. req[r].kind = "project" /\ row'[p].parent = req[r].parent
        BY <2>2, <4>1, <1>0 DEF Published, Touched
      <4>3. req[r].parent \in Rows
        BY <1>1, <4>1, <4>2 DEF LocksOwned, Shares, OrgOf
      <4>4. Born(req[r].parent).kind = "org"
        BY <4>2 DEF RequestShape
      <4> QED  BY <2>1, <4>1, <4>2, <4>3, <4>4, <1>0 DEF Published, RowShape, Orgs, Gone
    <3> QED  BY <3>1, <3>2
  <2>3. ASSUME NEW e \in audit' PROVE e.org \in Orgs'
    <3>1. CASE e \in audit
      <4>1. e.org \in Orgs
        BY <3>1 DEF NothingOutlivesItsOrg
      <4>2. e.org \notin Gone(r)
        BY <1>1, <3>1, <4>1 DEF Gone, LocksOwned, ProjectsOf, Orgs
      <4> QED  BY <2>1, <4>1, <4>2, <1>0 DEF Published, Orgs
    <3>2. CASE e \notin audit
      <4>1. req[r].op = "reveal" /\ e.org = req[r].id
        BY <1>3, <2>3, <3>2
      <4>2. req[r].id \in Rows /\ req[r].kind = "org"
        BY <1>1, <4>1 DEF LocksOwned, Shares, OrgOf, RequestShape
      <4>3. Born(req[r].id).kind = "org"
        <5>1. Born(req[r].id) = [kind |-> req[r].kind, parent |-> req[r].parent]
          BY <4>1 DEF RequestShape
        <5> QED  BY <4>2, <5>1
      <4> QED  BY <2>1, <4>1, <4>2, <4>3, <1>0 DEF Published, RowShape, Orgs, Gone
    <3> QED  BY <3>1, <3>2
  <2> QED  BY <2>2, <2>3 DEF NothingOutlivesItsOrg
<1>10. DropOkUnlessDemoted'
  <2>1. ASSUME NEW q \in Request, pc'[q] = "ok", req[q].op = "drop", req[q].id \in Rows'
        PROVE  RoleOf(q)' \notin AtLeast(Minimum(q))
    <3>1. /\ Known(req[q].id) /\ req[q].actor \in User
          /\ req[q].kind = "project" => Known(req[q].parent)
      BY <2>1 DEF RequestShape
    <3>2. q # r
      <4>1. q = r => req[q].id \in Gone(r) /\ req[q].id # r
        BY <1>1, <2>1, <3>1 DEF Gone, LocksOwned
      <4> QED  BY <2>1, <4>1, <1>0 DEF Published
    <3>3. req[q].id \in Rows
      BY <1>1, <2>1, <3>1, <1>0 DEF Published
    <3>4. RoleOf(q) \notin AtLeast(Minimum(q))
      BY <1>1, <2>1, <3>2, <3>3 DEF DropOkUnlessDemoted
    <3>5. OrgOf(q) # r /\ OrgOf(q) \in Id /\ OrgOf(q)' = OrgOf(q)
      BY <1>1, <3>1 DEF OrgOf, Known, Id
    <3>6. RoleOf(q)' = RoleOf(q) \/ RoleOf(q)' = "none"
      BY <1>1, <1>2, <3>1, <3>5 DEF RoleOf
    <3> QED  BY <3>4, <3>6 DEF AtLeast, Minimum
  <2> QED  BY <1>1, <2>1 DEF DropOkUnlessDemoted, Minimum, AtLeast
<1> QED  BY <1>4, <1>5, <1>6, <1>7, <1>8, <1>9, <1>10

\* Losing a role takes nothing from what has been locked or answered.
LEMMA DemoteCatalog ==
  ASSUME CatalogInv, NEW u \in User, NEW o \in Orgs, Demote(u, o)
  PROVE  CatalogInv'
<1> USE DEF CatalogInv
<1>1. /\ pc' = pc /\ req' = req /\ row' = row /\ audit' = audit /\ held' = held
      /\ Rows' = Rows
  BY DEF Demote, Rows
<1>2. PICK n \in Lower(role[u][o]) : role' = [role EXCEPT ![u][o] = n]
  BY DEF Demote
<1>0. role[u][o] \in Role /\ o \in Id
  BY DEF Tables, Orgs
<1>3. Tables'
  <2>1. role' \in [User -> [Id -> Role]]
    BY <1>0, <1>2 DEF Tables, Role, Lower
  <2> QED  BY <1>1, <2>1 DEF Tables
<1>4. \A i : Known(i)' = Known(i) /\ Born(i)' = Born(i)
  BY <1>1 DEF Known, Born
<1>5. RowShape' /\ RequestShape' /\ NamesUnique' /\ NothingOutlivesItsOrg'
  BY <1>1, <1>4 DEF RowShape, RequestShape, NamesUnique, EntryOf, NothingOutlivesItsOrg,
     Orgs
<1>6. LocksOwned' /\ LocksApart' /\ EntriesApart'
  <2>1. /\ \A i : ProjectsOf(i)' = ProjectsOf(i)
        /\ \A q \in Request :
             /\ Shares(q)' = Shares(q) /\ Named(q)' = Named(q) /\ TakenBy(q)' = TakenBy(q)
             /\ Entries(q)' = Entries(q) /\ Wanted(q)' = Wanted(q)
    <3>1. \A i : ProjectsOf(i)' = ProjectsOf(i)
      BY <1>1 DEF ProjectsOf
    <3> QED  BY <1>1, <3>1, LocksKept
  <2> QED  BY <1>1, <2>1 DEF CatalogInv, LocksOwned, LocksApart, EntriesApart
<1>7. DropOkUnlessDemoted'
  <2>1. ASSUME NEW q \in Request, pc[q] = "ok", req[q].op = "drop",
               RoleOf(q) \notin AtLeast(Minimum(q))
        PROVE  RoleOf(q)' \notin AtLeast(Minimum(q))
    <3>1. req[q].actor \in User /\ OrgOf(q) \in Id
      BY <2>1 DEF RequestShape, OrgOf, Known, Id
    <3>2. RoleOf(q)' = RoleOf(q) \/ RoleOf(q)' \in Lower(RoleOf(q))
      BY <1>0, <1>1, <1>2, <3>1 DEF RoleOf, OrgOf, Tables
    <3>3. RoleOf(q) \in Role
      BY <3>1 DEF RoleOf, Tables
    <3> QED  BY <2>1, <3>2, <3>3 DEF AtLeast, Minimum, Role, Lower
  <2> QED  BY <1>1, <2>1 DEF DropOkUnlessDemoted, Minimum, AtLeast
<1> QED  BY <1>3, <1>5, <1>6, <1>7

\* A step that changes nothing.
LEMMA StutterCatalog == CatalogInv /\ UNCHANGED vars => CatalogInv'
<1> SUFFICES ASSUME CatalogInv, UNCHANGED vars PROVE CatalogInv'
  OBVIOUS
<1>1. /\ pc' = pc /\ req' = req /\ row' = row /\ role' = role /\ audit' = audit
      /\ held' = held /\ Rows' = Rows
  BY DEF vars, Rows
<1>2. \A i : Known(i)' = Known(i) /\ Born(i)' = Born(i)
  BY <1>1 DEF Known, Born
<1>4. LocksOwned' /\ LocksApart' /\ EntriesApart'
  <2>1. /\ \A i : ProjectsOf(i)' = ProjectsOf(i)
        /\ \A q \in Request :
             /\ Shares(q)' = Shares(q) /\ Named(q)' = Named(q) /\ TakenBy(q)' = TakenBy(q)
             /\ Entries(q)' = Entries(q) /\ Wanted(q)' = Wanted(q)
    <3>1. \A i : ProjectsOf(i)' = ProjectsOf(i)
      BY <1>1 DEF ProjectsOf
    <3> QED  BY <1>1, <3>1, LocksKept
  <2> QED  BY <1>1, <2>1 DEF CatalogInv, LocksOwned, LocksApart, EntriesApart
<1>5. Tables' /\ RowShape' /\ RequestShape'
  BY <1>1, <1>2 DEF CatalogInv, Tables, RowShape, RequestShape
<1>6. NamesUnique' /\ NothingOutlivesItsOrg' /\ DropOkUnlessDemoted'
  BY <1>1 DEF CatalogInv, NamesUnique, EntryOf, NothingOutlivesItsOrg, Orgs,
              DropOkUnlessDemoted, RoleOf, OrgOf, Minimum
<1> QED  BY <1>4, <1>5, <1>6 DEF CatalogInv

---------------------------------------------------------------------------
(* The theorems.                                                           *)

\* In a deadlock everyone who is waited for waits.
LEMMA DeadlockHasRename == CatalogInv => OnlyRenamesDeadlock
<1> SUFFICES ASSUME CatalogInv, NEW S \in (SUBSET Request) \ {{}},
                    \A r \in S : Blockers(r) \cap S # {},
                    ~ \E r \in S : req[r].op = "rename"
             PROVE  FALSE
  BY DEF OnlyRenamesDeadlock
<1>0. S \subseteq Request /\ S # {}
  OBVIOUS
<1>a. \A r \in S : req[r].op # "rename"
  OBVIOUS
<1> USE DEF CatalogInv
<1>1. \A r \in S : pc[r] \in Waiting /\ Shares(r) = {}
  BY DEF Blockers, Waiting, Shares
<1>2. \A r \in S : held[r] # {} => pc[r] = "cascade"
  <2>1. \A r \in S : held[r] # {} =>
          pc[r] \in {"index", "cascade", "written"} /\ req[r].op = "drop"
    BY DEF LocksOwned
  <2> QED  BY <1>1, <2>1 DEF RequestShape, Waiting
<1>3. \A r \in S : pc[r] # "cascade"
  <2>1. ASSUME NEW r \in S, pc[r] = "cascade" PROVE FALSE
    <3>1. PICK q \in S : q \in Request \ {r} /\ Remaining(r) \cap held[q] # {}
      BY <2>1 DEF Blockers
    <3>2. PICK i : i \in Rows /\ row[i].kind = "project" /\ row[i].parent = req[r].id
                   /\ i \in held[q]
      BY <3>1 DEF Remaining, ProjectsOf
    <3>3. pc[q] = "cascade" /\ req[q].op = "drop" /\ req[q].kind = "org"
      BY <1>2, <3>1, <3>2 DEF RequestShape
    <3>4. req[q].id \in held[q] /\ req[r].id \in held[r] /\ held[q] \subseteq Rows
          /\ held[q] \subseteq {req[q].id} \cup ProjectsOf(req[q].id)
      BY <2>1, <3>2, <3>3 DEF LocksOwned, RequestShape
    <3>5. row[req[q].id].kind = "org"
      <4>1. Born(req[q].id) = [kind |-> req[q].kind, parent |-> req[q].parent]
        BY <3>3 DEF RequestShape
      <4> QED  BY <3>3, <3>4, <4>1 DEF RowShape
    <3>6. req[q].id = req[r].id
      BY <3>2, <3>4, <3>5 DEF ProjectsOf
    <3> QED  BY <3>1, <3>4, <3>6 DEF LocksApart
  <2> QED  BY <2>1
<1>4. \A r \in S : held[r] = {}
  BY <1>2, <1>3
<1>5. ASSUME NEW r \in S PROVE pc[r] = "index"
  <2>1. PICK q \in S : q \in Blockers(r)
    BY <1>5
  <2> QED  BY <1>1, <1>4, <2>1 DEF Blockers
<1>6. \A r \in S : Entries(r) = {}
  BY <1>4, <1>5 DEF Entries
<1>7. PICK r \in S : TRUE
  BY <1>0
<1>8. PICK q \in S : q \in Blockers(r)
  BY <1>7
<1> QED  BY <1>5, <1>6, <1>8 DEF Blockers

\* The invariant of users, organizations and projects holds in every state.
LEMMA CatalogInvariant == Spec => []CatalogInv
<1>1. CatalogInv /\ [Next]_vars => CatalogInv'
  <2> SUFFICES ASSUME CatalogInv, [Next]_vars PROVE CatalogInv'
    OBVIOUS
  <2>1. ASSUME NEW r \in Request, Arrive(r) PROVE CatalogInv'
    BY <2>1, ArriveCatalog
  <2>2. ASSUME NEW r \in Request, Advance(r) PROVE CatalogInv'
    BY <2>2, ReadCatalog, LockRowCatalog, AddEntryCatalog, ReferCatalog, CascadeCatalog,
       CommitCatalog DEF Advance
  <2>3. ASSUME NEW r \in Request, Victim(r) \/ Abort(r) PROVE CatalogInv'
    BY <2>3, EndCatalog
  <2>4. ASSUME NEW u \in User, NEW o \in Orgs, Demote(u, o) PROVE CatalogInv'
    BY <2>4, DemoteCatalog
  <2>5. CASE UNCHANGED vars
    BY <2>5, StutterCatalog
  <2> QED  BY <2>1, <2>2, <2>3, <2>4, <2>5 DEF Next
<1> QED  BY <1>1, InitCatalog, PTL DEF Spec

\* Every request has a next statement or an answer, rows have the columns of
\* their tables, and every membership is one of the four roles or none.
THEOREM CatalogTypes == Spec => []TypeOK
<1>1. CatalogInv => TypeOK
  BY DEF CatalogInv, Tables, Job, TypeOK
<1> QED  BY <1>1, CatalogInvariant, PTL

\* No e-mail address is registered twice, no slug taken twice, although the
\* services look for one in a snapshot that others outrun.
THEOREM NamesStayUnique == Spec => []NamesUnique
<1>1. CatalogInv => NamesUnique
  BY DEF CatalogInv
<1> QED  BY <1>1, CatalogInvariant, PTL

\* Deleting an organization takes its projects along, also those that are
\* created meanwhile, and fails if anything in it has been audited.
THEOREM NothingOutlives == Spec => []NothingOutlivesItsOrg
<1>1. CatalogInv => NothingOutlivesItsOrg
  BY DEF CatalogInv
<1> QED  BY <1>1, CatalogInvariant, PTL

\* A deletion that answers 204 without having deleted anything has lost the
\* race against the row or against its actor's role.
THEOREM DropsDelete == Spec => []DropOkUnlessDemoted
<1>1. CatalogInv => DropOkUnlessDemoted
  BY DEF CatalogInv
<1> QED  BY <1>1, CatalogInvariant, PTL

\* Whatever waits for whatever, PostgreSQL never has to end a transaction
\* unless somebody is giving a row another name.
THEOREM DeadlocksNeedRenames == Spec => []OnlyRenamesDeadlock
<1> QED  BY DeadlockHasRename, CatalogInvariant, PTL
=============================================================================
