------------------------ MODULE RefreshTokensProofs ------------------------
(***************************************************************************)
(* For any number of requests and users: rotation is atomic, a token that  *)
(* is revoked or expired when it is presented buys nothing, and a sweep    *)
(* revokes every token there was when its request began.                   *)
(***************************************************************************)
EXTENDS RefreshTokens, TLAPS

\* What a request can be doing at each statement, and what it presented.
RequestShape ==
  \A r \in Request :
    /\ pc[r] = "idle" => req[r] = Untouched
    /\ pc[r] # "idle" => req[r].op \in Operation /\ req[r].user \in User
    /\ pc[r] = "readUser" => req[r].op = "login"
    /\ pc[r] \in {"readToken", "revoke"} => req[r].op \in {"refresh", "logout"}
    /\ pc[r] \in {"checkUser", "revokeExpired"} => req[r].op = "refresh"
    /\ pc[r] \in {"revokeAll", "applyAll"} => req[r].op \in {"refresh", "logoutAll"}
    /\ pc[r] = "issue" => req[r].op \in {"login", "refresh"}
    /\ req[r].op \in {"refresh", "logout"} =>
         req[r].token \in tokens /\ req[r].user = OwnerOf(req[r].token)
    /\ r \in tokens => pc[r] = "ok" /\ req[r].op \in {"login", "refresh"}

\* A row lock is a revocation waiting for its commit: its holder is about to
\* issue the successor, nobody else holds it and nobody has revoked the row.
LockShape ==
  \A r \in Request :
    /\ locked[r] # None =>
         /\ pc[r] = "issue" /\ req[r].op = "refresh" /\ locked[r] = req[r].token
         /\ locked[r] \notin revoked
         /\ \A q \in Request \ {r} : locked[q] # locked[r]
    /\ pc[r] = "issue" /\ req[r].op = "refresh" =>
         req[r].token = locked[r] \/ req[r].token \in revoked

\* A request that had to be refused when it began is still on its way to be:
\* what barred it cannot be undone before the statement that looks at it.
BarredShape ==
  \A r \in barred :
    /\ pc[r] # "idle" /\ r \notin tokens
    /\ req[r].op = "login" => pc[r] # "issue" /\ (pc[r] = "readUser" => req[r].user \notin active)
    /\ req[r].op = "refresh" =>
         /\ pc[r] \notin {"revoke", "issue"}
         /\ pc[r] = "readToken" =>
              req[r].user \notin active \/ req[r].token \in revoked \cup expired
         /\ pc[r] = "checkUser" => req[r].user \notin active

\* What a request knew at its start is a set of its user's tokens, and those
\* its sweep has not found are revoked.  A refresh is refused for an expired
\* token or after a sweep.
SweepShape ==
  \A r \in Request :
    /\ known[r] \subseteq TokensOf(req[r].user)
    /\ pc[r] = "applyAll" => known[r] \subseteq revoked \cup sweep[r]
    /\ sweep[r] \subseteq tokens
    /\ pc[r] = "revokeExpired" => req[r].token \in expired
    /\ pc[r] = "refused" /\ req[r].op = "refresh" =>
         req[r].token \in expired \/ known[r] \subseteq revoked

SessionInv ==
  /\ TypeOK /\ RequestShape /\ LockShape /\ BarredShape /\ SweepShape
  /\ SuccessorRevokesParent /\ SweepComplete

\* At the start there is no request and no token.
LEMMA InitSession == Init => SessionInv
<1> SUFFICES ASSUME Init PROVE SessionInv
  OBVIOUS
<1> USE NoneAssumption
<1>1. TypeOK
  BY DEF Init, TypeOK, Untouched
<1>2. \A r \in Request : pc[r] = "idle" /\ req[r] = Untouched /\ locked[r] = None
                        /\ sweep[r] = {} /\ known[r] = {}
  BY DEF Init
<1>3. tokens = {} /\ barred = {}
  BY DEF Init
<1>4. Untouched.op = "none"
  BY DEF Untouched
<1>5. RequestShape
  BY <1>2, <1>3, <1>4 DEF RequestShape
<1>6. LockShape
  BY <1>2 DEF LockShape
<1>7. BarredShape
  BY <1>3 DEF BarredShape
<1>8. SweepShape
  BY <1>2 DEF SweepShape
<1>9. SuccessorRevokesParent
  BY <1>3 DEF SuccessorRevokesParent
<1>10. SweepComplete
  BY <1>2 DEF SweepComplete
<1> QED  BY <1>1, <1>5, <1>6, <1>7, <1>8, <1>9, <1>10 DEF SessionInv

\* The four ways a request begins.
Begins(op, u, t, label) ==
  \/ op = "login" /\ t = None /\ label = "readUser"
  \/ op \in {"refresh", "logout"} /\ t \in tokens /\ u = OwnerOf(t) /\ label = "readToken"
  \/ op = "logoutAll" /\ t = None /\ u \in active /\ label = "revokeAll"

\* A request begins idle, so no token, lock or sweep is its own.
LEMMA BeginSession ==
  ASSUME SessionInv, NEW r \in Request, NEW op, NEW u \in User, NEW t, NEW label,
         Begins(op, u, t, label), Begin(r, op, u, t, label)
  PROVE  SessionInv'
<1> USE NoneAssumption DEF SessionInv
<1>1. TypeOK'
  BY DEF Begins, Begin, Goto, world, TypeOK, Running, Operation, TokensOf
<1>2. RequestShape'
  BY DEF Begins, Begin, Goto, TypeOK, RequestShape, Operation, OwnerOf
<1>3. LockShape'
  BY DEF Begins, Begin, Goto, LockShape
<1>4. BarredShape'
  BY DEF Begins, Begin, Goto, world, TypeOK, RequestShape, BarredShape
<1>5. SweepShape'
  BY DEF Begins, Begin, Goto, world, TypeOK, RequestShape, SweepShape, TokensOf, OwnerOf
<1>6. SuccessorRevokesParent'
  BY DEF Begins, Begin, Goto, RequestShape, SuccessorRevokesParent
<1>7. SweepComplete'
  BY DEF Begins, Begin, Goto, world, SweepComplete
<1> QED  BY <1>1, <1>2, <1>3, <1>4, <1>5, <1>6, <1>7

\* The three actions by which requests arrive.
LEMMA ArriveSession == ASSUME SessionInv, NEW r \in Request, Arrive(r) PROVE SessionInv'
<1>1. CASE BeginLogin(r)
  BY <1>1, BeginSession DEF BeginLogin, Begins
<1>2. CASE BeginWithToken(r)
  <2>1. \A t \in tokens : OwnerOf(t) \in User
    BY DEF SessionInv, RequestShape, TypeOK, OwnerOf
  <2> QED  BY <1>2, <2>1, BeginSession DEF BeginWithToken, Begins
<1>3. CASE BeginLogoutAll(r)
  <2>1. active \subseteq User
    BY DEF SessionInv, TypeOK
  <2> QED  BY <1>3, <2>1, BeginSession DEF BeginLogoutAll, Begins
<1> QED  BY <1>1, <1>2, <1>3 DEF Arrive

\* login: an inactive user's request ends here.
LEMMA ReadUserSession ==
  ASSUME SessionInv, NEW r \in Request, ReadUser(r)
  PROVE  SessionInv'
<1> USE NoneAssumption DEF SessionInv
<1>1. TypeOK'
  BY DEF ReadUser, Reads, Goto, world, history, TypeOK, Running, Ended
<1>2. RequestShape'
  BY DEF ReadUser, Reads, Goto, RequestShape, OwnerOf
<1>3. LockShape'
  BY DEF ReadUser, Reads, Goto, RequestShape, LockShape
<1>4. BarredShape'
  BY DEF ReadUser, Reads, Goto, world, history, RequestShape, BarredShape
<1>5. SweepShape'
  BY DEF ReadUser, Reads, Goto, world, history, RequestShape, SweepShape, TokensOf,
     OwnerOf
<1>6. SuccessorRevokesParent'
  BY DEF ReadUser, Reads, Goto, SuccessorRevokesParent
<1>7. SweepComplete'
  BY DEF ReadUser, Reads, Goto, world, history, RequestShape, SweepComplete
<1> QED  BY <1>1, <1>2, <1>3, <1>4, <1>5, <1>6, <1>7

\* A revoked token leads to the sweep, an expired one to its revocation.
LEMMA ReadTokenSession ==
  ASSUME SessionInv, NEW r \in Request, ReadToken(r)
  PROVE  SessionInv'
<1> USE NoneAssumption DEF SessionInv
<1>1. TypeOK'
  BY DEF ReadToken, Reads, Goto, world, history, TypeOK, Running, Ended
<1>2. RequestShape'
  BY DEF ReadToken, Reads, Goto, TypeOK, RequestShape, OwnerOf
<1>3. LockShape'
  BY DEF ReadToken, Reads, Goto, TypeOK, LockShape
<1>4. BarredShape'
  BY DEF ReadToken, Reads, Goto, world, history, TypeOK, BarredShape
<1>5. SweepShape'
  BY DEF ReadToken, Reads, Goto, world, history, TypeOK, SweepShape, TokensOf, OwnerOf
<1>6. SuccessorRevokesParent'
  BY DEF ReadToken, Reads, Goto, SuccessorRevokesParent
<1>7. SweepComplete'
  BY DEF ReadToken, Reads, Goto, world, history, TypeOK, SweepComplete
<1> QED  BY <1>1, <1>2, <1>3, <1>4, <1>5, <1>6, <1>7

\* refresh: an inactive user's request is turned into a sweep.
LEMMA CheckUserSession ==
  ASSUME SessionInv, NEW r \in Request, CheckUser(r)
  PROVE  SessionInv'
<1> USE NoneAssumption DEF SessionInv
<1>1. TypeOK'
  BY DEF CheckUser, Reads, Goto, world, history, TypeOK, Running
<1>2. RequestShape'
  BY DEF CheckUser, Reads, Goto, RequestShape, OwnerOf
<1>3. LockShape'
  BY DEF CheckUser, Reads, Goto, LockShape
<1>4. BarredShape'
  BY DEF CheckUser, Reads, Goto, world, history, BarredShape
<1>5. SweepShape'
  BY DEF CheckUser, Reads, Goto, world, history, SweepShape, TokensOf, OwnerOf
<1>6. SuccessorRevokesParent'
  BY DEF CheckUser, Reads, Goto, SuccessorRevokesParent
<1>7. SweepComplete'
  BY DEF CheckUser, Reads, Goto, world, history, SweepComplete
<1> QED  BY <1>1, <1>2, <1>3, <1>4, <1>5, <1>6, <1>7

\* The row lock is taken, or the row is found revoked.
LEMMA RevokeSession ==
  ASSUME SessionInv, NEW r \in Request, Revoke(r)
  PROVE  SessionInv'
<1> USE NoneAssumption DEF SessionInv
<1>1. TypeOK'
  <2>1. req[r].token \in tokens /\ tokens \subseteq Request
    BY DEF Revoke, TypeOK, RequestShape
  <2>2. CASE req[r].op = "refresh"
    BY <2>1, <2>2 DEF Revoke, Goto, world, history, TypeOK, Running
  <2>3. CASE req[r].op = "logout"
    BY <2>1, <2>3 DEF Revoke, Goto, world, history, TypeOK, Ended
  <2> QED  BY <2>2, <2>3 DEF Revoke
<1>2. RequestShape'
  BY DEF Revoke, Goto, TypeOK, RequestShape, OwnerOf
<1>3. LockShape'
  BY DEF Revoke, LockedByOther, Goto, TypeOK, LockShape
<1>4. BarredShape'
  BY DEF Revoke, Goto, world, history, TypeOK, BarredShape
<1>5. SweepShape'
  BY DEF Revoke, Goto, world, history, TypeOK, SweepShape, TokensOf, OwnerOf
<1>6. SuccessorRevokesParent'
  BY DEF Revoke, Goto, SuccessorRevokesParent
<1>7. SweepComplete'
  BY DEF Revoke, Goto, world, history, TypeOK, SweepShape, SweepComplete
<1> QED  BY <1>1, <1>2, <1>3, <1>4, <1>5, <1>6, <1>7

\* The expired row is revoked when nobody holds it.
LEMMA RevokeExpiredSession ==
  ASSUME SessionInv, NEW r \in Request, RevokeExpired(r)
  PROVE  SessionInv'
<1> USE NoneAssumption DEF SessionInv
<1>1. TypeOK'
  BY DEF RevokeExpired, Goto, world, history, TypeOK, RequestShape, Ended
<1>2. RequestShape'
  BY DEF RevokeExpired, Goto, RequestShape, OwnerOf
<1>3. LockShape'
  BY DEF RevokeExpired, LockedByOther, Goto, LockShape
<1>4. BarredShape'
  BY DEF RevokeExpired, Goto, world, history, BarredShape
<1>5. SweepShape'
  BY DEF RevokeExpired, Goto, world, history, SweepShape, TokensOf, OwnerOf
<1>6. SuccessorRevokesParent'
  BY DEF RevokeExpired, Goto, SuccessorRevokesParent
<1>7. SweepComplete'
  BY DEF RevokeExpired, Goto, world, history, SweepShape, SweepComplete
<1> QED  BY <1>1, <1>2, <1>3, <1>4, <1>5, <1>6, <1>7

\* The successor and the revocation of its parent are committed together.
LEMMA IssueSession ==
  ASSUME SessionInv, NEW r \in Request, Issue(r)
  PROVE  SessionInv'
<1> USE NoneAssumption DEF SessionInv
<1>1. TypeOK'
  BY DEF Issue, Goto, world, history, TypeOK, RequestShape, LockShape, Ended
<1>2. RequestShape'
  BY DEF Issue, Goto, TypeOK, RequestShape, OwnerOf
<1>3. LockShape'
  BY DEF Issue, Goto, TypeOK, LockShape
<1>4. BarredShape'
  BY DEF Issue, Goto, world, history, RequestShape, BarredShape
<1>5. SweepShape'
  BY DEF Issue, Goto, world, history, SweepShape, TokensOf, OwnerOf
<1>6. SuccessorRevokesParent'
  BY DEF Issue, Goto, TypeOK, RequestShape, LockShape, SuccessorRevokesParent
<1>7. SweepComplete'
  BY DEF Issue, Goto, world, history, RequestShape, SweepShape, SweepComplete
<1> QED  BY <1>1, <1>2, <1>3, <1>4, <1>5, <1>6, <1>7

\* What the sweep's snapshot does not find active is revoked already.
LEMMA RevokeAllSession ==
  ASSUME SessionInv, NEW r \in Request, RevokeAll(r)
  PROVE  SessionInv'
<1> USE NoneAssumption DEF SessionInv
<1>1. TypeOK'
  BY DEF RevokeAll, ActiveOf, Goto, world, history, TypeOK, Running, TokensOf
<1>2. RequestShape'
  BY DEF RevokeAll, ActiveOf, Goto, RequestShape, OwnerOf
<1>3. LockShape'
  BY DEF RevokeAll, ActiveOf, Goto, LockShape
<1>4. BarredShape'
  BY DEF RevokeAll, ActiveOf, Goto, world, history, BarredShape
<1>5. SweepShape'
  BY DEF RevokeAll, ActiveOf, Goto, world, history, TypeOK, SweepShape, TokensOf, OwnerOf
<1>6. SuccessorRevokesParent'
  BY DEF RevokeAll, ActiveOf, Goto, SuccessorRevokesParent
<1>7. SweepComplete'
  BY DEF RevokeAll, ActiveOf, Goto, world, history, SweepComplete
<1> QED  BY <1>1, <1>2, <1>3, <1>4, <1>5, <1>6, <1>7

\* The sweep's rows are revoked when nobody holds them.
LEMMA ApplyAllSession ==
  ASSUME SessionInv, NEW r \in Request, ApplyAll(r)
  PROVE  SessionInv'
<1> USE NoneAssumption DEF SessionInv
<1>1. TypeOK'
  BY DEF ApplyAll, Goto, world, history, TypeOK, SweepShape, Ended
<1>2. RequestShape'
  BY DEF ApplyAll, Goto, RequestShape, OwnerOf
<1>3. LockShape'
  BY DEF ApplyAll, LockedByOther, Goto, LockShape
<1>4. BarredShape'
  BY DEF ApplyAll, Goto, world, history, BarredShape
<1>5. SweepShape'
  BY DEF ApplyAll, Goto, world, history, SweepShape, TokensOf, OwnerOf
<1>6. SuccessorRevokesParent'
  BY DEF ApplyAll, Goto, SuccessorRevokesParent
<1>7. SweepComplete'
  BY DEF ApplyAll, Goto, world, history, SweepShape, SweepComplete
<1> QED  BY <1>1, <1>2, <1>3, <1>4, <1>5, <1>6, <1>7

\* A rollback releases the lock and forgets the sweep.
LEMMA AbortSession ==
  ASSUME SessionInv, NEW r \in Request, Abort(r)
  PROVE  SessionInv'
<1> USE NoneAssumption DEF SessionInv
<1>1. TypeOK'
  BY DEF Abort, Goto, world, history, TypeOK, Ended
<1>2. RequestShape'
  BY DEF Abort, Goto, RequestShape, Running, OwnerOf
<1>3. LockShape'
  BY DEF Abort, Goto, TypeOK, LockShape
<1>4. BarredShape'
  BY DEF Abort, Goto, world, history, BarredShape
<1>5. SweepShape'
  BY DEF Abort, Goto, world, history, TypeOK, SweepShape, TokensOf, OwnerOf
<1>6. SuccessorRevokesParent'
  BY DEF Abort, Goto, SuccessorRevokesParent
<1>7. SweepComplete'
  BY DEF Abort, Goto, world, history, SweepComplete
<1> QED  BY <1>1, <1>2, <1>3, <1>4, <1>5, <1>6, <1>7

\* Expiry can only bar more.
LEMMA ExpireSession ==
  ASSUME SessionInv, NEW t \in Request, Expire(t)
  PROVE  SessionInv'
<1> USE NoneAssumption DEF SessionInv
<1>1. TypeOK'
  BY DEF Expire, history, TypeOK
<1>2. RequestShape'
  BY DEF Expire, RequestShape, OwnerOf
<1>3. LockShape'
  BY DEF Expire, LockShape
<1>4. BarredShape'
  BY DEF Expire, history, BarredShape
<1>5. SweepShape'
  BY DEF Expire, history, SweepShape, TokensOf, OwnerOf
<1>6. SuccessorRevokesParent'
  BY DEF Expire, SuccessorRevokesParent
<1>7. SweepComplete'
  BY DEF Expire, history, SweepComplete
<1> QED  BY <1>1, <1>2, <1>3, <1>4, <1>5, <1>6, <1>7

\* So can a deactivation.
LEMMA DeactivateSession ==
  ASSUME SessionInv, NEW u \in User, Deactivate(u)
  PROVE  SessionInv'
<1> USE NoneAssumption DEF SessionInv
<1>1. TypeOK'
  BY DEF Deactivate, history, TypeOK
<1>2. RequestShape'
  BY DEF Deactivate, RequestShape, OwnerOf
<1>3. LockShape'
  BY DEF Deactivate, LockShape
<1>4. BarredShape'
  BY DEF Deactivate, history, BarredShape
<1>5. SweepShape'
  BY DEF Deactivate, history, SweepShape, TokensOf, OwnerOf
<1>6. SuccessorRevokesParent'
  BY DEF Deactivate, SuccessorRevokesParent
<1>7. SweepComplete'
  BY DEF Deactivate, history, SweepComplete
<1> QED  BY <1>1, <1>2, <1>3, <1>4, <1>5, <1>6, <1>7

\* Nothing changes.
LEMMA StutterSession ==
  ASSUME SessionInv, UNCHANGED vars
  PROVE  SessionInv'
<1> USE NoneAssumption DEF SessionInv
<1>1. TypeOK'
  BY DEF vars, TypeOK
<1>2. RequestShape'
  BY DEF vars, RequestShape, OwnerOf
<1>3. LockShape'
  BY DEF vars, LockShape
<1>4. BarredShape'
  BY DEF vars, BarredShape
<1>5. SweepShape'
  BY DEF vars, SweepShape, TokensOf, OwnerOf
<1>6. SuccessorRevokesParent'
  BY DEF vars, SuccessorRevokesParent
<1>7. SweepComplete'
  BY DEF vars, SweepComplete
<1> QED  BY <1>1, <1>2, <1>3, <1>4, <1>5, <1>6, <1>7

\* Every step preserves the invariant.
LEMMA StepSession == SessionInv /\ [Next]_vars => SessionInv'
  BY ArriveSession, ReadUserSession, ReadTokenSession, CheckUserSession, RevokeSession,
     RevokeExpiredSession, IssueSession, RevokeAllSession, ApplyAllSession, AbortSession,
     ExpireSession, DeactivateSession, StutterSession DEF Next, Step

\* The invariant the theorems rest on.
LEMMA SessionInvariant == Spec => []SessionInv
  BY InitSession, StepSession, PTL DEF Spec

\* Type correctness.
THEOREM SessionTypes == Spec => []TypeOK
<1>1. SessionInv => TypeOK
  BY DEF SessionInv
<1> QED  BY SessionInvariant, <1>1, PTL

\* Rotation is atomic for every interleaving of any number of requests: no
\* successor is committed without the revocation of its parent.
THEOREM RotationIsAtomic == Spec => []SuccessorRevokesParent
<1>1. SessionInv => SuccessorRevokesParent
  BY DEF SessionInv
<1> QED  BY SessionInvariant, <1>1, PTL

\* A request that begins with a revoked or expired token, or for an inactive
\* user, is never answered with a token pair.
THEOREM BarredGetNothing == Spec => []BarredNeverIssued
<1>1. SessionInv => BarredNeverIssued
  BY DEF SessionInv, BarredShape, BarredNeverIssued
<1> QED  BY SessionInvariant, <1>1, PTL

\* logout_all and the reuse of a revoked token leave no token usable that
\* the user had when the request began, whatever rotates meanwhile.
THEOREM SweepsRevokeAll == Spec => []SweepComplete
<1>1. SessionInv => SweepComplete
  BY DEF SessionInv
<1> QED  BY SessionInvariant, <1>1, PTL
=============================================================================
