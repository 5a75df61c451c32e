--------------------------- MODULE RefreshTokens ---------------------------
(***************************************************************************)
(* Sessions of EnvVault: AuthService over the table refresh_tokens.        *)
(*                                                                         *)
(* Every HTTP request is one READ COMMITTED transaction; requests          *)
(* interleave at every awaited statement.  A token is named after the      *)
(* login or refresh that issues it.  A refresh token that was never issued *)
(* and a password that does not match are refused by the first read and    *)
(* change nothing; they are left out.                                      *)
(***************************************************************************)
EXTENDS Naturals

CONSTANTS
  Request,   \* requests, and the tokens they issue
  User,
  None

ASSUME NoneAssumption == None \notin Request /\ None \notin User

VARIABLES
  pc,       \* the next statement of each request, or how it ended
  req,      \* operation, user and presented token
  tokens,   \* committed refresh_tokens
  revoked,  \* committed tokens with revoked_at
  expired,  \* tokens whose expires_at has passed
  active,   \* users with is_active
  locked,   \* token each transaction has revoked and not committed yet
  sweep,    \* the rows a running revoke_all_for_user has found
  known,    \* history: the user's tokens committed when a request began
  barred    \* history: requests that had to be refused when they began

vars == <<pc, req, tokens, revoked, expired, active, locked, sweep, known, barred>>
history == <<known, barred>>
world == <<expired, active>>

Operation == {"login", "refresh", "logout", "logoutAll"}
Running == {"readUser", "readToken", "checkUser", "revoke", "revokeExpired",
            "revokeAll", "applyAll", "issue"}
Ended == {"ok", "refused", "aborted"}
Untouched == [op |-> "none", user |-> None, token |-> None]

OwnerOf(t) == req[t].user
TokensOf(u) == {t \in tokens : OwnerOf(t) = u}
ActiveUnlockedOf(u) ==            \* mutant: rows locked by others are skipped
  {t \in TokensOf(u) \ revoked : \A q \in Request : locked[q] # t}
ActiveOf(u) == TokensOf(u) \ revoked
LockedByOther(r, t) == \E q \in Request \ {r} : locked[q] = t

Goto(r, label) == pc' = [pc EXCEPT ![r] = label]
Reads(r, label) ==
  Goto(r, label) /\ UNCHANGED <<req, tokens, revoked, world, locked, sweep, history>>

---------------------------------------------------------------------------
(* A request arrives, naming tokens that were answered to some client.     *)

Begin(r, op, u, t, label) ==
  /\ pc[r] = "idle"
  /\ req' = [req EXCEPT ![r] = [op |-> op, user |-> u, token |-> t]]
  /\ known' = [known EXCEPT ![r] = TokensOf(u)]
  /\ barred' = IF u \notin active \/ t \in revoked \cup expired
                 THEN barred \cup {r} ELSE barred
  /\ Goto(r, label)
  /\ UNCHANGED <<tokens, revoked, world, locked, sweep>>

BeginLogin(r) == \E u \in User : Begin(r, "login", u, None, "readUser")

BeginWithToken(r) ==
  \E t \in tokens :
    \/ Begin(r, "refresh", OwnerOf(t), t, "readToken")
    \/ Begin(r, "logout", OwnerOf(t), t, "readToken")

\* get_current_user has just found the user active.
BeginLogoutAll(r) ==
  \E u \in active : Begin(r, "logoutAll", u, None, "revokeAll")

---------------------------------------------------------------------------
(* login                                                                   *)

ReadUser(r) ==
  /\ pc[r] = "readUser"
  /\ Reads(r, IF req[r].user \in active THEN "issue" ELSE "refused")

---------------------------------------------------------------------------
(* refresh and logout                                                      *)

\* mutant: revoked_at is not looked at
ReadTokenBlindly(r) ==
  /\ pc[r] = "readToken"
  /\ Reads(r, IF req[r].op = "logout" THEN "revoke" ELSE "checkUser")

\* get_by_token_hash, and the tests of the row it returned
ReadToken(r) ==
  LET t == req[r].token
  IN  /\ pc[r] = "readToken"
      /\ \/ /\ req[r].op = "logout"
            /\ Reads(r, IF t \in revoked THEN "ok" ELSE "revoke")
         \/ /\ req[r].op = "refresh"
            /\ Reads(r, IF t \in revoked THEN "revokeAll"
                        ELSE IF t \in expired THEN "revokeExpired" ELSE "checkUser")

CheckUser(r) ==
  /\ pc[r] = "checkUser"
  /\ Reads(r, IF req[r].user \in active THEN "revoke" ELSE "revokeAll")

\* revoke(): UPDATE ... WHERE id AND revoked_at IS NULL.  It waits for the
\* transaction that holds the row, then looks at the row again; whether a
\* row was changed is not asked.  logout commits right after it.
Revoke(r) ==
  LET t == req[r].token
  IN  /\ pc[r] = "revoke"
      /\ ~LockedByOther(r, t)
      /\ \/ /\ req[r].op = "refresh"
            /\ locked' = [locked EXCEPT ![r] = IF t \in revoked THEN None ELSE t]
            /\ Goto(r, "issue")
            /\ UNCHANGED revoked
         \/ /\ req[r].op = "logout"
            /\ revoked' = revoked \cup {t}
            /\ Goto(r, "ok")
            /\ UNCHANGED locked
      /\ UNCHANGED <<req, tokens, world, sweep, history>>

RevokeExpired(r) ==
  /\ pc[r] = "revokeExpired"
  /\ ~LockedByOther(r, req[r].token)
  /\ revoked' = revoked \cup {req[r].token}
  /\ Goto(r, "refused")
  /\ UNCHANGED <<req, tokens, world, locked, sweep, history>>

\* mutant: the new pair is committed without the revocation
IssueOnly(r) ==
  /\ pc[r] = "issue"
  /\ tokens' = tokens \cup {r}
  /\ locked' = [locked EXCEPT ![r] = None]
  /\ Goto(r, "ok")
  /\ UNCHANGED <<req, revoked, world, sweep, history>>

\* mutant: a login revokes a token it was not given
IssueRevokingNone(r) ==
  /\ pc[r] = "issue"
  /\ tokens' = tokens \cup {r}
  /\ revoked' = revoked \cup {locked[r]}
  /\ locked' = [locked EXCEPT ![r] = None]
  /\ Goto(r, "ok")
  /\ UNCHANGED <<req, world, sweep, history>>

\* _issue_token_pair: the INSERT and the COMMIT, which publishes the
\* revocation of the presented token too.
Issue(r) ==
  /\ pc[r] = "issue"
  /\ tokens' = tokens \cup {r}
  /\ revoked' = revoked \cup ({locked[r]} \ {None})
  /\ locked' = [locked EXCEPT ![r] = None]
  /\ Goto(r, "ok")
  /\ UNCHANGED <<req, world, sweep, history>>

---------------------------------------------------------------------------
(* revoke_all_for_user: the UPDATE finds the rows in the snapshot it starts *)
(* with, waits for those another transaction holds, and is committed.      *)

RevokeAll(r) ==
  /\ pc[r] = "revokeAll"
  /\ sweep' = [sweep EXCEPT ![r] = ActiveOf(req[r].user)]
  /\ Goto(r, "applyAll")
  /\ UNCHANGED <<req, tokens, revoked, world, locked, history>>

ApplyAll(r) ==
  /\ pc[r] = "applyAll"
  /\ \A t \in sweep[r] : ~LockedByOther(r, t)
  /\ revoked' = revoked \cup sweep[r]
  /\ sweep' = [sweep EXCEPT ![r] = {}]
  /\ Goto(r, IF req[r].op = "logoutAll" THEN "ok" ELSE "refused")
  /\ UNCHANGED <<req, tokens, world, locked, history>>

---------------------------------------------------------------------------
(* The rest of the world.                                                  *)

\* mutant: the session is never closed, its row stays locked
AbortWithoutRollback(r) ==
  /\ pc[r] \in Running
  /\ sweep' = [sweep EXCEPT ![r] = {}]
  /\ Goto(r, "aborted")
  /\ UNCHANGED <<req, tokens, revoked, world, locked, history>>

\* The request is cut off and its transaction rolled back.
Abort(r) ==
  /\ pc[r] \in Running
  /\ locked' = [locked EXCEPT ![r] = None]
  /\ sweep' = [sweep EXCEPT ![r] = {}]
  /\ Goto(r, "aborted")
  /\ UNCHANGED <<req, tokens, revoked, world, history>>

\* A token outlives its expires_at.
Expire(t) ==
  /\ t \in tokens \ expired
  /\ expired' = expired \cup {t}
  /\ UNCHANGED <<pc, req, tokens, revoked, active, locked, sweep, history>>

\* An operator clears is_active; no endpoint does.
Deactivate(u) ==
  /\ u \in active
  /\ active' = active \ {u}
  /\ UNCHANGED <<pc, req, tokens, revoked, expired, locked, sweep, history>>

Init ==
  /\ pc = [r \in Request |-> "idle"]
  /\ req = [r \in Request |-> Untouched]
  /\ tokens = {} /\ revoked = {} /\ expired = {}
  /\ active = User
  /\ locked = [r \in Request |-> None]
  /\ sweep = [r \in Request |-> {}]
  /\ known = [r \in Request |-> {}]
  /\ barred = {}

Arrive(r) == BeginLogin(r) \/ BeginWithToken(r) \/ BeginLogoutAll(r)

Step(r) ==
  \/ ReadUser(r) \/ ReadToken(r) \/ CheckUser(r) \/ Revoke(r) \/ RevokeExpired(r)
  \/ Issue(r) \/ RevokeAll(r) \/ ApplyAll(r)

Next ==
  \/ \E r \in Request : Arrive(r) \/ Step(r) \/ Abort(r)
  \/ \E t \in Request : Expire(t)
  \/ \E u \in User : Deactivate(u)

\* The event loop schedules every request; PostgreSQL ends a lock wait when
\* the holder's transaction has ended.
Fairness == \A r \in Request : WF_vars(Step(r))

Spec == Init /\ [][Next]_vars
FairSpec == Spec /\ Fairness

---------------------------------------------------------------------------
(* Properties.                                                             *)

\* Type invariant; a revoked or expired row is a row.
TypeOK ==
  /\ pc \in [Request -> Running \cup Ended \cup {"idle"}]
  /\ req \in [Request -> [op : Operation \cup {"none"}, user : User \cup {None},
                          token : Request \cup {None}]]
  /\ tokens \subseteq Request /\ revoked \subseteq tokens /\ expired \subseteq tokens
  /\ active \subseteq User
  /\ locked \in [Request -> Request \cup {None}]
  /\ sweep \in [Request -> SUBSET Request]
  /\ known \in [Request -> SUBSET Request]
  /\ barred \subseteq Request

\* Rotation is atomic: once a successor is committed, the token it was issued
\* for is revoked, whatever aborts or overtakes the refresh.
SuccessorRevokesParent ==
  \A t \in tokens : req[t].op = "refresh" => req[t].token \in revoked

\* A request that begins with a revoked or expired token, or for an inactive
\* user, never obtains a token pair.
BarredNeverIssued == tokens \cap barred = {}

\* When a sweep is over (logout_all, reuse of a token that was revoked when
\* it was presented) every token of the user that was committed when the
\* request began is revoked, also those other requests were rotating; and a
\* logout has revoked its token.
SweepComplete ==
  \A r \in Request :
    /\ pc[r] = "ok" /\ req[r].op = "logoutAll" => known[r] \subseteq revoked
    /\ pc[r] = "refused" /\ req[r].op = "refresh"
         /\ req[r].token \in revoked \ expired => known[r] \subseteq revoked
    /\ pc[r] = "ok" /\ req[r].op = "logout" => req[r].token \in revoked

\* Every request that arrived ends: no sweep waits for a row for ever.
EveryRequestEnds ==
  \A r \in Request : pc[r] # "idle" ~> pc[r] \in Ended

\* What refresh's docstring promises of rotation: a token has at most one
\* successor, for the second use of a rotated token is refused.
RotatedOnce ==
  \A t, v \in tokens :
    req[t].op = "refresh" /\ req[v].op = "refresh" /\ req[t].token = req[v].token => t = v
=============================================================================
