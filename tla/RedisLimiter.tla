---------------------------- MODULE RedisLimiter ----------------------------
(***************************************************************************)
(* RedisRateLimiter.hit and the dependencies rate_limit_auth and           *)
(* rate_limit_reveal that turn its answer into 429, for one key.           *)
(*                                                                         *)
(* Redis runs one command at a time; hits of concurrent requests           *)
(* interleave between INCR and EXPIRE.  Time passes in ticks.  Above Limit *)
(* the counter's value does not matter, so the model stops it there.       *)
(***************************************************************************)
EXTENDS Naturals

CONSTANTS
  Client,   \* requests that can be in flight at once
  Limit,    \* RATE_LIMIT_*_REQUESTS
  Window,   \* RATE_LIMIT_*_WINDOW_SECONDS, in ticks
  None      \* no time to live

ASSUME LimitAssumption == Limit \in Nat \ {0}
ASSUME WindowAssumption == Window \in Nat \ {0}
ASSUME NoneAssumption == None \notin Nat

VARIABLES
  pc,      \* where each request is in hit()
  count,   \* the value of the key, 0 if it does not exist
  ttl,     \* the key's remaining time to live
  lost,    \* history: a request died between INCR and EXPIRE
  recent   \* history: recent[a] hits were allowed within the last a ticks

vars == <<pc, count, ttl, lost, recent>>

Label == {"idle", "expire", "allowed", "denied"}

Goto(c, label) == pc' = [pc EXCEPT ![c] = label]
Allow == recent' = [a \in 1..Window |-> recent[a] + 1]

\* mutant: EXPIRE is never sent
IncrOnly(c) ==
  /\ count' = IF count > Limit THEN count ELSE count + 1
  /\ Goto(c, IF count' <= Limit THEN "allowed" ELSE "denied")
  /\ IF count' <= Limit THEN Allow ELSE UNCHANGED recent
  /\ UNCHANGED <<ttl, lost>>

\* mutant: one hit too many, count <= limit + 1
IncrOneMore(c) ==
  /\ pc[c] # "expire"
  /\ count' = IF count > Limit THEN count ELSE count + 1
  /\ IF count' = 1 THEN Goto(c, "expire") /\ UNCHANGED recent
                   ELSE Goto(c, "allowed") /\ Allow
  /\ UNCHANGED <<ttl, lost>>

\* mutant: every hit renews the time to live
IncrRenewing(c) ==
  /\ pc[c] # "expire"
  /\ count' = IF count > Limit THEN count ELSE count + 1
  /\ ttl' = IF ttl = None THEN None ELSE Window
  /\ Goto(c, IF count' = 1 THEN "expire" ELSE IF count' <= Limit THEN "allowed" ELSE "denied")
  /\ IF count' \in 2..Limit THEN Allow ELSE UNCHANGED recent
  /\ UNCHANGED lost

\* INCR creates the key with 1; another value is the answer.
Incr(c) ==
  /\ pc[c] # "expire"
  /\ count' = IF count > Limit THEN count ELSE count + 1
  /\ \/ /\ count' = 1
        /\ Goto(c, "expire")
        /\ UNCHANGED recent
     \/ /\ count' \in 2..Limit
        /\ Goto(c, "allowed") /\ Allow
     \/ /\ count' > Limit /\ count' # 1
        /\ Goto(c, "denied")
        /\ UNCHANGED recent
  /\ UNCHANGED <<ttl, lost>>

\* mutant: off by one in the time to live
ExpireLate(c) ==
  /\ pc[c] = "expire"
  /\ ttl' = Window + 1
  /\ Goto(c, "allowed") /\ Allow
  /\ UNCHANGED <<count, lost>>

\* mutant: SET with EX instead of EXPIRE, which starts the count anew
ExpireBySet(c) ==
  /\ pc[c] = "expire"
  /\ ttl' = Window /\ count' = 0
  /\ Goto(c, "allowed") /\ Allow
  /\ UNCHANGED lost

\* EXPIRE, for the request whose INCR returned 1
Expire(c) ==
  /\ pc[c] = "expire"
  /\ ttl' = Window
  /\ Goto(c, "allowed") /\ Allow
  /\ UNCHANGED <<count, lost>>

\* The client disconnects, the worker dies, or Redis does not answer.
Die(c) ==
  /\ pc[c] = "expire"
  /\ lost' = TRUE
  /\ Goto(c, "idle")
  /\ UNCHANGED <<count, ttl, recent>>

\* A tick passes; Redis removes the key when its time to live is over.
Tick ==
  /\ recent' = [a \in 1..Window |-> IF a = 1 THEN 0 ELSE recent[a - 1]]
  /\ \/ ttl = None /\ UNCHANGED <<count, ttl>>
     \/ ttl \in 2..Window /\ ttl' = ttl - 1 /\ UNCHANGED count
     \/ ttl = 1 /\ ttl' = None /\ count' = 0
  /\ UNCHANGED <<pc, lost>>

Init ==
  /\ pc = [c \in Client |-> "idle"]
  /\ count = 0 /\ ttl = None /\ lost = FALSE
  /\ recent = [a \in 1..Window |-> 0]

Next == Tick \/ \E c \in Client : Incr(c) \/ Expire(c) \/ Die(c)

\* Time does not stop, a request that has to send EXPIRE sends it unless it
\* dies, and clients try again.
Fairness ==
  /\ WF_vars(Tick)
  /\ \A c \in Client : WF_vars(Expire(c)) /\ WF_vars(Incr(c))

Spec == Init /\ [][Next]_vars
FairSpec == Spec /\ Fairness

---------------------------------------------------------------------------
(* Properties.                                                             *)

\* Type invariant.
TypeOK ==
  /\ pc \in [Client -> Label]
  /\ count \in 0..Limit+1
  /\ ttl \in 1..Window \cup {None}
  /\ lost \in BOOLEAN
  /\ recent \in [1..Window -> 0..2*Limit]

\* The key has a time to live unless the one request that created it is about
\* to set it, or has died: no concurrent hit sees a counter nobody will expire.
KeyExpires ==
  /\ count = 0 => ttl = None /\ \A c \in Client : pc[c] # "expire"
  /\ count > 0 /\ ttl = None /\ ~lost => \E c \in Client : pc[c] = "expire"
  /\ \A c, d \in Client : pc[c] = "expire" /\ pc[d] = "expire" => c = d
  /\ \A c \in Client : pc[c] = "expire" => ttl = None

\* A burst across the boundary of two windows is the worst case: never are
\* more than twice Limit hits allowed within Window ticks.
SlidingBound == recent[Window] <= 2 * Limit

\* Every key that refuses is removed in time, unless a request died half-way.
RecoversUnlessLost == count > Limit ~> count = 0 \/ lost

---------------------------------------------------------------------------
\* The window is open from the first INCR on; its age counts from EXPIRE.
Abstract == INSTANCE FixedWindow WITH
  granted <- IF count <= Limit THEN count ELSE Limit,
  age     <- IF ttl = None THEN 0 ELSE Window - ttl

\* The two commands of concurrent hits implement the abstract window.
ImplementsWindow == Abstract!Spec
=============================================================================
