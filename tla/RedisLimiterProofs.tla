------------------------- MODULE RedisLimiterProofs -------------------------
(***************************************************************************)
(* For every number of clients and every positive Limit and Window: the    *)
(* key of RedisRateLimiter always has somebody to expire it, unless a      *)
(* request died half-way; no more than twice Limit hits are allowed within *)
(* Window ticks; and the counter implements FixedWindow.                   *)
(***************************************************************************)
EXTENDS RedisLimiter, TLAPS

\* TypeOK without the history of allowed hits, which no step reads.
KeyTypes ==
  /\ pc \in [Client -> Label]
  /\ count \in 0..Limit+1
  /\ ttl \in 1..Window \cup {None}
  /\ lost \in BOOLEAN

KeyInv == KeyTypes /\ KeyExpires

\* The key does not exist at the start.
LEMMA InitKey == Init => KeyInv
<1> SUFFICES ASSUME Init PROVE KeyInv
  OBVIOUS
<1>1. KeyTypes
  <2>1. lost \in BOOLEAN
    BY Zenon DEF Init
  <2>2. pc \in [Client -> Label] /\ count \in 0..Limit+1 /\ ttl \in 1..Window \cup {None}
    BY LimitAssumption DEF Init, Label
  <2> QED  BY <2>1, <2>2 DEF KeyTypes
<1>2. KeyExpires
  BY DEF Init, KeyExpires
<1> QED  BY <1>1, <1>2 DEF KeyInv

\* INCR leaves a key with a time to live, or its sender about to set one.
LEMMA IncrKey == ASSUME KeyInv, NEW c \in Client, Incr(c) PROVE KeyInv'
<1> USE LimitAssumption, WindowAssumption, NoneAssumption
<1>1. KeyTypes'
  <2>1. pc' \in [Client -> Label]
    BY DEF Incr, Goto, KeyInv, KeyTypes, Label
  <2>2. count' \in 0..Limit+1
    BY DEF Incr, KeyInv, KeyTypes
  <2> QED  BY <2>1, <2>2 DEF Incr, KeyInv, KeyTypes
<1>2. KeyExpires'
  <2>1. count' > 0
    BY DEF Incr, KeyInv, KeyTypes
  <2>2. CASE count = 0
    <3>1. pc' = [pc EXCEPT ![c] = "expire"] /\ count' = 1
      BY <2>2 DEF Incr, Goto
    <3>2. \A d \in Client : pc[d] # "expire"
      BY <2>2 DEF KeyInv, KeyExpires
    <3>3. ttl' = None
      BY <2>2 DEF Incr, KeyInv, KeyExpires
    <3> QED  BY <2>1, <3>1, <3>2, <3>3 DEF KeyExpires, KeyInv, KeyTypes
  <2>3. CASE count # 0
    <3>1. count' # 1
      BY <2>3 DEF Incr, KeyInv, KeyTypes
    <3>2. \A d \in Client : pc'[d] = "expire" <=> pc[d] = "expire"
      BY <3>1 DEF Incr, Goto, KeyInv, KeyTypes
    <3>3. count > 0 /\ UNCHANGED <<ttl, lost>>
      BY <2>3 DEF Incr, KeyInv, KeyTypes
    <3> QED  BY <2>1, <3>2, <3>3 DEF KeyExpires, KeyInv
  <2> QED  BY <2>2, <2>3
<1> QED  BY <1>1, <1>2 DEF KeyInv

\* EXPIRE is sent by the one request that owes it.
LEMMA ExpireKey == ASSUME KeyInv, NEW c \in Client, Expire(c) PROVE KeyInv'
<1> USE LimitAssumption, WindowAssumption, NoneAssumption
<1>1. ttl' = Window /\ ttl' # None /\ count' = count /\ lost' = lost
  BY DEF Expire
<1>2. \A d \in Client : pc'[d] # "expire"
  BY DEF Expire, Goto, KeyInv, KeyTypes, KeyExpires
<1>3. KeyTypes'
  BY <1>1 DEF Expire, Goto, KeyInv, KeyTypes, Label
<1>4. count' # 0
  BY <1>1 DEF Expire, KeyInv, KeyExpires
<1> QED  BY <1>1, <1>2, <1>3, <1>4 DEF KeyInv, KeyExpires, KeyTypes

\* A death is recorded; a tick removes only a key with a time to live.
LEMMA OtherKey == ASSUME KeyInv, [Tick \/ \E c \in Client : Die(c)]_vars PROVE KeyInv'
<1> USE LimitAssumption, WindowAssumption, NoneAssumption
<1>1. CASE Tick
  <2>1. pc' = pc /\ lost' = lost
    BY <1>1 DEF Tick
  <2>2. CASE ttl = None
    BY <1>1, <2>1, <2>2 DEF Tick, KeyInv, KeyTypes, KeyExpires
  <2>3. CASE ttl # None
    <3>1. ttl \in 1..Window /\ \A c \in Client : pc[c] # "expire"
      BY <2>3 DEF KeyInv, KeyTypes, KeyExpires
    <3>2. count # 0
      BY <2>3 DEF KeyInv, KeyExpires
    <3> QED  BY <1>1, <2>1, <3>1, <3>2 DEF Tick, KeyInv, KeyTypes, KeyExpires
  <2> QED  BY <2>2, <2>3
<1>2. ASSUME NEW c \in Client, Die(c) PROVE KeyInv'
  <2>1. \A d \in Client : pc'[d] # "expire"
    BY <1>2 DEF Die, Goto, KeyInv, KeyTypes, KeyExpires
  <2>2. count # 0 /\ count' = count /\ ttl' = ttl /\ lost'
    BY <1>2 DEF Die, KeyInv, KeyExpires
  <2>3. KeyTypes'
    BY <1>2 DEF Die, Goto, KeyInv, KeyTypes, Label
  <2> QED  BY <2>1, <2>2, <2>3 DEF KeyInv, KeyExpires
<1>3. CASE UNCHANGED vars
  BY <1>3 DEF vars, KeyInv, KeyTypes, KeyExpires
<1> QED  BY <1>1, <1>2, <1>3

\* Whatever concurrent hits interleave, a counter without a time to live has
\* exactly one request about to set it, or one that died before it could.
THEOREM KeyIsExpired == Spec => []KeyExpires
<1>1. KeyInv /\ [Next]_vars => KeyInv'
  BY IncrKey, ExpireKey, OtherKey DEF Next
<1>2. KeyInv => KeyExpires
  BY DEF KeyInv
<1> QED  BY InitKey, <1>1, <1>2, PTL DEF Spec

---------------------------------------------------------------------------
(* How many hits are allowed within a sliding window.                      *)

\* Hits the current key has let through or is about to: the one whose EXPIRE
\* is due is not allowed yet.
Granted == IF count <= Limit THEN count ELSE Limit
Due == IF \E c \in Client : pc[c] = "expire" THEN 1 ELSE 0

\* Hits allowed within Window ticks are the current key's and at most Limit of
\* the one before; those since its time to live was set are its own.
BurstShape ==
  /\ recent \in [1..Window -> Nat]
  /\ \A a \in 1..Window : recent[a] <= Limit + Granted - Due
  /\ ttl # None => \A a \in 1..Window : a <= Window - ttl => recent[a] <= Granted

BurstInv == KeyInv /\ BurstShape

\* What a hit adds is granted by the key.
LEMMA IncrBurst == ASSUME BurstInv, NEW c \in Client, Incr(c) PROVE BurstShape'
<1> USE LimitAssumption, WindowAssumption, NoneAssumption DEF BurstInv
<1>1. count \in 0..Limit+1 /\ Granted \in 0..Limit /\ Due \in {0, 1} /\ ttl' = ttl
  BY DEF KeyInv, KeyTypes, Granted, Due, Incr
<1>2. CASE count = 0
  <2>1. Granted = 0 /\ Due = 0 /\ Granted' = 1 /\ recent' = recent /\ ttl = None
    BY <1>2 DEF Incr, KeyInv, KeyExpires, Granted, Due
  <2>2. Due' \in {0, 1}
    BY DEF Due
  <2> QED  BY <1>1, <2>1, <2>2 DEF BurstShape
<1>3. CASE count \in 1..Limit-1
  <2>1. count' = count + 1 /\ count' \in 2..Limit
    BY <1>3 DEF Incr
  <2>2. Granted' = Granted + 1
    BY <1>3, <2>1 DEF Granted
  <2>3. recent' = [a \in 1..Window |-> recent[a] + 1] /\ pc' = [pc EXCEPT ![c] = "allowed"]
    BY <2>1 DEF Incr, Goto, Allow
  <2>4. Due' = Due
    BY <2>3 DEF Due, Incr, KeyInv, KeyTypes
  <2> QED  BY <1>1, <2>2, <2>3, <2>4 DEF BurstShape
<1>4. CASE count \in Limit..Limit+1 /\ count # 0
  <2>1. count' \in Nat /\ count' > Limit /\ count' # 1
    BY <1>4 DEF Incr
  <2>2. Granted' = Granted
    BY <1>4, <2>1 DEF Granted
  <2>3. recent' = recent /\ pc' = [pc EXCEPT ![c] = "denied"]
    BY <2>1 DEF Incr, Goto
  <2>4. Due' = Due
    BY <2>3 DEF Due, Incr, KeyInv, KeyTypes
  <2> QED  BY <1>1, <2>2, <2>3, <2>4 DEF BurstShape
<1> QED  BY <1>1, <1>2, <1>3, <1>4

\* The hit whose EXPIRE was due is allowed, or its request is dead.
LEMMA ExpireBurst ==
  ASSUME BurstInv, NEW c \in Client, Expire(c) \/ Die(c)
  PROVE  BurstShape'
<1> USE LimitAssumption, WindowAssumption, NoneAssumption DEF BurstInv
<1>1. count \in 0..Limit+1 /\ Granted \in 0..Limit /\ Due = 1 /\ ttl = None
  BY DEF KeyInv, KeyTypes, KeyExpires, Granted, Due, Expire, Die
<1>2. \A d \in Client : pc'[d] # "expire"
  BY DEF Expire, Die, Goto, KeyInv, KeyTypes, KeyExpires
<1>3. Due' = 0 /\ Granted' = Granted
  BY <1>2 DEF Due, Granted, Expire, Die
<1>4. CASE Expire(c)
  <2>1. recent' = [a \in 1..Window |-> recent[a] + 1] /\ ttl' = Window
    BY <1>4 DEF Expire, Allow
  <2> QED  BY <1>1, <1>3, <2>1 DEF BurstShape
<1>5. CASE Die(c)
  <2>1. recent' = recent /\ ttl' = None
    BY <1>1, <1>5 DEF Die
  <2> QED  BY <1>1, <1>3, <2>1 DEF BurstShape
<1> QED  BY <1>4, <1>5

\* When the key is removed, whatever was allowed before it was last set to
\* expire is more than Window ticks ago.
LEMMA TickBurst == ASSUME BurstInv, Tick PROVE BurstShape'
<1> USE LimitAssumption, WindowAssumption, NoneAssumption DEF BurstInv
<1>1. /\ count \in 0..Limit+1 /\ Granted \in 0..Limit /\ Due \in {0, 1} /\ Due <= Granted
      /\ ttl \in 1..Window \cup {None} /\ Due' = Due
      /\ recent' = [a \in 1..Window |-> IF a = 1 THEN 0 ELSE recent[a - 1]]
  BY DEF KeyInv, KeyTypes, KeyExpires, Granted, Due, Tick
<1>2. \A a \in 2..Window : a - 1 \in 1..Window
  OBVIOUS
<1>3. recent' \in [1..Window -> Nat]
  BY <1>1, <1>2 DEF BurstShape
<1>4. CASE ttl = None
  <2>1. ttl' = ttl /\ Granted' = Granted
    BY <1>4 DEF Tick, Granted
  <2> QED  BY <1>1, <1>2, <1>3, <1>4, <2>1 DEF BurstShape
<1>5. CASE ttl \in 2..Window
  <2>1. ttl' = ttl - 1 /\ Granted' = Granted
    BY <1>5 DEF Tick, Granted
  <2> QED  BY <1>1, <1>2, <1>3, <1>5, <2>1 DEF BurstShape
<1>6. CASE ttl = 1
  <2>1. ttl' = None /\ Granted' = 0 /\ Due = 0
    BY <1>6 DEF Tick, Granted, Due, KeyInv, KeyExpires
  <2>2. \A a \in 2..Window : recent[a - 1] <= Limit
    BY <1>1, <1>2, <1>6 DEF BurstShape
  <2> QED  BY <1>1, <1>2, <1>3, <2>1, <2>2 DEF BurstShape
<1> QED  BY <1>1, <1>4, <1>5, <1>6

\* The counter, its key and the burst are bounded in every state.
LEMMA BurstInvariant == Spec => []BurstInv
<1>1. Init => BurstInv
  <2> SUFFICES ASSUME Init PROVE BurstShape
    BY InitKey DEF BurstInv
  <2>1. Granted = 0 /\ Due = 0
    BY LimitAssumption DEF Init, Granted, Due
  <2> QED  BY <2>1, LimitAssumption DEF Init, BurstShape
<1>2. BurstInv /\ [Next]_vars => BurstInv'
  <2> SUFFICES ASSUME BurstInv, [Next]_vars PROVE BurstShape'
    BY IncrKey, ExpireKey, OtherKey DEF Next, BurstInv
  <2>1. CASE UNCHANGED vars
    BY <2>1 DEF vars, BurstInv, BurstShape, Granted, Due
  <2> QED  BY <2>1, IncrBurst, ExpireBurst, TickBurst DEF Next
<1> QED  BY <1>1, <1>2, PTL DEF Spec

\* Every request is at a line of hit(), and the counter, its time to live and
\* the number of hits allowed are within their bounds.
THEOREM LimiterTypes == Spec => []TypeOK
<1>1. BurstInv => TypeOK
  <2> SUFFICES ASSUME BurstInv PROVE TypeOK
    OBVIOUS
  <2>1. Granted \in 0..Limit /\ Due \in {0, 1}
    BY LimitAssumption DEF BurstInv, KeyInv, KeyTypes, Granted, Due
  <2>2. recent \in [1..Window -> 0..2*Limit]
    BY <2>1, LimitAssumption DEF BurstInv, BurstShape
  <2> QED  BY <2>2 DEF BurstInv, KeyInv, KeyTypes, TypeOK
<1> QED  BY <1>1, BurstInvariant, PTL

\* Whatever concurrent hits interleave, and also when a request dies between
\* INCR and EXPIRE: no Window ticks see more than two limits of hits allowed.
THEOREM BurstIsBounded == Spec => []SlidingBound
<1>1. BurstInv => SlidingBound
  <2> SUFFICES ASSUME BurstInv PROVE SlidingBound
    OBVIOUS
  <2>1. Granted \in 0..Limit /\ Due \in {0, 1}
    BY LimitAssumption DEF BurstInv, KeyInv, KeyTypes, Granted, Due
  <2> QED  BY <2>1, LimitAssumption, WindowAssumption DEF BurstInv, BurstShape, SlidingBound
<1> QED  BY <1>1, BurstInvariant, PTL

---------------------------------------------------------------------------
(* The counter as a fixed window.                                          *)

\* An absent key is a window that has granted nothing.
LEMMA InitWindow == Init => Abstract!Init
  BY LimitAssumption DEF Init, Abstract!Init

\* INCR is a grant or a refusal; the window's age is not touched.
LEMMA IncrWindow ==
  ASSUME KeyInv, NEW c \in Client, Incr(c)
  PROVE  Abstract!Grant \/ UNCHANGED Abstract!vars
<1> USE LimitAssumption, WindowAssumption, NoneAssumption
<1>1. ttl' = ttl
  BY DEF Incr
<1>2. CASE count < Limit
  <2>1. count' = count + 1 /\ count' <= Limit
    BY <1>2 DEF Incr, KeyInv, KeyTypes
  <2> QED  BY <1>1, <1>2, <2>1 DEF Abstract!Grant, KeyInv, KeyTypes
<1>3. CASE count >= Limit
  <2>1. count' > Limit
    BY <1>3 DEF Incr, KeyInv, KeyTypes
  <2>2. (IF count' <= Limit THEN count' ELSE Limit) = Limit
    BY <2>1 DEF Incr, KeyInv, KeyTypes
  <2>3. (IF count <= Limit THEN count ELSE Limit) = Limit
    BY <1>3 DEF KeyInv, KeyTypes
  <2> QED  BY <1>1, <2>2, <2>3 DEF Abstract!vars
<1> QED  BY <1>2, <1>3 DEF KeyInv, KeyTypes

\* A tick ages the window or closes it.
LEMMA TickWindow ==
  ASSUME KeyInv, Tick
  PROVE  Abstract!Tick \/ Abstract!Close \/ UNCHANGED Abstract!vars
<1> USE LimitAssumption, WindowAssumption, NoneAssumption
<1>1. CASE ttl = None
  BY <1>1 DEF Tick, Abstract!vars, KeyInv, KeyTypes
<1>2. CASE ttl \in 2..Window
  BY <1>2 DEF Tick, Abstract!Tick, KeyInv, KeyTypes
<1>3. CASE ttl = 1
  BY <1>3 DEF Tick, Abstract!Close, KeyInv, KeyTypes
<1> QED  BY <1>1, <1>2, <1>3 DEF KeyInv, KeyTypes

\* The two Redis commands, interleaved by any number of requests, implement
\* the fixed window: at most Limit hits between two removals of the key.
THEOREM ImplementsFixedWindow == Spec => ImplementsWindow
<1>1. KeyInv /\ [Next]_vars => [Abstract!Next]_(Abstract!vars)
  <2> SUFFICES ASSUME KeyInv, [Next]_vars
               PROVE  [Abstract!Next]_(Abstract!vars)
    OBVIOUS
  <2>1. ASSUME NEW c \in Client, Incr(c) PROVE [Abstract!Next]_(Abstract!vars)
    BY <2>1, IncrWindow DEF Abstract!Next
  <2>2. ASSUME NEW c \in Client, Expire(c) PROVE UNCHANGED Abstract!vars
    BY <2>2, WindowAssumption, NoneAssumption
    DEF Expire, Abstract!vars, KeyInv, KeyExpires
  <2>3. ASSUME NEW c \in Client, Die(c) PROVE UNCHANGED Abstract!vars
    BY <2>3 DEF Die, Abstract!vars
  <2>4. CASE Tick
    BY <2>4, TickWindow DEF Abstract!Next
  <2>5. CASE UNCHANGED vars
    BY <2>5 DEF vars, Abstract!vars
  <2> QED  BY <2>1, <2>2, <2>3, <2>4, <2>5 DEF Next
<1>2. KeyInv /\ [Next]_vars => KeyInv'
  BY IncrKey, ExpireKey, OtherKey DEF Next
<1> QED  BY InitKey, InitWindow, <1>1, <1>2, PTL DEF Spec, ImplementsWindow, Abstract!Spec
=============================================================================
