---------------------------- MODULE FixedWindow ----------------------------
(***************************************************************************)
(* What a fixed-window rate limiter promises for one key: at most Limit    *)
(* hits are granted in a window, and a window that has granted a hit stays *)
(* open for at least Window ticks.                                         *)
(***************************************************************************)
EXTENDS Naturals

CONSTANTS Limit, Window

VARIABLES
  granted,  \* hits granted in the open window
  age       \* ticks the open window is known to have lasted

vars == <<granted, age>>

Init == granted = 0 /\ age = 0

Grant ==
  /\ granted < Limit
  /\ granted' = granted + 1
  /\ UNCHANGED age

Tick ==
  /\ age + 1 < Window
  /\ age' = age + 1
  /\ UNCHANGED granted

\* The last tick of the window: the next window opens with the next hit.
Close ==
  /\ age + 1 = Window
  /\ granted' = 0
  /\ age' = 0

Next == Grant \/ Tick \/ Close

Spec == Init /\ [][Next]_vars
=============================================================================
