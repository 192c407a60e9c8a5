------------------------------- MODULE Caller -------------------------------
(***************************************************************************)
(* Sequential code is exercised by a caller that makes one call after      *)
(* another, of one family of functions, and looks at each answer; the call *)
(* it is in also holds what the functions keep from call to call.          *)
(***************************************************************************)
VARIABLES family, \* of functions the caller uses
          call,   \* the call it makes, or the state of its conversation
          answer  \* what it got
vars == <<family, call, answer>>

Idle == [op |-> "none"]

Ready(f) == family = f /\ call = Idle

Ask(c, a) == /\ call' = c
             /\ answer' = a
             /\ UNCHANGED family

Forget == /\ call # Idle
          /\ call' = Idle
          /\ answer' = << >>
          /\ UNCHANGED family
=============================================================================
