------------------------------ MODULE OnceCell ------------------------------
(***************************************************************************)
(* What a set-once cell promises its users, without saying how: the cell   *)
(* is empty or holds one value; a value is only ever replaced by emptying  *)
(* the cell first; and a reference that was handed out keeps reading the   *)
(* same value until its holder gives it back.                              *)
(*                                                                         *)
(* SetOnce (driver/src/set_once.rs) is shown to implement this module.     *)
(***************************************************************************)
CONSTANTS Threads,  \* the threads that use the cell
          Values,   \* what it can hold
          Empty     \* the cell holds nothing, the thread holds no reference

VARIABLES cell,     \* the value, or Empty
          held      \* held[t]: what thread t reads through its reference

vars == <<cell, held>>

Init == /\ cell = Empty
        /\ held = [t \in Threads |-> Empty]

Set(v) == /\ cell = Empty
          /\ cell' = v
          /\ UNCHANGED held

Borrow(t) == /\ cell # Empty
             /\ held[t] = Empty
             /\ held' = [held EXCEPT ![t] = cell]
             /\ UNCHANGED cell

Return(t) == /\ held[t] # Empty
             /\ held' = [held EXCEPT ![t] = Empty]
             /\ UNCHANGED cell

\* Emptying the cell is legal only while no reference is out.
Reset == /\ cell # Empty
         /\ \A t \in Threads : held[t] = Empty
         /\ cell' = Empty
         /\ UNCHANGED held

Next == \/ \E v \in Values : Set(v)
        \/ \E t \in Threads : Borrow(t) \/ Return(t)
        \/ Reset

Spec == Init /\ [][Next]_vars
=============================================================================
