----------------------------- MODULE CarryingAdd -----------------------------
(***************************************************************************)
(* The loop of Vli::carrying_add (driver/src/vli.rs:44-53), one step for   *)
(* each limb.                                                              *)
(***************************************************************************)
EXTENDS Vli

VARIABLES left, right,   \* the operands
          initial,       \* the carry passed in
          done,          \* limbs done
          limbs, carry   \* the loop's variables

addVars == <<left, right, initial, done, limbs, carry>>

\* Every variable keeps its type: sums wrap and carries fit a limb.
AddTypeOK == /\ left \in Vlis /\ right \in Vlis /\ limbs \in Vlis
             /\ initial \in Limbs /\ carry \in Limbs
             /\ done \in 0..N

AddInit == /\ left \in Vlis
           /\ right \in Vlis
           /\ initial \in Limbs
           /\ done = 0
           /\ limbs = [j \in 0..N - 1 |-> 0]
           /\ carry = initial

Pass == /\ done < N
        /\ LET add == AddLimb(left[done], right[done], carry)
           IN  /\ limbs' = [limbs EXCEPT ![done] = add.sum]
               /\ carry' = add.carry
        /\ done' = done + 1
        /\ UNCHANGED <<left, right, initial>>

AddSpec == AddInit /\ [][Pass]_addVars /\ WF_addVars(Pass)

-----------------------------------------------------------------------------
(* Properties                                                              *)

\* No carry is lost between limbs: at every pass the limbs written so far and
\* the carry together are the sum of the operands' limbs and of the initial
\* carry, whatever u64 that is ("returning (sum, overflow)").
SumIsExact ==
    Value(limbs, done, Base) + carry * Power(Base, done)
        = Value(left, done, Base) + Value(right, done, Base) + initial

\* The conversions agree about which limb and which byte comes first: a value
\* survives ecc_swap_digits and unswap, and the bytes that handle_sign_data
\* writes for it, and the raw bytes of its swapped limbs that x_as_bytes
\* reads, are the big-endian bytes that from_be_bytes takes.
BytesAgree ==
    /\ unswap(ecc_swap_digits(left)) = left
    /\ from_be_bytes(Serialize(left)) = left
    /\ AsBytes(ecc_swap_digits(left)) = Serialize(left)
==============================================================================
