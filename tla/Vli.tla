--------------------------------- MODULE Vli ---------------------------------
(***************************************************************************)
(* driver/src/vli.rs: integers of N limbs in little-endian order, with the *)
(* byte conversions around them.  The code has N = 4 limbs of LimbBytes =  *)
(* 8 bytes of ByteBase = 256 values; all three are parameters here.        *)
(*                                                                         *)
(* What vli.rs computes itself (carrying_add, unswap, the length check of  *)
(* from_be_bytes) is translated limb by limb.  The kernel's vli_ and ecc_  *)
(* functions (driver/src/ffi.rs) are external: they are what ffi.rs says   *)
(* of them, on the integers that the limbs stand for.                      *)
(*                                                                         *)
(* A definition named Bug... is the definition after it with one plausible *)
(* coding error in it; no specification uses it.                           *)
(***************************************************************************)
EXTENDS Integers

CONSTANTS N, LimbBytes, ByteBase

ASSUME VliAssumption == /\ N \in Nat \ {0}
                        /\ LimbBytes \in Nat \ {0}
                        /\ ByteBase \in Nat \ {0, 1}

\* base ^ n, as a recursive function, which the proofs can unfold.
Power(base, n) ==
    LET power[k \in 0..n] == IF k = 0 THEN 1 ELSE base * power[k - 1]
    IN  power[n]

\* The integer whose n digits, least significant first, are d.
Value(d, n, base) ==
    LET value[k \in 0..n] ==
            IF k = 0 THEN 0 ELSE value[k - 1] + d[k - 1] * Power(base, k - 1)
    IN  value[n]

\* The digit of n that has the weight base ^ i.
Digit(n, i, base) == (n \div Power(base, i)) % base

Base  == Power(ByteBase, LimbBytes)   \* number of values of a limb
Radix == Power(Base, N)               \* number of values of a Vli
Size  == N * LimbBytes                \* bytes of a Vli

Limbs == 0..Base - 1
Vlis  == [0..N - 1 -> Limbs]
Bytes == [0..Size - 1 -> 0..ByteBase - 1]

IntOf(v) == Value(v, N, Base)
ToVli(n) == [i \in 0..N - 1 |-> Digit(n, i, Base)]

\* The integer that a string of bytes stands for in big-endian order.
BigEndian(bytes, len) ==
    Value([i \in 0..len - 1 |-> bytes[len - 1 - i]], len, ByteBase)

-----------------------------------------------------------------------------
(* Addition                                                                *)

overflowing_add(a, b) == [sum |-> (a + b) % Base, carry |-> (a + b) \div Base]

\* ... with the carry into a limb lost when it makes the limb wrap.
BugAddLimb(l, r, c) ==
    [sum |-> (l + r + c) % Base, carry |-> (l + r) \div Base]

\* One pass of carrying_add's loop.
AddLimb(l, r, c) ==
    LET left == overflowing_add(l, r)
        both == overflowing_add(left.sum, c)
    IN  [sum |-> both.sum, carry |-> left.carry + both.carry]

carrying_add(l, r, carry) ==
    LET pass[i \in 0..N - 1] ==
            AddLimb(l[i], r[i], IF i = 0 THEN carry ELSE pass[i - 1].carry)
    IN  <<[i \in 0..N - 1 |-> pass[i].sum], pass[N - 1].carry>>

-----------------------------------------------------------------------------
(* The kernel's functions, and the wrappers that vli.rs puts around them   *)

vli_is_zero(v) == IntOf(v) = 0
vli_cmp(l, r) == IF IntOf(l) < IntOf(r) THEN -1
                 ELSE IF IntOf(l) > IntOf(r) THEN 1 ELSE 0
vli_sub(l, r) == <<ToVli((Radix + IntOf(l) - IntOf(r)) % Radix),
                   IF IntOf(l) < IntOf(r) THEN 1 ELSE 0>>
vli_mod_mult_slow(l, r, m) == ToVli((IntOf(l) * IntOf(r)) % IntOf(m))
vli_mod_inv(v, m) ==
    ToVli(CHOOSE i \in 0..IntOf(m) - 1 : (i * IntOf(v)) % IntOf(m) = 1)

is_zero(v) == vli_is_zero(v)
cmp_ffi(l, r) == LET c == vli_cmp(l, r)
                 IN  CASE c = 0 -> "Equal"
                       [] c < 0 -> "Less"
                       [] c > 0 -> "Greater"
ge(l, r) == cmp_ffi(l, r) # "Less"
sub_with_borrow(l, r) == vli_sub(l, r)
sub(l, r) == sub_with_borrow(l, r)[1]
mod_mult(l, r, modulus) == vli_mod_mult_slow(l, r, modulus)
mod_inv(v, modulus) == vli_mod_inv(v, modulus)

-----------------------------------------------------------------------------
(* Byte order                                                              *)

to_be_bytes(limb) == [i \in 0..LimbBytes - 1 |->
                         Digit(limb, LimbBytes - 1 - i, ByteBase)]

\* On a little-endian machine: the limb with its bytes reversed.
from_be(limb) == Value(to_be_bytes(limb), LimbBytes, ByteBase)

\* ecc_make_pub_key's output: limbs and the bytes in each limb reversed.
ecc_swap_digits(v) == [i \in 0..N - 1 |-> from_be(v[N - 1 - i])]

unswap(v) == [i \in 0..N - 1 |-> from_be(v[N - 1 - i])]

ecc_digits_from_bytes(bytes) == ToVli(BigEndian(bytes, Size))
from_be_bytes(bytes) == IF DOMAIN bytes # 0..Size - 1 THEN "EINVAL"
                        ELSE ecc_digits_from_bytes(bytes)

\* The memory of limbs, read as an array of bytes (ptr::read of a cast).
AsBytes(v) == [j \in 0..Size - 1 |->
                  Digit(v[j \div LimbBytes], j % LimbBytes, ByteBase)]

\* ... with the limbs in memory order.
BugSerialize(v) == [j \in 0..Size - 1 |->
                       to_be_bytes(v[j \div LimbBytes])[j % LimbBytes]]

\* handle_sign_data: limbs from the last to the first, each big-endian.
Serialize(v) == [j \in 0..Size - 1 |->
                    to_be_bytes(v[N - 1 - j \div LimbBytes])[j % LimbBytes]]
==============================================================================
