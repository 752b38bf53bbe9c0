------------------------------ MODULE EcdsaSign ------------------------------
(***************************************************************************)
(* The cryptographic half of driver/src/ioctl.rs and driver/src/ecc.rs:    *)
(* generate_key_pair and, with the key pair it made, any number of calls   *)
(* of ecdsa_sign and of the code in handle_sign_data that writes the       *)
(* signature as bytes.  The arithmetic is Vli's; every call to the kernel  *)
(* that can fail may fail.                                                 *)
(*                                                                         *)
(* The kernel's generator gives scalars in 1..n-1 (PrivateKeys and Nonces  *)
(* bound the ones that are tried) and its curve is any cyclic group of     *)
(* order CurveN, given by the coordinates of the multiples of G.  As on    *)
(* P-256, the order is prime and more than half of the radix, and x and    *)
(* the parity of y determine a multiple: the two points with one x have y  *)
(* and p - y, for an odd p.                                                *)
(*                                                                         *)
(* A definition named Bug... is the definition after it with one plausible *)
(* coding error in it; no specification uses it.                           *)
(***************************************************************************)
EXTENDS Vli

CONSTANTS CurveN,        \* the order n of the generator
          Multiples,     \* k |-> the coordinates of k * G
          PrivateKeys,   \* keys that the generator may give
          Nonces,        \* nonces that the generator may give
          MaxAttempts,   \* nonces that ecdsa_sign tries; 100 in the code
          None

ASSUME CurveAssumption ==
    /\ CurveN \in 2..Radix - 1 /\ 2 * CurveN > Radix
    /\ \A k \in 1..CurveN - 1 : \E j \in 1..CurveN - 1 : (j * k) % CurveN = 1
    /\ Multiples \in [1..CurveN - 1 -> [x : 0..Radix - 1, y : 0..Radix - 1]]
    /\ \A j, k \in 1..CurveN - 1 :
         /\ Multiples[j].x = Multiples[k].x
         /\ Multiples[j].y % 2 = Multiples[k].y % 2
         => j = k
    /\ ByteBase % 2 = 0
    /\ PrivateKeys \subseteq 1..CurveN - 1 /\ Nonces \subseteq 1..CurveN - 1
    /\ MaxAttempts \in Nat \ {0}

VARIABLES
    pc,       \* the call under way: idle, or what it does next
    keypair,  \* [private, pubkey, curve_n], None until it is generated
    hash,     \* sha256 of the data to be signed; None in generate_key_pair
    attempt,  \* passes of ecdsa_sign's loop that were begun
    scalar,   \* the private key or nonce of the call
    point,    \* the call's ecc_point
    live,     \* ecc_points allocated and not freed
    ret,      \* what the last call returned; "ok" at first
    sig       \* the signature that the last call wrote; None if it failed

vars == <<pc, keypair, hash, attempt, scalar, point, live, ret, sig>>

Points == [x : Vlis, y : Vlis]
Pubkeys == [parity : 0..1, x : Bytes]
KeyPairs == [private : Vlis, pubkey : Pubkeys, curve_n : Vlis]
Signatures == [hash : Bytes, sig_r : Bytes, sig_s : Bytes, pubkey : Pubkeys]
Errors == {"ENOMEM", "EFAULT", "EINVAL", "errno"}

Stages == {"idle", "scalar", "point", "multiply", "use"}

\* Every variable keeps its type; no more than MaxAttempts nonces are tried.
TypeOK == /\ pc \in Stages
          /\ keypair = None \/ keypair \in KeyPairs
          /\ hash = None \/ hash \in Bytes
          /\ attempt \in 0..MaxAttempts
          /\ scalar = None \/ scalar \in Vlis
          /\ point = None \/ point \in Points
          /\ live \in 0..1
          /\ ret \in {"ok"} \union Errors
          /\ sig = None \/ sig \in Signatures

Init == /\ pc = "idle" /\ attempt = 0 /\ live = 0
        /\ keypair = None /\ hash = None /\ scalar = None
        /\ point = None /\ ret = "ok" /\ sig = None

\* sha256_hash: any 32 bytes.
sha256_hash == Bytes

get_curve_n == ToVli(CurveN)

-----------------------------------------------------------------------------
(* Calls and returns                                                       *)

\* Drop for Vli zeroes the limbs; the point is freed where it is owned.
DropLocals == scalar' = None /\ point' = None

\* Drop for Point, and the calls of ecc_free_point.
FreePoint == live' = live - 1

Return(result, signature) ==
    /\ pc' = "idle" /\ ret' = result /\ sig' = signature
    /\ hash' = None /\ attempt' = 0 /\ DropLocals

Fail(errno) == Return(errno, None)

GenerateKeyPair ==
    /\ pc = "idle" /\ keypair = None
    /\ pc' = "scalar"
    /\ UNCHANGED <<keypair, hash, attempt, scalar, point, live, ret, sig>>

Sign == /\ pc = "idle" /\ keypair # None
        /\ hash' \in sha256_hash
        /\ pc' = "scalar" /\ attempt' = 1 /\ sig' = None
        /\ UNCHANGED <<keypair, scalar, point, live, ret>>

-----------------------------------------------------------------------------
(* generate_private_key and make_public_key                                *)

generate_private_key ==
    /\ pc = "scalar"
    /\ \/ /\ \E k \in IF hash = None THEN PrivateKeys ELSE Nonces :
                scalar' = ToVli(k)
          /\ pc' = "point"
          /\ UNCHANGED <<hash, attempt, point, ret, sig>>
       \/ Fail("errno")
    /\ UNCHANGED <<keypair, live>>

\* ... with the point kept when one of its buffers is missing.
BugAllocPoint ==
    /\ pc = "point"
    /\ \/ /\ pc' = "multiply" /\ live' = live + 1
          /\ point' = [x |-> ToVli(0), y |-> ToVli(0)]
          /\ UNCHANGED <<hash, attempt, scalar, ret, sig>>
       \/ Fail("ENOMEM") /\ UNCHANGED live
       \/ Fail("EFAULT") /\ live' = live + 1
    /\ UNCHANGED keypair

\* ecc_alloc_point gives a point, none, or one whose buffers are missing,
\* which is freed at once.
AllocPoint ==
    /\ pc = "point"
    /\ \/ /\ pc' = "multiply" /\ live' = live + 1
          /\ point' = [x |-> ToVli(0), y |-> ToVli(0)]
          /\ UNCHANGED <<hash, attempt, scalar, ret, sig>>
       \/ Fail("ENOMEM") /\ UNCHANGED live
       \/ Fail("EFAULT") /\ UNCHANGED live
    /\ UNCHANGED keypair

\* The limbs that ecc_make_pub_key writes.
ecc_make_pub_key(k) ==
    LET P == Multiples[IntOf(k)]
    IN  [x |-> ecc_swap_digits(ToVli(P.x)), y |-> ecc_swap_digits(ToVli(P.y))]

MakePubKey ==
    /\ pc = "multiply"
    /\ \/ /\ point' = ecc_make_pub_key(scalar)
          /\ pc' = "use"
          /\ UNCHANGED <<hash, attempt, scalar, ret, sig, live>>
       \/ Fail("errno") /\ FreePoint
    /\ UNCHANGED keypair

-----------------------------------------------------------------------------
(* The rest of generate_key_pair                                           *)

\* SEC1 compressed form.
Compress(P) == [parity |-> AsBytes(P.y)[Size - 1] % 2, x |-> AsBytes(P.x)]

FinishKeyPair ==
    /\ pc = "use" /\ hash = None
    /\ \/ /\ keypair' = [private |-> scalar, pubkey |-> Compress(point),
                         curve_n |-> get_curve_n]
          /\ Return("ok", None)
       \/ Fail("EINVAL") /\ UNCHANGED keypair    \* get_curve_n gave None
    /\ FreePoint

-----------------------------------------------------------------------------
(* The body of ecdsa_sign's loop                                           *)

\* v mod n, for v < 2n.
Reduce(v, n) == IF ge(v, n) THEN sub(v, n) ELSE v

\* ... with the overflow of the addition ignored.
BugReduceSum(sum, n) == Reduce(sum[1], n)
ReduceSum(sum, n) == IF sum[2] # 0 \/ ge(sum[1], n) THEN sub(sum[1], n)
                     ELSE sum[1]

SigR == Reduce(unswap(point.x), keypair.curve_n)

SigS == LET n == keypair.curve_n
            z == Reduce(from_be_bytes(hash), n)
            rd == mod_mult(SigR, keypair.private, n)
            sum == ReduceSum(carrying_add(z, rd, 0), n)
        IN  mod_mult(sum, mod_inv(scalar, n), n)

Unusable == is_zero(SigR) \/ is_zero(SigS)

\* ... with no limit on the number of attempts.
BugRetry == /\ pc' = "scalar" /\ DropLocals
            /\ UNCHANGED <<hash, attempt, ret, sig>>

\* `continue`, or the end of the loop.
Retry == IF attempt = MaxAttempts THEN Fail("EINVAL")
         ELSE /\ attempt' = attempt + 1
              /\ pc' = "scalar" /\ DropLocals
              /\ UNCHANGED <<hash, ret, sig>>

Attempt ==
    /\ pc = "use" /\ hash # None
    /\ IF Unusable THEN Retry
       ELSE Return("ok", [hash |-> hash, pubkey |-> keypair.pubkey,
                          sig_r |-> Serialize(SigR), sig_s |-> Serialize(SigS)])
    /\ FreePoint
    /\ UNCHANGED keypair

-----------------------------------------------------------------------------

Next == \/ GenerateKeyPair \/ Sign
        \/ generate_private_key \/ AllocPoint \/ MakePubKey
        \/ FinishKeyPair \/ Attempt

\* A call that has begun goes on: it runs in one thread, and no kernel
\* function that it calls waits for anything.  Every step of a call changes
\* pc, so that this is weak fairness of Next within a call.
Spec == /\ Init /\ [][Next]_vars
        /\ WF_pc(pc # "idle" /\ pc' \in Stages)

-----------------------------------------------------------------------------
(* Properties                                                              *)

\* The discrete logarithm of a compressed public key.
LogOf(key) == CHOOSE k \in 1..CurveN - 1 :
                  /\ Multiples[k].x = BigEndian(key.x, Size)
                  /\ Multiples[k].y % 2 = key.parity

\* ECDSA verification, as a verifier does it from the bytes alone.
Verifies(req) ==
    LET r == BigEndian(req.sig_r, Size)
        s == BigEndian(req.sig_s, Size)
        z == BigEndian(req.hash, Size)
        w == CHOOSE i \in 1..CurveN - 1 : (i * s) % CurveN = 1
        R == ((z + r * LogOf(req.pubkey)) * w) % CurveN
    IN  /\ r \in 1..CurveN - 1 /\ s \in 1..CurveN - 1
        /\ R # 0 /\ Multiples[R].x % CurveN = r

\* Every signature that handle_sign_data writes verifies against the hash and
\* the compressed public key written beside it, whatever the nonce and the
\* hash: coordinates of zero, of n and above n, hashes above n, sums that
\* overflow the limbs and values of s that are zero included.
SignatureVerifies == sig # None => Verifies(sig)

\* Each ecc_point is freed exactly once: when a call has returned, by whichever
\* of its error paths, none is left, and none is freed twice before.  The loop's
\* count and the call's locals keep their types meanwhile.
PointsFreed == /\ TypeOK
               /\ live = IF pc \in {"multiply", "use"} THEN 1 ELSE 0
               /\ pc = "idle" => scalar = None /\ point = None

\* ecdsa_sign ends: `for _ in 0..100` gives up when no nonce was usable.
CallReturns == pc # "idle" ~> pc = "idle"
==============================================================================
