---------------------------- MODULE MCEcdsaSign ----------------------------
(***************************************************************************)
(* EcdsaSign for TLC on the curve y^2 = x^3 + x + 24 over the field of 43  *)
(* elements, whose group has the prime order 37, with G = (0, 14).  Of the *)
(* 36 points, two have x = 0 and two x = n (r is zero), and four have      *)
(* x > n (r is reduced); integers have three limbs of two bits, so that    *)
(* hashes above n and sums of 64 and more occur.                           *)
(***************************************************************************)
EXTENDS EcdsaSign

Prime == 43
G == [x |-> 0, y |-> 14]

MCCurveN == 37

FieldInverse(v) == CHOOSE i \in 1..Prime - 1 : (i * v) % Prime = 1

\* P + G, for P other than -G; P = G is doubled.
PlusG(P) ==
    LET slope == IF P = G THEN (3 * G.x * G.x + 1) * FieldInverse(2 * G.y)
                 ELSE (Prime + P.y - G.y)
                          * FieldInverse((Prime + P.x - G.x) % Prime)
        x == (slope * slope + 2 * Prime - P.x - G.x) % Prime
    IN  [x |-> x,
         y |-> (slope * (Prime + G.x - x) + Prime - G.y) % Prime]

XCoordinates == <<0, 13, 31, 9, 15, 38, 28, 3, 12, 5, 6, 41, 17, 27, 37, 4,
        34, 32, 32, 34, 4, 37, 27, 17, 41, 6, 5, 12, 3, 28, 38, 15, 9, 31,
        13, 0>>
YCoordinates == <<14, 27, 41, 17, 24, 18, 17, 21, 1, 38, 26, 33, 40, 13, 24,
        7, 24, 12, 31, 19, 36, 19, 30, 3, 10, 17, 5, 42, 22, 26, 25, 19, 26,
        2, 16, 29>>

MCMultiples == [k \in 1..MCCurveN - 1 |-> [x |-> XCoordinates[k],
                                           y |-> YCoordinates[k]]]

ASSUME MultiplesOfG ==
    /\ MCMultiples[1] = G
    /\ \A k \in 2..MCCurveN - 1 : MCMultiples[k] = PlusG(MCMultiples[k - 1])

MCNonces == 1..MCCurveN - 1
==============================================================================
