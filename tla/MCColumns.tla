----------------------------- MODULE MCColumns -----------------------------
(* A small instance of Columns for TLC: three digits in place of 38, and a *)
(* limit that, like 2^127, lies between one and two times the largest      *)
(* power of ten in use.                                                    *)
EXTENDS Columns

SmallNumbers == {-999, -15, 0, 7, 100}
BothSidesOfUtc == {-50, 0, 120}

ASSUME \A n \in 0 .. 9 : TenTo[n] = 10 ^ n
=============================================================================
