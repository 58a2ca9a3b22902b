------------------------------ MODULE MCAdmission ----------------------------
(* Task sets for Admission.  Periods are multiples of ten so that          *)
(* computation times can be a tenth of them.                               *)
EXTENDS Admission, TLC

Arrays(n, S) == [0 .. n - 1 -> S]

FirstBounds == (0 :> 10000) @@ (1 :> 8284) @@ (2 :> 7798) @@ (3 :> 7568)

\* Arrays of up to four tasks of any periods; the demand is of no interest.
AnyOrder ==
  LET S == [C : {0, 1}, T : {1, 2, 3}, B : {0}]
  IN  UNION {Arrays(n, S) : n \in 0 .. 4}

\* More tasks than there are slots.
TooMany == Arrays(5, [C : {0}, T : {1, 2}, B : {0}])

\* Up to three tasks handed over in the order of their rates.
ByRate ==
  LET S == [C : {1, 2, 4, 7, 10}, T : {10, 20, 30}, B : {0, 3}]
  IN  {a \in UNION {Arrays(n, S) : n \in 1 .. 3} :
         \A k, l \in DOMAIN a : k < l => a[k].T <= a[l].T}

AllInputs == AnyOrder \union TooMany \union ByRate

\* A slow task first; see InOrder.
SlowFirst ==
  LET S == [C : {1, 2, 17}, T : {10, 20, 30}, B : {0}]
  IN  {a \in Arrays(3, S) : a[0].T >= a[1].T /\ a[1].T >= a[2].T}

\* Sets in the order of their rates, some with a task whose period is 0.
WithZeroPeriod ==
  LET S == [C : {0, 4, 7}, T : {0, 10, 20}, B : {0}]
  IN  {a \in UNION {Arrays(n, S) : n \in 1 .. 3} :
         \A k, l \in DOMAIN a : k < l => a[k].T <= a[l].T}
=============================================================================
