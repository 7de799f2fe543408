--------------------------- MODULE ChargingProfiles ---------------------------
(***************************************************************************)
(* How the smart charge engine divides the power of a site                 *)
(* (packages/ocpp-smart-charge-engine/src): the water-fill behind the      *)
(* three strategies (strategies/), the profile built for a session, and    *)
(* the pass that keeps the sum within the grid limit (engine.ts).          *)
(*                                                                         *)
(* Power is counted in hundredths of a kW, the unit the code rounds to.    *)
(* Between two roundings the code computes with doubles; here it is        *)
(* computed exactly, in parts of a hundredth of which there are Parts.     *)
(* Doubles do show where a value is a whole number of hundredths: 0.29 is  *)
(* stored a little low, 0.29 * 100 is 28.999999999999996, and rounding it  *)
(* down gives 0.28.  Slips is the set of such values.                      *)
(***************************************************************************)
EXTENDS Integers, FiniteSetsExt

CONSTANTS
    Parts,      \* parts of a hundredth of a kW: enough for every division to be exact
    Slips       \* hundredths k with Math.floor(k / 100 * 100) = k - 1

ASSUME PartsAssumption == Parts \in Nat \ {0}
ASSUME SlipsAssumption == Slips \subseteq Nat \ {0}

Total(f, I) == MapThenSumSet(LAMBDA i : f[i], I)

-----------------------------------------------------------------------------
(* computeWaterFill *)

\* Those that can still take power, and what they count for: their weight, or
\* the same for all when the weights are all zero.
Active(fill, I, cap) == {i \in I : fill.alloc[i] < cap[i]}
WeightsIn(A, weight) == IF Total(weight, A) = 0 THEN [i \in A |-> 1] ELSE [i \in A |-> weight[i]]

\* Definitions with a suffix, here and in SmartCharging, are slips a change to the
\* code could make: each of them breaks a property.  In this one the threshold is
\* what the item lacks, and not what all must get for it
Threshold_Unweighted(i, fill, cap, w, sum) == cap[i] - fill.alloc[i]

\* What must be handed out for i to reach its cap.
Threshold(i, fill, cap, w, sum) == ((cap[i] - fill.alloc[i]) * sum) \div w[i]

\* One turn of the loop: up to the first cap that is reached, or all there is.
FillPass(fill, I, cap, weight) ==
    LET A    == Active(fill, I, cap)
        w    == WeightsIn(A, weight)
        sum  == Total(w, A)
        ends == {Threshold(i, fill, cap, w, sum) : i \in {j \in A : w[j] > 0}}
        give == Min(ends \cup {fill.left})
    IN  IF fill.left = 0 \/ A = {} THEN fill
        ELSE [alloc |-> [i \in I |-> fill.alloc[i] + (IF i \in A THEN (give * w[i]) \div sum ELSE 0)],
              left  |-> fill.left - give]

\* The loop ends by itself within as many turns as there are sessions and one.
\* The guard of the code allows two.
WaterFill(I, cap, weight, total) ==
    LET turns == 0 .. Cardinality(I) + 2
        fill[k \in turns] ==
            IF k = 0 THEN [alloc |-> [i \in I |-> 0], left |-> total]
            ELSE FillPass(fill[k - 1], I, cap, weight)
    IN  fill[Cardinality(I) + 2].alloc

\* What the code promises of it: no more than there is and no more than anybody
\* takes, nothing left while somebody can take more, and nobody ahead, for his
\* weight, of one who could take more.  Those of weight zero share equally what
\* the others leave.
IsFairShare(a, I, cap, weight, total) ==
    /\ \A i \in I : a[i] \in 0 .. cap[i]
    /\ Total(a, I) = Min({total, Total(cap, I)})
    /\ \A i, j \in I : a[i] < cap[i] =>
          IF weight[i] = 0 /\ weight[j] = 0 THEN a[j] <= a[i]
                                            ELSE a[j] * weight[i] <= a[i] * weight[j]
-----------------------------------------------------------------------------
(* Rounding, buildSessionProfile *)

\* floor2 of num / den hundredths.
Floor2(num, den) ==
    LET k == num \div den
    IN  IF num % den = 0 /\ k \in Slips THEN k - 1 ELSE k

\* Of a session s.cap is what hardware and car can take, s.min the requested
\* minimum, in hundredths of a kW.  A minimum above the cap is cut to it.
EffectiveMin(s) == Min({s.min, s.cap})

\* The share raised to the minimum, then cut to the cap.
BuildProfile(s, share) ==
    [kw  |-> Floor2(Min({Max({share, EffectiveMin(s) * Parts}), s.cap * Parts}), Parts),
     min |-> Floor2(EffectiveMin(s) * Parts, Parts)]
-----------------------------------------------------------------------------
(* enforceGridBudget *)

Kw(p)     == [i \in DOMAIN p |-> p[i].kw]
Floors(p) == [i \in DOMAIN p |-> p[i].min]
Feasible(p, limit) == Total(Floors(p), DOMAIN p) * Parts <= limit

\* the floors are given though they are too much
Scaled_FloorsStay(p, i, limit) ==
    LET floors == Total(Floors(p), DOMAIN p)
        rest   == Total(Kw(p), DOMAIN p) - floors
        above  == Max({0, p[i].kw - p[i].min})
    IN  IF rest = 0 THEN Floor2(p[i].min, 1)
        ELSE Floor2((p[i].min * rest * Parts) + (above * (limit - (floors * Parts))), rest * Parts)

\* The new value of i when the sum exceeds the limit: what is above the floors
\* shrinks, or everything does when the floors alone are too much.
Scaled(p, i, limit) ==
    LET total  == Total(Kw(p), DOMAIN p)
        floors == Total(Floors(p), DOMAIN p)
        rest   == total - floors
        above  == Max({0, p[i].kw - p[i].min})
    IN  IF ~Feasible(p, limit) THEN Floor2(p[i].kw * limit, total * Parts)
        ELSE IF rest = 0 THEN Floor2(p[i].min, 1)
        ELSE Floor2((p[i].min * rest * Parts) + (above * (limit - (floors * Parts))), rest * Parts)

EnforceGridBudget(p, limit) ==
    IF Total(Kw(p), DOMAIN p) * Parts <= limit THEN p
    ELSE [i \in DOMAIN p |-> [kw |-> Scaled(p, i, limit), min |-> p[i].min]]
=============================================================================
