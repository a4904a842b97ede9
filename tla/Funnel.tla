------------------------------- MODULE Funnel -------------------------------
(***************************************************************************)
(* compare_funnel of commerce.py: two weeks of a product's sales funnel,   *)
(* their rates, and how much of the change in paid orders is put down to   *)
(* traffic and how much to conversion.  A float of the code is the exact   *)
(* fraction it approximates; None is NoRate.                               *)
(***************************************************************************)
EXTENDS Integers

CONSTANT NoRate

Window == [impressions : Nat, clicks : Nat, orders : Nat]

Fraction == [num : Int, den : Int \ {0}]

ASSUME NoRateAssumption == NoRate \notin Fraction

\* Mutant: no product without clicks was thought of.
RateUnchecked(numerator, denominator) == [num |-> numerator, den |-> denominator]

\* _rate
Rate(numerator, denominator) ==
  IF denominator = 0 THEN NoRate ELSE [num |-> numerator, den |-> denominator]

\* Mutant: the change is weighed with the rate of one week, not with both.
TrafficOneSided(before, after) ==
  LET cb == Rate(before.orders, before.clicks)
      ca == Rate(after.orders, after.clicks)
  IN IF NoRate \in {cb, ca} THEN NoRate
     ELSE [num |-> (after.clicks - before.clicks) * ca.num, den |-> ca.den]

\* traffic_contribution: the clicks gained, at the mean conversion.
Traffic(before, after) ==
  LET cb == Rate(before.orders, before.clicks)
      ca == Rate(after.orders, after.clicks)
  IN IF NoRate \in {cb, ca} THEN NoRate
     ELSE [num |-> (after.clicks - before.clicks) * (cb.num * ca.den + ca.num * cb.den),
           den |-> 2 * (cb.den * ca.den)]

\* conversion_contribution: the conversion gained, at the mean clicks.
Conversion(before, after) ==
  LET cb == Rate(before.orders, before.clicks)
      ca == Rate(after.orders, after.clicks)
  IN IF NoRate \in {cb, ca} THEN NoRate
     ELSE [num |-> (ca.num * cb.den - cb.num * ca.den) * (before.clicks + after.clicks),
           den |-> 2 * (cb.den * ca.den)]

\* FunnelComparison: what the report of a diagnosis prints.
Comparison == [change : Int, changeRate : Fraction \cup {NoRate},
               traffic : Fraction \cup {NoRate}, conversion : Fraction \cup {NoRate}]

CompareFunnel(before, after) ==
  [change     |-> after.orders - before.orders,
   changeRate |-> Rate(after.orders - before.orders, before.orders),
   traffic    |-> Traffic(before, after),
   conversion |-> Conversion(before, after)]

\* The two contributions of a comparison account for the whole change.
AddsUp(c) ==
  c.traffic.num * c.conversion.den + c.conversion.num * c.traffic.den
    = c.change * (c.traffic.den * c.conversion.den)
=============================================================================
