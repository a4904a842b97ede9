---------------------------- MODULE FunnelProofs ----------------------------
(***************************************************************************)
(* The arithmetic of Funnel for all counts: with clicks in both weeks the  *)
(* two contributions add up to the change of orders exactly, and without   *)
(* clicks in one of them there are none.                                   *)
(***************************************************************************)
EXTENDS Funnel, TLAPS

\* With p of q and r of s: (s-q) * (p/q + r/s) / 2 + (r/s - p/q) * (q+s) / 2 = r - p.
LEMMA Balance ==
  \A p, q, r, s \in Int :
    ((s - q) * (p * s + r * q)) * (2 * (q * s))
        + ((r * q - p * s) * (q + s)) * (2 * (q * s))
      = (r - p) * ((2 * (q * s)) * (2 * (q * s)))
  BY SMT

\* A quotient of two counts is a fraction or NoRate, and NoRate just without a divisor.
LEMMA RateFraction ==
  ASSUME NEW n \in Int, NEW d \in Nat
  PROVE  /\ Rate(n, d) = NoRate <=> d = 0
         /\ d # 0 => Rate(n, d) = [num |-> n, den |-> d]
<1>1. CASE d = 0
  BY <1>1 DEF Rate
<1>2. CASE d # 0
  <2>1. [num |-> n, den |-> d] \in Fraction
    BY <1>2 DEF Fraction
  <2> QED
    BY <1>2, <2>1, NoRateAssumption DEF Rate
<1> QED
  BY <1>1, <1>2

\* The contributions are missing exactly when a week had no clicks, and otherwise
\* account for the whole change of paid orders.
THEOREM ContributionsExplain ==
  ASSUME NEW before \in Window, NEW after \in Window
  PROVE  LET c == CompareFunnel(before, after)
             noClicks == before.clicks = 0 \/ after.clicks = 0
         IN /\ (c.traffic = NoRate) = noClicks
            /\ (c.conversion = NoRate) = noClicks
            /\ ~ noClicks => AddsUp(c)
<1> DEFINE p == before.orders
           q == before.clicks
           r == after.orders
           s == after.clicks
           cb == Rate(p, q)
           ca == Rate(r, s)
           c == CompareFunnel(before, after)
<1>1. p \in Nat /\ q \in Nat /\ r \in Nat /\ s \in Nat
  BY DEF Window
<1>2. /\ c.change = r - p
      /\ c.traffic = Traffic(before, after)
      /\ c.conversion = Conversion(before, after)
  BY DEF CompareFunnel
<1>3. CASE q = 0 \/ s = 0
  <2>1. cb = NoRate \/ ca = NoRate
    BY <1>1, <1>3, RateFraction
  <2>2. Traffic(before, after) = NoRate /\ Conversion(before, after) = NoRate
    BY <2>1 DEF Traffic, Conversion
  <2> QED
    BY <1>2, <1>3, <2>2
<1>4. CASE ~ (q = 0 \/ s = 0)
  <2>1. cb = [num |-> p, den |-> q] /\ ca = [num |-> r, den |-> s]
    BY <1>1, <1>4, RateFraction
  <2>2. cb # NoRate /\ ca # NoRate
    BY <1>1, <1>4, RateFraction
  <2>3. Traffic(before, after) =
          [num |-> (s - q) * (p * s + r * q), den |-> 2 * (q * s)]
    BY <2>1, <2>2, SMT DEF Traffic
  <2>4. Conversion(before, after) =
          [num |-> (r * q - p * s) * (q + s), den |-> 2 * (q * s)]
    BY <2>1, <2>2, SMT DEF Conversion
  <2>5. q * s \in Int /\ q * s # 0
    BY <1>1, <1>4, SMT
  <2>6. Traffic(before, after) \in Fraction /\ Conversion(before, after) \in Fraction
    BY <1>1, <2>3, <2>4, <2>5, SMT DEF Fraction
  <2>7. c.traffic # NoRate /\ c.conversion # NoRate
    BY <1>2, <2>6, NoRateAssumption
  <2>8. AddsUp(c)
    <3>1. /\ c.traffic.num = (s - q) * (p * s + r * q) /\ c.traffic.den = 2 * (q * s)
          /\ c.conversion.num = (r * q - p * s) * (q + s)
          /\ c.conversion.den = 2 * (q * s)
      BY <1>2, <2>3, <2>4, SMT
    <3> HIDE DEF p, q, r, s, c
    <3>2. ((s - q) * (p * s + r * q)) * (2 * (q * s))
             + ((r * q - p * s) * (q + s)) * (2 * (q * s))
           = (r - p) * ((2 * (q * s)) * (2 * (q * s)))
      <4>1. p \in Int /\ q \in Int /\ r \in Int /\ s \in Int
        BY <1>1, SMT
      <4> QED
        BY <4>1, Balance, SMTT(30)
    <3> QED
      BY <1>2, <3>1, <3>2, Zenon DEF AddsUp
  <2> QED
    BY <1>4, <2>7, <2>8
<1> QED
  BY <1>3, <1>4
=============================================================================
