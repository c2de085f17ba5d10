------------------------- MODULE BackPressureProofs -------------------------
(***************************************************************************)
(* Proofs about BackPressure for every SANITY_MAX, set of loads and set of *)
(* sessions counts allowed by BackPressureAssumption.                      *)
(***************************************************************************)
EXTENDS BackPressure, TLAPS

USE BackPressureAssumption

-----------------------------------------------------------------------------
(* Type correctness.                                                       *)

(* TypeOK is not inductive: a task between its two steps must hold a       *)
(* computed candidate, which Decide may push to the peers.                 *)
TypeInv == TypeOK /\ \A t \in Tasks : pc[t] = "read" => val[t] \in Values

LEMMA TypeInit == Init => TypeInv
BY DEF Init, TypeInv, TypeOK

LEMMA TypeStep == TypeInv /\ [Next]_vars => TypeInv'
<1> SUFFICES ASSUME TypeInv, [Next]_vars PROVE TypeInv'
  OBVIOUS
<1>1. ASSUME NEW t \in Tasks, ReadReport(t) PROVE TypeInv'
  BY <1>1 DEF ReadReport, TypeInv, TypeOK, Values
<1>2. ASSUME NEW t \in Tasks, Decide(t) PROVE TypeInv'
  <2>1. val[t] \in Values
    BY <1>2 DEF Decide, TypeInv
  <2>2. QED
    BY <1>2, <2>1 DEF Decide, TypeInv, TypeOK
<1>3. CASE UNCHANGED vars
  BY <1>3 DEF vars, TypeInv, TypeOK
<1>4. QED
  BY <1>1, <1>2, <1>3 DEF Next

(* Every rate a caller computes, records or pushes to a peer is one of the *)
(* clamped candidates, SANITY_MAX at first.                                *)
THEOREM TypeCorrect == Spec => []TypeOK
<1>1. TypeInv => TypeOK
  BY DEF TypeInv
<1>2. QED
  BY TypeInit, TypeStep, <1>1, PTL DEF Spec

-----------------------------------------------------------------------------
(* The sanity clamps.                                                      *)

(* The rates between SANITY_MIN (1) and SANITY_MAX, with a positive        *)
(* denominator.                                                            *)
Clamped == {r \in [n : Nat, d : Nat \ {0}] : r.d <= r.n /\ r.n <= SanityMax * r.d}

(* Lines 47-57 clamp every candidate into [SANITY_MIN, SANITY_MAX],         *)
(* whatever the load monitor reports and whatever the sessions count.      *)
LEMMA CandidateClamped ==
  ASSUME NEW l \in Loads, NEW s \in Sessions
  PROVE  Candidate(l, s) \in Clamped
<1> DEFINE m   == IF s > 1 THEN s ELSE 1
           raw == Rat(10 * l.n, l.d * m)
           hi  == IF raw.n > SanityMax * raw.d THEN Rat(SanityMax, 1) ELSE raw
<1>1. l.n \in Nat /\ l.d \in Nat /\ l.d >= 1 /\ m \in Nat /\ m >= 1
  OBVIOUS
<1>2. raw \in [n : Nat, d : Nat \ {0}]
  BY <1>1 DEF Rat
<1>3. hi \in [n : Nat, d : Nat \ {0}] /\ hi.n <= SanityMax * hi.d
  BY <1>2 DEF Rat
<1>4. CASE hi.n < hi.d
  <2>1. Candidate(l, s) = Rat(1, 1)
    BY <1>4 DEF Candidate
  <2>2. QED
    BY <2>1 DEF Clamped, Rat
<1>5. CASE ~(hi.n < hi.d)
  <2>1. Candidate(l, s) = hi
    BY <1>5 DEF Candidate
  <2>2. QED
    BY <1>3, <1>5, <2>1 DEF Clamped
<1>6. QED
  BY <1>4, <1>5

(* Every rate a caller records in last_report or pushes to its peers lies  *)
(* within the sanity clamps, SANITY_MAX itself before the first push, for  *)
(* any number of concurrent callers, any SANITY_MAX and any loads.         *)
THEOREM RatesClamped ==
  Spec => [](/\ lastReport # None => lastReport \in Clamped
             /\ advertised \in Clamped)
<1>1. Values \subseteq Clamped
  BY CandidateClamped DEF Values
<1>2. Rat(SanityMax, 1) \in Clamped
  BY DEF Rat, Clamped
<1>3. TypeOK => /\ lastReport # None => lastReport \in Clamped
               /\ advertised \in Clamped
  BY <1>1, <1>2 DEF TypeOK
<1>4. QED
  BY <1>3, TypeCorrect, PTL

=============================================================================
