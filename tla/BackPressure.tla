---------------------------- MODULE BackPressure ----------------------------
(***************************************************************************)
(* The backpressure controller (src/sn_node/src/node/core/comm/            *)
(* back_pressure/mod.rs). Each call of try_get_new_value is a task of its  *)
(* own that takes two steps: it computes the candidate rate and reads      *)
(* last_report (lines 47-62), then, after the read lock is released,       *)
(* decides and writes last_report (lines 65-107). Rates are f64 in the     *)
(* code and exact rationals [n, d] here; the ratio tests are done by       *)
(* cross-multiplication.                                                   *)
(***************************************************************************)
EXTENDS Naturals

CONSTANTS
  Tasks,      \* concurrent callers of tolerated_msgs_per_s
  SanityMax,  \* SANITY_MAX_PER_S_AND_PEER (INITIAL_MSGS_PER_S)
  Loads,      \* msgs_per_s the load monitor may report, as rationals
  Sessions    \* the sessions counts a call may be given

ASSUME BackPressureAssumption ==
  /\ SanityMax \in Nat \ {0}
  /\ Loads \subseteq [n : Nat, d : Nat \ {0}]
  /\ Sessions \subseteq Nat

None == [n |-> 0, d |-> 0]

Rat(n, d) == [n |-> n, d |-> d]

(* Lines 47-57: 10 * msgs_per_s / max(1, sessions), clamped to            *)
(* [SANITY_MIN, SANITY_MAX] with SANITY_MIN = 1.                          *)
Candidate(load, s) ==
  LET raw == Rat(10 * load.n, load.d * (IF s > 1 THEN s ELSE 1))
      hi  == IF raw.n > SanityMax * raw.d THEN Rat(SanityMax, 1) ELSE raw
  IN  IF hi.n < hi.d THEN Rat(1, 1) ELSE hi

(* significant_change(v / p): 0.95 >= ratio || ratio >= 1.1 || ratio == 0 *)
SignificantChange(v, p) ==
  \/ 100 * v.n * p.d <= 95 * p.n * v.d
  \/ 10 * v.n * p.d >= 11 * p.n * v.d
  \/ v.n = 0

Values == {Candidate(l, s) : l \in Loads, s \in Sessions}

VARIABLES
  lastReport, \* last_report: None or the value recorded
  advertised, \* the value the node last pushed to a peer (SANITY_MAX at first)
  pc,         \* pc[t]: "idle" or "read" (between lines 62 and 65)
  val,        \* val[t]: the candidate computed by task t
  prev        \* prev[t]: the value of last_report task t read

vars == <<lastReport, advertised, pc, val, prev>>

Init ==
  /\ lastReport = None
  /\ advertised = Rat(SanityMax, 1)
  /\ pc = [t \in Tasks |-> "idle"]
  /\ val = [t \in Tasks |-> None]
  /\ prev = [t \in Tasks |-> None]

(* Lines 70-96: (record_changes, worthwhile_reporting) for candidate v    *)
(* and the report p read at line 62.                                      *)
RecordChanges(v, p) ==
  IF p = None THEN TRUE ELSE SignificantChange(v, p)
WorthwhileReporting(v, p) ==
  SignificantChange(v, IF p = None THEN Rat(SanityMax, 1) ELSE p)

(***************************************************************************)
(* A plausible bug of ReadReport.                                          *)
(***************************************************************************)
(* A read that takes the rate per peer without the sanity clamps.         *)
ReadReportUnclamped(t) ==
  /\ pc[t] = "idle"
  /\ \E l \in Loads, s \in Sessions :
       val' = [val EXCEPT ![t] = Rat(10 * l.n, l.d * (IF s > 1 THEN s ELSE 1))]
  /\ prev' = [prev EXCEPT ![t] = lastReport]
  /\ pc' = [pc EXCEPT ![t] = "read"]
  /\ UNCHANGED <<lastReport, advertised>>

-----------------------------------------------------------------------------

(* Lines 46-62: compute the candidate, then read last_report.             *)
ReadReport(t) ==
  /\ pc[t] = "idle"
  /\ \E l \in Loads, s \in Sessions : val' = [val EXCEPT ![t] = Candidate(l, s)]
  /\ prev' = [prev EXCEPT ![t] = lastReport]
  /\ pc' = [pc EXCEPT ![t] = "read"]
  /\ UNCHANGED <<lastReport, advertised>>

(* Lines 65-107: record the candidate if it changed significantly from    *)
(* the value read (or always, on the first report), and return it to the  *)
(* caller if worth reporting.                                              *)
Decide(t) ==
  /\ pc[t] = "read"
  /\ lastReport' = IF RecordChanges(val[t], prev[t]) THEN val[t] ELSE lastReport
  /\ advertised' = IF WorthwhileReporting(val[t], prev[t])
                   THEN val[t] ELSE advertised
  /\ pc' = [pc EXCEPT ![t] = "idle"]
  /\ UNCHANGED <<val, prev>>

Next == \E t \in Tasks : ReadReport(t) \/ Decide(t)

Spec == Init /\ [][Next]_vars

-----------------------------------------------------------------------------

TypeOK ==
  /\ lastReport \in Values \cup {None}
  /\ advertised \in Values \cup {Rat(SanityMax, 1)}
  /\ pc \in [Tasks -> {"idle", "read"}]
  /\ val \in [Tasks -> Values \cup {None}]
  /\ prev \in [Tasks -> Values \cup {None}]

(* The value last_report holds, against which the next candidate is       *)
(* judged (line 72), is never a significant change from the rate the      *)
(* peers were last told: whenever the code records a value (line 100), it *)
(* is pushed to the peers unless it is within the band of SANITY_MAX,    *)
(* their default. Lines 62 and 100 are separate lock acquisitions, so     *)
(* concurrent callers may judge their candidates against the same stale   *)
(* read and record in either order.                                        *)
StoredInBandOfAdvertised ==
  lastReport # None => ~SignificantChange(lastReport, advertised)

=============================================================================
