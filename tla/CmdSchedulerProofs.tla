------------------------- MODULE CmdSchedulerProofs -------------------------
(***************************************************************************)
(* Proofs about CmdScheduler for every set of command kinds, wire          *)
(* priorities, follow-ups, workers and bounds allowed by                  *)
(* SchedulerAssumption.                                                    *)
(***************************************************************************)
EXTENDS CmdScheduler, FiniteSetTheorems, TLAPS

USE SchedulerAssumption

(* Cmd::priority agrees with the priority table of spec 4.3 on every      *)
(* command.                                                                *)
LEMMA PriorityMatchesTable ==
  ASSUME NEW c \in Cmds
  PROVE  Priority(c) = TablePriority(c)
BY DEF Cmds, CmdKinds, WireKinds, Priority, TablePriority, TableClass

(* SetToSeq of a finite set is a sequence of its elements.                 *)
LEMMA SetToSeqType ==
  ASSUME NEW S, IsFiniteSet(S)
  PROVE  SetToSeq(S) \in Seq(S)
<1>1. Cardinality(S) \in Nat /\ ExistsBijection(1..Cardinality(S), S)
  BY FS_CardinalityType
<1>2. \E f \in [1..Cardinality(S) -> S] : IsInjective(f)
  BY <1>1 DEF ExistsBijection, Bijection, Injection, Surjection
<1>3. SetToSeq(S) \in [1..Cardinality(S) -> S]
  BY <1>2 DEF SetToSeq
<1>4. QED
  BY <1>1, <1>3

(***************************************************************************)
(* The invariant TakeInTableOrder rests on: every queued job carries a    *)
(* command and the priority Cmd::priority gives it, and the commands a    *)
(* worker holds or has still to push are commands.                        *)
(***************************************************************************)
JobsPrioritised ==
  /\ nextId \in Nat
  /\ queue \subseteq [id : Int, cmd : Cmds, priority : Int]
  /\ \A j \in queue : j.priority = Priority(j.cmd)
  /\ running \in [Workers -> {NoJob} \cup [id : Int, cmd : Cmds, priority : Int]]
  /\ out \in [Workers -> Seq(Cmds)]

LEMMA NewJobPrioritised ==
  ASSUME NEW id \in Int, NEW c \in Cmds
  PROVE  /\ NewJob(id, c) \in [id : Int, cmd : Cmds, priority : Int]
         /\ NewJob(id, c).priority = Priority(c)
<1>1. Priority(c) \in Int
  <2>1. TablePriority(c) \in Int
    <3>1. CASE c.kind \in WireKinds
      <4>1. c.wire \in WirePrios
        BY <3>1 DEF Cmds
      <4>2. QED
        BY <3>1, <4>1 DEF TablePriority
    <3>2. CASE c.kind \notin WireKinds
      <4>1. c.kind \in CmdKinds
        BY DEF Cmds
      <4>2. TableClass[c.kind] \in Int
        BY <4>1 DEF TableClass
      <4>3. QED
        BY <3>2, <4>2 DEF TablePriority
    <3>3. QED
      BY <3>1, <3>2
  <2>2. QED
    BY <2>1, PriorityMatchesTable
<1>2. QED
  BY <1>1 DEF NewJob

LEMMA JobsPrioritisedInit == Init => JobsPrioritised
<1> SUFFICES ASSUME Init PROVE JobsPrioritised
  OBVIOUS
<1>1. running \in [Workers -> {NoJob} \cup [id : Int, cmd : Cmds, priority : Int]]
  BY DEF Init
<1>2. out \in [Workers -> Seq(Cmds)]
  BY DEF Init
<1>3. QED
  BY <1>1, <1>2 DEF Init, JobsPrioritised

LEMMA JobsPrioritisedStep == JobsPrioritised /\ [Next]_vars => JobsPrioritised'
<1> SUFFICES ASSUME JobsPrioritised, [Next]_vars PROVE JobsPrioritised'
  OBVIOUS
<1> DEFINE Running == {NoJob} \cup [id : Int, cmd : Cmds, priority : Int]
<1>0. nextId \in Int
  BY DEF JobsPrioritised
<1>1. ASSUME NEW c \in External, Enqueue(c) PROVE JobsPrioritised'
  <2>1. c \in Cmds
    OBVIOUS
  <2>2. /\ NewJob(nextId, c) \in [id : Int, cmd : Cmds, priority : Int]
        /\ NewJob(nextId, c).priority = Priority(NewJob(nextId, c).cmd)
    BY <1>0, <2>1, NewJobPrioritised DEF NewJob
  <2>3. queue' = queue \cup {NewJob(nextId, c)} /\ nextId' = nextId + 1
        /\ UNCHANGED <<running, out>>
    BY <1>1 DEF Enqueue
  <2>4. QED
    BY <2>2, <2>3 DEF JobsPrioritised
<1>2. ASSUME NEW w \in Workers, Take(w) PROVE JobsPrioritised'
  <2>1. PICK j \in queue : /\ queue' = queue \ {j}
                            /\ running' = [running EXCEPT ![w] = j]
    BY <1>2 DEF Take
  <2>2. j \in [id : Int, cmd : Cmds, priority : Int]
    BY DEF JobsPrioritised
  <2>3. QED
    BY <1>2, <2>1, <2>2 DEF Take, JobsPrioritised
<1>3. ASSUME NEW w \in Workers, Handle(w) PROVE JobsPrioritised'
  <2>1. running[w].cmd \in Cmds
    BY <1>3 DEF Handle, JobsPrioritised
  <2>2. PICK F \in SUBSET FollowUps(running[w].cmd) :
               out' = [out EXCEPT ![w] = SetToSeq(F)]
    BY <1>3 DEF Handle
  <2>3. IsFiniteSet(F) /\ F \subseteq Cmds
    BY <2>1, FS_Subset
  <2>4. SetToSeq(F) \in Seq(Cmds)
    BY <2>3, SetToSeqType
  <2>5. QED
    BY <1>3, <2>2, <2>4 DEF Handle, JobsPrioritised
<1>4. ASSUME NEW w \in Workers, Push(w) PROVE JobsPrioritised'
  <2>1. out[w] \in Seq(Cmds) /\ out[w] # <<>>
    BY <1>4 DEF Push, JobsPrioritised
  <2>2. Head(out[w]) \in Cmds /\ Tail(out[w]) \in Seq(Cmds)
    BY <2>1
  <2>3. /\ NewJob(nextId, Head(out[w])) \in [id : Int, cmd : Cmds, priority : Int]
        /\ NewJob(nextId, Head(out[w])).priority
             = Priority(NewJob(nextId, Head(out[w])).cmd)
    BY <1>0, <2>2, NewJobPrioritised DEF NewJob
  <2>4. /\ queue' = queue \cup {NewJob(nextId, Head(out[w]))}
        /\ nextId' = nextId + 1
        /\ out' = [out EXCEPT ![w] = Tail(out[w])]
        /\ running' = running
    BY <1>4 DEF Push
  <2>5. QED
    BY <2>2, <2>3, <2>4 DEF JobsPrioritised
<1>5. CASE UNCHANGED vars
  BY <1>5 DEF vars, JobsPrioritised
<1>6. QED
  BY <1>1, <1>2, <1>3, <1>4, <1>5 DEF Next

THEOREM JobsPrioritisedHolds == Spec => []JobsPrioritised
BY JobsPrioritisedInit, JobsPrioritisedStep, PTL DEF Spec

(* Every Take obeys the table: the job taken comes first among those left *)
(* by the table's priorities, then by insertion order.                    *)
LEMMA TakeStepInTableOrder ==
  ASSUME JobsPrioritised, NEW w \in Workers, Take(w), NEW k \in queue'
  PROVE  \/ TablePriority(running'[w].cmd) > TablePriority(k.cmd)
         \/ /\ TablePriority(running'[w].cmd) = TablePriority(k.cmd)
            /\ running'[w].id < k.id
<1>1. PICK j \in queue : /\ \A k2 \in queue \ {j} : Before(j, k2)
                         /\ queue' = queue \ {j}
                         /\ running' = [running EXCEPT ![w] = j]
  BY DEF Take
<1>2. running'[w] = j
  BY <1>1 DEF JobsPrioritised
<1>3. k \in queue \ {j} /\ Before(j, k)
  BY <1>1
<1>4. /\ j.cmd \in Cmds /\ k.cmd \in Cmds
      /\ j.priority = TablePriority(j.cmd) /\ k.priority = TablePriority(k.cmd)
      /\ j.id \in Int /\ k.id \in Int
  BY <1>3, PriorityMatchesTable DEF JobsPrioritised
<1>5. QED
  BY <1>2, <1>3, <1>4 DEF Before

(* A worker always takes the pending job that comes first by the          *)
(* priority table of spec 4.3, and among equal priorities the one pushed  *)
(* first: Cmd::priority puts every variant in its class.                   *)
THEOREM TakeInTableOrderHolds == Spec => TakeInTableOrder
<1>1. JobsPrioritised =>
        [\A w \in Workers :
           Take(w) =>
             \A k \in queue' :
               \/ TablePriority(running'[w].cmd) > TablePriority(k.cmd)
               \/ /\ TablePriority(running'[w].cmd) = TablePriority(k.cmd)
                  /\ running'[w].id < k.id]_vars
  BY TakeStepInTableOrder
<1>2. QED
  BY <1>1, JobsPrioritisedHolds, PTL DEF TakeInTableOrder

=============================================================================
