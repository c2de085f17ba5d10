------------------------- MODULE StorageJoinsProofs -------------------------
(***************************************************************************)
(* Proofs about StorageJoins for every set of nodes and elders and every   *)
(* capacity, min capacity, tranche and bound allowed by StorageAssumption. *)
(***************************************************************************)
EXTENDS StorageJoins, TLAPS

USE StorageAssumption

(***************************************************************************)
(* Storage levels: the level is a natural number, and it is at least one  *)
(* exactly when a whole tranche is used.                                   *)
(***************************************************************************)
LEMMA LevelNat ==
  ASSUME NEW u \in Nat
  PROVE  Level(u) \in Nat
BY DEF Level

LEMMA LevelPositive ==
  ASSUME NEW u \in Nat
  PROVE  Level(u) >= 1 <=> u >= Tranche
BY DEF Level

-----------------------------------------------------------------------------
(* Type correctness.                                                       *)

LEMMA TypeInit == Init => TypeOK
BY DEF Init, TypeOK

LEMMA TypeStep == TypeOK /\ [Next]_vars => TypeOK'
<1> SUFFICES ASSUME TypeOK, [Next]_vars PROVE TypeOK'
  OBVIOUS
<1>1. ASSUME NEW n \in Nodes, ReceiveStore(n) PROVE TypeOK'
  BY <1>1 DEF ReceiveStore, TypeOK, Tasks
<1>2. ASSUME NEW t \in tasks, StoreOk(t) PROVE TypeOK'
  BY <1>2 DEF StoreOk, TypeOK, Tasks, Cmds, CmdKinds
<1>3. ASSUME NEW t \in tasks, StoreFull(t) PROVE TypeOK'
  BY <1>3 DEF StoreFull, TypeOK, Tasks, Cmds, CmdKinds, Reports, SendMsgToOurElders
<1>4. ASSUME NEW t \in tasks, StoreOtherError(t) PROVE TypeOK'
  BY <1>4 DEF StoreOtherError, TypeOK
<1>5. ASSUME NEW r \in reports, HandleCouldNotStoreData(r) PROVE TypeOK'
  BY <1>5 DEF HandleCouldNotStoreData, TypeOK, Reports, Cmds, CmdKinds
<1>6. ASSUME NEW c \in cmds, RunCmd(c) PROVE TypeOK'
  BY <1>6 DEF RunCmd, TypeOK, Cmds
<1>7. CASE Join
  <2>1. ja' \in [Nodes -> BOOLEAN]
    BY <1>7 DEF Join, TypeOK
  <2>2. joins' \in 0..MaxJoins
    BY <1>7 DEF Join, TypeOK
  <2>3. QED
    BY <1>7, <2>1, <2>2 DEF Join, TypeOK
<1>8. CASE UNCHANGED vars
  BY <1>8 DEF vars, TypeOK
<1>9. QED
  BY <1>1, <1>2, <1>3, <1>4, <1>5, <1>6, <1>7, <1>8 DEF Next

(* Every variable keeps its type: stores never exceed a node's capacity.  *)
THEOREM TypeCorrect == Spec => []TypeOK
BY TypeInit, TypeStep, PTL DEF Spec

-----------------------------------------------------------------------------
(***************************************************************************)
(* Joins only under storage pressure. The property is not inductive: a    *)
(* join may be asked for by a command not yet run or by a CouldNotStoreData *)
(* event still in transit, and the handler that asks reads a stale        *)
(* context. The strengthening says that whenever any node allows joins,   *)
(* or a join command or a full report is pending, some node is under      *)
(* pressure; pressure is never lost because storage only grows.            *)
(***************************************************************************)
Pressure == \E n \in Nodes : Level(used[n]) >= 1 \/ used[n] >= MinCap

JoinAsked ==
  \/ \E c \in cmds : c.kind # "ProposeOffline"
  \/ reports # {}
  \/ \E n \in Nodes : ja[n] \/ jus[n]

IInv == TypeOK /\ (JoinAsked => Pressure)
(* Storage only grows, so pressure, once there, stays.                     *)
LEMMA UsedGrows ==
  ASSUME TypeOK, [Next]_vars
  PROVE  \A n \in Nodes : used'[n] >= used[n]
<1>1. ASSUME NEW t \in tasks, StoreOk(t) PROVE \A n \in Nodes : used'[n] >= used[n]
  BY <1>1 DEF StoreOk, TypeOK, Tasks
<1>2. CASE ~\E t \in tasks : StoreOk(t)
  <2>1. used' = used
    BY <1>2 DEF Next, vars, ReceiveStore, StoreFull, StoreOtherError,
                HandleCouldNotStoreData, RunCmd, Join
  <2>2. QED
    BY <2>1 DEF TypeOK
<1>3. QED
  BY <1>1, <1>2

LEMMA PressureKept ==
  ASSUME TypeOK, [Next]_vars, Pressure
  PROVE  Pressure'
<1>1. TypeOK'
  BY TypeStep
<1>2. PICK k \in Nodes : Level(used[k]) >= 1 \/ used[k] >= MinCap
  BY DEF Pressure
<1>3. used[k] \in Nat /\ used'[k] \in Nat /\ used'[k] >= used[k]
  BY <1>1, UsedGrows DEF TypeOK
<1>4. used[k] >= Tranche \/ used[k] >= MinCap
  BY <1>2, <1>3, LevelPositive
<1>5. used'[k] >= Tranche \/ used'[k] >= MinCap
  BY <1>3, <1>4
<1>6. QED
  BY <1>3, <1>5, LevelPositive DEF Pressure

LEMMA IInvInit == Init => IInv
BY TypeInit DEF Init, IInv, JoinAsked

LEMMA IInvStep == IInv /\ [Next]_vars => IInv'
<1> SUFFICES ASSUME TypeOK, JoinAsked => Pressure, [Next]_vars, JoinAsked'
             PROVE  Pressure'
  BY TypeStep DEF IInv
<1>1. CASE Pressure
  BY <1>1, PressureKept
<1>2. CASE ~Pressure
  <2>0. /\ \A c \in cmds : c.kind = "ProposeOffline"
        /\ reports = {}
        /\ \A n \in Nodes : ~ja[n] /\ ~jus[n]
    BY <1>2 DEF JoinAsked
  <2>1. ASSUME NEW n \in Nodes, ReceiveStore(n) PROVE FALSE
    BY <2>0, <2>1 DEF ReceiveStore, JoinAsked
  <2>2. ASSUME NEW t \in tasks, StoreOk(t) PROVE Pressure'
    <3> DEFINE n == t.node
               u == used[n] + 1
    <3>1. n \in Nodes /\ used[n] \in Nat /\ used'[n] = u
      BY <2>2 DEF StoreOk, TypeOK, Tasks
    <3>2. CASE Level(u) > Level(used[n])
      <4>1. Level(u) >= 1
        BY <3>1, <3>2, LevelNat
      <4>2. QED
        BY <3>1, <4>1 DEF Pressure
    <3>3. CASE ~(Level(u) > Level(used[n])) /\ HasReachedMinCapacity(u) /\ ~t.jus
      BY <3>1, <3>3 DEF HasReachedMinCapacity, Pressure
    <3>4. CASE ~(Level(u) > Level(used[n])) /\ ~(HasReachedMinCapacity(u) /\ ~t.jus)
      <4>1. cmds' = cmds
        BY <2>2, <3>4 DEF StoreOk
      <4>2. FALSE
        BY <2>0, <2>2, <4>1 DEF StoreOk, JoinAsked
      <4>3. QED
        BY <4>2
    <3>5. QED
      BY <3>2, <3>3, <3>4
  <2>3. ASSUME NEW t \in tasks, StoreFull(t) PROVE FALSE
    <3>1. t.node \in Nodes /\ used[t.node] = Cap
      BY <2>3 DEF StoreFull, TypeOK, Tasks
    <3>2. Pressure
      BY <3>1 DEF Pressure
    <3>3. QED
      BY <1>2, <3>2
  <2>4. ASSUME NEW t \in tasks, StoreOtherError(t) PROVE FALSE
    BY <2>0, <2>4 DEF StoreOtherError, JoinAsked
  <2>5. ASSUME NEW r \in reports, HandleCouldNotStoreData(r) PROVE FALSE
    BY <2>0
  <2>6. ASSUME NEW c \in cmds, RunCmd(c) PROVE FALSE
    <3>1. c.kind = "ProposeOffline"
      BY <2>0
    <3>2. ja' = ja /\ jus' = jus /\ cmds' \subseteq cmds /\ reports' = reports
      BY <2>6, <3>1 DEF RunCmd
    <3>3. QED
      BY <2>0, <3>2 DEF JoinAsked
  <2>7. CASE Join
    BY <2>0, <2>7, StorageAssumption DEF Join
  <2>8. CASE UNCHANGED vars
    BY <2>0, <2>8 DEF vars, JoinAsked
  <2>9. QED
    BY <2>1, <2>2, <2>3, <2>4, <2>5, <2>6, <2>7, <2>8 DEF Next
<1>3. QED
  BY <1>1, <1>2

LEMMA IInvJoinsOnlyUnderPressure == IInv => JoinsOnlyUnderPressure
BY StorageAssumption DEF IInv, JoinAsked, Pressure, JoinsOnlyUnderPressure

(* store_data_and_respond and the CouldNotStoreData handler open the       *)
(* section to joins only under storage pressure, whatever stale contexts  *)
(* the handlers act on.                                                    *)
THEOREM JoinsOnlyUnderPressureHolds == Spec => []JoinsOnlyUnderPressure
BY IInvInit, IInvStep, IInvJoinsOnlyUnderPressure, PTL DEF Spec

=============================================================================
