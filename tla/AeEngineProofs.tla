--------------------------- MODULE AeEngineProofs ---------------------------
(***************************************************************************)
(* Proofs about the AE engine between sections, for every set of nodes,   *)
(* sections, messages and every bound on key rotations and losses.         *)
(***************************************************************************)
EXTENDS AeEngine, FiniteSetTheorems, TLAPS

(* The constants' assumptions, cited together.                            *)
Assumptions ==
  HomeAssumption /\ EldersAssumption /\ BoundsAssumption /\ PayloadAssumption
  /\ ProbeAssumption

LEMMA AssumptionsHold == Assumptions
BY HomeAssumption, EldersAssumption, BoundsAssumption, PayloadAssumption,
   ProbeAssumption DEF Assumptions

(***************************************************************************)
(* Type correctness.                                                       *)
(***************************************************************************)
(* The initial state is well typed.                                       *)
LEMMA TypeInit == Init => TypeOK
<1> SUFFICES ASSUME Init PROVE TypeOK
  OBVIOUS
<1>1. 0 \in Gen
  BY BoundsAssumption DEF Gen
<1>2. QED
  BY <1>1, BoundsAssumption DEF Init, TypeOK, Status

(* Applying a SAP to well-typed knowledge keeps it well typed.             *)
LEMMA ApplyUpdateType ==
  ASSUME NEW k \in [Prefixes -> Gen], NEW u \in Sap
  PROVE  ApplyUpdate(k, u) \in [Prefixes -> Gen]
BY DEF ApplyUpdate, WouldUpdate, Sap

(* The message an AE-Retry re-sends is the message it bounced, addressed  *)
(* anew: it belongs to the same payload, sender and target.               *)
LEMMA ResendType ==
  ASSUME NEW ae \in RetryMsgs, NEW g \in Gen
  PROVE  NodeMsg(ae.bounced.id, ae.to, ae.from, g) \in NodeMsgs
<1>1. PICK m \in Payloads, h \in Gen, k \in Gen :
        ae = [from |-> Target[m], to |-> Origin[m],
              sap |-> [prefix |-> Home[Target[m]], gen |-> h],
              bounced |-> NodeMsg(m, Origin[m], Target[m], k)]
  BY DEF RetryMsgs
<1>2. QED
  BY <1>1 DEF NodeMsgs, NodeMsg

(* The AE-Retry an elder sends for a node message in transit.              *)
LEMMA BounceType ==
  ASSUME TypeOK, NEW msg \in nodeNet
  PROVE  RetryFor(msg.to, msg) \in RetryMsgs
<1>1. PICK m \in Payloads, g \in Gen : msg = NodeMsg(m, Origin[m], Target[m], g)
  BY DEF TypeOK, NodeMsgs
<1>2. know[Target[m]][Home[Target[m]]] \in Gen
  BY PayloadAssumption, HomeAssumption DEF TypeOK
<1>3. QED
  BY <1>1, <1>2 DEF RetryFor, SectionSap, RetryMsgs, NodeMsg

(* Every step keeps every variable in its type.                           *)
LEMMA TypeStep == TypeOK /\ [Next]_vars => TypeOK'
<1> SUFFICES ASSUME TypeOK, [Next]_vars PROVE TypeOK'
  OBVIOUS
<1> USE DEF TypeOK
<1>1. ASSUME NEW m \in Payloads, SendMsg(m) PROVE TypeOK'
  <2>1. know[Origin[m]][Home[Target[m]]] \in Gen
    BY PayloadAssumption, HomeAssumption
  <2>2. QED
    BY <1>1, <2>1 DEF SendMsg, DstKey, NodeMsgs, Status
<1>2. ASSUME NEW msg \in nodeNet, HandleValidMsg(msg) \/ BounceRetry(msg)
      PROVE  TypeOK'
  <2>1. msg.id \in Payloads
    BY DEF NodeMsgs, NodeMsg
  <2>2. CASE HandleValidMsg(msg)
    BY <2>1, <2>2 DEF HandleValidMsg, Status
  <2>3. CASE BounceRetry(msg)
    BY <2>3, BounceType DEF BounceRetry
  <2>4. QED
    BY <1>2, <2>2, <2>3
<1>3. ASSUME NEW ae \in retryNet, HandleRetry(ae) PROVE TypeOK'
  <2> DEFINE n == ae.to
             k == ApplyUpdate(know[n], ae.sap)
  <2>1. n \in Nodes /\ ae.sap \in Sap /\ ae.bounced.id \in Payloads
    BY PayloadAssumption, HomeAssumption DEF RetryMsgs, NodeMsg, Sap, Gen
  <2>2. k \in [Prefixes -> Gen]
    BY <2>1, ApplyUpdateType
  <2>3. DstKey(k, ae.from) \in Gen
    BY <2>2, PayloadAssumption, HomeAssumption DEF DstKey, RetryMsgs
  <2>4. NodeMsg(ae.bounced.id, n, ae.from, DstKey(k, ae.from)) \in NodeMsgs
    BY <2>3, ResendType
  <2>5. QED
    BY <1>3, <2>1, <2>2, <2>4 DEF HandleRetry, Status
<1>4. ASSUME NEW u \in updateNet, HandleUpdate(u) PROVE TypeOK'
  BY <1>4, ApplyUpdateType DEF HandleUpdate
<1>5. ASSUME NEW pr \in probeNet, HandleProbe(pr) PROVE TypeOK'
  <2>1. pr.to \in Elders => SectionSap(pr.to) \in Sap
    BY HomeAssumption DEF SectionSap, Sap
  <2>2. QED
    BY <1>5, <2>1 DEF HandleProbe, AeUpdate
<1>6. ASSUME NEW n \in Nodes, NEW t \in Nodes, SendProbe(n, t) PROVE TypeOK'
  BY <1>6, HomeAssumption DEF SendProbe, DstKey
<1>7. ASSUME NEW p \in Prefixes, Rotate(p) PROVE TypeOK'
  <2>1. cur[p] + 1 \in Gen
    BY <1>7, BoundsAssumption DEF Rotate, Gen
  <2>2. QED
    BY <1>7, <2>1 DEF Rotate
<1>11. ASSUME NEW e \in Nodes, Handover(e) PROVE TypeOK'
  <2>1. Home[e] \in Prefixes /\ e \in Elders
    BY <1>11, HomeAssumption DEF Handover
  <2>2. cur[Home[e]] \in Gen
    BY <2>1
  <2>3. know' \in [Nodes -> [Prefixes -> Gen]]
    BY <1>11, <2>1, <2>2 DEF Handover
  <2>4. {AeUpdate(e, n, [prefix |-> Home[e], gen |-> cur[Home[e]]]) :
           n \in Members(Home[e]) \ {e}}
          \subseteq [from : Elders, to : Nodes, sap : Sap]
    BY <2>1, <2>2 DEF AeUpdate, Sap, Members
  <2>5. updateNet' \subseteq [from : Elders, to : Nodes, sap : Sap]
    BY <1>11, <2>4 DEF Handover
  <2>6. QED
    BY <1>11, <2>3, <2>5 DEF Handover
<1>8. CASE Lose
  <2>1. lost' \in 0..MaxLoss
    BY <1>8, BoundsAssumption DEF Lose
  <2>2. ASSUME NEW msg \in nodeNet,
               nodeNet' = nodeNet \ {msg},
               status' = [status EXCEPT ![msg.id] = "lost"]
        PROVE  nodeNet' \subseteq NodeMsgs /\ status' \in [Payloads -> Status]
    BY <2>2 DEF Status
  <2>3. ASSUME NEW ae \in retryNet,
               retryNet' = retryNet \ {ae},
               status' = [status EXCEPT ![ae.bounced.id] = "lost"]
        PROVE  retryNet' \subseteq RetryMsgs /\ status' \in [Payloads -> Status]
    BY <2>3 DEF Status
  <2>4. QED
    BY <1>8, <2>1, <2>2, <2>3 DEF Lose
<1>9. CASE UNCHANGED vars
  BY <1>9 DEF vars
<1>10. QED
  BY <1>1, <1>2, <1>3, <1>4, <1>5, <1>6, <1>7, <1>8, <1>9, <1>11 DEF Next

(***************************************************************************)
(* Every variable of the engine keeps its type, whatever the sets of      *)
(* nodes, sections and messages and the bounds.                            *)
(***************************************************************************)
THEOREM TypeCorrect == Spec => []TypeOK
BY TypeInit, TypeStep, PTL DEF Spec


(***************************************************************************)
(* The inductive invariant behind NoSilentDrop. Each                      *)
(* payload has at most one copy in transit (as a node message or inside   *)
(* the AE-Retry bouncing it), a copy exists exactly while the payload is  *)
(* in flight, and every key a copy carries is at most the key its sender  *)
(* now holds for the recipient's section, because knowledge only grows.  *)
(* The last conjunct is what makes the loop guard safe: a message dropped *)
(* because its key equals the advertised SAP taught the sender nothing.   *)
(***************************************************************************)
UniqueCopies ==
  /\ \A x, y \in nodeNet : x.id = y.id => x = y
  /\ \A x, y \in retryNet : x.bounced.id = y.bounced.id => x = y
  /\ \A x \in nodeNet, y \in retryNet : x.id # y.bounced.id

CopiesInflight ==
  /\ \A x \in nodeNet : status[x.id] = "inflight"
  /\ \A y \in retryNet : status[y.bounced.id] = "inflight"

InflightHasCopy ==
  \A m \in Payloads : status[m] = "inflight" => Copies(m) # {}

KeysKnown ==
  /\ \A x \in nodeNet : x.key <= know[x.from][Home[x.to]]
  /\ \A y \in retryNet : y.bounced.key <= know[y.to][Home[y.from]]

IInv == TypeOK /\ UniqueCopies /\ CopiesInflight /\ InflightHasCopy /\ KeysKnown


(* Applying a SAP never lowers what is known of any prefix.               *)
LEMMA ApplyUpdateMonotone ==
  ASSUME NEW k \in [Prefixes -> Gen], NEW u \in Sap, NEW p \in Prefixes
  PROVE  ApplyUpdate(k, u)[p] >= k[p]
BY DEF ApplyUpdate, WouldUpdate, Sap, Gen

(* No step lowers what a node knows of a section.                          *)
LEMMA KnowMonotone ==
  ASSUME TypeOK, [Next]_vars, NEW n \in Nodes, NEW p \in Prefixes
  PROVE  know'[n][p] >= know[n][p]
<1> USE DEF TypeOK
<1>1. ASSUME NEW ae \in retryNet, HandleRetry(ae) PROVE know'[n][p] >= know[n][p]
  <2>1. ae.to \in Nodes /\ ae.sap \in Sap
    BY PayloadAssumption, HomeAssumption DEF RetryMsgs, Sap, Gen
  <2>2. ApplyUpdate(know[ae.to], ae.sap)[p] >= know[ae.to][p]
    BY <2>1, ApplyUpdateMonotone
  <2>3. QED
    BY <1>1, <2>1, <2>2 DEF HandleRetry, Gen
<1>2. ASSUME NEW u \in updateNet, HandleUpdate(u) PROVE know'[n][p] >= know[n][p]
  <2>1. ApplyUpdate(know[u.to], u.sap)[p] >= know[u.to][p]
    BY ApplyUpdateMonotone
  <2>2. QED
    BY <1>2, <2>1 DEF HandleUpdate, Gen
<1>3. ASSUME NEW e \in Nodes, Handover(e) PROVE know'[n][p] >= know[n][p]
  BY <1>3, HomeAssumption DEF Handover, Gen
<1>4. CASE /\ ~(\E ae \in retryNet : HandleRetry(ae))
           /\ ~(\E u \in updateNet : HandleUpdate(u))
           /\ ~(\E e \in Nodes : Handover(e))
  <2>1. know' = know
    BY <1>4 DEF Next, vars, SendMsg, HandleValidMsg, BounceRetry, HandleProbe,
                SendProbe, Rotate, Lose
  <2>2. QED
    BY <2>1 DEF Gen
<1>5. QED
  BY <1>1, <1>2, <1>3, <1>4


(* The keys carried by the copies already in transit stay known: the      *)
(* senders' knowledge only grows.                                          *)
LEMMA KeysKept ==
  ASSUME IInv, [Next]_vars
  PROVE  /\ \A x \in nodeNet : x.key <= know'[x.from][Home[x.to]]
         /\ \A y \in retryNet : y.bounced.key <= know'[y.to][Home[y.from]]
<1>1. ASSUME NEW x \in nodeNet PROVE x.key <= know'[x.from][Home[x.to]]
  <2>1. PICK m \in Payloads, g \in Gen : x = NodeMsg(m, Origin[m], Target[m], g)
    BY DEF IInv, TypeOK, NodeMsgs
  <2>2. x.from \in Nodes /\ Home[x.to] \in Prefixes
    BY <2>1, PayloadAssumption, HomeAssumption DEF NodeMsg
  <2>3. know'[x.from][Home[x.to]] >= know[x.from][Home[x.to]]
    BY <2>2, KnowMonotone DEF IInv
  <2>4. know[x.from][Home[x.to]] \in Gen /\ know'[x.from][Home[x.to]] \in Gen
    BY <2>2, TypeStep DEF IInv, TypeOK
  <2>5. QED
    BY <2>1, <2>3, <2>4 DEF IInv, KeysKnown, Gen, NodeMsg
<1>2. ASSUME NEW y \in retryNet PROVE y.bounced.key <= know'[y.to][Home[y.from]]
  <2>1. PICK m \in Payloads, h \in Gen, k \in Gen :
          y = [from |-> Target[m], to |-> Origin[m],
               sap |-> [prefix |-> Home[Target[m]], gen |-> h],
               bounced |-> NodeMsg(m, Origin[m], Target[m], k)]
    BY DEF IInv, TypeOK, RetryMsgs
  <2>2. y.to \in Nodes /\ Home[y.from] \in Prefixes
    BY <2>1, PayloadAssumption, HomeAssumption
  <2>3. know'[y.to][Home[y.from]] >= know[y.to][Home[y.from]]
    BY <2>2, KnowMonotone DEF IInv
  <2>4. know[y.to][Home[y.from]] \in Gen /\ know'[y.to][Home[y.from]] \in Gen
    BY <2>2, TypeStep DEF IInv, TypeOK
  <2>5. QED
    BY <2>1, <2>3, <2>4 DEF IInv, KeysKnown, Gen, NodeMsg
<1>3. QED
  BY <1>1, <1>2


(* The inductive invariant holds initially.                                *)
LEMMA IInvInit == Init => IInv
BY TypeInit DEF Init, IInv, UniqueCopies, CopiesInflight, InflightHasCopy,
               KeysKnown, Copies

(* Each step keeps the inductive invariant.                                *)
LEMMA IInvStep == IInv /\ [Next]_vars => IInv'
<1> SUFFICES ASSUME IInv, [Next]_vars
             PROVE  UniqueCopies' /\ CopiesInflight' /\ InflightHasCopy'
                    /\ KeysKnown'
  BY TypeStep DEF IInv
<1> USE DEF IInv
<1>0. /\ \A x \in nodeNet : x.key <= know'[x.from][Home[x.to]]
      /\ \A y \in retryNet : y.bounced.key <= know'[y.to][Home[y.from]]
  BY KeysKept
<1>00. /\ \A x \in nodeNet : x.id \in Payloads
       /\ \A y \in retryNet : y.bounced.id \in Payloads
  BY DEF TypeOK, NodeMsgs, RetryMsgs, NodeMsg
<1>1. ASSUME NEW m \in Payloads, SendMsg(m)
      PROVE  UniqueCopies' /\ CopiesInflight' /\ InflightHasCopy' /\ KeysKnown'
  <2> DEFINE x0 == NodeMsg(m, Origin[m], Target[m], DstKey(know[Origin[m]], Target[m]))
  <2>1. nodeNet' = nodeNet \cup {x0} /\ retryNet' = retryNet /\ know' = know
    BY <1>1 DEF SendMsg
  <2>2. status[m] = "unsent" /\ status' = [status EXCEPT ![m] = "inflight"]
    BY <1>1 DEF SendMsg
  <2>3. /\ \A x \in nodeNet : x.id # m
        /\ \A y \in retryNet : y.bounced.id # m
    BY <2>2 DEF CopiesInflight
  <2>4. UniqueCopies'
    BY <2>1, <2>3 DEF UniqueCopies, NodeMsg
  <2>5. CopiesInflight'
    BY <1>00, <2>1, <2>2 DEF CopiesInflight, TypeOK, NodeMsg
  <2>6. InflightHasCopy'
    <3>1. x0.id = m /\ x0 \in nodeNet'
      BY <2>1 DEF NodeMsg
    <3>2. \A m2 \in Payloads : Copies(m2) \subseteq Copies(m2)'
      BY <2>1 DEF Copies
    <3>3. \A m2 \in Payloads : m2 # m => status'[m2] = status[m2]
      BY <2>2
    <3>4. QED
      BY <3>1, <3>2, <3>3 DEF InflightHasCopy, Copies
  <2>7. x0.key \in Nat /\ x0.key = know[x0.from][Home[x0.to]]
    BY PayloadAssumption, HomeAssumption DEF TypeOK, NodeMsg, DstKey, Gen
  <2>8. KeysKnown'
    <3>1. \A x \in nodeNet' : x = x0 \/ x \in nodeNet
      BY <2>1
    <3>2. x0.key <= know'[x0.from][Home[x0.to]]
      <4>1. know'[x0.from][Home[x0.to]] = x0.key
        BY <2>1, <2>7
      <4>2. \A k \in Nat : k <= k
        OBVIOUS
      <4>3. QED
        BY <4>1, <4>2, <2>7, Zenon
    <3>3. QED
      BY <2>1, <3>1, <3>2 DEF KeysKnown
  <2>9. QED
    BY <2>4, <2>5, <2>6, <2>8
<1>2. ASSUME NEW msg \in nodeNet, HandleValidMsg(msg)
      PROVE  UniqueCopies' /\ CopiesInflight' /\ InflightHasCopy' /\ KeysKnown'
  <2>1. nodeNet' = nodeNet \ {msg} /\ retryNet' = retryNet
        /\ status' = [status EXCEPT ![msg.id] = "handled"]
    BY <1>2 DEF HandleValidMsg
  <2>2. /\ \A x \in nodeNet \ {msg} : x.id # msg.id
        /\ \A y \in retryNet : y.bounced.id # msg.id
    BY DEF UniqueCopies
  <2>3. UniqueCopies'
    BY <2>1 DEF UniqueCopies
  <2>4. CopiesInflight'
    BY <2>1, <2>2 DEF CopiesInflight
  <2>5. InflightHasCopy'
    BY <2>1, <2>2 DEF InflightHasCopy, Copies, TypeOK
  <2>6. KeysKnown'
    BY <2>1, <1>0 DEF KeysKnown
  <2>7. QED
    BY <2>3, <2>4, <2>5, <2>6
<1>3. ASSUME NEW msg \in nodeNet, BounceRetry(msg)
      PROVE  UniqueCopies' /\ CopiesInflight' /\ InflightHasCopy' /\ KeysKnown'
  <2> DEFINE r == RetryFor(msg.to, msg)
  <2>1. nodeNet' = nodeNet \ {msg} /\ retryNet' = retryNet \cup {r}
        /\ status' = status /\ know' = know
    BY <1>3 DEF BounceRetry
  <2>2. r.bounced = msg /\ r.to = msg.from /\ r.from = msg.to
    BY DEF RetryFor
  <2>3. /\ \A x \in nodeNet \ {msg} : x.id # msg.id
        /\ \A y \in retryNet : y.bounced.id # msg.id
    BY DEF UniqueCopies
  <2>4. UniqueCopies'
    BY <2>1, <2>2, <2>3 DEF UniqueCopies
  <2>5. CopiesInflight'
    BY <2>1, <2>2 DEF CopiesInflight
  <2>6. InflightHasCopy'
    BY <2>1, <2>2 DEF InflightHasCopy, Copies
  <2>7. KeysKnown'
    BY <2>1, <2>2 DEF KeysKnown
  <2>8. QED
    BY <2>4, <2>5, <2>6, <2>7
<1>4. ASSUME NEW ae \in retryNet, HandleRetry(ae)
      PROVE  UniqueCopies' /\ CopiesInflight' /\ InflightHasCopy' /\ KeysKnown'
  <2> DEFINE n == ae.to
             k == ApplyUpdate(know[n], ae.sap)
             x0 == NodeMsg(ae.bounced.id, n, ae.from, DstKey(k, ae.from))
  <2>1. retryNet' = retryNet \ {ae} /\ know' = [know EXCEPT ![n] = k]
    BY <1>4 DEF HandleRetry
  <2>2. /\ \A x \in nodeNet : x.id # ae.bounced.id
        /\ \A y \in retryNet \ {ae} : y.bounced.id # ae.bounced.id
    BY DEF UniqueCopies
  <2>3. n \in Nodes
    BY PayloadAssumption DEF TypeOK, RetryMsgs
  <2>4. CASE ae.bounced.key = ae.sap.gen
    <3>1. nodeNet' = nodeNet
          /\ status' = [status EXCEPT ![ae.bounced.id] = "dropped"]
      BY <1>4, <2>4 DEF HandleRetry
    <3>2. UniqueCopies'
      BY <2>1, <3>1 DEF UniqueCopies
    <3>3. CopiesInflight'
      BY <2>1, <2>2, <3>1 DEF CopiesInflight
    <3>4. InflightHasCopy'
      BY <2>1, <2>2, <3>1 DEF InflightHasCopy, Copies, TypeOK
    <3>5. KeysKnown'
      BY <1>0, <2>1, <3>1 DEF KeysKnown
    <3>6. QED
      BY <3>2, <3>3, <3>4, <3>5
  <2>5. CASE ae.bounced.key # ae.sap.gen
    <3>1. nodeNet' = nodeNet \cup {x0} /\ status' = status
      BY <1>4, <2>5 DEF HandleRetry
    <3>2. x0.id = ae.bounced.id /\ x0.from = n /\ x0.to = ae.from
      BY DEF NodeMsg
    <3>3. UniqueCopies'
      BY <2>1, <2>2, <3>1, <3>2 DEF UniqueCopies
    <3>4. CopiesInflight'
      BY <2>1, <3>1, <3>2 DEF CopiesInflight
    <3>5. InflightHasCopy'
      BY <2>1, <2>2, <3>1, <3>2 DEF InflightHasCopy, Copies
    <3>6. x0.key = know'[x0.from][Home[x0.to]]
      BY <2>1, <2>3, <3>2 DEF NodeMsg, DstKey, TypeOK
    <3>7. x0.key \in Gen
      <4>1. ae.sap \in Sap /\ Home[ae.from] \in Prefixes
        BY PayloadAssumption, HomeAssumption DEF TypeOK, RetryMsgs, Sap, Gen
      <4>2. k \in [Prefixes -> Gen]
        BY <2>3, <4>1, ApplyUpdateType DEF TypeOK
      <4>3. QED
        BY <4>1, <4>2 DEF NodeMsg, DstKey
    <3>8. KeysKnown'
      BY <1>0, <2>1, <3>1, <3>2, <3>6, <3>7 DEF KeysKnown, Gen
    <3>9. QED
      BY <3>3, <3>4, <3>5, <3>8
  <2>6. QED
    BY <2>4, <2>5
<1>5. ASSUME UNCHANGED <<nodeNet, retryNet, status>>
      PROVE  UniqueCopies' /\ CopiesInflight' /\ InflightHasCopy' /\ KeysKnown'
  BY <1>0, <1>5 DEF UniqueCopies, CopiesInflight, InflightHasCopy, Copies,
                    KeysKnown
<1>6. CASE Lose
  <2>1. CASE \E msg \in nodeNet : /\ nodeNet' = nodeNet \ {msg}
                                  /\ status' = [status EXCEPT ![msg.id] = "lost"]
                                  /\ retryNet' = retryNet
    <3>1. PICK msg \in nodeNet : /\ nodeNet' = nodeNet \ {msg}
                                 /\ status' = [status EXCEPT ![msg.id] = "lost"]
                                 /\ retryNet' = retryNet
      BY <2>1
    <3>2. /\ \A x \in nodeNet \ {msg} : x.id # msg.id
          /\ \A y \in retryNet : y.bounced.id # msg.id
      BY DEF UniqueCopies
    <3>3. QED
      BY <1>0, <3>1, <3>2 DEF UniqueCopies, CopiesInflight, InflightHasCopy,
                              Copies, KeysKnown, TypeOK
  <2>2. CASE \E ae \in retryNet : /\ retryNet' = retryNet \ {ae}
                                  /\ status' = [status EXCEPT ![ae.bounced.id] = "lost"]
                                  /\ nodeNet' = nodeNet
    <3>1. PICK ae \in retryNet : /\ retryNet' = retryNet \ {ae}
                                 /\ status' = [status EXCEPT ![ae.bounced.id] = "lost"]
                                 /\ nodeNet' = nodeNet
      BY <2>2
    <3>2. /\ \A x \in nodeNet : x.id # ae.bounced.id
          /\ \A y \in retryNet \ {ae} : y.bounced.id # ae.bounced.id
      BY DEF UniqueCopies
    <3>3. QED
      BY <1>0, <3>1, <3>2 DEF UniqueCopies, CopiesInflight, InflightHasCopy,
                              Copies, KeysKnown, TypeOK
  <2>3. CASE UNCHANGED <<nodeNet, retryNet, status>>
    BY <1>5, <2>3
  <2>4. QED
    BY <1>6, <2>1, <2>2, <2>3 DEF Lose
<1>7. QED
  <2>1. CASE \E u \in updateNet : HandleUpdate(u)
    BY <1>5, <2>1 DEF HandleUpdate
  <2>2. CASE \E pr \in probeNet : HandleProbe(pr)
    BY <1>5, <2>2 DEF HandleProbe
  <2>3. CASE \E n, t \in Nodes : SendProbe(n, t)
    BY <1>5, <2>3 DEF SendProbe
  <2>4. CASE \E p \in Prefixes : Rotate(p)
    BY <1>5, <2>4 DEF Rotate
  <2>7. CASE \E e \in Nodes : Handover(e)
    BY <1>5, <2>7 DEF Handover
  <2>5. CASE UNCHANGED vars
    BY <1>5, <2>5 DEF vars
  <2>6. QED
    BY <1>1, <1>2, <1>3, <1>4, <1>6, <2>1, <2>2, <2>3, <2>4, <2>5, <2>7
       DEF Next


(* The inductive invariant gives NoSilentDrop: a message in flight has a  *)
(* copy in transit and no two copies share its id, so it has exactly one; *)
(* a message not in flight has none, since every copy is of one in flight. *)
LEMMA IInvNoSilentDrop == IInv => NoSilentDrop
<1> SUFFICES ASSUME IInv, NEW m \in Payloads
             PROVE  IF status[m] = "inflight" THEN Cardinality(Copies(m)) = 1
                                              ELSE Copies(m) = {}
  BY DEF NoSilentDrop
<1>1. CASE status[m] = "inflight"
  <2>1. PICK c \in Copies(m) : TRUE
    BY <1>1 DEF IInv, InflightHasCopy
  <2>2. Copies(m) = {c}
    BY <2>1 DEF IInv, UniqueCopies, Copies
  <2>3. Cardinality(Copies(m)) = 1
    BY <2>2, FS_Singleton
  <2>4. QED
    BY <1>1, <2>3
<1>2. CASE status[m] # "inflight"
  BY <1>2 DEF IInv, CopiesInflight, Copies
<1>3. QED
  BY <1>1, <1>2

(* NoSilentDrop holds in every reachable state of the engine, for every   *)
(* number of nodes, sections, payloads, key generations and losses: no   *)
(* handler of node_msgs.rs or anti_entropy.rs forgets or duplicates a     *)
(* message in transit, whatever the interleaving.                          *)
THEOREM NoSilentDropHolds == Spec => []NoSilentDrop
<1>1. Init => IInv
  BY IInvInit
<1>2. IInv /\ [Next]_vars => IInv'
  BY IInvStep
<1>3. IInv => NoSilentDrop
  BY IInvNoSilentDrop
<1>4. QED
  BY <1>1, <1>2, <1>3, PTL DEF Spec


=============================================================================
