--------------------------- MODULE LegacyAeProofs ---------------------------
(***************************************************************************)
(* Proofs about LegacyAe for every set of elders and messages, every      *)
(* target map and every last generation allowed by LegacyAssumption.       *)
(***************************************************************************)
EXTENDS LegacyAe, TLAPS

USE LegacyAssumption

LEMMA TypeInit == Init => TypeOK
BY DEF Init, TypeOK, Gen

(* A bounced message names its payload and its elder, and the SAP an       *)
(* elder sends carries a generation of the chain.                          *)
LEMMA BounceRetryType ==
  ASSUME TypeOK, NEW msg \in net, BounceRetry(msg)
  PROVE  TypeOK'
<1>1. PICK m \in Payloads, g \in Gen : msg = Msg(m, g)
  BY DEF TypeOK, Msgs
<1>2. msg.to = Target[m] /\ msg.to \in Elders
  BY <1>1 DEF Msg
<1>3. [from |-> msg.to, sap |-> ekey[msg.to], bounced |-> msg] \in Retries
  BY <1>1, <1>2 DEF TypeOK, Retries
<1>4. QED
  BY <1>3 DEF BounceRetry, TypeOK

(* A re-sent message keeps the payload of the bounced one.                 *)
LEMMA HandleRetryType ==
  ASSUME TypeOK, NEW ae \in retryNet, HandleRetry(ae)
  PROVE  TypeOK'
<1>1. PICK m \in Payloads, g \in Gen, k \in Gen :
        ae = [from |-> Target[m], sap |-> g, bounced |-> Msg(m, k)]
  BY DEF TypeOK, Retries
<1>2. ae.bounced.id = m /\ ae.sap = g
  BY <1>1 DEF Msg
<1>3. Msg(ae.bounced.id, ae.sap) \in Msgs
  BY <1>2 DEF Msgs
<1>4. QED
  BY <1>2, <1>3 DEF HandleRetry, UpdateRemoteSectionSap, TypeOK

LEMMA TypeStep == TypeOK /\ [Next]_vars => TypeOK'
<1> SUFFICES ASSUME TypeOK, [Next]_vars PROVE TypeOK'
  OBVIOUS
<1>1. ASSUME NEW m \in Payloads, SendMsg(m) PROVE TypeOK'
  BY <1>1 DEF SendMsg, TypeOK, Msgs
<1>2. ASSUME NEW msg \in net, HandleMsg(msg) PROVE TypeOK'
  BY <1>2 DEF HandleMsg, TypeOK, Msgs, Msg
<1>3. ASSUME NEW msg \in net, BounceRetry(msg) PROVE TypeOK'
  BY <1>3, BounceRetryType
<1>4. ASSUME NEW ae \in retryNet, HandleRetry(ae) PROVE TypeOK'
  BY <1>4, HandleRetryType
<1>5. ASSUME NEW e \in Elders, Rotate(e) PROVE TypeOK'
  BY <1>5 DEF Rotate, TypeOK, Gen
<1>6. ASSUME NEW e \in Elders, LearnKey(e) PROVE TypeOK'
  BY <1>6 DEF LearnKey, TypeOK
<1>7. CASE UNCHANGED vars
  BY <1>7 DEF vars, TypeOK
<1>8. QED
  BY <1>1, <1>2, <1>3, <1>4, <1>5, <1>6, <1>7 DEF Next

(* Every message and AntiEntropyRetry in transit names a payload of the    *)
(* sender, its elder and a generation of the chain: check_dest_section_pk  *)
(* and handle_anti_entropy_retry_msg never invent a key, and a key         *)
(* rotation never goes past the last generation.                            *)
THEOREM TypeCorrect == Spec => []TypeOK
BY TypeInit, TypeStep, PTL DEF Spec

=============================================================================
