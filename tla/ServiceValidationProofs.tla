----------------------- MODULE ServiceValidationProofs -----------------------
(***************************************************************************)
(* Proofs about ServiceValidation for every set of nodes, elders and       *)
(* queries and every limit and bound allowed by ServiceAssumption.         *)
(***************************************************************************)
EXTENDS ServiceValidation, TLAPS

USE ServiceAssumption

LEMMA TypeInit == Init => TypeOK
BY DEF Init, TypeOK

(* Validate: each branch adds a reply or a command of its type; a command *)
(* is only added on the last branch, where m.to is an elder.              *)
LEMMA ValidateType ==
  ASSUME TypeOK, NEW m \in net, Validate(m)
  PROVE  TypeOK'
<1>1. m \in Msgs /\ gen \in 0..MaxGen
  BY DEF TypeOK
<1>2. net' \subseteq Msgs
  BY <1>1 DEF Validate, TypeOK
<1>3. ASSUME NEW k \in ReplyKinds,
            replies' = replies \cup {[q |-> m.q, kind |-> k, key |-> gen]},
            cmds' = cmds
     PROVE  TypeOK'
  <2>1. [q |-> m.q, kind |-> k, key |-> gen] \in Replies
    BY <1>1, <1>3 DEF Msgs, Replies
  <2>2. QED
    BY <1>2, <1>3, <2>1 DEF Validate, TypeOK
<1>4. CASE m.to \notin Elders
  BY <1>4, <1>3 DEF Validate, ReplyKinds
<1>5. CASE m.to \in Elders /\ Cardinality(pending[m.to]) > DataQueryLimit
  BY <1>5, <1>3 DEF Validate, ReplyKinds
<1>6. CASE m.to \in Elders /\ ~(Cardinality(pending[m.to]) > DataQueryLimit)
           /\ m.key # gen
  BY <1>6, <1>3 DEF Validate, ReplyKinds
<1>7. CASE m.to \in Elders /\ ~(Cardinality(pending[m.to]) > DataQueryLimit)
           /\ m.key = gen
  <2>1. cmds' = cmds \cup {[q |-> m.q, at |-> m.to]} /\ replies' = replies
    BY <1>7 DEF Validate
  <2>2. [q |-> m.q, at |-> m.to] \in Commands
    BY <1>1, <1>7 DEF Msgs, Commands
  <2>3. QED
    BY <1>2, <2>1, <2>2 DEF Validate, TypeOK
<1>8. QED
  BY <1>4, <1>5, <1>7, <1>6

LEMMA ClientReceiveType ==
  ASSUME TypeOK, NEW r \in replies, ClientReceive(r)
  PROVE  TypeOK'
<1>1. r \in Replies
  BY DEF TypeOK
<1>2. CASE r.kind \in {"answer", "error"}
  BY <1>1, <1>2 DEF ClientReceive, TypeOK, Replies
<1>3. CASE r.kind \notin {"answer", "error"}
  <2>1. PICK e \in Elders : net' = net \cup {[q |-> r.q, to |-> e, key |-> r.key]}
    BY <1>3 DEF ClientReceive
  <2>2. [q |-> r.q, to |-> e, key |-> r.key] \in Msgs
    BY <1>1, ServiceAssumption DEF Replies, Msgs
  <2>3. QED
    BY <1>1, <1>3, <2>1, <2>2 DEF ClientReceive, TypeOK, Replies
<1>4. QED
  BY <1>2, <1>3

LEMMA TypeStep == TypeOK /\ [Next]_vars => TypeOK'
<1> SUFFICES ASSUME TypeOK, [Next]_vars PROVE TypeOK'
  OBVIOUS
<1>1. ASSUME NEW q \in Queries, NEW n \in Nodes, Send(q, n) PROVE TypeOK'
  BY <1>1 DEF Send, TypeOK, Msgs
<1>2. ASSUME NEW m \in net, Validate(m) PROVE TypeOK'
  BY <1>2, ValidateType
<1>3. ASSUME NEW c \in cmds, HandleQuery(c) PROVE TypeOK'
  BY <1>3 DEF HandleQuery, TypeOK, Commands
<1>4. ASSUME NEW e \in Elders, NEW q \in Queries, Respond(e, q) PROVE TypeOK'
  BY <1>4 DEF Respond, TypeOK, Replies, ReplyKinds
<1>5. ASSUME NEW r \in replies, ClientReceive(r) PROVE TypeOK'
  BY <1>5, ClientReceiveType
<1>6. CASE Rotate
  BY <1>6 DEF Rotate, TypeOK
<1>7. CASE UNCHANGED vars
  BY <1>7 DEF vars, TypeOK
<1>8. QED
  BY <1>1, <1>2, <1>3, <1>4, <1>5, <1>6, <1>7 DEF Next

(* validate_msg only ever returns a HandleValidServiceMsg command at an    *)
(* elder: the adult redirect comes before the limit and the key checks,    *)
(* whatever node the client or an AE redirect sends a query to.            *)
THEOREM TypeCorrect == Spec => []TypeOK
BY TypeInit, TypeStep, PTL DEF Spec

=============================================================================
