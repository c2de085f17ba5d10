--------------------------- MODULE AeHandlerProofs ---------------------------
(***************************************************************************)
(* Proofs about the concurrent AE handler, for every number of tasks,     *)
(* prefixes and SAP generations.                                           *)
(***************************************************************************)
EXTENDS AeHandler, TLAPS

(***************************************************************************)
(* Every step keeps every variable in its type.                           *)
(***************************************************************************)
(* The initial state is well typed.                                       *)
LEMMA TypeInit == Init => TypeOK
<1> SUFFICES ASSUME Init PROVE TypeOK
  OBVIOUS
<1>1. 0 \in Gen
  BY MaxGenAssumption DEF Gen
<1>2. knowledge \in Knowledge
  BY <1>1 DEF Init, Knowledge
<1>3. upd \in [Handlers -> [prefix : Prefixes, gen : Gen]]
  BY <1>1, PrefixAssumption DEF Init
<1>4. outbox \in [Handlers -> ResendCmd \cup {NoSend}]
  BY DEF Init
<1>5. QED
  BY <1>1, <1>2, <1>3, <1>4 DEF Init, TypeOK

(* Every step keeps every variable in its type.                           *)
LEMMA TypeStep == TypeOK /\ [Next]_vars => TypeOK'
<1> SUFFICES ASSUME TypeOK, [Next]_vars PROVE TypeOK'
  OBVIOUS
<1>1. ASSUME NEW h \in Handlers, Receive(h) PROVE TypeOK'
  BY <1>1, MaxGenAssumption DEF Receive, TypeOK, Knowledge, Gen, WouldUpdate
<1>2. ASSUME NEW h \in Handlers, WriteLocked(h) PROVE TypeOK'
  <2>1. knowledge' \in Knowledge
    BY <1>2 DEF WriteLocked, TypeOK, Knowledge, Gen, WouldUpdate, ApplyUpdate
  <2>2. pc' \in [Handlers -> {"idle", "write", "read", "targets", "persist",
                              "resend"}]
    <3>1. CASE pc' = [pc EXCEPT ![h] = "read"]
      BY <3>1 DEF TypeOK
    <3>2. CASE pc' = [pc EXCEPT ![h] = "idle"]
      BY <3>2 DEF TypeOK
    <3>3. QED
      BY <1>2, <3>1, <3>2 DEF WriteLocked
  <2>3. updated' \in [Handlers -> BOOLEAN]
    BY <1>2 DEF WriteLocked, WouldUpdate, TypeOK
  <2>4. QED
    BY <1>2, <2>1, <2>2, <2>3 DEF WriteLocked, TypeOK
<1>3. ASSUME NEW h \in Handlers, ReadLatest(h) PROVE TypeOK'
  BY <1>3, PrefixAssumption DEF ReadLatest, TypeOK, Knowledge, Gen
<1>4. ASSUME NEW h \in Handlers, Persist(h) PROVE TypeOK'
  BY <1>4 DEF Persist, TypeOK
<1>9. ASSUME NEW h \in Handlers, SetCommTargets(h) PROVE TypeOK'
  BY <1>9, PrefixAssumption DEF SetCommTargets, TypeOK, Knowledge
<1>5. ASSUME NEW h \in Handlers, ResendDone(h) PROVE TypeOK'
  BY <1>5 DEF ResendDone, TypeOK
<1>6. ASSUME NEW h \in Handlers, Resend(h) PROVE TypeOK'
  BY <1>6 DEF Resend, TypeOK, Knowledge, ResendCmd
<1>7. CASE UNCHANGED vars
  BY <1>7 DEF vars, TypeOK
<1>8. QED
  BY <1>1, <1>2, <1>3, <1>4, <1>5, <1>6, <1>7, <1>9 DEF Next

(***************************************************************************)
(* Every variable keeps its type, for every number of tasks, prefixes and *)
(* SAP generations.                                                        *)
(***************************************************************************)
THEOREM TypeCorrect == Spec => []TypeOK
BY TypeInit, TypeStep, PTL DEF Spec

(***************************************************************************)
(* The inductive invariant behind ResendNotOlderThanAdvertised. A task    *)
(* that has passed the write lock finds the advertised SAP in the         *)
(* knowledge (it applied it, or the knowledge was already as new), the    *)
(* knowledge only grows, so latest_context also holds it, and send_msg    *)
(* addresses the re-sent message with latest_context.                     *)
(***************************************************************************)
AdvertisedKnown(h) ==
  /\ pc[h] = "read" => upd[h].gen <= knowledge[upd[h].prefix]
  /\ pc[h] \in {"targets", "persist", "resend"} =>
       upd[h].gen <= latest[h][upd[h].prefix]

IInv ==
  /\ TypeOK
  /\ \A h \in Handlers : AdvertisedKnown(h)
  /\ ResendNotOlderThanAdvertised

(* A step never lowers the SAP generation known for a prefix.             *)
LEMMA StepMonotonic ==
  ASSUME TypeOK, [Next]_vars
  PROVE  \A p \in Prefixes : knowledge'[p] >= knowledge[p]
<1> SUFFICES ASSUME NEW p \in Prefixes PROVE knowledge'[p] >= knowledge[p]
  OBVIOUS
<1>1. ASSUME NEW h \in Handlers, WriteLocked(h)
      PROVE  knowledge'[p] >= knowledge[p]
  BY <1>1 DEF WriteLocked, ApplyUpdate, WouldUpdate, TypeOK, Knowledge, Gen
<1>2. ASSUME NEW h \in Handlers,
             \/ Receive(h) \/ ReadLatest(h) \/ SetCommTargets(h) \/ Persist(h)
             \/ ResendDone(h) \/ Resend(h)
      PROVE  knowledge'[p] >= knowledge[p]
  <2>1. knowledge' = knowledge
    BY <1>2 DEF Receive, ReadLatest, SetCommTargets, Persist, ResendDone, Resend
  <2>2. QED
    BY <2>1 DEF TypeOK, Knowledge, Gen
<1>3. CASE UNCHANGED vars
  BY <1>3 DEF vars, TypeOK, Knowledge, Gen
<1>4. QED
  BY <1>1, <1>2, <1>3 DEF Next

(* The strengthened invariant holds when no AE task has started.         *)
LEMMA IInvInit == Init => IInv
BY TypeInit DEF Init, IInv, AdvertisedKnown, ResendNotOlderThanAdvertised

(* Every step of every AE task preserves the strengthened invariant.      *)
LEMMA IInvStep == IInv /\ [Next]_vars => IInv'
<1> SUFFICES ASSUME IInv, [Next]_vars PROVE IInv'
  OBVIOUS
<1>0. TypeOK /\ TypeOK'
  BY TypeStep DEF IInv
<1>m. \A p \in Prefixes : knowledge'[p] >= knowledge[p]
  BY StepMonotonic DEF IInv
<1>1. ASSUME NEW h \in Handlers, Receive(h) PROVE IInv'
  <2>1. \A k \in Handlers : AdvertisedKnown(k)'
    BY <1>1, <1>0, <1>m DEF Receive, IInv, AdvertisedKnown, WouldUpdate,
                            TypeOK, Knowledge, Gen
  <2>2. ResendNotOlderThanAdvertised'
    BY <1>1, <1>0 DEF Receive, IInv, ResendNotOlderThanAdvertised, TypeOK
  <2>3. QED
    BY <1>0, <2>1, <2>2 DEF IInv
<1>2. ASSUME NEW h \in Handlers, WriteLocked(h) PROVE IInv'
  <2>1. upd[h].gen <= knowledge'[upd[h].prefix]
    BY <1>2, <1>0 DEF WriteLocked, ApplyUpdate, WouldUpdate, TypeOK,
                      Knowledge, Gen
  <2>2. \A k \in Handlers : AdvertisedKnown(k)'
    BY <1>2, <1>0, <1>m, <2>1 DEF WriteLocked, IInv, AdvertisedKnown, TypeOK,
                                  Knowledge, Gen
  <2>3. ResendNotOlderThanAdvertised'
    BY <1>2 DEF WriteLocked, IInv, ResendNotOlderThanAdvertised
  <2>4. QED
    BY <1>0, <2>2, <2>3 DEF IInv
<1>3. ASSUME NEW h \in Handlers, ReadLatest(h) PROVE IInv'
  <2>1. \A k \in Handlers : AdvertisedKnown(k)'
    BY <1>3, <1>0 DEF ReadLatest, IInv, AdvertisedKnown, TypeOK
  <2>2. ResendNotOlderThanAdvertised'
    BY <1>3 DEF ReadLatest, IInv, ResendNotOlderThanAdvertised
  <2>3. QED
    BY <1>0, <2>1, <2>2 DEF IInv
<1>9. ASSUME NEW h \in Handlers, SetCommTargets(h) PROVE IInv'
  <2>1. \A k \in Handlers : AdvertisedKnown(k)'
    BY <1>9, <1>0 DEF SetCommTargets, IInv, AdvertisedKnown, TypeOK
  <2>2. ResendNotOlderThanAdvertised'
    BY <1>9 DEF SetCommTargets, IInv, ResendNotOlderThanAdvertised
  <2>3. QED
    BY <1>0, <2>1, <2>2 DEF IInv
<1>4. ASSUME NEW h \in Handlers, Persist(h) PROVE IInv'
  <2>1. \A k \in Handlers : AdvertisedKnown(k)'
    BY <1>4, <1>0 DEF Persist, IInv, AdvertisedKnown, TypeOK
  <2>2. ResendNotOlderThanAdvertised'
    BY <1>4 DEF Persist, IInv, ResendNotOlderThanAdvertised
  <2>3. QED
    BY <1>0, <2>1, <2>2 DEF IInv
<1>5. ASSUME NEW h \in Handlers, ResendDone(h) PROVE IInv'
  <2>1. \A k \in Handlers : AdvertisedKnown(k)'
    BY <1>5, <1>0 DEF ResendDone, IInv, AdvertisedKnown, TypeOK
  <2>2. ResendNotOlderThanAdvertised'
    BY <1>5 DEF ResendDone, IInv, ResendNotOlderThanAdvertised
  <2>3. QED
    BY <1>0, <2>1, <2>2 DEF IInv
<1>6. ASSUME NEW h \in Handlers, Resend(h) PROVE IInv'
  <2>1. \A k \in Handlers : AdvertisedKnown(k)'
    BY <1>6, <1>0 DEF Resend, IInv, AdvertisedKnown, TypeOK
  <2>2. upd[h].gen <= latest[h][upd[h].prefix]
    BY <1>6 DEF Resend, IInv, AdvertisedKnown
  <2>3. ResendNotOlderThanAdvertised'
    BY <1>6, <1>0, <2>2 DEF Resend, IInv, ResendNotOlderThanAdvertised,
                            TypeOK, Knowledge, Gen
  <2>4. QED
    BY <1>0, <2>1, <2>3 DEF IInv
<1>7. CASE UNCHANGED vars
  BY <1>7, <1>0 DEF vars, IInv, AdvertisedKnown, ResendNotOlderThanAdvertised
<1>8. QED
  BY <1>1, <1>2, <1>3, <1>4, <1>5, <1>6, <1>7, <1>9 DEF Next

(***************************************************************************)
(* A bounced message is never re-sent with a dst section key older than   *)
(* the SAP its AE response advertised, for any interleaving of any number *)
(* of AE tasks.                                                            *)
(***************************************************************************)
THEOREM ResendNeverStale == Spec => []ResendNotOlderThanAdvertised
<1>1. IInv => ResendNotOlderThanAdvertised
  BY DEF IInv
<1>2. QED
  BY <1>1, IInvInit, IInvStep, PTL DEF Spec
-----------------------------------------------------------------------------
(***************************************************************************)
(* Refinement of AeNodeState. A task's latest_context is never ahead of    *)
(* the knowledge, which only grows, so when Persist finds that the SAP in  *)
(* latest_context no longer lists us, neither does the knowledge, whose    *)
(* SAP for our prefix is at least as late: membership is closed downwards. *)
(***************************************************************************)
(* A generation below one that lists us lists us too, so a generation at  *)
(* or above one that does not, does not either.                            *)
LEMMA MemberBelow ==
  ASSUME NEW g \in Gen, NEW k \in Gen, k <= g, IsMember(g)
  PROVE  IsMember(k)
BY MemberGensAssumption DEF IsMember, Gen

LatestBehind == \A h \in Handlers : latest[h][OurPrefix] <= knowledge[OurPrefix]

LEMMA LatestBehindInit == Init => TypeOK /\ LatestBehind
BY TypeInit, PrefixAssumption DEF Init, LatestBehind

LEMMA LatestBehindStep ==
  TypeOK /\ LatestBehind /\ [Next]_vars => LatestBehind'
<1> SUFFICES ASSUME TypeOK, LatestBehind, [Next]_vars PROVE LatestBehind'
  OBVIOUS
<1>0. /\ TypeOK'
      /\ knowledge'[OurPrefix] >= knowledge[OurPrefix]
      /\ knowledge[OurPrefix] \in Gen /\ knowledge'[OurPrefix] \in Gen
      /\ \A h \in Handlers : latest[h][OurPrefix] \in Gen
  BY TypeStep, StepMonotonic, PrefixAssumption DEF TypeOK, Knowledge
<1>1. CASE \E h \in Handlers : ReadLatest(h)
  <2>1. PICK h \in Handlers : ReadLatest(h)
    BY <1>1
  <2>2. latest' = [latest EXCEPT ![h] = knowledge] /\ knowledge' = knowledge
    BY <2>1 DEF ReadLatest
  <2>3. QED
    BY <1>0, <2>2 DEF LatestBehind, TypeOK, Gen
<1>2. CASE ~\E h \in Handlers : ReadLatest(h)
  <2>1. latest' = latest
    BY <1>2 DEF Next, vars, Receive, WriteLocked, SetCommTargets, Persist,
                ResendDone, Resend
  <2>2. QED
    BY <1>0, <2>1 DEF LatestBehind, Gen
<1>3. QED
  BY <1>1, <1>2

LEMMA LatestBehindInv == Spec => [](TypeOK /\ LatestBehind)
<1>1. TypeOK /\ LatestBehind /\ [Next]_vars => (TypeOK /\ LatestBehind)'
  BY TypeStep, LatestBehindStep
<1>2. QED
  BY <1>1, LatestBehindInit, PTL DEF Spec

(* Every step of a task is a step of AeNodeState or leaves the knowledge   *)
(* and rejoin alone.                                                       *)
LEMMA NodeStep ==
  ASSUME TypeOK, LatestBehind, [Next]_vars
  PROVE  [Node!Next]_<<knowledge, rejoin>>
<1>1. ASSUME NEW h \in Handlers, WriteLocked(h)
      PROVE  [Node!Next]_<<knowledge, rejoin>>
  <2>1. CASE WouldUpdate(knowledge, upd[h])
    <3> DEFINE p == upd[h].prefix
               g == upd[h].gen
    <3>1. p \in Prefixes /\ g \in (knowledge[p] + 1)..MaxGen
      BY <2>1 DEF TypeOK, WouldUpdate, Gen, Knowledge
    <3>2. knowledge' = [knowledge EXCEPT ![p] = g] /\ rejoin' = rejoin
      BY <1>1, <2>1 DEF WriteLocked, ApplyUpdate
    <3>3. Node!Learn(p)
      BY <3>1, <3>2 DEF Node!Learn
    <3>4. QED
      BY <3>1, <3>3 DEF Node!Next
  <2>2. CASE ~WouldUpdate(knowledge, upd[h])
    BY <1>1, <2>2 DEF WriteLocked, ApplyUpdate
  <2>3. QED
    BY <2>1, <2>2
<1>2. ASSUME NEW h \in Handlers, Persist(h)
      PROVE  [Node!Next]_<<knowledge, rejoin>>
  <2>1. CASE IsMember(start[h][OurPrefix]) /\ ~IsMember(latest[h][OurPrefix])
    <3>1. latest[h][OurPrefix] \in Gen /\ knowledge[OurPrefix] \in Gen
          /\ latest[h][OurPrefix] <= knowledge[OurPrefix]
      BY PrefixAssumption DEF TypeOK, Knowledge, LatestBehind
    <3>2. ~IsMember(knowledge[OurPrefix])
      BY <2>1, <3>1, MemberBelow
    <3>3. rejoin' = TRUE /\ knowledge' = knowledge
      BY <1>2, <2>1 DEF Persist
    <3>4. Node!SignalRejoin
      BY <3>2, <3>3 DEF Node!SignalRejoin, IsMember
    <3>5. QED
      BY <3>4 DEF Node!Next
  <2>2. CASE ~(IsMember(start[h][OurPrefix]) /\ ~IsMember(latest[h][OurPrefix]))
    BY <1>2, <2>2 DEF Persist
  <2>3. QED
    BY <2>1, <2>2
<1>3. ASSUME NEW h \in Handlers,
             \/ Receive(h) \/ ReadLatest(h) \/ SetCommTargets(h)
             \/ ResendDone(h) \/ Resend(h)
      PROVE  [Node!Next]_<<knowledge, rejoin>>
  BY <1>3 DEF Receive, ReadLatest, SetCommTargets, ResendDone, Resend
<1>4. CASE UNCHANGED vars
  BY <1>4 DEF vars
<1>5. QED
  BY <1>1, <1>2, <1>3, <1>4 DEF Next

(***************************************************************************)
(* The concurrent AE handler implements AeNodeState, for any number of     *)
(* tasks, prefixes and generations: knowledge only moves to a later SAP,   *)
(* one prefix at a time, and RejoinRequired is only returned when our      *)
(* current SAP no longer lists us.                                         *)
(***************************************************************************)
THEOREM NodeRefinement == Spec => NodeSpec
<1>1. Init => Node!Init
  BY DEF Init, Node!Init
<1>2. TypeOK /\ LatestBehind /\ [Next]_vars => [Node!Next]_<<knowledge, rejoin>>
  BY NodeStep
<1>3. QED
  BY <1>1, <1>2, LatestBehindInv, PTL DEF Spec, NodeSpec, Node!Spec

=============================================================================
