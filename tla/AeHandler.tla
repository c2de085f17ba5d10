------------------------------ MODULE AeHandler ------------------------------
(***************************************************************************)
(* The handling of an incoming Anti-Entropy message on one node:          *)
(* MyNode::handle_anti_entropy_msg (sn_node/.../messaging/anti_entropy.rs) *)
(* run by several concurrent tasks that share the node behind one RwLock. *)
(*                                                                         *)
(* A task is spawned with a snapshot of the node context (starting_context)*)
(* and then goes through the await points of the handler:                  *)
(*   "write"   the write lock is taken, the update re-validated and        *)
(*             update_on_section_change awaited, which may fail;           *)
(*   "read"    latest_context is read under the read lock, a temporary     *)
(*             guard released at the end of line 202;                      *)
(*   "targets" set_comm_targets(latest_context members), with no lock;     *)
(*   "persist" after the await at line 212 the section tree is written and *)
(*             the rejoin check is made;                                   *)
(*   "resend"  the bounced message is re-sent or dropped.                  *)
(* Between two of these steps any other task may run.                      *)
(*                                                                         *)
(* Network knowledge is abstracted to the generation of the signed SAP     *)
(* known for every prefix: a SAP of a later generation is signed by the    *)
(* chain of the previous one, so update_knowledge_if_valid (not under src/,*)
(* modelled from the spec) applies a valid update iff it is newer.         *)
(***************************************************************************)
EXTENDS NetworkKnowledge

CONSTANTS
  Handlers,     \* concurrent tasks running handle_anti_entropy_msg
  Prefixes,     \* section prefixes known to the node's section tree
  OurPrefix,    \* the prefix of our own section
  MaxGen,       \* the last SAP generation of any section (bounds the model)
  MemberGens,   \* the generations of our section's SAP that list us as member
  NoSend        \* marks a task that has produced no re-send command

ASSUME HandlersAssumption == Handlers # {}
ASSUME PrefixAssumption == OurPrefix \in Prefixes
ASSUME MaxGenAssumption == MaxGen \in Nat \ {0}
(* We start as a member, and a removal is final: once a SAP no longer     *)
(* lists our name, no later one does (a rejoining node takes a new name).  *)
ASSUME MemberGensAssumption ==
  /\ 0 \in MemberGens
  /\ MemberGens \subseteq 0..MaxGen
  /\ \A g \in MemberGens : \A k \in 0..g : k \in MemberGens

Gen == 0..MaxGen
Knowledge == [Prefixes -> Gen]
Kinds == {"Update", "Retry", "Redirect"}
ResendCmd == [key : Gen, adv : Gen]

VARIABLES
  knowledge,    \* the node's network knowledge, under the RwLock
  disk,         \* the section tree last written by write_section_tree
  commTargets,  \* generation whose members were given to set_comm_targets
  rejoin,       \* RejoinRequired(RemovedFromSection) has been returned
  pc,           \* await point of each task
  upd,          \* the SAP of the section_tree_update each task handles
  start,        \* starting_context.network_knowledge of each task
  updated,      \* the value of `updated` computed by each task
  latest,       \* latest_context.network_knowledge of each task
  outbox        \* the SendMsg re-send command each task produced last

vars == <<knowledge, disk, commTargets, rejoin, pc, upd, start, updated,
          latest, outbox>>

IsMember(g) == g \in MemberGens

Init ==
  /\ knowledge = [p \in Prefixes |-> 0]
  /\ disk = knowledge
  /\ commTargets = 0
  /\ rejoin = FALSE
  /\ pc = [h \in Handlers |-> "idle"]
  /\ upd = [h \in Handlers |-> [prefix |-> OurPrefix, gen |-> 0]]
  /\ start = [h \in Handlers |-> knowledge]
  /\ updated = [h \in Handlers |-> FALSE]
  /\ latest = [h \in Handlers |-> knowledge]
  /\ outbox = [h \in Handlers |-> NoSend]

(***************************************************************************)
(* Plausible bugs of the steps below, each used to show that a property   *)
(* of the runs depends on the code it is about.                            *)
(***************************************************************************)
(* An AE message may advertise a SAP one generation past the last.       *)
ReceiveOffByOne(h) ==
  /\ pc[h] = "idle"
  /\ \E p \in Prefixes, g \in 1..MaxGen + 1 :
       LET u == [prefix |-> p, gen |-> g] IN
       /\ upd' = [upd EXCEPT ![h] = u]
       /\ start' = [start EXCEPT ![h] = knowledge]
       /\ pc' = [pc EXCEPT ![h] = IF WouldUpdate(knowledge, u) THEN "write"
                                                               ELSE "read"]
  /\ updated' = [updated EXCEPT ![h] = FALSE]
  /\ outbox' = [outbox EXCEPT ![h] = NoSend]
  /\ UNCHANGED <<knowledge, disk, commTargets, rejoin, latest>>

(* The removal check reads the SAP of the updated prefix, not our own.    *)
PersistCheckUpdatedPrefix(h) ==
  /\ pc[h] = "persist"
  /\ disk' = latest[h]
  /\ IF IsMember(start[h][OurPrefix]) /\ ~IsMember(latest[h][upd[h].prefix])
       THEN /\ rejoin' = TRUE
            /\ pc' = [pc EXCEPT ![h] = "idle"]
       ELSE /\ pc' = [pc EXCEPT ![h] = "resend"]
            /\ UNCHANGED rejoin
  /\ UNCHANGED <<knowledge, commTargets, upd, start, updated, latest, outbox>>

(* The re-sent message is addressed with starting_context.                *)
ResendFromStartingContext(h) ==
  /\ pc[h] = "resend"
  /\ \E kind \in Kinds, bk \in Gen :
       \/ kind = "Retry" /\ bk # upd[h].gen
       \/ kind = "Redirect" /\ bk # upd[h].gen
  /\ outbox' = [outbox EXCEPT ![h] = [key |-> start[h][upd[h].prefix],
                                      adv |-> upd[h].gen]]
  /\ pc' = [pc EXCEPT ![h] = "idle"]
  /\ UNCHANGED <<knowledge, disk, commTargets, rejoin, upd, start, updated,
                 latest>>

-----------------------------------------------------------------------------

(* An AE message arrives with the context snapshot of its task. The check *)
(* on the snapshot is pure, so it is part of the same step. An update that *)
(* fails validation returns Err at line 174 and changes nothing.          *)
Receive(h) ==
  /\ pc[h] = "idle"
  /\ \E p \in Prefixes, g \in 1..MaxGen :
       LET u == [prefix |-> p, gen |-> g] IN
       /\ upd' = [upd EXCEPT ![h] = u]
       /\ start' = [start EXCEPT ![h] = knowledge]
       /\ pc' = [pc EXCEPT ![h] = IF WouldUpdate(knowledge, u) THEN "write"
                                                               ELSE "read"]
  /\ updated' = [updated EXCEPT ![h] = FALSE]
  /\ outbox' = [outbox EXCEPT ![h] = NoSend]
  /\ UNCHANGED <<knowledge, disk, commTargets, rejoin, latest>>

(* Under the write lock the update is validated again against the current *)
(* knowledge, which may have moved since the snapshot. Then               *)
(* update_on_section_change is always awaited (line 191): when it returns *)
(* Ok the task goes on; when it returns Err, `?` returns the Err at once, *)
(* after the write and before anything of lines 199-235.                  *)
WriteLocked(h) ==
  /\ pc[h] = "write"
  /\ updated' = [updated EXCEPT ![h] = WouldUpdate(knowledge, upd[h])]
  /\ knowledge' = ApplyUpdate(knowledge, upd[h])
  /\ \/ pc' = [pc EXCEPT ![h] = "read"]
     \/ pc' = [pc EXCEPT ![h] = "idle"]
  /\ UNCHANGED <<disk, commTargets, rejoin, upd, start, latest, outbox>>

(* latest_context is read under the read lock, whose guard is dropped at  *)
(* the end of the statement (line 202).                                    *)
ReadLatest(h) ==
  /\ pc[h] = "read"
  /\ latest' = [latest EXCEPT ![h] = knowledge]
  /\ pc' = [pc EXCEPT ![h] = IF updated[h] THEN "targets" ELSE "resend"]
  /\ UNCHANGED <<knowledge, disk, commTargets, rejoin, upd, start, updated,
                 outbox>>

(* If we updated, the comm targets are replaced by the members of         *)
(* latest_context (line 210), outside any lock: another task may have set  *)
(* them from a later read in between.                                      *)
SetCommTargets(h) ==
  /\ pc[h] = "targets"
  /\ commTargets' = latest[h][OurPrefix]
  /\ pc' = [pc EXCEPT ![h] = "persist"]
  /\ UNCHANGED <<knowledge, disk, rejoin, upd, start, updated, latest, outbox>>

(* write_section_tree(latest_context), then the check whether we have been*)
(* removed from our section, which returns Err(RejoinRequired).            *)
Persist(h) ==
  /\ pc[h] = "persist"
  /\ disk' = latest[h]
  /\ IF IsMember(start[h][OurPrefix]) /\ ~IsMember(latest[h][OurPrefix])
       THEN /\ rejoin' = TRUE
            /\ pc' = [pc EXCEPT ![h] = "idle"]
       ELSE /\ pc' = [pc EXCEPT ![h] = "resend"]
            /\ UNCHANGED rejoin
  /\ UNCHANGED <<knowledge, commTargets, upd, start, updated, latest, outbox>>

(* The AE response produces no re-send: an Update, a Redirect to a SAP    *)
(* without elders, a bounced message that is not a node message, or one   *)
(* whose dst key already is the advertised key (the loop guard).          *)
NoResendCase(kind, bouncedKey, isNodeMsg, hasElders, h) ==
  \/ kind = "Update"
  \/ kind = "Redirect" /\ ~hasElders
  \/ ~isNodeMsg
  \/ bouncedKey = upd[h].gen

ResendDone(h) ==
  /\ pc[h] = "resend"
  /\ \E kind \in Kinds, bk \in Gen, isNode, hasElders \in BOOLEAN :
       NoResendCase(kind, bk, isNode, hasElders, h)
  /\ pc' = [pc EXCEPT ![h] = "idle"]
  /\ UNCHANGED <<knowledge, disk, commTargets, rejoin, upd, start, updated,
                 latest, outbox>>

(* The bounced message is re-sent to the sender (Retry) or to an elder of *)
(* the advertised SAP (Redirect); send_msg takes its dst key from          *)
(* latest_context.                                                         *)
Resend(h) ==
  /\ pc[h] = "resend"
  /\ \E kind \in Kinds, bk \in Gen :
       ~NoResendCase(kind, bk, TRUE, TRUE, h)
  /\ outbox' = [outbox EXCEPT ![h] = [key |-> latest[h][upd[h].prefix],
                                      adv |-> upd[h].gen]]
  /\ pc' = [pc EXCEPT ![h] = "idle"]
  /\ UNCHANGED <<knowledge, disk, commTargets, rejoin, upd, start, updated,
                 latest>>

Next ==
  \E h \in Handlers :
    \/ Receive(h)
    \/ WriteLocked(h)
    \/ ReadLatest(h)
    \/ SetCommTargets(h)
    \/ Persist(h)
    \/ ResendDone(h)
    \/ Resend(h)

Spec == Init /\ [][Next]_vars

-----------------------------------------------------------------------------

TypeOK ==
  /\ knowledge \in Knowledge
  /\ disk \in Knowledge
  /\ commTargets \in Gen
  /\ rejoin \in BOOLEAN
  /\ pc \in [Handlers -> {"idle", "write", "read", "targets", "persist",
                            "resend"}]
  /\ upd \in [Handlers -> [prefix : Prefixes, gen : Gen]]
  /\ start \in [Handlers -> Knowledge]
  /\ updated \in [Handlers -> BOOLEAN]
  /\ latest \in [Handlers -> Knowledge]
  /\ outbox \in [Handlers -> ResendCmd \cup {NoSend}]


Quiescent == \A h \in Handlers : pc[h] = "idle"

(* A bounced message is never re-sent with a dst section key older than   *)
(* the SAP the AE response advertised (lines 284-296): otherwise the      *)
(* responder would bounce it once more.                                    *)
ResendNotOlderThanAdvertised ==
  \A h \in Handlers :
    outbox[h] # NoSend => outbox[h].key >= outbox[h].adv

(* Once no AE task is in flight, if the knowledge no longer lists us as a *)
(* member of our section, RejoinRequired(RemovedFromSection) has been      *)
(* returned: spec 4.2 signals it whenever an update removes us. The code   *)
(* makes the check at lines 220-235 only if update_on_section_change       *)
(* (line 191) succeeded after the write.                                   *)
RemovalSignalled ==
  Quiescent /\ ~IsMember(knowledge[OurPrefix]) => rejoin

(* The section tree on disk never goes back to an older SAP of a prefix:  *)
(* §6 of the spec has it replaced on every mutation of the knowledge,      *)
(* which only grows. Each task writes its own latest_context (line 214)    *)
(* after the await at line 212.                                            *)
DiskNeverRegresses == [][\A p \in Prefixes : disk'[p] >= disk[p]]_disk

(* The comm targets never go back to the members of an older SAP of our   *)
(* section: spec 6 has set_comm_targets replace the reachable peers after  *)
(* every accepted update, so that new members become reachable. Each task  *)
(* sets them from its own latest_context (line 210), read at line 202.     *)
CommTargetsNeverRegress == [][commTargets' >= commTargets]_commTargets


(* The handler implements AeNodeState with the tasks hidden: every write   *)
(* under the lock moves one prefix to a later SAP or changes nothing, and  *)
(* Err(RejoinRequired) is returned (lines 220-235) only when the knowledge *)
(* no longer lists us, although the check reads the task's latest_context, *)
(* which other tasks may since have overtaken.                              *)
Node == INSTANCE AeNodeState
          WITH knowledge <- knowledge, rejoin <- rejoin, Prefixes <- Prefixes,
               OurPrefix <- OurPrefix, MaxGen <- MaxGen, MemberGens <- MemberGens

NodeSpec == Node!Spec

=============================================================================
