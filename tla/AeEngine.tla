------------------------------ MODULE AeEngine ------------------------------
(***************************************************************************)
(* The Anti-Entropy protocol between nodes of several sections, as the     *)
(* sn_node messaging code runs it:                                         *)
(*   - send_msg / into_msg_bytes address a node message to a peer with    *)
(*     the section key the sender holds for the peer's section;          *)
(*   - validate_msg / apply_ae / check_for_entropy on the receiver handle  *)
(*     it, or bounce it back in an AE-Retry carrying the receiver's SAP;   *)
(*   - handle_anti_entropy_msg on the sender applies the SAP and re-sends  *)
(*     the bounced message unless the loop guard drops it;               *)
(*   - a key rotation reaches every elder of the section by the handover, *)
(*     and each then runs send_ae_update_to_our_section;                  *)
(*   - an elder answers an AntiEntropyProbe with an AE-Update.            *)
(* A handler runs as one step here: its interleavings on one node are the  *)
(* subject of AeHandler. Messages may be reordered and, up to MaxLoss of   *)
(* them, lost. Membership is fixed: the dst name of a node message is the  *)
(* recipient's name, so it always matches the recipient's prefix and no    *)
(* AE-Redirect arises between nodes.                                        *)
(***************************************************************************)
EXTENDS NetworkKnowledge, FiniteSets

CONSTANTS
  Nodes,      \* the nodes of all sections
  Prefixes,   \* the sections
  Home,       \* Home[n]: the section of node n
  Elders,     \* the nodes that are elders of their section
  MaxGen,     \* the last SAP generation a section reaches by key rotation
  Payloads,   \* node messages an application handler sends
  Origin,     \* Origin[m]: the node that sends m
  Target,     \* Target[m]: the peer m is sent to, in another section
  MaxLoss,    \* how many messages the network may lose in a behaviour
  ProbePairs  \* the pairs <<n, t>> where n may probe t (health checks)

ASSUME HomeAssumption == Home \in [Nodes -> Prefixes]
ASSUME EldersAssumption == Elders \subseteq Nodes
ASSUME BoundsAssumption == MaxGen \in Nat /\ MaxLoss \in Nat
ASSUME PayloadAssumption ==
  /\ Origin \in [Payloads -> Nodes]
  /\ Target \in [Payloads -> Nodes]
  /\ \A m \in Payloads : Home[Origin[m]] # Home[Target[m]]
ASSUME ProbeAssumption ==
  ProbePairs \subseteq {pr \in Nodes \X Nodes : pr[1] # pr[2]}

Gen == 0..MaxGen
Sap == [prefix : Prefixes, gen : Gen]
Status == {"unsent", "inflight", "handled", "dropped", "lost"}

VARIABLES
  cur,        \* cur[p]: the generation of the latest SAP of section p
  know,       \* know[n][p]: the SAP generation node n holds for section p
  nodeNet,    \* node messages in transit
  retryNet,   \* AE-Retry messages in transit
  updateNet,  \* AE-Update messages in transit
  probeNet,   \* AntiEntropyProbe messages in transit
  status,     \* status[m]: where payload m is
  lost        \* messages the network has lost so far

vars == <<cur, know, nodeNet, retryNet, updateNet, probeNet, status, lost>>

Members(p) == {n \in Nodes : Home[n] = p}

(* The signed SAP of a node's own section, as it holds it.                *)
SectionSap(n) == [prefix |-> Home[n], gen |-> know[n][Home[n]]]

(* generate_dst: the dst section key for a peer is the key we hold for    *)
(* the section whose prefix matches the peer's name.                      *)
DstKey(k, peer) == k[Home[peer]]

NodeMsg(m, from, to, key) == [id |-> m, from |-> from, to |-> to, key |-> key]

(* send_ae_update_to_nodes: an AE-Update with the sender's SAP.           *)
AeUpdate(from, to, sap) == [from |-> from, to |-> to, sap |-> sap]

(* check_for_entropy: the dst name is the receiver's, so it matches our   *)
(* prefix; entropy is found iff dst.section_key is not our current key.   *)
CheckForEntropy(r, msg) == msg.key # know[r][Home[r]]

(* apply_ae: adults never check for entropy; elders do.                  *)
NeedsAe(r, msg) == r \in Elders /\ CheckForEntropy(r, msg)

(* generate_anti_entropy_cmds for a node message: the AE-Retry with our  *)
(* SAP and the bounced message goes back to its origin.                   *)
RetryFor(r, msg) ==
  [from |-> r, to |-> msg.from, sap |-> SectionSap(r), bounced |-> msg]

Init ==
  /\ cur = [p \in Prefixes |-> 0]
  /\ know = [n \in Nodes |-> [p \in Prefixes |-> 0]]
  /\ nodeNet = {}
  /\ retryNet = {}
  /\ updateNet = {}
  /\ probeNet = {}
  /\ status = [m \in Payloads |-> "unsent"]
  /\ lost = 0

(***************************************************************************)
(* Plausible bugs of the handlers below.                                   *)
(***************************************************************************)
(* The AE-Retry is handled without applying the SAP it carries.          *)
HandleRetryNoUpdate(ae) ==
  LET n == ae.to IN
  /\ ae \in retryNet
  /\ retryNet' = retryNet \ {ae}
  /\ IF ae.bounced.key = ae.sap.gen
       THEN /\ status' = [status EXCEPT ![ae.bounced.id] = "dropped"]
            /\ UNCHANGED nodeNet
       ELSE /\ nodeNet' = nodeNet \cup
                 {NodeMsg(ae.bounced.id, n, ae.from, DstKey(know[n], ae.from))}
            /\ UNCHANGED status
  /\ UNCHANGED <<cur, know, updateNet, probeNet, lost>>

(* The bounced message is dropped when it taught us nothing new, as the   *)
(* legacy routing handler does.                                            *)
HandleRetryDropUnlessUpdated(ae) ==
  LET n == ae.to
      k == ApplyUpdate(know[n], ae.sap)
  IN
  /\ ae \in retryNet
  /\ retryNet' = retryNet \ {ae}
  /\ know' = [know EXCEPT ![n] = k]
  /\ IF ~WouldUpdate(know[n], ae.sap)
       THEN /\ UNCHANGED <<status, nodeNet>>
       ELSE /\ nodeNet' = nodeNet \cup
                 {NodeMsg(ae.bounced.id, n, ae.from, DstKey(k, ae.from))}
            /\ UNCHANGED status
  /\ UNCHANGED <<cur, updateNet, probeNet, lost>>

(* A key rotation past the last generation of the model.                 *)
RotateUnbounded(p) ==
  /\ cur[p] <= MaxGen
  /\ cur' = [cur EXCEPT ![p] = cur[p] + 1]
  /\ UNCHANGED <<know, nodeNet, retryNet, updateNet, probeNet, status, lost>>

-----------------------------------------------------------------------------

(* Cmd::send_msg of an application message: into_msg_bytes addresses it  *)
(* with our key for the target's section and comm sends it.               *)
SendMsg(m) ==
  /\ status[m] = "unsent"
  /\ nodeNet' = nodeNet \cup
       {NodeMsg(m, Origin[m], Target[m], DstKey(know[Origin[m]], Target[m]))}
  /\ status' = [status EXCEPT ![m] = "inflight"]
  /\ UNCHANGED <<cur, know, retryNet, updateNet, probeNet, lost>>

(* validate_msg finds no entropy: Cmd::HandleValidSystemMsg.              *)
HandleValidMsg(msg) ==
  /\ msg \in nodeNet
  /\ ~NeedsAe(msg.to, msg)
  /\ nodeNet' = nodeNet \ {msg}
  /\ status' = [status EXCEPT ![msg.id] = "handled"]
  /\ UNCHANGED <<cur, know, retryNet, updateNet, probeNet, lost>>

(* validate_msg short-circuits with the AE commands of apply_ae.          *)
BounceRetry(msg) ==
  /\ msg \in nodeNet
  /\ NeedsAe(msg.to, msg)
  /\ nodeNet' = nodeNet \ {msg}
  /\ retryNet' = retryNet \cup {RetryFor(msg.to, msg)}
  /\ UNCHANGED <<cur, know, updateNet, probeNet, status, lost>>

(* handle_anti_entropy_msg for an AE-Retry: apply the SAP, then drop the  *)
(* bounced message if its dst key is the advertised key (the loop guard), *)
(* else re-send it to the responder with latest_context.                  *)
HandleRetry(ae) ==
  LET n == ae.to
      k == ApplyUpdate(know[n], ae.sap)
  IN
  /\ ae \in retryNet
  /\ retryNet' = retryNet \ {ae}
  /\ know' = [know EXCEPT ![n] = k]
  /\ IF ae.bounced.key = ae.sap.gen
       THEN /\ status' = [status EXCEPT ![ae.bounced.id] = "dropped"]
            /\ UNCHANGED nodeNet
       ELSE /\ nodeNet' = nodeNet \cup
                 {NodeMsg(ae.bounced.id, n, ae.from, DstKey(k, ae.from))}
            /\ UNCHANGED status
  /\ UNCHANGED <<cur, updateNet, probeNet, lost>>

(* handle_anti_entropy_msg for an AE-Update: apply the SAP and stop.       *)
HandleUpdate(u) ==
  /\ u \in updateNet
  /\ updateNet' = updateNet \ {u}
  /\ know' = [know EXCEPT ![u.to] = ApplyUpdate(know[u.to], u.sap)]
  /\ UNCHANGED <<cur, nodeNet, retryNet, probeNet, status, lost>>

(* handle_valid_node_msg for AntiEntropyProbe: an elder answers with an   *)
(* AE-Update, an adult drops the probe.                                   *)
HandleProbe(pr) ==
  /\ pr \in probeNet
  /\ probeNet' = probeNet \ {pr}
  /\ \/ /\ pr.to \in Elders
        /\ updateNet' = updateNet \cup
             {AeUpdate(pr.to, pr.from, SectionSap(pr.to))}
     \/ /\ pr.to \notin Elders
        /\ UNCHANGED updateNet
  /\ UNCHANGED <<cur, know, nodeNet, retryNet, status, lost>>

(* Fault detection probes a peer, an elder of our own section included   *)
(* (health checks; the prober is not under src/).                         *)
SendProbe(n, t) ==
  /\ <<n, t>> \in ProbePairs
  /\ probeNet' = probeNet \cup {[from |-> n, to |-> t, key |-> DstKey(know[n], t)]}
  /\ UNCHANGED <<cur, know, nodeNet, retryNet, updateNet, status, lost>>

(* The DKG of section p yields the next section key (not under src/).     *)
Rotate(p) ==
  /\ cur[p] < MaxGen
  /\ cur' = [cur EXCEPT ![p] = cur[p] + 1]
  /\ UNCHANGED <<know, nodeNet, retryNet, updateNet, probeNet, status, lost>>

(* An elder completes the handover to the new key (not under src/) and     *)
(* inserts the new SAP; send_ae_update_to_our_section (lines 36-65) then   *)
(* sends an AE-Update to every other member of the section, or nothing     *)
(* when the SectionsDAG has gone out of sync (line 61).                    *)
Handover(e) ==
  LET p == Home[e]
      sap == [prefix |-> p, gen |-> cur[p]]
  IN
  /\ e \in Elders
  /\ know[e][p] < cur[p]
  /\ know' = [know EXCEPT ![e][p] = cur[p]]
  /\ \/ updateNet' = updateNet \cup {AeUpdate(e, n, sap) : n \in Members(p) \ {e}}
     \/ UNCHANGED updateNet
  /\ UNCHANGED <<cur, nodeNet, retryNet, probeNet, status, lost>>

(* The network loses a message.                                            *)
Lose ==
  /\ lost < MaxLoss
  /\ lost' = lost + 1
  /\ UNCHANGED <<cur, know>>
  /\ \/ \E msg \in nodeNet :
          /\ nodeNet' = nodeNet \ {msg}
          /\ status' = [status EXCEPT ![msg.id] = "lost"]
          /\ UNCHANGED <<retryNet, updateNet, probeNet>>
     \/ \E ae \in retryNet :
          /\ retryNet' = retryNet \ {ae}
          /\ status' = [status EXCEPT ![ae.bounced.id] = "lost"]
          /\ UNCHANGED <<nodeNet, updateNet, probeNet>>
     \/ \E u \in updateNet :
          /\ updateNet' = updateNet \ {u}
          /\ UNCHANGED <<nodeNet, retryNet, probeNet, status>>

Next ==
  \/ \E m \in Payloads : SendMsg(m)
  \/ \E msg \in nodeNet : HandleValidMsg(msg) \/ BounceRetry(msg)
  \/ \E ae \in retryNet : HandleRetry(ae)
  \/ \E u \in updateNet : HandleUpdate(u)
  \/ \E pr \in probeNet : HandleProbe(pr)
  \/ \E n, t \in Nodes : SendProbe(n, t)
  \/ \E p \in Prefixes : Rotate(p)
  \/ \E e \in Nodes : Handover(e)
  \/ Lose

(***************************************************************************)
(* Every message that reaches a node is eventually handled: the node runs  *)
(* a task for each inbound message on tokio's work-stealing executor.     *)
(* Every elder eventually completes a handover that has begun: the         *)
(* agreement reaches each elder of the section. Key rotations, probes and  *)
(* losses are not forced to happen.                                        *)
(***************************************************************************)
NodeMsgs == {NodeMsg(m, Origin[m], Target[m], g) : m \in Payloads, g \in Gen}
RetryMsgs == {[from |-> Target[m], to |-> Origin[m],
               sap |-> [prefix |-> Home[Target[m]], gen |-> g],
               bounced |-> NodeMsg(m, Origin[m], Target[m], k)] :
                 m \in Payloads, g \in Gen, k \in Gen}
UpdateMsgs == {AeUpdate(e, n, [prefix |-> Home[e], gen |-> g]) :
                 e \in Elders, n \in Nodes, g \in Gen}

Fairness ==
  /\ \A msg \in NodeMsgs : WF_vars(HandleValidMsg(msg) \/ BounceRetry(msg))
  /\ \A ae \in RetryMsgs : WF_vars(HandleRetry(ae))
  /\ \A u \in UpdateMsgs : WF_vars(HandleUpdate(u))
  /\ \A e \in Elders : WF_vars(Handover(e))

Spec == Init /\ [][Next]_vars /\ Fairness

-----------------------------------------------------------------------------

TypeOK ==
  /\ cur \in [Prefixes -> Gen]
  /\ know \in [Nodes -> [Prefixes -> Gen]]
  /\ nodeNet \subseteq NodeMsgs
  /\ retryNet \subseteq RetryMsgs
  /\ updateNet \subseteq [from : Elders, to : Nodes, sap : Sap]
  /\ probeNet \subseteq [from : Nodes, to : Nodes, key : Gen]
  /\ status \in [Payloads -> Status]
  /\ lost \in 0..MaxLoss

(* The copies of payload m in transit: the message or its AE-Retry.       *)
Copies(m) == {msg \in nodeNet : msg.id = m} \cup
             {ae \in retryNet : ae.bounced.id = m}

(* No handler loses a message silently: while a message is in flight      *)
(* exactly one copy of it, the message or the AE-Retry bouncing it, is in *)
(* transit, and once it is handled, dropped by the loop guard or lost by  *)
(* the network none is. A resend that handle_anti_entropy_msg forgets     *)
(* (line 292) or duplicates breaks it.                                    *)
NoSilentDrop ==
  \A m \in Payloads :
    IF status[m] = "inflight" THEN Cardinality(Copies(m)) = 1
                              ELSE Copies(m) = {}

(* The AE exchange about a message terminates: every message sent is     *)
(* eventually handled, dropped by the loop guard at line 284 or lost. The *)
(* spec (4.2) forbids infinite AE loops.                                  *)
AeTerminates ==
  \A m \in Payloads :
    status[m] = "inflight" ~> status[m] \in {"handled", "dropped", "lost"}

=============================================================================
