------------------------------ MODULE LegacyAe ------------------------------
(***************************************************************************)
(* Anti-Entropy in the legacy routing Core (src/src/routing/core/          *)
(* msg_handling/anti_entropy.rs): one node sends messages to the elders    *)
(* of another section; an elder bounces a message whose dst section key    *)
(* is not the last key of its chain (check_for_entropy,                    *)
(* check_dest_section_pk) with an AntiEntropyRetry; the sender re-sends    *)
(* the bounced message only if update_remote_section_sap accepted the SAP  *)
(* (handle_anti_entropy_retry_msg). Section keys are generations; a key    *)
(* newer than an elder's last key is unknown to its chain, which           *)
(* cmp_by_position orders before the last key, like an older one.          *)
(***************************************************************************)
EXTENDS Naturals

CONSTANTS
  Elders,     \* the elders of the destination section
  MaxGen,     \* the last key generation of the destination section
  Payloads,   \* the messages the sender sends
  Target      \* Target[m]: the elder m is sent to

ASSUME LegacyAssumption ==
  /\ MaxGen \in Nat
  /\ Target \in [Payloads -> Elders]

Gen == 0..MaxGen

VARIABLES
  cur,        \* the generation of the destination section's latest key
  ekey,       \* ekey[e]: the last key of elder e's section chain
  remote,     \* the key the sender holds for the destination section
  net,        \* node messages in transit
  retryNet,   \* AntiEntropyRetry messages in transit
  status      \* status[m]: where message m is

vars == <<cur, ekey, remote, net, retryNet, status>>

Msg(m, key) == [id |-> m, to |-> Target[m], key |-> key]

(* check_dest_section_pk: cmp_by_position(dst, last_key) == Less, i.e.    *)
(* the dst key is an older key of our chain or one it does not hold.       *)
CheckDestSectionPk(e, msg) == msg.key # ekey[e]

(* update_remote_section_sap (not under src/): a SAP signed by a later key *)
(* of the chain is accepted, any other is refused.                        *)
UpdateRemoteSectionSap(r, g) == g > r

Init ==
  /\ cur = 0
  /\ ekey = [e \in Elders |-> 0]
  /\ remote = 0
  /\ net = {}
  /\ retryNet = {}
  /\ status = [m \in Payloads |-> "unsent"]

(***************************************************************************)
(* A plausible bug of Rotate.                                              *)
(***************************************************************************)
(* A rotation that does not stop at the last generation.                  *)
RotateUnbounded(e) ==
  /\ ekey[e] = cur
  /\ cur' = cur + 1
  /\ ekey' = [ekey EXCEPT ![e] = cur + 1]
  /\ UNCHANGED <<remote, net, retryNet, status>>

-----------------------------------------------------------------------------

(* The sender's Core sends m with the key it holds for the section.       *)
SendMsg(m) ==
  /\ status[m] = "unsent"
  /\ net' = net \cup {Msg(m, remote)}
  /\ status' = [status EXCEPT ![m] = "inflight"]
  /\ UNCHANGED <<cur, ekey, remote, retryNet>>

(* check_for_entropy returns None: the message is handled.                *)
HandleMsg(msg) ==
  /\ msg \in net
  /\ ~CheckDestSectionPk(msg.to, msg)
  /\ net' = net \ {msg}
  /\ status' = [status EXCEPT ![msg.id] = "handled"]
  /\ UNCHANGED <<cur, ekey, remote, retryNet>>

(* check_dest_section_pk bounces the message with our SAP and chain.      *)
BounceRetry(msg) ==
  /\ msg \in net
  /\ CheckDestSectionPk(msg.to, msg)
  /\ net' = net \ {msg}
  /\ retryNet' = retryNet \cup {[from |-> msg.to, sap |-> ekey[msg.to],
                                 bounced |-> msg]}
  /\ UNCHANGED <<cur, ekey, remote, status>>

(* handle_anti_entropy_retry_msg: if update_remote_section_sap accepts    *)
(* the SAP, re-send the bounced message with its key, else drop it.       *)
HandleRetry(ae) ==
  /\ ae \in retryNet
  /\ retryNet' = retryNet \ {ae}
  /\ \/ /\ UpdateRemoteSectionSap(remote, ae.sap)
        /\ remote' = ae.sap
        /\ net' = net \cup {Msg(ae.bounced.id, ae.sap)}
        /\ UNCHANGED status
     \/ /\ ~UpdateRemoteSectionSap(remote, ae.sap)
        /\ status' = [status EXCEPT ![ae.bounced.id] = "dropped"]
        /\ UNCHANGED <<remote, net>>
  /\ UNCHANGED <<cur, ekey>>

(* An elder holding the latest key completes a key rotation (not under    *)
(* src/).                                                                  *)
Rotate(e) ==
  /\ ekey[e] = cur
  /\ cur < MaxGen
  /\ cur' = cur + 1
  /\ ekey' = [ekey EXCEPT ![e] = cur + 1]
  /\ UNCHANGED <<remote, net, retryNet, status>>

(* Another elder learns the latest key of its own section (not under      *)
(* src/).                                                                  *)
LearnKey(e) ==
  /\ ekey[e] < cur
  /\ ekey' = [ekey EXCEPT ![e] = cur]
  /\ UNCHANGED <<cur, remote, net, retryNet, status>>

Next ==
  \/ \E m \in Payloads : SendMsg(m)
  \/ \E msg \in net : HandleMsg(msg) \/ BounceRetry(msg)
  \/ \E ae \in retryNet : HandleRetry(ae)
  \/ \E e \in Elders : Rotate(e) \/ LearnKey(e)

(* The messages and AE-Retries that can be in transit.                    *)
Msgs == {Msg(m, g) : m \in Payloads, g \in Gen}
Retries == {[from |-> Target[m], sap |-> g, bounced |-> Msg(m, k)] :
              m \in Payloads, g \in Gen, k \in Gen}

Spec == Init /\ [][Next]_vars

-----------------------------------------------------------------------------

TypeOK ==
  /\ cur \in Gen
  /\ ekey \in [Elders -> Gen]
  /\ remote \in Gen
  /\ net \subseteq Msgs
  /\ retryNet \subseteq Retries
  /\ status \in [Payloads -> {"unsent", "inflight", "handled", "dropped"}]

=============================================================================
