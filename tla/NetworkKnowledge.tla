-------------------------- MODULE NetworkKnowledge --------------------------
(***************************************************************************)
(* The network knowledge of a node, reduced to the generation of the       *)
(* signed SAP it holds for every prefix. A SAP of a later generation is    *)
(* signed by the chain of the earlier ones, so NetworkKnowledge::          *)
(* update_knowledge_if_valid (not under src/, modelled from spec 4.1)      *)
(* applies a trusted update iff it is newer than the SAP held.             *)
(***************************************************************************)
EXTENDS Naturals

(* An update u = [prefix |-> p, gen |-> g] would change knowledge k.      *)
WouldUpdate(k, u) == u.gen > k[u.prefix]

(* update_knowledge_if_valid: replace the entry for u.prefix if newer.    *)
ApplyUpdate(k, u) == IF WouldUpdate(k, u) THEN [k EXCEPT ![u.prefix] = u.gen]
                                          ELSE k
=============================================================================
