----------------------------- MODULE MCAeEngine -----------------------------
(***************************************************************************)
(* Two sections: s is the only node of section pA (an adult; pA never     *)
(* rotates) and sends two messages to the elders e1 and e2 of section pB,  *)
(* which also has the adult a. s probes a, and e1 health-checks e2.        *)
(***************************************************************************)
EXTENDS AeEngine, TLC

CONSTANTS s, a, e1, e2, pA, pB, m1, m2

MCNodes == {s, a, e1, e2}
MCPrefixes == {pA, pB}
MCHome == (s :> pA) @@ (a :> pB) @@ (e1 :> pB) @@ (e2 :> pB)
MCElders == {e1, e2}
MCPayloads == {m1, m2}
MCOrigin == (m1 :> s) @@ (m2 :> s)
MCTarget == (m1 :> e1) @@ (m2 :> e2)
MCProbePairs == {<<s, a>>, <<e1, e2>>}
=============================================================================
