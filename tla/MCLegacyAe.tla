----------------------------- MODULE MCLegacyAe -----------------------------
(* Two elders of the destination section, each the target of one message. *)
EXTENDS LegacyAe, TLC

CONSTANTS e1, e2, m1, m2

MCElders == {e1, e2}
MCPayloads == {m1, m2}
MCTarget == (m1 :> e1) @@ (m2 :> e2)

=============================================================================
