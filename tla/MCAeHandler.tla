----------------------------- MODULE MCAeHandler -----------------------------
(* Two concurrent AE tasks, our section and one sibling, three SAP         *)
(* generations per section; we are removed from our section at the last.   *)
EXTENDS AeHandler

CONSTANTS h1, h2, p0, p1

MCHandlers == {h1, h2}
MCPrefixes == {p0, p1}
MCMemberGens == {0, 1}
=============================================================================
