--------------------------- MODULE MCCmdScheduler ---------------------------
EXTENDS CmdScheduler

CONSTANTS w1, w2

MCKinds == {"HandleMsg", "SendMsg", "ProposeOffline", "HandleDkgTimeout",
            "CleanupPeerLinks"}

MCWirePrios == {2}

Cmd(k) == [kind |-> k, wire |-> IF k \in WireKinds THEN 2 ELSE 0]

(* An inbound message and the periodic cleanup come from outside.          *)
MCExternal == {Cmd("HandleMsg"), Cmd("CleanupPeerLinks")}

(* Handling a message may send one and propose a peer offline; proposing  *)
(* it offline may time out a DKG round.                                    *)
MCFollowUps(c) ==
  CASE c.kind = "HandleMsg" -> {Cmd("SendMsg"), Cmd("ProposeOffline")}
    [] c.kind = "ProposeOffline" -> {Cmd("HandleDkgTimeout")}
    [] OTHER -> {}

MCWorkers1 == {w1}
MCWorkers2 == {w1, w2}

=============================================================================
