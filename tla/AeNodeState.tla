----------------------------- MODULE AeNodeState -----------------------------
(***************************************************************************)
(* What the AE handling of one node promises, with the concurrent tasks,   *)
(* their context snapshots, the section tree on disk, the comm targets and *)
(* the re-sent messages hidden: the knowledge of each section only moves   *)
(* to a later SAP, one section at a time, and RejoinRequired               *)
(* (RemovedFromSection) is only returned once the SAP of our own section   *)
(* no longer lists us.                                                     *)
(***************************************************************************)
EXTENDS Naturals

CONSTANTS Prefixes, OurPrefix, MaxGen, MemberGens

VARIABLES
  knowledge,  \* knowledge[p]: the generation of the SAP held for prefix p
  rejoin      \* RejoinRequired has been returned

Init ==
  /\ knowledge = [p \in Prefixes |-> 0]
  /\ rejoin = FALSE

Learn(p) ==
  /\ \E g \in (knowledge[p] + 1)..MaxGen : knowledge' = [knowledge EXCEPT ![p] = g]
  /\ UNCHANGED rejoin

SignalRejoin ==
  /\ knowledge[OurPrefix] \notin MemberGens
  /\ rejoin' = TRUE
  /\ UNCHANGED knowledge

Next == (\E p \in Prefixes : Learn(p)) \/ SignalRejoin

Spec == Init /\ [][Next]_<<knowledge, rejoin>>

=============================================================================
