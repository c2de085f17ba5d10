---------------------------- MODULE StorageJoins ----------------------------
(***************************************************************************)
(* How data storage opens the section to new nodes (src/sn_node/src/node/  *)
(* messaging/node_msgs.rs). A node stores the data it is sent              *)
(* (store_data_and_respond); crossing a storage tranche asks for a join,   *)
(* reaching min capacity asks for joins until split, and running out of    *)
(* space is reported to the elders (CouldNotStoreData), who allow a join   *)
(* and vote off a node that reports full while they are below half. The   *)
(* handler reads the node's flags from the NodeContext cloned when the     *)
(* message was dispatched and decides after awaiting the store, so the     *)
(* flags it acts on may be stale. DataStorage, the Cmd handlers that set   *)
(* the flags and the join itself are not under src/ and are modelled from  *)
(* spec 6 and 7.                                                            *)
(***************************************************************************)
EXTENDS Naturals

CONSTANTS
  Nodes,      \* the nodes of the section
  Elders,     \* its elders
  Cap,        \* the chunks a node can store
  MinCap,     \* min_capacity: the storage limit set by the operator
  Tranche,    \* the chunks per StorageLevel
  MaxStores,  \* bound on the store requests of a behaviour
  MaxJoins    \* bound on the joins of a behaviour

ASSUME StorageAssumption ==
  /\ Elders \subseteq Nodes
  /\ Cap \in Nat \ {0} /\ MinCap \in 1..Cap /\ Tranche \in 1..Cap
  /\ MaxStores \in Nat /\ MaxJoins \in Nat

(* DataStorage (not under src/): the level of used space and the two      *)
(* capacity tests the handlers call.                                       *)
Level(u) == u \div Tranche
HasReachedMinCapacity(u) == u >= MinCap
IsBelowHalfLimit(u) == 2 * u < Cap

CmdKinds == {"SetJoinsAllowed", "SetJoinsAllowedUntilSplit", "ProposeOffline"}

(* send_msg_to_our_elders (lines 80-84): the CouldNotStoreData event of    *)
(* store t at node n, one copy to each elder of our SAP.                   *)
SendMsgToOurElders(t, n) == {[id |-> t.id, from |-> n, to |-> e] : e \in Elders}

VARIABLES
  used,       \* used[n]: the chunks node n stores
  ja,         \* ja[n]: joins_allowed
  jus,        \* jus[n]: joins_allowed_until_split
  tasks,      \* StoreData handlers running, with the context they cloned
  reports,    \* CouldNotStoreData events in transit
  cmds,       \* commands returned by the handlers, not yet run
  issues,     \* nodes tracked for a Communication issue
  refused,    \* nodes that ran out of space since the last join
  stores,     \* store requests so far
  joins       \* joins so far

vars == <<used, ja, jus, tasks, reports, cmds, issues, refused, stores, joins>>

Init ==
  /\ used = [n \in Nodes |-> 0]
  /\ ja = [n \in Nodes |-> FALSE]
  /\ jus = [n \in Nodes |-> FALSE]
  /\ tasks = {}
  /\ reports = {}
  /\ cmds = {}
  /\ issues = {}
  /\ refused = {}
  /\ stores = 0
  /\ joins = 0

(***************************************************************************)
(* Plausible bugs of the handlers below.                                   *)
(***************************************************************************)
(* The elders track the full node but do not open the section to a join.  *)
HandleCouldNotStoreDataNoJoin(r) ==
  LET e == r.to IN
  /\ r \in reports
  /\ reports' = reports \ {r}
  /\ IF IsBelowHalfLimit(used[e])
       THEN /\ cmds' = cmds \cup {[to |-> e, kind |-> "ProposeOffline", node |-> r.from]}
            /\ UNCHANGED issues
       ELSE /\ issues' = issues \cup {r.from}
            /\ UNCHANGED cmds
  /\ UNCHANGED <<used, ja, jus, tasks, refused, stores, joins>>

(* A successful store that asks for a join whatever the level did.        *)
StoreAlwaysAsksJoin(t) ==
  LET n == t.node IN
  /\ t \in tasks
  /\ tasks' = tasks \ {t}
  /\ used[n] < Cap
  /\ used' = [used EXCEPT ![n] = @ + 1]
  /\ cmds' = cmds \cup {[to |-> n, kind |-> "SetJoinsAllowed", node |-> n]}
  /\ UNCHANGED <<ja, jus, reports, issues, refused, stores, joins>>

(* A store that does not check that the node has space left.             *)
StoreOkUnbounded(t) ==
  LET n == t.node
      u == used[n] + 1
  IN
  /\ t \in tasks
  /\ tasks' = tasks \ {t}
  /\ used' = [used EXCEPT ![n] = u]
  /\ cmds' = cmds \cup
       (IF Level(u) > Level(used[n])
          THEN {[to |-> n, kind |-> "SetJoinsAllowed", node |-> n]}
        ELSE IF HasReachedMinCapacity(u) /\ ~t.jus
          THEN {[to |-> n, kind |-> "SetJoinsAllowedUntilSplit", node |-> n]}
        ELSE {})
  /\ UNCHANGED <<ja, jus, reports, issues, refused, stores, joins>>

-----------------------------------------------------------------------------

(* A StoreData message reaches node n: its handler is dispatched with a   *)
(* clone of the node's context.                                            *)
ReceiveStore(n) ==
  /\ stores < MaxStores
  /\ stores' = stores + 1
  /\ tasks' = tasks \cup {[id |-> stores, node |-> n, ja |-> ja[n], jus |-> jus[n]]}
  /\ UNCHANGED <<used, ja, jus, reports, cmds, issues, refused, joins>>

(* store_data_and_respond, lines 103-179, when the store succeeds:        *)
(* a level increase asks for a join, else having reached min capacity     *)
(* asks for joins until split unless the context says they are.           *)
StoreOk(t) ==
  LET n == t.node
      u == used[n] + 1
  IN
  /\ t \in tasks
  /\ tasks' = tasks \ {t}
  /\ used[n] < Cap
  /\ used' = [used EXCEPT ![n] = u]
  /\ cmds' = cmds \cup
       (IF Level(u) > Level(used[n])
          THEN {[to |-> n, kind |-> "SetJoinsAllowed", node |-> n]}
        ELSE IF HasReachedMinCapacity(u) /\ ~t.jus
          THEN {[to |-> n, kind |-> "SetJoinsAllowedUntilSplit", node |-> n]}
        ELSE {})
  /\ UNCHANGED <<ja, jus, reports, issues, refused, stores, joins>>

(* Lines 136-153: NotEnoughSpace. An elder whose context says joins are   *)
(* not allowed asks for joins until split; the node reports itself full   *)
(* to all our elders (send_msg_to_our_elders, lines 82-87).                *)
StoreFull(t) ==
  LET n == t.node IN
  /\ t \in tasks
  /\ tasks' = tasks \ {t}
  /\ used[n] = Cap
  /\ cmds' = cmds \cup
       (IF n \in Elders /\ ~t.ja
          THEN {[to |-> n, kind |-> "SetJoinsAllowedUntilSplit", node |-> n]}
          ELSE {})
  /\ reports' = reports \cup SendMsgToOurElders(t, n)
  /\ refused' = refused \cup {n}
  /\ UNCHANGED <<used, ja, jus, issues, stores, joins>>

(* Lines 154-159: any other storage error is ignored and answered Ok.     *)
StoreOtherError(t) ==
  /\ t \in tasks
  /\ used[t.node] < Cap
  /\ tasks' = tasks \ {t}
  /\ UNCHANGED <<used, ja, jus, reports, cmds, issues, refused, stores, joins>>

(* handle_valid_node_msg for CouldNotStoreData, lines 404-439: allow a    *)
(* join unless joins are allowed; vote off a node reporting full while we *)
(* are below half our limit, else track it for an issue. The event is     *)
(* always sent with full: true (line 143), so the full field is left out.  *)
(* Elders do not change here, so the adult branch (line 411) is not        *)
(* reached.                                                                *)
HandleCouldNotStoreData(r) ==
  LET e == r.to IN
  /\ r \in reports
  /\ reports' = reports \ {r}
  /\ LET join == IF ~ja[e] THEN {[to |-> e, kind |-> "SetJoinsAllowed", node |-> e]}
                           ELSE {}
     IN IF IsBelowHalfLimit(used[e])
          THEN /\ cmds' = cmds \cup join \cup
                            {[to |-> e, kind |-> "ProposeOffline", node |-> r.from]}
               /\ UNCHANGED issues
          ELSE /\ cmds' = cmds \cup join
               /\ issues' = issues \cup {r.from}
  /\ UNCHANGED <<used, ja, jus, tasks, refused, stores, joins>>

(* The node runs a command (not under src/): the two join commands set    *)
(* its flags; a proposal to vote a node off goes to consensus.            *)
RunCmd(c) ==
  /\ c \in cmds
  /\ cmds' = cmds \ {c}
  /\ ja' = IF c.kind = "SetJoinsAllowed" THEN [ja EXCEPT ![c.to] = TRUE] ELSE ja
  /\ jus' = IF c.kind = "SetJoinsAllowedUntilSplit"
              THEN [jus EXCEPT ![c.to] = TRUE] ELSE jus
  /\ UNCHANGED <<used, tasks, reports, issues, refused, stores, joins>>

(* A node joins while an elder allows it (not under src/): joins_allowed   *)
(* is spent, joins until split are not; the newcomer brings new space.     *)
Join ==
  /\ joins < MaxJoins
  /\ \E e \in Elders : ja[e] \/ jus[e]
  /\ joins' = joins + 1
  /\ ja' = [n \in Nodes |-> IF n \in Elders THEN FALSE ELSE ja[n]]
  /\ refused' = {}
  /\ UNCHANGED <<used, jus, tasks, reports, cmds, issues, stores>>

Next ==
  \/ \E n \in Nodes : ReceiveStore(n)
  \/ \E t \in tasks : StoreOk(t) \/ StoreFull(t) \/ StoreOtherError(t)
  \/ \E r \in reports : HandleCouldNotStoreData(r)
  \/ \E c \in cmds : RunCmd(c)
  \/ Join

(* Each handler task runs to its end and each event and command is        *)
(* handled; whether data keeps coming and nodes keep joining is free.     *)
Tasks == [id : 0..MaxStores, node : Nodes, ja : BOOLEAN, jus : BOOLEAN]
Reports == [id : 0..MaxStores, from : Nodes, to : Elders]
Cmds == [to : Nodes, kind : CmdKinds, node : Nodes]

Fairness ==
  /\ \A t \in Tasks : WF_vars(StoreOk(t) \/ StoreFull(t) \/ StoreOtherError(t))
  /\ \A r \in Reports : WF_vars(HandleCouldNotStoreData(r))
  /\ \A c \in Cmds : WF_vars(RunCmd(c))

Spec == Init /\ [][Next]_vars /\ Fairness

-----------------------------------------------------------------------------

TypeOK ==
  /\ used \in [Nodes -> 0..Cap]
  /\ ja \in [Nodes -> BOOLEAN] /\ jus \in [Nodes -> BOOLEAN]
  /\ tasks \subseteq Tasks /\ reports \subseteq Reports /\ cmds \subseteq Cmds
  /\ issues \subseteq Nodes /\ refused \subseteq Nodes
  /\ stores \in 0..MaxStores /\ joins \in 0..MaxJoins

(* A node that runs out of space always gets the section opened to new   *)
(* nodes: whatever the contexts its handlers and the elders' read, some   *)
(* elder eventually allows a join, or a node joins.                        *)
FullLeadsToJoinsAllowed ==
  \A n \in Nodes :
    n \in refused ~> (n \notin refused \/ \E e \in Elders : ja[e] \/ jus[e])

(* The section is opened to joins only under storage pressure: an elder    *)
(* allows a join only once some node has crossed a storage tranche or run  *)
(* out of space.                                                           *)
JoinsOnlyUnderPressure ==
  \A e \in Elders :
    (ja[e] \/ jus[e]) => \E n \in Nodes : Level(used[n]) >= 1 \/ used[n] >= MinCap

=============================================================================
