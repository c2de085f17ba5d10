-------------------------- MODULE ServiceValidation --------------------------
(***************************************************************************)
(* Validation of client (Service) messages, the MsgType::Service branch of *)
(* Node::validate_msg (src/sn_node/src/node/messaging/mod.rs, lines        *)
(* 119-178): an adult sends the client to our elders; an elder refuses a  *)
(* query while it has too many pending data queries, answers a message     *)
(* sent to a stale section key with AE, and otherwise returns a            *)
(* HandleValidServiceMsg command. validate_msg takes &self and runs once    *)
(* per inbound message, concurrently; the query is only added to           *)
(* pending_data_queries later, when that command runs. The command         *)
(* handler, the answer from the adults holding the data, the section key   *)
(* change and the client (none of them under src/) are modelled from spec  *)
(* 3 and 5. Queries name the data they fetch, so dst_address is never      *)
(* None for them; the network neither loses nor duplicates messages here.  *)
(***************************************************************************)
EXTENDS Naturals, FiniteSets

CONSTANTS
  Nodes,          \* the nodes of the section
  Elders,         \* its elders
  Queries,        \* the client's queries
  DataQueryLimit, \* DATA_QUERY_LIMIT
  MaxGen          \* bound on the section key generations of a behaviour

ASSUME ServiceAssumption ==
  /\ Elders \subseteq Nodes /\ Elders # {}
  /\ DataQueryLimit \in Nat /\ MaxGen \in Nat

ReplyKinds == {"redirect", "retry", "error", "answer"}

VARIABLES
  gen,        \* the generation of our section key
  ckey,       \* the generation of our section key the client knows
  net,        \* queries in transit to a node, with the key they are sent to
  replies,    \* replies in transit to the client
  cmds,       \* HandleValidServiceMsg commands returned, not yet run
  pending,    \* pending[e]: pending_data_queries of elder e
  outcome     \* outcome[q]: "unsent", "sent", "answered" or "refused"

vars == <<gen, ckey, net, replies, cmds, pending, outcome>>

Init ==
  /\ gen = 0
  /\ ckey = 0
  /\ net = {}
  /\ replies = {}
  /\ cmds = {}
  /\ pending = [e \in Elders |-> {}]
  /\ outcome = [q \in Queries |-> "unsent"]

(***************************************************************************)
(* Plausible bugs of Validate.                                             *)
(***************************************************************************)
(* An adult drops a client message instead of redirecting it.             *)
ValidateAdultDrops(m) ==
  /\ m \in net
  /\ net' = net \ {m}
  /\ IF m.to \notin Elders
       THEN UNCHANGED <<replies, cmds>>
     ELSE IF Cardinality(pending[m.to]) > DataQueryLimit
       THEN /\ replies' = replies \cup {[q |-> m.q, kind |-> "error", key |-> gen]}
            /\ UNCHANGED cmds
     ELSE IF m.key # gen
       THEN /\ replies' = replies \cup {[q |-> m.q, kind |-> "retry", key |-> gen]}
            /\ UNCHANGED cmds
     ELSE /\ cmds' = cmds \cup {[q |-> m.q, at |-> m.to]}
          /\ UNCHANGED replies
  /\ UNCHANGED <<gen, ckey, pending, outcome>>

(* The elder check left out: an adult handles the query itself.            *)
ValidateNoElderCheck(m) ==
  /\ m \in net
  /\ net' = net \ {m}
  /\ IF m.to \in Elders /\ Cardinality(pending[m.to]) > DataQueryLimit
       THEN /\ replies' = replies \cup {[q |-> m.q, kind |-> "error", key |-> gen]}
            /\ UNCHANGED cmds
     ELSE IF m.key # gen
       THEN /\ replies' = replies \cup {[q |-> m.q, kind |-> "retry", key |-> gen]}
            /\ UNCHANGED cmds
     ELSE /\ cmds' = cmds \cup {[q |-> m.q, at |-> m.to]}
          /\ UNCHANGED replies
  /\ UNCHANGED <<gen, ckey, pending, outcome>>

-----------------------------------------------------------------------------

(* The client sends query q to node n, to the section key it knows.       *)
Send(q, n) ==
  /\ outcome[q] = "unsent"
  /\ outcome' = [outcome EXCEPT ![q] = "sent"]
  /\ net' = net \cup {[q |-> q, to |-> n, key |-> ckey]}
  /\ UNCHANGED <<gen, ckey, replies, cmds, pending>>

(* validate_msg, Service branch (lines 119-178), at node m.to: an adult    *)
(* redirects the client to our elders (ae_redirect_to_our_elders); an      *)
(* elder refuses a query with CannotHandleQuery when more than             *)
(* DATA_QUERY_LIMIT are pending; a message to a key that is not our        *)
(* current one gets an AE Retry (check_for_entropy); else the message is   *)
(* valid.                                                                  *)
Validate(m) ==
  /\ m \in net
  /\ net' = net \ {m}
  /\ IF m.to \notin Elders
       THEN /\ replies' = replies \cup {[q |-> m.q, kind |-> "redirect", key |-> gen]}
            /\ UNCHANGED cmds
     ELSE IF Cardinality(pending[m.to]) > DataQueryLimit
       THEN /\ replies' = replies \cup {[q |-> m.q, kind |-> "error", key |-> gen]}
            /\ UNCHANGED cmds
     ELSE IF m.key # gen
       THEN /\ replies' = replies \cup {[q |-> m.q, kind |-> "retry", key |-> gen]}
            /\ UNCHANGED cmds
     ELSE /\ cmds' = cmds \cup {[q |-> m.q, at |-> m.to]}
          /\ UNCHANGED replies
  /\ UNCHANGED <<gen, ckey, pending, outcome>>

(* HandleValidServiceMsg (not under src/): the elder forwards the query to *)
(* the adults holding the data and records it as pending.                  *)
HandleQuery(c) ==
  /\ c \in cmds
  /\ cmds' = cmds \ {c}
  /\ pending' = [pending EXCEPT ![c.at] = @ \cup {c.q}]
  /\ UNCHANGED <<gen, ckey, net, replies, outcome>>

(* The adults' answer reaches elder e (not under src/): the query leaves   *)
(* the pending set and the client is answered.                             *)
Respond(e, q) ==
  /\ q \in pending[e]
  /\ pending' = [pending EXCEPT ![e] = @ \ {q}]
  /\ replies' = replies \cup {[q |-> q, kind |-> "answer", key |-> gen]}
  /\ UNCHANGED <<gen, ckey, net, cmds, outcome>>

(* The client takes a reply (spec 3): an answer or an error ends the       *)
(* query; after an AE Retry or a redirect it learns our current key and    *)
(* re-sends the bounced query to one of our elders.                        *)
ClientReceive(r) ==
  /\ r \in replies
  /\ replies' = replies \ {r}
  /\ IF r.kind \in {"answer", "error"}
       THEN /\ outcome' = [outcome EXCEPT ![r.q] =
                             IF r.kind = "answer" THEN "answered" ELSE "refused"]
            /\ UNCHANGED <<ckey, net>>
       ELSE /\ ckey' = r.key
            /\ \E e \in Elders : net' = net \cup {[q |-> r.q, to |-> e, key |-> r.key]}
            /\ UNCHANGED outcome
  /\ UNCHANGED <<gen, cmds, pending>>

(* Our section key changes (a churn or a split, not under src/).          *)
Rotate ==
  /\ gen < MaxGen
  /\ gen' = gen + 1
  /\ UNCHANGED <<ckey, net, replies, cmds, pending, outcome>>

Next ==
  \/ \E q \in Queries, n \in Nodes : Send(q, n)
  \/ \E m \in net : Validate(m)
  \/ \E c \in cmds : HandleQuery(c)
  \/ \E e \in Elders, q \in Queries : Respond(e, q)
  \/ \E r \in replies : ClientReceive(r)
  \/ Rotate

Msgs == [q : Queries, to : Nodes, key : 0..MaxGen]
Replies == [q : Queries, kind : ReplyKinds, key : 0..MaxGen]
Commands == [q : Queries, at : Elders]

(* Each inbound message is validated and each command run by the node's   *)
(* tasks, the adults answer every forwarded query, and the client reads    *)
(* every reply; whether it sends a query and whether the key changes is    *)
(* free.                                                                    *)
Fairness ==
  /\ \A m \in Msgs : WF_vars(Validate(m))
  /\ \A c \in [q : Queries, at : Nodes] : WF_vars(HandleQuery(c))
  /\ \A e \in Elders, q \in Queries : WF_vars(Respond(e, q))
  /\ \A r \in Replies : WF_vars(ClientReceive(r))

Spec == Init /\ [][Next]_vars /\ Fairness

-----------------------------------------------------------------------------

(* Only elders ever hold a valid client message to handle (the adult       *)
(* redirect of line 136 comes before every other check).                   *)
TypeOK ==
  /\ gen \in 0..MaxGen /\ ckey \in 0..MaxGen
  /\ net \subseteq Msgs /\ replies \subseteq Replies /\ cmds \subseteq Commands
  /\ pending \in [Elders -> SUBSET Queries]
  /\ outcome \in [Queries -> {"unsent", "sent", "answered", "refused"}]

(* Every query the client sends is eventually answered or refused: the    *)
(* adult redirect and the AE retries on a changed key always bring it to  *)
(* an elder that holds our current key.                                    *)
QueryResolved ==
  \A q \in Queries : outcome[q] = "sent" ~> outcome[q] \in {"answered", "refused"}

(* The warning of line 147 ("Pending queries length exceeded"): an elder   *)
(* never has more than DATA_QUERY_LIMIT data queries pending.              *)
PendingWithinLimit ==
  \A e \in Elders : Cardinality(pending[e]) <= DataQueryLimit

=============================================================================
