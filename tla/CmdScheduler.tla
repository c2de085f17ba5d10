---------------------------- MODULE CmdScheduler ----------------------------
(***************************************************************************)
(* The node's command model (src/sn_node/src/node/api/cmds.rs) and the     *)
(* scheduler that runs it. Every unit of work is a Cmd wrapped in a CmdJob *)
(* with an id and the priority Cmd::priority gives it. The scheduler (not  *)
(* under src/, modelled from spec 4.3) is a bounded queue drained by a     *)
(* pool of workers, highest priority first and, among equal priorities,    *)
(* in insertion order; a handler's follow-up commands re-enter the queue.  *)
(* Job ids are handed out in insertion order, so the queue is a set of     *)
(* jobs and insertion order is id order.                                   *)
(***************************************************************************)
EXTENDS Integers, FiniteSets, SequencesExt

CONSTANTS
  Kinds,        \* the Cmd variants that occur (a subset of CmdKinds)
  WirePrios,    \* the priorities a WireMsg may carry (MsgType, not under src/)
  External,     \* the commands raised from outside the queue (inbound msgs, timers)
  FollowUps(_), \* FollowUps(c): the commands a handler of c may return
  Workers,      \* the worker pool
  MaxJobs,      \* bound on the number of jobs created in a behaviour
  QueueBound    \* capacity of the command queue

(* The variants of enum Cmd (lines 83-149).                                *)
CmdKinds ==
  {"CleanupPeerLinks", "HandleMsg", "HandleDkgTimeout", "HandlePeerLost",
   "HandleAgreement", "HandleNewNodeOnline", "HandleNodeLeft",
   "HandleNewEldersAgreement", "HandleDkgOutcome", "HandleDkgFailure",
   "SendMsg", "EnqueueDataForReplication", "SignOutgoingSystemMsg",
   "SendMsgDeliveryGroup", "ScheduleDkgTimeout", "ProposeOffline",
   "StartConnectivityTest", "TestConnectivity"}

(* The variants whose priority is that of the message they carry.         *)
WireKinds == {"HandleMsg", "SendMsg", "SignOutgoingSystemMsg",
              "SendMsgDeliveryGroup"}

(* A command: its variant and, for the wire variants, the message's        *)
(* priority; the rest of its payload does not affect scheduling.           *)
Cmds == {[kind |-> k, wire |-> 0] : k \in Kinds \ WireKinds} \cup
        {[kind |-> k, wire |-> w] : k \in Kinds \cap WireKinds, w \in WirePrios}

ASSUME SchedulerAssumption ==
  /\ Kinds \subseteq CmdKinds
  /\ WirePrios \subseteq Int
  /\ External \subseteq Cmds
  /\ \A c \in Cmds : FollowUps(c) \subseteq Cmds /\ IsFiniteSet(FollowUps(c))
  /\ MaxJobs \in Nat
  /\ QueueBound \in Nat \ {0}

(* The priority table of spec 4.3, the reference Cmd::priority is checked *)
(* against: the class of each variant, from the control plane down.        *)
TableClass ==
  [k \in CmdKinds |->
     IF k \in {"HandleAgreement", "HandleNewEldersAgreement", "HandleDkgOutcome",
               "HandleDkgFailure", "HandlePeerLost", "HandleNodeLeft",
               "ProposeOffline"} THEN 10
     ELSE IF k \in {"HandleDkgTimeout", "HandleNewNodeOnline",
                    "EnqueueDataForReplication"} THEN 9
     ELSE IF k \in {"ScheduleDkgTimeout", "StartConnectivityTest",
                    "TestConnectivity"} THEN 8
     ELSE -10]
TablePriority(c) == IF c.kind \in WireKinds THEN c.wire ELSE TableClass[c.kind]

NoJob == [id |-> -1, cmd |-> [kind |-> "none", wire |-> 0], priority |-> 0]

(***************************************************************************)
(* Plausible bugs of the definitions below.                                *)
(***************************************************************************)
(* ProposeOffline put with the follow-ups of priority 9.                   *)
PriorityProposeOfflineNine(c) ==
  CASE c.kind \in {"HandleAgreement", "HandleNewEldersAgreement",
                   "HandleDkgOutcome", "HandleDkgFailure", "HandlePeerLost",
                   "HandleNodeLeft"} -> 10
    [] c.kind \in {"HandleDkgTimeout", "HandleNewNodeOnline",
                   "EnqueueDataForReplication", "ProposeOffline"} -> 9
    [] c.kind \in {"ScheduleDkgTimeout", "StartConnectivityTest",
                   "TestConnectivity"} -> 8
    [] c.kind \in WireKinds -> c.wire
    [] c.kind = "CleanupPeerLinks" -> -10

(* Cmd::priority (lines 151-181).                                          *)
Priority(c) ==
  CASE c.kind \in {"HandleAgreement", "HandleNewEldersAgreement",
                   "HandleDkgOutcome", "HandleDkgFailure", "HandlePeerLost",
                   "HandleNodeLeft", "ProposeOffline"} -> 10
    [] c.kind \in {"HandleDkgTimeout", "HandleNewNodeOnline",
                   "EnqueueDataForReplication"} -> 9
    [] c.kind \in {"ScheduleDkgTimeout", "StartConnectivityTest",
                   "TestConnectivity"} -> 8
    [] c.kind \in WireKinds -> c.wire
    [] c.kind = "CleanupPeerLinks" -> -10

(* CmdJob::new (lines 46-55): the job takes the priority of its cmd; its   *)
(* creation time is left out.                                              *)
NewJob(id, c) == [id |-> id, cmd |-> c, priority |-> Priority(c)]

(* Job a is taken before job b: higher priority first, then the earlier.   *)
Before(a, b) ==
  \/ a.priority > b.priority
  \/ a.priority = b.priority /\ a.id < b.id

VARIABLES
  queue,      \* the pending jobs
  nextId,     \* the id the next job pushed gets
  created,    \* the commands created so far (bounded by MaxJobs)
  running,    \* running[w]: the job worker w is handling, or NoJob
  out,        \* out[w]: the follow-up commands worker w has still to push
  done        \* the jobs handled, in the order their handlers returned

vars == <<queue, nextId, created, running, out, done>>

Init ==
  /\ queue = {}
  /\ nextId = 0
  /\ created = 0
  /\ running = [w \in Workers |-> NoJob]
  /\ out = [w \in Workers |-> <<>>]
  /\ done = <<>>

-----------------------------------------------------------------------------

(* A command raised from outside the queue (an inbound message, a timer)  *)
(* is wrapped in a CmdJob and pushed; the push waits while the queue is    *)
(* full.                                                                   *)
Enqueue(c) ==
  /\ created < MaxJobs
  /\ Cardinality(queue) < QueueBound
  /\ queue' = queue \cup {NewJob(nextId, c)}
  /\ nextId' = nextId + 1
  /\ created' = created + 1
  /\ UNCHANGED <<running, out, done>>

(* An idle worker takes the job that comes first.                          *)
Take(w) ==
  /\ running[w] = NoJob
  /\ out[w] = <<>>
  /\ \E j \in queue :
       /\ \A k \in queue \ {j} : Before(j, k)
       /\ queue' = queue \ {j}
       /\ running' = [running EXCEPT ![w] = j]
  /\ UNCHANGED <<nextId, created, out, done>>

(* The handler of the job runs and returns its follow-up commands: some   *)
(* of those its cmd may lead to, while the job budget lasts.               *)
Handle(w) ==
  /\ running[w] # NoJob
  /\ \E F \in SUBSET FollowUps(running[w].cmd) :
       /\ created + Cardinality(F) <= MaxJobs
       /\ out' = [out EXCEPT ![w] = SetToSeq(F)]
       /\ created' = created + Cardinality(F)
  /\ done' = Append(done, running[w])
  /\ running' = [running EXCEPT ![w] = NoJob]
  /\ UNCHANGED <<queue, nextId>>

(* The worker pushes the next follow-up, in the order returned; the push  *)
(* waits while the queue is full.                                          *)
Push(w) ==
  /\ out[w] # <<>>
  /\ Cardinality(queue) < QueueBound
  /\ queue' = queue \cup {NewJob(nextId, Head(out[w]))}
  /\ nextId' = nextId + 1
  /\ out' = [out EXCEPT ![w] = Tail(@)]
  /\ UNCHANGED <<created, running, done>>

Next ==
  \/ \E c \in External : Enqueue(c)
  \/ \E w \in Workers : Take(w) \/ Handle(w) \/ Push(w)

Spec == Init /\ [][Next]_vars

-----------------------------------------------------------------------------

(* Spec 4.3: a worker always takes the pending job that comes first by    *)
(* the priority table of the spec (control-plane decisions first, then    *)
(* their follow-ups, deferred work, messages by their own priority, and   *)
(* cleanup last), and among equal priorities the one pushed first. It      *)
(* fails if Cmd::priority puts a variant in the wrong class.               *)
TakeInTableOrder ==
  [][\A w \in Workers :
       Take(w) =>
         \A k \in queue' :
           \/ TablePriority(running'[w].cmd) > TablePriority(k.cmd)
           \/ /\ TablePriority(running'[w].cmd) = TablePriority(k.cmd)
              /\ running'[w].id < k.id]_vars

=============================================================================
