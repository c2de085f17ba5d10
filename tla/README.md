# TLA+ models of the safe_network node

These modules model the parts of the safe_network node under `src/` where concurrency,
ordering and message loss matter. Each definition is translated from the Rust source. The
`map` of `PROJECT.json` gives the source lines of every definition. A few definitions model
code that is not under `src/`, for example the scheduler loop, `DataStorage` and the client.
Those are modelled from the spec and marked `spec_modelled`.

## The system

The repository holds two generations of node code and a few helpers.

| Part | Source | State | Operations | Interacts with |
|---|---|---|---|---|
| AE message handler | `sn_node/src/node/messaging/anti_entropy.rs` | `MyNode` behind a tokio `RwLock`: network knowledge (section tree), comm targets, the section tree file | `handle_anti_entropy_msg` (AE-Update, AE-Retry, AE-Redirect), `send_ae_update_*` | the knowledge store, `send_msg`, the disk |
| Entropy check and validation | `anti_entropy.rs` `check_for_entropy`, `messaging/mod.rs` `validate_msg`, `apply_ae` | the node context | decide whether an incoming message is bounced with an AE response | the AE handler of the sender, clients |
| Node message dispatch | `messaging/node_msgs.rs` | the node context, data storage | `send_msg`, `into_msg_bytes`, `handle_valid_node_msg` (AE probe, StoreData, CouldNotStoreData) | comm, the AE handler, the elders |
| Backpressure | `core/comm/back_pressure/mod.rs` | `last_report` (the rate), under a lock | `try_get_new_value`: clamp, then report only a significant change | comm, peers that throttle |
| Command model | `api/cmds.rs` | none (`Cmd::priority`, `CmdJob::new`) | the priority of every `Cmd` variant | the scheduler (not under `src/`) |
| Legacy routing AE | `src/src/routing/core/msg_handling/anti_entropy.rs` | the remote section SAPs of `Core` | `handle_anti_entropy_retry_msg`, `check_for_entropy`, `check_dest_section_pk` | the legacy message handler |
| Other | `duties/elder/metadata`, `client/transfer_actor`, `keys` test utilities, `cfg/config_handler.rs`, `client_builder.rs` | see "Not modelled" | | |

The behaviours that make this code hard are the following:

- Concurrent tasks on one node start from a cloned context, await, and act on what they read
  earlier. Examples are AE handling, storing data and validating client messages.
- Messages between nodes can be lost or reordered, and a bounced message can bounce again.
- A check and the write it guards happen in separate lock acquisitions or separate commands.
  Examples are backpressure and the pending-query limit.
- Commands feed back into a bounded, prioritised queue.

## Modules

| Module | Models | Proofs |
|---|---|---|
| `AeHandler` | concurrent `handle_anti_entropy_msg` on one node | `AeHandlerProofs` |
| `NetworkKnowledge` | "apply iff newer" of `update_knowledge_if_valid` (spec) | used by the above |
| `AeEngine` | AE between nodes of several sections, with handovers, probes and loss | `AeEngineProofs` |
| `AeNodeState` | the abstract promise of `AeHandler` | refinement in `AeHandlerProofs` |
| `LegacyAe` | the Retry path of the legacy `Core` | `LegacyAeProofs` |
| `BackPressure` | `try_get_new_value` with concurrent callers | `BackPressureProofs` |
| `CmdScheduler` | `Cmd::priority`, `CmdJob::new`, the priority queue of spec 4.3 | `CmdSchedulerProofs` |
| `StorageJoins` | `store_data_and_respond` and `CouldNotStoreData` | `StorageJoinsProofs` |
| `ServiceValidation` | the Service branch of `validate_msg` | `ServiceValidationProofs` |

Each `MC*.tla` module gives model values and small sets to one module's constants. Each `.cfg`
names the invariants and properties of one run.

### `AeHandler`

Knowledge is abstracted to the SAP generation known for each prefix. The state:

- `knowledge`: the SAP generation known for each prefix.
- `disk`: the section tree file.
- `commTargets`: the SAP generation whose members were passed to `set_comm_targets`.
- `rejoin`: `RejoinRequired` has been returned.
- Per task:
  - the await point `pc`;
  - the update `upd`;
  - the snapshot `start`;
  - the `updated` flag;
  - the `latest` context;
  - the re-send command `outbox`.

There is one action per stretch of code between two await points or lock acquisitions:

| Action | Lines | What it models |
|---|---|---|
| `Receive` | 147-175 | The snapshot check decides whether to take the write lock. |
| `WriteLocked` | 176-198 | Re-validation and the update under the write lock, then `update_on_section_change(...).await?`. Its `Err` ends the task (`pc` back to `idle`) with the update already applied. |
| `ReadLatest` | 200-206 | `latest_context` is read; only a task that updated goes on to the comm targets. |
| `SetCommTargets` | 207-210 | `set_comm_targets` with the members of that `latest_context`. |
| `Persist` | 211-238 | `write_section_tree` after the await, then the removal check. |
| `Resend`, `ResendDone` | 240-297 | Whether and how the bounced message is re-sent. |

`MCAeHandler` uses two tasks, two prefixes and `MaxGen = 2`. Our SAP lists us at generations
0 and 1 but not at 2. These bounds reach every interleaving of two tasks: both can pass the
snapshot check for one prefix with different generations, and one can remove us from our
section. No fairness is assumed, since every property here is a safety property.

`AeNodeState` is what the handler promises, with the tasks, their contexts, the disk and the
re-sends hidden. It has two variables:

- `knowledge`: for each prefix, it only moves to a later SAP, one prefix at a time (`Learn`).
- `rejoin`: it is set only while our SAP no longer lists us (`SignalRejoin`).

`AeHandler` instantiates it with the identity mapping on `knowledge` and `rejoin`, and checks
`NodeSpec`. The converse, that a removal is always signalled (`RemovalSignalled`), does not
hold: see the findings.

### `AeEngine`

`AeEngine` models nodes of several sections exchanging node messages. Each part of the code
has its definitions:

- `send_msg` and `generate_dst`: `SendMsg`, `DstKey`, `NodeMsg`.
- The receiver's entropy check (`check_for_entropy`, `validate_msg`, `apply_ae`):
  `CheckForEntropy`, `NeedsAe`, `HandleValidMsg`, `BounceRetry`, `RetryFor`.
  `SectionSap` is `generate_ae_section_tree_update`.
- The sender's AE handler: `HandleRetry`, with the loop guard of line 284, and
  `HandleUpdate`.
- Probes (`SendProbe`, `HandleProbe`), between any pair of `ProbePairs`: across sections and
  within one, as fault detection does.
- Key rotation. `Rotate` is the DKG producing the section's next key (not under `src/`).
  `Handover(e)` is one elder taking the new key; `send_ae_update_to_our_section` (lines
  36-65) then sends an AE-Update to every other member, or nothing when the SectionsDAG is out
  of sync (line 61). Each elder learns the key by its own handover, so other elders are not
  reached through that AE-Update.
- Loss of a message (`Lose`), at most `MaxLoss` times.

The network is a set of messages in transit, so messages can be reordered.

Fairness is weak fairness on each handler of each message, since the node runs every message
it receives to its end in a tokio task, and on each elder's `Handover`, since the agreement
on a new key reaches every elder of the section. Nothing re-sends a lost message, so loss has
no fairness; rotations and probes are not forced either.

### `LegacyAe`

This module models the legacy `Core`:

- `HandleMsg`: `check_for_entropy`.
- `BounceRetry`: `check_dest_section_pk`.
- `HandleRetry`: `handle_anti_entropy_retry_msg`.

It has elders whose section keys rotate, and senders that learn keys. No fairness is assumed:
the run checks only the type invariant, and the FIXME at line 48 (a second bounced message
dropped when a concurrent one already updated the SAP) is listed as a hazard without a
property.

### `BackPressure`

Rates are rationals with integer numerator and denominator. The clamp to `SANITY_MAX` and the
significant-change test (`RecordChanges`, `WorthwhileReporting`) are translated. `ReadReport`
(lines 40-62) and `Decide` (lines 62-108) are separate steps because the code takes the lock
twice: once to read `last_report` and once to write it. `advertised` is a ghost variable for
the last value pushed to peers.

### `CmdScheduler`

- From `cmds.rs`:
  - `CmdKinds` lists the variants of `Cmd`.
  - `Priority` is `Cmd::priority`.
  - `NewJob` is `CmdJob::new`.
  - A wire variant takes its message's priority, from the small set `WirePrios`.
- The scheduler is not under `src/` and is modelled from spec 4.3. It has a bounded queue of
  jobs, whose ids are their insertion order, and a worker pool:
  - `Enqueue`: an outside command is pushed.
  - `Take`: an idle worker takes the highest-priority, earliest job.
  - `Handle`: the handler returns follow-ups (`FollowUps`).
  - `Push`: the follow-ups are pushed one at a time, waiting while the queue is full.
- `MaxJobs` bounds the jobs of a behaviour.
- No fairness is assumed: the property checked is an action property about `Cmd::priority`.

### `StorageJoins`

This module models two handlers of `node_msgs.rs`:

- `store_data_and_respond`, lines 103-179:
  - `StoreOk`: a storage level crossed asks for `SetJoinsAllowed`. Otherwise, reaching min
    capacity asks for `SetJoinsAllowedUntilSplit`, unless the context already says so.
  - `StoreFull`: a full elder asks for joins until split. The node sends `CouldNotStoreData`
    to all elders (`SendMsgToOurElders`).
  - `StoreOtherError`: any other storage error is ignored.
- `HandleCouldNotStoreData`, the elders' handler of that event (lines 404-439). It allows a
  join. It votes off a node that reports full while the elder is below half its own limit;
  otherwise it tracks the node as an issue.

A handler task keeps the `joins_allowed` flags of the context cloned at dispatch. It decides
after the store is awaited, so those flags can be stale.

The following are not under `src/` and are modelled from spec 6 and 7:

- `DataStorage` (`Level`, `HasReachedMinCapacity`, `IsBelowHalfLimit`);
- the cmd handlers that set the flags (`RunCmd`);
- the join (`Join`).

Every task, event and cmd is weakly fair. Data arrival and joins are left free.

### `ServiceValidation`

`Validate` is the Service branch of `validate_msg` (`mod.rs` lines 119-178), in the code's
order:

1. An adult redirects the client to our elders.
2. An elder refuses a query while `pending_data_queries.len() > DATA_QUERY_LIMIT`.
3. A stale key gets an AE Retry.
4. Otherwise a `HandleValidServiceMsg` cmd is returned.

Other steps are outside `src/` and are modelled from spec 3 and 5:

- The query becomes pending only when that cmd runs (`HandleQuery`).
- It stops being pending when the adults answer (`Respond`).
- The client re-sends after a redirect or a Retry (`ClientReceive`).
- The section key may change (`Rotate`).

Client messages are neither lost nor duplicated in this model. Validation, cmds, answers and
the client are weakly fair.

## Runs

Each run is listed in `PROJECT.json` with the properties its cfg checks. Each property of a
passing run has a mutant there: a plausible bug in a mapped definition, which TLC catches with
that property.

| Run | Result | Bounds | What it shows |
|---|---|---|---|
| `aehandler_safety` | pass | 2 tasks, 2 prefixes, `MaxGen = 2` | `ResendNotOlderThanAdvertised`, and the refinement `NodeSpec` of `AeNodeState` |
| `aehandler_disk_stale` | violation | same | `DiskNeverRegresses` fails: the section tree on disk goes back to an older one |
| `aehandler_removal_lost` | violation | same | `RemovalSignalled` fails: a failing `update_on_section_change` loses the removal |
| `aehandler_targets` | violation | same | `CommTargetsNeverRegress` fails: the comm targets go back to older members |
| `aeengine_live` | pass | a sender and an adult, two elders over 2 sections, 2 messages, `MaxGen = 1`, `MaxLoss = 1` | `NoSilentDrop`, and every message ends handled, dropped or lost (`AeTerminates`) |
| `legacy_live` | pass | 2 elders, 2 messages, `MaxGen = 2` | the legacy Core keeps its messages well formed (`TypeOK`) |
| `backpressure_single` | pass | one caller, loads around `SANITY_MAX = 20` | every rate is within the sanity clamps (`TypeOK`) |
| `backpressure_race` | violation | two callers | two first calls race, and the stored value drifts from the advertised one |
| `cmdscheduler_pass` | pass | 2 workers, queue 5, 5 jobs | jobs are taken in the order of the spec's priority table (`TakeInTableOrder`) |
| `storagejoins_pass` | pass | 1 elder, 1 adult, `Cap = MinCap = 3`, `Tranche = 2`, 5 stores, 1 join | a full node leads to joins being allowed (`FullLeadsToJoinsAllowed`), and only under pressure (`JoinsOnlyUnderPressure`) |
| `service_pass` | pass | 1 elder, 1 adult, 3 queries, limit 1, one key change | every query is answered or refused (`QueryResolved`), and only elders handle it |
| `service_limit` | violation | same | an elder holds more than `DATA_QUERY_LIMIT` pending queries |

The bounds are the smallest at which the hazard of each run occurs:

- Two AE tasks are the fewest that interleave; three generations let one task apply an
  older update than the other.
- Two elders are needed for one elder to be stale while the other is current.
- Two workers are needed for a follow-up to compete with a job the other worker takes.
- A storage level of 2 under a capacity of 3 separates the "level increased" branch from the
  "min capacity" branch.
- Three queries against a limit of 1 reach the refusal branch.

## Findings

`PROJECT.json` `findings`:

- **Section tree on disk goes back** (`AeHandler`, line 214). Two tasks read `latest_context`
  and write the section tree after an await in the opposite order.
- **Removal lost when `update_on_section_change` fails** (`AeHandler`, line 191). The `?`
  returns after the knowledge was updated, so the removal check is never reached and no later
  message redoes it.
- **Comm targets go back** (`AeHandler`, line 210). Each updating task sets the targets from
  its own read of the knowledge, in whatever order the tasks get there.
- **Back-pressure race**. `last_report` is read and written under two separate lock
  acquisitions.
- **Off-by-one in the pending-query limit of `validate_msg`** (line 146).
  - The check is `>`, so a query is admitted while exactly the limit is pending.
  - The check and the insert are separate steps, so concurrent validations all pass it.

Three further disagreements are known from the code and the spec, and no run checks them:

- the FIXME at line 48 of the legacy Retry handler;
- hysteresis judged against the stored value, not the advertised one (spec 4.4);
- equal-priority commands keep insertion order when they are taken but, with several
  workers, not when they finish.

## Proofs

`AeHandlerProofs` proves three theorems for every set of tasks and prefixes, every `MaxGen`
and every membership set that `MemberGensAssumption` allows:

- `TypeCorrect`.
- `ResendNeverStale` (`[]ResendNotOlderThanAdvertised`).
  - The inductive strengthening is `AdvertisedKnown`: a task past the write lock finds the
    advertised generation in the knowledge, and from `ReadLatest` on also in its `latest`
    context.
  - This holds because the write step either applies the update or finds a newer one, and
    knowledge only grows (lemma `StepMonotonic`).
- `NodeRefinement` (`Spec => NodeSpec`).
  - The lemma `NodeStep` maps every step to a step of `AeNodeState` or a stutter:
    - a write that applies its update is `Learn` of that prefix;
    - a `Persist` that returns `RejoinRequired` is `SignalRejoin`;
    - every other step leaves `knowledge` and `rejoin` alone.
  - `SignalRejoin` needs the knowledge itself, not the task's `latest_context`, to lack our
    name. The invariant `LatestBehind` (no `latest_context` is ahead of the knowledge) and
    `MemberBelow` (membership is closed downwards) give this.

`AeEngineProofs` proves two theorems for every set of nodes, prefixes and payloads, every
`MaxGen` and every `MaxLoss` that the module's assumptions allow:

- `TypeCorrect`.
- `NoSilentDropHolds` (`[]NoSilentDrop`). Its inductive invariant `IInv` conjoins `TypeOK`
  with four facts:
  - `UniqueCopies`: at most one copy of each payload is in transit, either the message or the
    AE-Retry bouncing it.
  - `CopiesInflight`: a copy exists only while the payload is in flight.
  - `InflightHasCopy`: an in-flight payload has a copy.
  - `KeysKnown`: the key of a bounced copy is one its sender already holds.

  `NoSilentDrop` alone is not inductive. The loop-guard drop needs `KeysKnown`, and `Lose`
  needs `UniqueCopies`. The proof consists of `IInvInit`, `IInvStep` (a case per action) and
  `IInvNoSilentDrop`.

The assumptions on the constants hold for the shapes the code gives them: each node has one
home section, and a probe or a message goes to another node. TLC evaluates them on every run.

`LegacyAeProofs` proves `TypeCorrect` for LegacyAe. It rests on two lemmas:

- `BounceRetryType`: a bounced message keeps its payload and its elder.
- `HandleRetryType`: a re-sent message keeps its payload.

`BackPressureProofs` proves two theorems:

- `TypeCorrect`. Its strengthening `TypeInv` adds that a task between its two steps holds a
  computed candidate.
- `RatesClamped`: every stored and every advertised rate is in `Clamped`, a fraction n/d with
  1 <= n/d <= `SANITY_MAX`. The lemma `CandidateClamped` shows that both clamps of
  `try_get_new_value` put every candidate there, whatever the load; the stored and advertised
  values are only ever such candidates. This holds for any number of concurrent callers.

`CmdSchedulerProofs` proves two theorems:

- `JobsPrioritisedHolds`: every queued job carries `Priority(cmd)`.
  - It rests on `PriorityMatchesTable`: the code's `Cmd::priority` agrees with the table of
    spec 4.3 on every command.
  - It also rests on `SetToSeqType`.
  - It needs the assumption that `FollowUps(c)` is finite. A handler returns a `Vec`.
- `TakeInTableOrderHolds` (`TakeInTableOrder`), an action property. It follows from the
  invariant by the lemma `TakeStepInTableOrder`.

`StorageJoinsProofs` proves two theorems:

- `TypeCorrect`.
- `JoinsOnlyUnderPressureHolds` (`[]JoinsOnlyUnderPressure`).
  - The property is not inductive. A join can be asked for by a command not yet run, by a
    `CouldNotStoreData` report in transit, or by a handler acting on a stale context.
  - The strengthening `IInv` says that whenever any of these is pending, or a node allows
    joins, some node is under `Pressure`.
  - `PressureKept` shows that pressure is never lost, because storage only grows
    (`UsedGrows`).
  - The lemmas `LevelNat` and `LevelPositive` cover the integer division of the storage level.

`ServiceValidationProofs` proves `TypeCorrect`. Its content is that only elders ever hold a
`HandleValidServiceMsg` command: the adult redirect comes before every other check
(lemma `ValidateType`).

The following are only model-checked:

- Liveness: `AeTerminates`, `FullLeadsToJoinsAllowed` and `QueryResolved`. TLAPS reasons neither about fairness nor about `ENABLED`.

## Not modelled, and why

The components of `PROJECT.json` list these:

- **Metadata duties.** A stateless dispatcher to stores outside `src/`.
- **Client balance management.** Its actor state machine is outside `src/`.
- **Key test utilities.** They hold no state.
- **Config handling and the client builder.** Parsing, with no concurrency.
- **`send_updates_to_sibling_section` and the other arms of `handle_valid_node_msg`.** These
  are join, relocation, DKG, handover, membership and replication. The split, DKG and
  membership protocols they drive are outside `src/`, so this repository gives no faithful
  model of their effect.
- **The `dst_address() == None` drop of `validate_msg`.** Queries always name the data they
  fetch, so this branch never applies to them.
