# Forex scanner: specifications of the order path

TLA+ specifications of the part of this repository that spends money: the way a
durable signal becomes a broker position, and the machinery that keeps that path
safe when processes crash, replies get lost and switches are thrown. The modules
are checked with TLC on small instances and, where a theorem is stated, proved
with TLAPS for every value of the constants.

Paths below are relative to `src/` (the Python package is `src/src/fx_scanner`,
written `fx_scanner/` here).

## 1. Inventory: the system's parts

| Part | Source | State it keeps | Operations | Hard behaviour | What makes it correct |
|---|---|---|---|---|---|
| Demo executor | `fx_scanner/execution/demo_autotrade.py` | locals of one poll: the rows read, the row worked on, the attempt | `poll_once`, exposure check, claim, retry, requeue | read of the broker long before the act; error text decides a retry; crash between any two calls | a signal is executed once; exposure limits hold; a poll ends |
| Execution router | `fx_scanner/execution/router.py` | the post-fill latch | `execute` | write-ahead journal around the submission; re-check of switches; lost reply | order is journalled before it is sent; no order over an unprotected fill |
| Idempotency guard | `fx_scanner/execution/duplicate_guard.py` | seen / uncertain / in-flight ids in memory, seen / uncertain in a file | `try_claim`, `release_claim`, `mark_submitting`, `mark_uncertain`, `mark_executed`, `resolve_uncertain` | memory changes before the file; file lost or kept over a restart | an id that may have an order is blocked for ever |
| cTrader execution gateway | `fx_scanner/execution/ctrader_gateway.py` | none | `preflight`, `submit`, `position_count` | refusal, silence and acceptance have to be told apart | only a definitive refusal is reported as one |
| Post-fill protection | `fx_scanner/execution/ctrader_protection.py` | none | `ensure` | bounded reads and amends, each may fail or be applied unseen | "verified" only when stop loss and take profit were read back |
| cTrader session | `fx_scanner/execution/ctrader_session.py` | connection flags, tokens, quote caches | connect, authenticate, refresh tokens, send-and-wait | reactor thread and callers; timeouts; late replies | first reply with the message id resolves the request |
| Tokens and maintainer | `fx_scanner/execution/ctrader_tokens.py`, `fx_scanner/demo_ctrader_token_maintainer.py` | the encrypted token file | load, save, rotate | two users of one rotating refresh token; crash between use and save | never left with a spent refresh token |
| Control plane | `fx_scanner/execution/control_plane.py` | cached snapshot and its time | refresh, assert, worker start / stop | age counted from the end of the read; two threads refresh one cache; retained cache after failures | a stop takes effect within a bound; no update is lost |
| Operational store | `fx_scanner/storage/supabase_operational.py`, `fx_scanner/storage/turso_client.py` | tables `signals`, `execution_control`, heartbeats, events | compare-and-set claim, versioned control update | two writers of one row | one winner |
| Kill switch | `fx_scanner/execution/kill_switch.py` | environment variable, stop file | `engaged` | read twice in an execution | no order passes its last check while it is engaged |
| Runtime | `fx_scanner/execution/runtime.py`, `service.py`, `scheduler.py`, `cadence.py`, `audit_async.py` | jobs, circuit breaker, bounded queue | supervisor ticks, submit, worker loop, drain | queue full, stop while busy, breaker half open | one order at a time, none lost silently |
| Checkpoint bridge | `cbot_bridge/server.py` | SQLite: checkpoints, leases, receipts; open sockets in memory | acquire, touch, save, connect, disconnect | lease expiry, lost acknowledgement, restart | versions grow by one, a retried save is answered, never applied twice |
| cBots | `cbot_connectivity/` (C#) | ladder state, client revision | trade, save through the bridge | reconnect with a pending save | never runs on a state older than the acknowledged one |
| MT5 gateway and session | `fx_scanner/execution/mt5_gateway.py`, `mt5_session.py` | connection | order check / send | LIVE dual-feed path, off in this version | as the cTrader gateway |
| Reconciliation, sizing, symbols, market hours, policy | `fx_scanner/execution/reconciliation.py`, `position_sizer.py`, `symbol_mapping.py`, `ctrader_market_hours.py`, `policy.py` | none | pure functions of quotes and configuration | boundaries | bounds on the result |
| Position workers | `fx_scanner/demo_*` position manager, reversal, protection repair, closed-trade reconciler | broker positions and their own tables | scheduled one-shot workflows | run beside the executor | never leave a position without protection |
| Dispatch | `fx_scanner/live_dispatcher.py`, `demo_fresh_ready_handoff.py` | tickets | ticket, then workflow dispatch | crash between the two | at most one dispatch per ticket |
| Signal production and strategies | `fx_scanner/signal_producer.py`, `strategy.py`, `engines/`, `xau_*`, `research_*` | research tables | scoring, research, replay | none that is concurrent | numeric |
| Providers, collectors | `fx_scanner/providers/`, `fx_scanner/collectors/` | caches | fetch, normalise, fail over | time-outs | fail closed |
| Dashboards, validation, workflows | `fx_scanner/dashboard*.py`, `pages/`, `webview_app/`, `fx_scanner/validation/`, `.github/` | none | display, back-test, schedule | none | numeric |

How they interact. The signal producer writes rows to `signals` with state
`EXECUTION_READY`. An executor process (`cli.py`, one thread; a VPS service with a
durable guard file or a workflow run with a file in `/tmp` that dies with the
runner) polls the table, reads the broker's positions, claims one row by an
update conditional on its state, and calls the router. The router asks the kill
switch, the control-plane cache (filled by a second thread), the guard and the
gateway; the gateway sends through the session, whose replies come from a reactor
thread; after a fill it calls the protection manager. The operator's tools write
the control row. The cBots are separate programs that keep their state in the
checkpoint bridge over a web socket.
## 2. Plan

| Order | Module | What it is | Composes | State |
|---|---|---|---|---|
| 1 | `DuplicateGuard` | the guard's methods as operators on its memory and its file | - | done |
| 2 | `SignalExecution` | executor, router, guard, gateway, table and broker | `DuplicateGuard` | done |
| 3 | `SignalExecution_proofs`, `SignalExposure_proofs` | theorems about it | `SignalExecution` | done |
| 4 | `ControlPlane`, `ControlPlane_proofs` | two-step refresh, age of the cache, worker start and stop, versioned update | - | done |
| 5 | `BridgeLease`, `CheckpointStore`, `CheckpointStore_proofs` | lease, versions and receipts of the bridge; implements `ForwardRegister` | `BridgeLease` | done |
| 6 | `BridgeSession`, `BridgeSession_proofs` | sockets, handshakes and time-outs on both sides of the bridge | `BridgeLease` | done |
| 7 | `CheckpointRobot`, `CheckpointRobot_proofs` | the gold robot on its three copies of a checkpoint; implements `WriteAheadIntent` | `CheckpointStore` | done |
| 8 | `PostFillProtection`, `PostFillProtection_proofs` | the bounded loop of reads and amends; implements `ProtectionVerdict` | - | done |
| 9 | `TokenRotation`, `TokenRotation_proofs` | maintainer, sessions and stores sharing one rotating pair | - | done |

Three abstract specifications say what a component promises, and the component is
shown to implement each by a refinement mapping (`INSTANCE ... WITH`, the abstract
specification a PROPERTY of the run):

- `ForwardRegister`: a register whose revisions only go forward, each under its own
  version. `CheckpointStore` implements it (`StoreIsRegister`): bases, receipts, leases
  and rows without a receipt do not show.
- `WriteAheadIntent`: an intent is recorded where a crash cannot reach it before its
  order is sent, and it is sent once. `CheckpointRobot` implements it
  (`OrdersAreRecorded`), with the intents in the receipts of the bridge as `recorded`.
- `ProtectionVerdict`: "protected" is said once, and only of a position that had both
  levels at some moment since the last read was asked for. Other clients may take them
  away in the meantime. `PostFillProtection` implements it (`GivesVerdict`). The actions
  `ProtectionVerified` and `ProtectionUnverified` of `SignalExecution` stand for that
  verdict: the first makes the position leave `bare` (nobody takes levels away there),
  the second promises nothing.

`BridgeSession` and `CheckpointRobot` divide one robot between them: the first has
several robots, the lease, sockets and time, and leaves out what messages carry; the
second has what they carry, and one robot at a time. What joins them is
`ConnectedHolds`: a robot that believes it is connected holds the lease, so `CheckpointRobot`
may use the store with that robot as the holder.

Not taken up: a model of the execution queue (`runtime.py`), because only tests and a
smoke command start its worker; and of the position workers and the hand-off of
tickets, see section 5.

## 3. The modules and the code

### `DuplicateGuard`

A guard is the record of the three sets of `DuplicateOrderGuard`; a journal is the
content of its state file. Every method is an operator that returns the changed
guard. `Persist` is what the file holds after a write, `Load` what a new process
reads. The atomic replace of the file (`temp`, `fsync`, `os.replace`) makes a
write happen or not happen; the using module chooses which.

### `SignalExecution`

State, by owner:

| Variables | Code |
|---|---|
| `table` | column `state` of `signals`, `EXECUTION_READY` or `COOLDOWN` |
| `pc`, `todo`, `cur`, `attempt`, `fault` | where one executor thread is, the rows of its poll, the row, the attempt of `_execute_claimed_with_retry`, the class of the last error's text |
| `latch` | `ExecutionRouter._post_fill_protection_block`, as the class of its code |
| `guard`, `journal` | the guard in memory and its file |
| `wire`, `fills`, `open`, `bare` | the broker: orders without a verdict, how many orders of a host for a signal were executed, open positions, those without protection |
| `killed`, `permit` | the kill switch; whether the control-plane gate lets an order through |
| `sinceHalt`, `late`, `reoffered` | history, read by properties only |

Actions and the code they stand for:

| Actions | Code |
|---|---|
| `Poll`, `EndPoll` | `poll_once`, its control-plane gate and the read of the ready rows |
| `PassOver`, `PassCapacity`, `PassExposure`, `ExposureBlocks` | eligibility, then the two broker reads of `_broker_exposure_block`, which are two steps because positions open and close between them |
| `Claim`, `ClaimFails` | `claim_signal_for_execution`; a failed call may have been applied |
| `Enter`, `EnterBlocked` | kill switch, latch, age and duplicate checks, `try_claim` |
| `Vet`, `VetFails` | session, account, environment, position count, control plane, preflight |
| `Quarantine`, `QuarantineUnsaved`, `RecheckFails` | the second safety check and `mark_submitting`, whose write may fail |
| `Submit` | the order leaves the process |
| `BrokerAccepts`, `BrokerFills`, `BrokerRefuses`, `OrderVanishes` | acknowledgement, fill with or without protection and with or without a reply that is heard, refusal, loss |
| `OutcomeUnknown` | time-out or transport error of `_send_sync` |
| `ProtectionVerified`, `ProtectionUnverified` | `CTraderPostFillProtectionManager.ensure` inside `submit`: it verified, or it gave up and may or may not have attached the protection |
| `RecordVerified`, `RecordUnverified`, `RecordExecutedUnsaved`, `RecordRefused`, `RecordRefusedUnsaved` | what `execute` does with each result, including the latch and a failed write |
| `Retry`, `GiveUp`, `Requeue` | the decision on the error text, the bounded retries, the row put back on offer |
| `PositionCloses`, `PositionRepaired`, `Restart`, `SetSwitches` | the world: positions end or get their protection, the process dies and restarts, the operator acts |

Choices made in the abstraction:

- An error is only the class its text has for `_is_transient_error`. Where the code
  builds the text from fixed codes (kill switch, stale signal, duplicate,
  control plane) the class is fixed; where it contains text of the broker, the
  operating system or the protection code, it is a nondeterministic choice.
- Whether a row is eligible, fresh and passes preflight is a nondeterministic
  choice; the retry loops around these reads change no state and are one step.
- Time does not appear: any wait may end in a reply or in a time-out.
- The runs model the shipped configuration: cTrader, DEMO, AUTO, market orders,
  control plane required. SIMULATION, the LIVE gates, the MT5 path and pending
  orders are left out.
- `limit` of the poll is not modelled: every row on offer is read, and `PassOver`
  covers the rows a smaller limit would leave out.
- The broker is external. It executes an order it was sent at most once; it may
  execute it at any time, also after the host gave up on it. Such an order is `late`.

### `ControlPlane`

| Variables | Code |
|---|---|
| `now` | the monotonic clock |
| `reanchors` | whether this executor's main thread refreshes beside its worker as well; chosen when the process starts |
| `row` | the row of `execution_control`: its version and whether it lets orders through (no emergency stop, new orders enabled, the executor's mode) |
| `current` | the row each operator's `set_execution_control` has read and not yet replaced |
| `worker` | each refresh thread: not alive, running, or told to stop and not ended |
| `reading` | for each thread: no refresh, a request under way, or the row the store answered with |
| `cache` | `ControlPlaneGate._state` |
| `closedAt` | history: when the row last stopped letting orders through |

| Actions | Code |
|---|---|
| `ReadControl`, `UpdateControl`, `UpdateFails` | the read, the update conditional on the version, a lost race or failed call of `set_execution_control`; an answer that is lost after the update was applied is `UpdateControl`, since nothing in the process depends on it |
| `AskStore`, `ReadRow`, `StoreState`, `ReadFails` | `refresh_once`: the call, the moment at which the store reads the row, the end of `refresh`, an exception; they are separate steps because a stop, another thread and the clock come in between |
| `Start`, `Stop`, `WorkerEnds` | `start` and its early return, the stop flag, the end of `_run`; the join is not a step of its own, since after its time-out the thread is simply still alive |
| `Restart`, `Tick` | a new process, of either kind, with an empty gate; time |

Every executor of the repository starts one worker and stops it at its end. The class
allows to start again, and the model does so as often as there are threads.
`reanchors` tells the executors of `cli.py`, whose main thread refreshes only before it
starts the worker, from those that call `refresh_once` before each order as well. In
the latter two threads fill one cache: `refresh` reads the row before it takes the
lock and stores without comparing versions, so a worker may put an older row over a
stop that the main thread has cached. What bounds that is `StopTakesEffect`, which covers
both; `CacheMovesForward` is about the former only, and is false of the latter.

### `BridgeLease`, `CheckpointStore`

| Definitions | Code (`cbot_bridge/server.py`) |
|---|---|
| `lease`, `row`, `receipts` | the tables `bridge_leases`, `checkpoints`, `checkpoint_receipts` for one account and symbol; a lease is its holder and the time left |
| `replies` | history: which version `save` returned for which checkpoint |
| `Free`, `Acquire` | `acquire`, else `LEASE_BUSY` |
| `Held`, `Touch` | `_touch`, else `LEASE_EXPIRED` |
| `Repeated`, `Legacy`, `Current` | the three ways through `save`: a receipt with the same base and content, a row written before there were receipts, and a new revision on the current base |
| `Tick` | a unit of time |

A method is one transaction, so it is one action and a crash falls between two; a
refused save is rolled back with its touch of the lease. A reply may be lost
(`Answered`). The store is called by anything: any instance, base, revision and content.

### `BridgeSession`

| Variables | Code |
|---|---|
| `lease` | as above |
| `peer`, `attached`, `asked` | the server: the robot in `peers`, whether it is at the other end of that socket and the handler still reads it, requests not yet read |
| `hello` | hellos not yet read, of the robot's socket and of the last one it has disposed of |
| `view`, `age`, `answers` | the robot: off, connecting, ready or dead; the time since its hello or last answer; what is on its way to it |
| `calm` | the network has stopped failing |

| Actions | Code |
|---|---|
| `Connect`, `TimesOut`, `Drops`, `TakeAnswer` | `ConnectBridge`, the three time-outs of `ServiceBridge`, `BridgeOffline` for other reasons, `ReceiveBridge` (`RizanRobot.cs`) |
| `Ask` | `Send` of a ping or a save |
| `Dies` | the program ends; a restart draws a new lease id and is another robot |
| `ReadHello`, `Serve`, `SessionEnds` | the socket handler: the hello with `LEASE_BUSY`; a request, or `LEASE_EXPIRED`, after which the socket is closing and still in `peers`; the `finally` that removes the peer when the close handshake is over |
| `LosesAnswers`, `CalmsDown`, `Tick` | the network and the clock |

`WindowAssumption` is what the lease is for: the 30 s for which a robot trusts its last
answer and the longest time an answer is on its way fit into the 45 s of the lease.
Nothing in the code enforces the second; TCP and the keep-alive make longer delays
unlikely. Robots that pass the checks of the code but whose answers take longer than
15 s could overlap; `OneConnected` says nothing of them. A `pong` lifts a quarantine whose
reason is an unreadable message; that is left out, and so are feeds and health files. A
robot that has disposed of several sockets before any hello was read counts as having one
such hello: reading a second one would grant or refuse the same lease id again.

### `CheckpointRobot`

A robot's state is one record, so that its methods are operators from a robot to a
robot, or to the set of robots the broker's answer can leave.

| Fields | Code (`RizanRobot.cs` of `xau-stable-v1.2.1`) |
|---|---|
| `st` | `State`: revision, last signal and exit, cooldown, quarantine, pending intent, basket |
| `wal` | the instance's local storage |
| `save` | the save on its way to the bridge |
| `ready`, `busy`, `sent`, `persisted`, `remote` | the bridge fields: session ready, save under way and its revision, last acknowledged revision, version at the bridge |
| `here`, `submitted` | whether the intent was prepared in this run, and sent |
| `open`, `bare`, `won`, `lost`, `returned`, `orders` | the broker: positions, those without protection, closed ones by result, those closed at once, every order sent |

| Actions | Code |
|---|---|
| `OnStart` | `OnStart`: load, validate, or recover what is exposed |
| `Cycle` | the timer or a bar: `ManagePositions`, the bar, `ProcessQueue`, `Persist` |
| `ReceiveReady`, `ReceiveAck` | `ReceiveBridge` with adoption of the later checkpoint, recovery of the intent, reconciliation of the positions |
| `BridgeOffline`, `Hello` | the connection |
| `Crash`, `OnStop`, `LoseStorage` | the process: killed, stopped after a last `Persist`, moved to an instance with an empty storage |
| `BridgeSaves` | `Store.Save`, the action of `CheckpointStore` itself |
| `PositionCloses`, `HistoryShows`, `Tick` | the broker and the clock; the history shows a closed position only later |

Choices: prices, budget and signals decide nondeterministically. `Verdict` is what
`ProcessQueue` makes of them: to wait (trading is off, others hold positions, an order went
out this second), to cancel the queue, or to go on. A batch has one child
and a position is not closed in part; `returned` positions count neither as won nor
lost; a bar that decides nothing is left out, since it only raises the revision.
`REVISION_CONFLICT` is not an action: `SavesAreTaken` shows that a robot that works alone
never meets it. The euro robot is the same class with other constants. A robot without a
bridge (`UsesBridge` is false) has one copy of its checkpoint and is left out; so is
`XauSendReference.Refresh`, by which a first child may be sent at a new reference price with
another number of children left. `RecoverAttempt` has its outcome, a recovered position
whose volume, price or reference does not fit, as a quarantine.

A quarantined robot whose queue is cancelled keeps its intent for the operator and then
refuses to load its own log; `RefusesOnlyQuarantined` says that no healthy robot does.

`FillsAreCounted` is an inequality. The count of a stage may be larger than what was filled
and kept: a child that was filled and closed at once is not counted then, but a robot that
lost its log finds the closed position in the history and accepts it (`RecoverAttempt`).
With two children in a stage the counts then differ. The error is to the safe side: the
robot adds less, never more, than its budget allows.

### `PostFillProtection`

| Variables | Code (`ctrader_protection.py`, `ensure`) |
|---|---|
| `pc`, `reads`, `amends` | where `ensure` is, the reads left in its wait, the amends left |
| `code` | the code of its outcome |
| `seen` | what the list of positions said of it, between the broker's answer and the code's look at it |
| `pos` | the position: not yet listed, open or closed; its levels; whether symbol, side and volume are as submitted |
| `wire` | amends sent whose fate is open |
| `held` | history: it had both levels at some moment since the last read was asked for |

Every read and every amend is an action (`WaitSees`, `WaitMisses`, `RecheckSees`,
`RecheckMisses`, `SendAmend`, `ConfirmSees`, `ConfirmLacks`, `ConfirmMisses`), `Plan` is the
computation of the levels, which may not fit the market. `Answers` is the moment the broker
reads its list: the answer may be old when it is judged, may leave out symbol, side or
volume (the code lets that pass), or the entry price (`POSITION_ENTRY_UNAVAILABLE`). A read
that fails looks like one that does not show the position, which is why
`ProtectionVerdict` promises nothing of the codes that say the position has closed.
`AmendExecuted`, `OtherAmends` and `OtherChangesVolume` act in between: other clients set
and remove levels and close a part. So "protected" is true of a moment since the last
read was asked for, and the code can promise no more than that.

### `TokenRotation`

| Variables | Code |
|---|---|
| `current`, `expired` | the broker: the pair it accepts, by number; whether its access token has run out |
| `row`, `aged`, `file` | the durable row of `runtime_heartbeats`, whether it is 20 days old, the token file of each host |
| `late` | for each pair, its writes that timed out for the client and may still reach the row |
| `pc`, `then`, `pair`, `kept`, `tries`, `unsaved` | each session: where it is, where it goes on after a refresh, the pair in memory, whether its owner keeps it over an exception, failed writes, whether its new pair is not yet stored |
| `reason` | the maintainer's reason to rotate |
| `lost` | history: a pair nobody can have any more |

| Actions | Code |
|---|---|
| `Probe`, `ReadAge`, `Load`, `MustRotate`, `NeedNotRotate` | `demo_ctrader_token_maintainer.py`: three reads of the row, then `_rotation_reason` |
| `Resolve`, `ResolveFails`, `Bind`, `BindFails`, `Disconnect` | `granted_accounts` and `connect` of `ctrader_session.py` |
| `Rotate`, `ReplyLost`, `Fails` | `_refresh_tokens` |
| `SaveLocal`, `SaveDurable`, `SaveSeemsToFail`, `SaveGivesUp` | `CTraderTokenStateStore.save`: the file, then the row with its retries |
| `LateWrite` | a write that timed out reaches the store, perhaps after its session has moved on or ended |
| `End`, `Expire`, `Age` | the process ends or is killed; time |

`Allowed` are the sharing sessions without `CTRADER_DISABLE_TOKEN_REFRESH`. Encryption is left
out; a session without a refresh token adds no state. The loading order is that of
`CTRADER_TOKEN_STATE_DURABLE=1`, as deployed; without it there is no shared row. A write of the
row that arrives late, or is repeated after its answer was lost, may put an older pair over
a newer one: nothing is compared. `RowMovesForward` names these two as the only ways back,
and `PairIsKept` counts a pair that goes that way as `lost`.

### Runs

| Run | Instance | What it shows |
|---|---|---|
| `one_host` | 1 durable host, 2 signals on 2 symbols, 1 position, 2 attempts, both switches | `TypeOK`, `HostAtMostOnce`, `JournalCoversOrders`, `CapacityUnlessLate`, `AtMostOneOrderAfterHalt`, `LatchStopsOrders` |
| `one_symbol` | 2 signals on gold, 2 positions, 3 attempts, control plane thrown at any time, fairness | `StackingOnlyFromLate`, `NoOrderOverBarePosition`, `PollEnds`, `PollGoesForward` |
| `two_hosts` | a durable and an ephemeral host, 1 signal | `ClaimExclusive`, `OpenOrderNotOffered`, `AtMostOnceUnlessReoffered` |
| `control_worker` | executors of both kinds, 2 worker threads, 2 operators, 4 versions, 5 units of time | `TypeOK`, `StopTakesEffect`, `CacheMovesForward`, `NoLostUpdate` |
| `checkpoint_receipts` | 2 robots, 2 contents, revisions to 3 | `TypeOK`, `RepliesAgree`, `StoreIsRegister` |
| `bridge_session` | 2 robots, lease 3, trust 2, handshake 1, delay 1, 2 messages each way, fairness | `TypeOK`, `OneConnected`, `ConnectedHolds`, `TakesOver` |
| `robot_recovery` | 2 stages, 2 points in time, 9 revisions, 1 fault, storage that can be lost | `TypeOK`, `LogLeads`, `SavesAreTaken`, `RefusesOnlyQuarantined`, `FillsAreCounted`, `OrdersAreRecorded` |
| `protection` | 3 reads, 2 amends, fairness | `TypeOK`, `GivesVerdict`, `EnsureGoesForward`, `EnsureEnds` |
| `token_rotation` | a maintainer, a sharing and a standalone session, 3 tries, pairs to 2 | `TypeOK`, `PairIsKept`, `RowMovesForward`, `SparesGoodPairs` |
| `requeue_finding` | 1 host, 1 signal | violates `RequeueOnlyBeforeFill` |
| `settlement_finding` | 2 stages, 12 revisions, no fault | violates `SettlementEnds` |
| `token_finding` | a standalone session alone | violates `NextRunNotStranded` |

`MCSignalExecution` gives `SymbolOf` its values and names the conjunction of each inductive
invariant over all hosts and signals, so that a run can check it; `MCControlPlane`
names the symmetry. The other modules are their own instances.

Bounds, and why they are enough:

- `MaxFills = 2`: a broker stops filling after two executions of a host for a
  signal. Every property that counts fills is violated at the second.
- `MaxAttempts = 3` is the code's value (`len(SAFE_RETRY_DELAYS_SECONDS) + 1`);
  `one_host` uses 2, which still has a first and a last attempt, and nothing it
  checks depends on the number.
- Two signals and two symbols give the cases same and different; exposure and
  capacity relate at most two orders. Two hosts give the races of the claim; a
  third would only add a third loser.
- `Switches` names the switches that are ever thrown, to keep the runs that are not
  about them small. `one_host` throws both.
- `control_worker`: an age limit of 2 and a read time of 1 make the two different and
  leave room for an opening, a stop and the bound of 3 after it; 4 versions are closed,
  open, closed and one more. Two workers give the overlap of a stopped and a started
  one. Threads and operators are interchangeable and the run checks safety only, so it
  uses that symmetry. The main thread of a re-anchoring executor is the second reader of
  the gate, whose answer may be stored before or after the worker's.
- `checkpoint_receipts`: three revisions give one before, at and after any other; bases up
  to twice that include ones the store never had.
- `bridge_session`: the times are the smallest with lease = trust + delay, the boundary
  of `WindowAssumption`; lease, ages and delays are counted down or capped, so no clock
  bounds the run. Two messages each way are one being answered and one behind it.
- `robot_recovery`: two stages give a first and an added one; the two points in time
  are the bar of the signal and one too late for an addition, with everything else
  happening any number of times in between; 9 revisions reach a second stage over a
  crash. One crash, stop or broken connection at every step, a crash in the middle of an
  order too.
- `protection` and `Tries` of `token_rotation` have the code's values. Two rotations give
  the pair of the environment, one after it and a newer one over which that may be written
  late; one session of each kind gives all pairs of kinds.
- Restarts, retries over several polls, closures, repairs and failed reads of
  `SignalExecution` are not bounded.

The runs of `CheckpointStore`, `BridgeSession`, `CheckpointRobot`, `PostFillProtection` and
`TokenRotation` do not check for deadlock: revisions, robots, time and pairs are used up, and
`ensure` returns. All others do.

`CapacityUnlessLate`, `StackingOnlyFromLate` and `NoOrderOverBarePosition` are about
one host. Two executors that poll at the same time can both pass the exposure check
for different rows on one symbol; the code has no lock against it, and the
deployment runs one executor at a time. Late orders are real for one host, too:
`docs/CTRADER_DEMO_AUTOTRADE.md` says stacking remains blocked, and it is, by a check
that sees the positions of that moment; an order of unknown outcome, or one
acknowledged and not yet filled, may fill after the next signal has passed it.

### Fairness

- `SignalExecution`: weak fairness of each host's own steps and of nothing else: an
  executor thread that is not killed goes on, because each of its waits has a time-out
  (`_send_sync`, the HTTP client, the sleeps between attempts). Nothing is asked of the
  broker, the store or the operator. `Restart` is not part of the fair action, so
  `PollEnds` does not rest on a crash ending the poll.
- `PostFillProtection`: weak fairness of `Ensure`, for the same reason; nothing of the broker.
- `BridgeSession`: the robot's timer runs, the server's event loop reads its sockets and
  its keep-alive ends those whose robot is gone, messages arrive. Time passes under
  strong fairness, since it is held up while a message is due. `TakesOver` starts from a
  state in which the network has become calm and one robot is left; nothing forces
  robots to die or the network to become calm.

### What the runs found

1. `requeue_finding`. After an accepted order whose protection could not be verified,
   the router raises `POST_FILL_PROTECTION_FAILED:<code>`. The signal is recorded as
   executed, hence not uncertain; if the code or message contains a transient marker
   (`POSITION_RECONCILE_TIMEOUT`, `POSITION_ID_UNAVAILABLE`), the executor retries, is
   refused by the latch with the same code in its text, and after the last attempt
   puts the row back on offer. The docstring of `_requeue_safe_transport_claim` says
   "only after proven pre-submit failure". The guard still refuses the signal on this
   host; `AtMostOnceUnlessReoffered` shows that this is the only way a signal can be
   executed twice over hosts that do not share the guard's file.
2. `settlement_finding`. A batch that is filled beyond the budget and closed at once has
   volume in the history of the basket that `Accepted` does not count. If an earlier
   stage was accepted, the two never agree, and the basket waits for its settlement for
   ever: no cooldown is set and no basket follows. The wait is there for a history that
   is late (`Tests.cs:23`).
3. `token_finding`. `connect` refreshes the pair whenever account authentication fails,
   without asking whether the session may, or can store the result.
   `xau_standalone_ctrader_v253.py:43` says "Never rotate a refresh token in-memory because
   the next GitHub run would be stranded". One failed authentication does strand it: the
   refresh spends the pair that the next run will find, whether the session then keeps the
   new one in memory or loses it with the reply.

## 4. Proofs

The theorems hold for any values of the constants that satisfy the named assumptions of
the module; these are types, bounds greater than zero, and where it is said below a
bound on time.

### `SignalExecution_proofs`, `SignalExposure_proofs`

| Theorem | Property |
|---|---|
| `TypeCorrect` | `TypeOK` |
| `HostAtMostOnceHolds`, `JournalCoversOrdersHolds` | `HostAtMostOnce`, `JournalCoversOrders` |
| `ClaimExclusiveHolds` | `ClaimExclusive` |
| `OpenOrderNotOfferedHolds`, `AtMostOnceHolds` | `OpenOrderNotOffered`, `AtMostOnceUnlessReoffered` |
| `AtMostOneOrderAfterHaltHolds`, `LatchStopsOrdersHolds` | `AtMostOneOrderAfterHalt`, `LatchStopsOrders` |
| `PollGoesForwardHolds` | `PollGoesForward` |
| `StackingOnlyFromLateHolds`, `NoOrderOverBarePositionHolds`, `CapacityUnlessLateHolds` | the same without `Holds`, for one host |

None of the safety properties is inductive. `HostAtMostOnce` says
nothing of how an order comes to be sent; `JournalInv(p, s)` adds that an order sent
or executed is known to the guard and to the file, that a host between the duplicate
check and the quarantine works on a signal it does not know, and that from the
quarantine to the record the signal is uncertain in both places, so that no crash
and no failed write in between can make it new again. `AtMostOnceUnlessReoffered`
speaks of all hosts, also those whose file is lost; what protects it is the table, so
`OrderInv(s)` adds that the row of an ordered signal is not on offer, that at most
the host that ordered it still handles it, and that this host knows it. It rests on
`ClaimInv(s)`, which says that one host at a time handles a signal and that its row is
claimed. `StopInv(p)` counts the order that may be in flight past its last check.
Each invariant is proved with one step per action; lemmas named after an action
(`...Guard`) say what that action does to the guard of the host that takes it, and
`JournalFrame` disposes of the actions that touch nothing the invariant reads.

`PollGoesForward` is why a poll ends: each step of its host takes a row off the list, starts
the row's next attempt or goes a step further in that attempt, and what other hosts, the
broker or the operator do changes none of the three. Retries make it need `WorkInv(p)`: the
row a host works on is still among those to be handled, and no attempt is counted before
the claim. `HostStepForms` sorts the steps of a host into a step further, the end of a row, a
retry and the poll itself.

The exposure properties are about a value that is read and used much later. What makes
it last is that a single host is the only one to add positions: `ExposureInv(h)` says
that since the host found the exposure clear, every position that is not late is of
the host's own signal, or protected and on another symbol; `RoomInv(h)` that since it
counted them, those that are neither late nor of its own signal leave room for one.
`HostMoves` sorts the 28 steps of a host into the four that matter, `FillAdds` and
`OthersEase` do the same for the broker, so that each invariant has three cases.
`NoOrderOverBarePosition` needs `JournalInv` as well: before a submission the host has no
position of its own signal. The bound on a number uses the theorems on finite sets.

### `ControlPlane_proofs`

`TypeCorrect`, `StopTakesEffectHolds`, `NoLostUpdateHolds`, and `CacheMovesForwardHolds` (of
executors that do not re-anchor; of the others it is false), for any threads and operators, limits and
numbers of updates. The assumption on time is part of `Tick`: a read takes at most
`ReadTime` from the row to the cache. The HTTP client times out after 30 s of silence
(`turso_client.py:59`), against an age limit of 5 s, so the bound that the theorem gives is
mostly that time-out. `AgeInv` adds that every row in a thread's hands or in the cache was
read at most `ReadTime` before it is stored, and before the row was closed if it lets
orders through while the row does not; `VersionInv` adds that an operator who holds the
current version holds the current row; `OneReaderInv` adds that at most one thread is
alive, that only a live one reads, and that what is being read is not older than the
cache.

### `CheckpointStore_proofs`

`TypeCorrect`, `RepliesAgreeHolds` and `StoreImplementsRegister` (the refinement: the initial
states of the store are initial states of `ForwardRegister`, and each step is a commit, a
reply or a stutter), for any robots, contents and revisions. `ReceiptInv` is needed because
a reply may be given long after the save it confirms: the receipts agree with each other
and with the row, and every reply has its receipt.

### `BridgeSession_proofs`

`TypeCorrect`, `OneConnectedAlways` and `ConnectedHoldsAlways`, from `WindowAssumption` and the
bound on delay in `Tick`. `CoverInv` is the accounting: what is left of the lease plus the time
an answer has been on its way is at least a full lease, and so is what is left plus the age
of the trust plus the longest delay. `SocketInv` says that a robot that is off, or whose
hello has not been read, has neither a session nor answers, so that no answer of an old
socket is taken for one of the new.

### `PostFillProtection_proofs`

`TypeCorrect`, and `GivesVerdictHolds` (the refinement), for any numbers of reads and amends.
The type invariant carries the bound: amends sent and amends left are together at most one
more than there are, and exactly where the extra one is. `HeldInv` is what the refinement rests
on: an answer that shows both levels is of a moment since its read was asked for, however
late it is judged. `EnsureGoesForwardHolds` shows for any
such numbers what `EnsureEnds` rests on: amends left, then the step, then reads left go down
with every step of `ensure` and with nothing else.

### `TokenRotation_proofs`

`TypeCorrect`, `PairIsKeptHolds`, `RowMovesForwardHolds`, `SparesGoodPairsHolds`, for any numbers of
sessions of each kind. `NewestInv` (no pair, also in a late write, is newer than the broker's) and `PlaceInv` (where a
session may be with an unsaved pair; where a maintainer never is) support three others.
`HolderInv` is `PairIsKept` without the files, which a runner may lose. `FirstInv` says that until
its first write a session that got a pair is alone with it: nobody else has that pair, no
late write carries it and the row is older, so a first write moves the row forward. `ReasonInv` says that a maintainer
about to refresh still has its reason or holds a pair the broker would refuse, whatever other
sessions did since it looked.

### `CheckpointRobot_proofs`

`TypeCorrect`, `LogLeadsHolds`, `SavesAreTakenHolds`, `RefusesOnlyQuarantinedHolds`,
`FillsAreCountedHolds` and `OrdersAreRecordedHolds` (the refinement), for any contract, bounds and
faults. `NoneAssumption` says that the value for "nothing" is none of the
values it stands in for. A callback of the robot is a chain of methods on one record, and it may
crash between any two; so `Follows` states once what a method may do to memory, log, save and
connection, is proved of each method, and is transitive (`FollowsTrans`), which carries it through
the chain. `LogInv` is what makes `LogLeads` inductive: the log is not ahead of the memory, a save
on its way is already in the log, and the answer to a hello still holds what the bridge has.
`SaveInv` says that one save is under way, in the socket or as its answer, and that a connected
robot without one knows the version and the revision of the bridge; no receipt is later than
the row, so that its next save is always new.

`OrderInv` ties the orders at the broker to the copies of the checkpoint. It is needed because a
robot may start again from any copy: from its log, from the row, or from a save that a lost
connection left behind and the bridge still reads. `Accounts(c, r)` is what a checkpoint `c`
must know to be started from. If it is not quarantined, every order belongs to a signal it has
seen; the orders of its own basket have sequences it has used, so that the next label is new;
and it has counted what was filled there but for its own intent, unless the time to add is
over. `Copies` says this of the log, the save and the row, and that every order has an intent
among the receipts; the one log it is not said of is what a `Blank` robot wrote when it was
stopped. `Intended` says that an intent the robot would still send is not among the
orders, is in the log, and is in the row once the robot holds its save for acknowledged, also
while the answer is on its way. `Blank` is the one robot of which `Accounts` does not hold: it
lost its log, found no position, and knows nothing until the bridge answers. It is not
connected, so it sends nothing, and it has nothing to manage. `Ordered`, `Carries` and `Onward`
carry the invariant along the methods of a callback, as `Follows` does for the revisions;
`OrderStep` says that the callback is at most one step of `WriteAheadIntent`.
`RefusesOnlyQuarantined` follows: a log that is not valid is a quarantined one.

### Only model-checked

`PollEnds`, `EnsureEnds` and `TakesOver`: liveness under fairness, and the `ENABLED` in it, is
out of the prover's reach. Of the first two the argument is proved but for one part:
`PollGoesForward` and `EnsureGoesForward` give the measure that every step of the host
lowers and nobody raises; that the host can always take a step is left to TLC. Every other
property of a passing run is a theorem.

## 5. What is left out

`PROJECT.json` lists every component with its status.

- Numeric or display code whose correctness is not a question of interleaving:
  strategies, research, dashboards, validation, providers, sizing and market hours. Where
  they decide something on the order path, the decision is a nondeterministic choice.
  They are most of the repository by size.
- The execution queue and its worker, circuit breaker and asynchronous audit: tests and
  a smoke command start them; the executors poll in a plain loop, and nothing reads the
  audit.
- Position workers (protection repair, canonical manager, reversal): one-shot processes
  whose decisions are about prices. `PositionRepaired`, `PositionCloses` and the other clients
  of `PostFillProtection` stand for what they do to a position.
- The hand-off of tickets: it goes through an outside service, and a signal handed over
  twice meets the claim of `SignalExecution`.
- The one-shot gold and euro executors but for their use of the control plane, LIVE and MT5
  (off in this version), archived robots, generated and vendored files. The workflow that ran
  the token maintainer is marked retired in `.github/workflows`; the program is still there
  and is modelled.
