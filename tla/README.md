# TLA+ models of metafora

Metafora is a Go library for distributing long-running tasks across a cluster
of consumer nodes. This directory holds TLA+ models of its consumer, its
coordinators and its balancers, together with TLC configurations that check
them. Every definition is translated from the Go source under `src/`.
`PROJECT.json` maps each definition to the lines it models.

## The system

| Part | Source | Role |
|---|---|---|
| Consumer | `src/embedded/client.go` (lines 23–468), `src/unnamed/part_002` (runningtask) | `Run` starts four actors: a balance ticker, a command poller, the coordinator `watcher`, and the main loop. The main loop selects on stop, balance ticks, tasks and commands. A task is admitted in `claimed`: balancer `CanClaim`, then `coord.Claim`, then one handler goroutine that runs `runTask` and ends in `coord.Release` or `coord.Done`. `stopTask` stops a handler asynchronously. `handleCommand` implements freeze, unfreeze, balance and stop_task. `Shutdown` calls `close` (which closes `c.stop`), waits for `Run`; `shutdown` closes the coordinator, stops every handler and waits for them. |
| Coordinator | `src/embedded/coordinator.go`; etcd versions in `src/m_etcd/coordinator.go` and `src/unnamed/part_001` | Hands tasks to the consumer (`Watch`), arbitrates claims (`Claim`), gives them back (`Release`) or removes them (`Done`), and delivers commands. The embedded version passes tasks over unbuffered channels; its `Release` re-enqueues in a goroutine. The etcd version keeps an `owner` marker with a TTL per task, created only if absent. |
| Ignore manager | not in the repository | Holds tasks the balancer rejected and re-injects them into the main loop when their delay expires. |
| Balancers | `src/balancer.go`, `src/unnamed/part_004` | `CanClaim` gates claims. `Balance` returns tasks to release. `FairBalancer` releases down to ceil(average × 1.2) and then refuses claims for a delay. `ResourceBalancer` works from resource usage. `BalancerMux` combines balancers. |
| Clients | `src/embedded/client.go` (1–22), `src/unnamed/part_000` | Submit tasks and node commands. |
| Commander, mux | `src/m_etcd/commander.go`, `src/unnamed/part_003` | State-machine commands over etcd, and routing of tasks to typed handlers. |

## Modules

**`Consumer.tla`** models one consumer with the embedded coordinator and client.

- **State.** Each goroutine of `Run` has a program counter:
  - `runPc` for Run and the main loop;
  - `watchPc` and `watchTask` for the watcher and `Watch`;
  - `tickPc` for the balance ticker;
  - `pollPc` and `pollCmd` for the command poller;
  - `hpc[t]` for each handler goroutine;
  - `shPc` for the goroutine that calls `Shutdown`.

  The remaining state:
  - the channels: `submitting` for the task channel and `cmdSenders` for the command channel;
  - `requeue` for Release's re-enqueue goroutines and `reinject` for ignore-manager timers;
  - the flags `stop`, `frozen`, `estop` (the coordinator's stop channel), `stopped[t]` and `hdone[t]`.

  The consumer's running map is derived as `running` (`hpc[t] = "run"`). The handler WaitGroup is the derived count `hwg`.
- **Init.** `PairInit` is `NewEmbeddedPair` (`embedded/util.go`). It makes the two unbuffered channels, with no sender blocked on them, and a new coordinator (`CoordInit`).
- **Actions.** There is one action per goroutine step. Each step ends at a channel operation, because an unbuffered send and its receive are one rendezvous.
- **Watch.** `WatchRecv` is the embedded `Watch` taking a task from `inchan`. `WatchStopped` is its two `stopchan` cases, which drop a task held for the send. `WatchExit` adds the watcher's deferred `c.close()`.
- **Balancer.** The balancer is left nondeterministic: `CanClaim` may accept or reject, and `Balance` may return any subset of the running tasks. So the Consumer properties hold for every balancer.
- **Commands.** Commands are records drawn from a small set, including a stop_task for a task and an unknown command.

**`FairBalancing.tla`** models a cluster of consumer nodes, each with a FairBalancer, claiming tasks through owner markers.

- **Per node.** It keeps `local` (the node's `c.running`), `exiting` (handlers that have left `c.running` but not yet called Release or Done), `stopReq` (stopTask requests), `delayed` (the FairBalancer delay) and `stuck` (Balance never returned).
- **Arithmetic.** `desiredCount` is the code's integer average followed by `math.Ceil(avg*1.2)`, written as ceil(6·avg/5). This matches the float64 computation for every avg below 100000, checked exhaustively.
- **NodeTaskCount.** It counts owner markers per node. Its etcd implementation is not in the repository, so this definition is modelled from the spec.
- **Claim.** Claim is create-if-absent (`EtcdCoordinator.Claim`), on any task without a marker: a stale GET can offer a task that Done has deleted. Release deletes the marker. Done deletes the task.
- **Handlers.** `HandlerExit` lets a handler return whether or not it was stopped (runTask's recover turns a panic into done as well). `Finish` is its Release or Done, which both delete the marker.
- **Scope.** The module exists for Balance; owner markers never expire here, so exclusive ownership follows from create-if-absent and is not checked. Ownership is checked in EtcdCluster, where markers expire.

**`TaskOwnership.tla`** is the abstract specification of what the coordinator and the consumers promise about a task (spec.md, the Coordinator contract and consumer invariants 1–3). `holder[t]` is the node whose claim on t is live; `gone` holds the tasks Done removed.
- `Acquire(n, t)`: a free task that is not gone is claimed.
- `Relinquish(t)`: Release, or the loss of the marker.
- `Complete(t)`: Done. It needs no live claim, because Done follows every claim even when the claim has lapsed meanwhile.
- `Abandon(n)`: the node's coordinator closes; all its claims lapse at once.

It models the contract, not code, so it has no entry in the map.

**`EtcdCluster.tla`** models consumer nodes sharing tasks through etcd.

- **Broker state.** `dirs` holds the task directories (SubmitTask creates them, Done deletes them). `owner` holds each task's owner marker.
- **Watch.** Per node, `WatchGet` models the GET of existing tasks: every task without an owner becomes a candidate. `WatchNext` models the ordered event stream from the GET's index. The queue holds at most `History` events; overflow models `EcodeExpiredIndex` and sends Watch back to a GET. `Parsed` is `parseTask`: a props creation, or the removal of an owner marker of a task that still exists.
- **Claim and handlers.** `WatchSend` is the rendezvous with the main loop, which claims with create-if-absent. `HandlerExit` and `Release`/`Done` split the handler's exit from its coordinator call, as in `runTask`. `exiting` is a set of pairs, because a task can be re-claimed while its old handler is still exiting.
- **Owner TTL.** `Expire` models a marker expiring while its refresher still holds it, at most `MaxLost` times. The refresher is not in the repository, so this is modelled from the spec.
- **Events.** An event carries its etcd action: `create` from SubmitTask, `delete` from Release, `expire` from an expired marker. `Parsed` tests the action against `NewActions` and `ReleaseActions`, which are the sets of `task.go`.
- **Claim re-creates.** `CreateDir(tasks/<id>/owner)` creates missing parent directories. A claim on a task that Done deleted therefore re-creates `tasks/<id>` without props, and `findProps` takes that directory for a task. `Claim` adds t back to `dirs`.
- **Consumer shutdown.** `cstop[n]` is the consumer's `c.stop`. `ConsumerStop` is `Shutdown`'s `c.close()`. `WatchReturn` and `WatchFail` are the watcher's deferred `c.close()`, after `Watch` returns nil or an error. `mpc[n]` follows `Run`: `"loop"` while the main loop runs, `"close"` while its deferred `shutdown` is inside `Close`, and `"done"` once `shutdown` has called `stopTask` on every running task. The main loop's select is random, so `WatchSend` can still take a candidate after `c.stop` closes. Its claim then succeeds, and `claimed` drops the task without Release, while the claim stays scheduled for refresh.
- **Close.** `Close` has two callers, named in `Closers`: the consumer's shutdown, and the node refresher (`NodeRefresher`, when `refreshBy` misses its deadline). Neither releases the node's tasks (`Close` says so), and `Close` does not stop the task manager's refreshes. `Close` checks `ec.stop` and later closes it, and nothing makes the two steps atomic. The model therefore splits it in two.
  - `CloseSelect(n, c)` is the check. It records the caller in `closers`. For the consumer it also stands for the main loop's return, a local step whose guard (`c.stop` closed) never turns false again.
  - `CloseStop(n, c)` is the `close`. For the consumer it is followed by `shutdown`'s `stopTask` loop. If the other caller has already closed `ec.stop`, Go's second `close` panics, and the unrecovered panic kills the process with its refreshers. The model records this as `crashed[n]`.
  - `CloseClosed(n)` is `shutdown`'s `Close` finding `ec.stop` already closed: it returns at once, and the tasks are stopped.
  - A crashed node takes no further step: its handlers never Release or Done, and its markers, no longer refreshed, expire.
- **etcd errors.** At most `MaxErr` etcd calls fail, and `errs` counts them.
  - `WatchFail`: the GET of the task path, or a watch, fails, and `Watch` returns the error.
  - `WatchNext`: `parseTask`'s GET of a released task fails, and the event yields no candidate.
  - `WatchSend`: `Claim`'s `CreateDir` fails with an error other than `EcodeNodeExist`, and the candidate is dropped.

  `dropped` is a history variable that records the tasks so dropped.
- **Done.** `Done` deletes `tasks/<id>` (`taskManager.remove` with done set, `coordinator.go` 769–773). The task manager is not in the repository, so this is modelled from the spec.
- **Refinement.** `finished` is a history variable of the tasks finished with Done. `Holder(t)` is the node that keeps t's marker alive (t is in its `refreshing` set). `Ownership` instantiates `TaskOwnership` with `holder <- [t |-> Holder(t)]` and `gone <- finished`.

**`EtcdCommander.tla`** models the state-machine commander over etcd (`src/m_etcd/commander.go`).
- **etcd.** `log` holds the events on one task's command key, and `kv` is the key with its ModifiedIndex.
- **Sender.** `Send` is `cmdr.Send`, a Set in which the last write wins.
- **Listener.** `lpc` is the watcher goroutine's position:
  - `WatcherGet` is the GET with its inverted error check;
  - `SendErr` and `Deliver` are the sends to the handler, which give up when `Stop` has closed the stop channel;
  - `WatchNext` and `SendMsg` are the watch loop: RawWatch from an inclusive index, then a CompareAndDelete on the event's value.
- **As written.** The watch loop is unreachable behind the inverted check, and it is modelled as written all the same.

**`EtcdCommands.tla`** models one node's command delivery through etcd (`Command`, `parseCommand` and `watch` in `src/m_etcd/coordinator.go`), together with the consumer's command poller.

- **etcd.** `log` is etcd's event history; event *i* has index *i*. `present` is the set of command keys.
- **Poller.** `cpc` is the poller's position:
  - `CommandStart` is the closed check, followed by the GET (`GetCommands`);
  - `CommandRestart` is `continue startWatch`: a new GET without the closed check;
  - `CommandGetNext` is the loop that parses existing keys;
  - `CommandWatch` and `CommandWake` are a watch that answers at once or after waiting.
- **Response index.** The response's `EtcdIndex` is etcd's index at the answer, or when the wait began. `Respond` is `parseCommand` followed by the loop's `index = resp.EtcdIndex`.
- **Expired index.** etcd keeps the last `History` events. A watch from an index older than that fails with `EcodeExpiredIndex` (`Expired`), and `Command` restarts with a new GET.
- **Failures.** `DeleteKey` may fail; the failure is logged and the command is still returned. A watch error other than restart or stop falls through to `parseCommand(nil)` (`cpc = "crashed"`). At most `MaxFail` etcd calls fail.

## Runs

| Run | Config | Result | What it shows |
|---|---|---|---|
| consumer_safety | `Consumer_safety.cfg`: 2 tasks, at most 2 commands, 6 command kinds | pass, ~710k states | `TaskConservation`: each task is in exactly one place (in the client, in a channel, held by Watch, running, exiting, re-enqueued, ignored, done or lost), and is lost only after shutdown. A handler's task is still in the embedded coordinator's `tasks` map, so its `Release` cannot panic (`embedded/coordinator.go:86`). `TypeOK`: in particular, only tasks Watch really holds are ever recorded as abandoned. |
| consumer_live | `Consumer_live.cfg`: 2 tasks, 1 command (balance or stop_task) | pass, ~52k states | `ShutdownTerminates`: once begun, Shutdown returns. `TaskProgress`: every submitted task is eventually run, done, or held back by stop or freeze. |
| consumer_claims_finalised | `Consumer_ClaimsFinalised.cfg`: 1 task | violation | After `c.stop` closes, the main loop's random select can still take a task. `Claim` succeeds, then `claimed` returns at its stop check without Release or Done. |
| consumer_shutdown_closes | `Consumer_ShutdownClosesCoordinator.cfg`: 1 task | violation | `runwg.Add` happens inside `Run`, so `Shutdown` can return before the coordinator is closed. |
| fair_balance_stuck | `FairBalancing_stuck.cfg`: 4 nodes, 3 tasks | violation | A node holds 2 running tasks and 1 exiting task. The cluster average is 3/4, which integer division truncates to 0, so `shouldrelease` is 3. The pick loop (`balancer.go:132`) can never find 3 distinct IDs among 2. |
| etcd_live | `EtcdCluster_live.cfg`: 2 nodes, 1 task, History 1, MaxLost 0, MaxErr 1, fair | pass, ~590k states, ~1 min | `RefreshOnlyOwnWork`: while its consumer's `c.stop` is open, a node's refresher holds only tasks it runs or is finishing. Once `c.stop` closes, a claim can leak (consumer_claims_finalised). `TaskEventuallyClaimed`: an existing unowned task is eventually claimed or removed, unless every coordinator is closed or a failed etcd call dropped it. This holds across shutdowns, watch errors, watch restarts, re-created tasks, and closes by the node refresher. It also holds for the node a double `Close` crashes: the others still claim its tasks once its markers expire. |
| etcd_exclusive_claim | `EtcdCluster_ExclusiveClaim.cfg`: 2 nodes, 1 task | violation | A marker lost while refreshed lets a second node claim, and the old handler's `Release` deletes the newcomer's marker unconditionally (`part_001:350`, the FIXME at 348). Two nodes then run the task, each refreshing. |
| etcd_refinement | `EtcdCluster_refinement.cfg`: 2 nodes, 1 task, MaxLost 0 | violation | No marker is ever lost, and still the cluster does not implement `TaskOwnership`. Node 2's GET lists t1. Node 1 claims, runs and finishes t1 (Done deletes `tasks/t1`). Node 2 then claims t1 from its stale candidate, and `CreateDir` re-creates the task (`part_001:327`, `coordinator.go:721`). In the abstract spec this is an `Acquire` of a task that is gone, which the contract forbids. |
| etcd_stranded | `EtcdCluster_stranded.cfg`: as etcd_live | violation | `TaskNeverStranded` is `TaskEventuallyClaimed` without the excuse for dropped tasks. Node 2 shuts down. Node 1's `Claim` of t1 fails with an error other than `EcodeNodeExist` (`part_001:330`), and the main loop drops the candidate. Watch never offers t1 again, so t1 stays unowned while node 1 runs. `parseTask`'s failed GET (`task.go:92`) does the same to a released task. spec.md §7 says transient coordinator errors are retried internally. |
| etcd_cmd_live | `EtcdCommands_live.cfg`: 3 valid commands, 2 failures, History 2, fair | pass, ~16k states | `DuplicateOnlyAfterFailedDelete`: a command is returned twice only after its Delete failed. `CommandEventuallyDelivered`: every submitted command reaches the consumer. Both hold across restarts on an expired index. With History 2, the poller's own Deletes can push its index out of the window. A restart that skipped the GET (mutant `CommandRestartNoGet`) loses commands. |
| etcd_cmd_skip | `EtcdCommands_skip.cfg`: 2 commands, 1 invalid, History 100 (etcd keeps 1000) | violation | Command's watch returns an invalid command, c1, and a valid one, c2, is created meanwhile. `parseCommand` deletes c1 and returns nil, and `index = resp.EtcdIndex` (`coordinator.go:824`) moves past c2's event. Only a restart can recover it, and that comes after etcd has recorded 1000 further events. Both copies of `Command` in the file have this line. |
| etcd_commander_consumed | `EtcdCommander_consumed.cfg`: 2 messages, 2 sends, fair | violation | `CommandConsumed`: a command waiting for a running listener is eventually taken. It fails because of the check at `commander.go:127`. With a command present, the watcher sends a nil error and exits. With none present, it dereferences the nil response. Either way, later commands stay in etcd. |

### Bounds

- Two tasks are enough for every Consumer interaction the code has: two handlers, a duplicate offer of a running task, and one task ignored while another runs.
- Two commands let freeze be followed by unfreeze, or a stop interleave with a balance.
- The liveness run uses one command of the kinds that stop tasks, which keeps it under a minute.
- The stuck case needs more nodes than tasks, hence 4 nodes and 3 tasks.
- EtcdCluster uses one task and two nodes. That is enough for a claim race, a lost marker, a stale candidate, and a re-created task.
  - History 1 makes a second event overflow the window, so watch restarts happen.
  - MaxErr 1 lets each error path happen once, on either node.
  - Three nodes, two tasks, or a lost marker together with an etcd error exceed the time budget once liveness is checked. The live run therefore sets MaxLost 0. Loss of a refreshed marker is exercised by etcd_exclusive_claim, which passes through it.
- The refinement run sets MaxLost 0, so its counterexample cannot be the lost-marker finding.
- EtcdCommands uses three keys, so an invalid command can sit between two valid ones. Up to two etcd failures let a Delete fail together with a GET or watch error.
- EtcdCommander allows two Sends, so a second command can overwrite the first.

### Fairness

Go's runtime queues blocked channel senders FIFO and runs every runnable goroutine. This justifies:
- strong fairness on the channel receives and select cases that can be disabled and re-enabled (`WatchRecv`, `MainClaim`, `PollRecv`);
- weak fairness on the other goroutine steps.

In EtcdCluster, EtcdCommands and EtcdCommander, the watch loops, the poller, the listener and the handlers' exits are weakly fair; they are goroutines that run whenever enabled. So are the steps of `Run`'s deferred shutdown once `c.stop` is closed (`CloseSelect` for the consumer, `CloseClosed`, `CloseStop`). The following carry no fairness, because nothing in the code forces them:
- clients and senders, and calls of `Shutdown` (`ConsumerStop`);
- the refresher's failure (`NodeRefresher`);
- marker loss and etcd failures (`WatchFail` and the error branches).

Handlers are assumed to honour Stop: `HandlerHonorsStop` is weakly fair. This is the Handler contract (`Stop` must cause `Run` to return). Clients are not fair: they may stop submitting.

## Not modelled, and the plan

1. **Double Close: the panic is modelled, not forbidden** (`coordinator.go:859`). `Close`'s comment says it is not threadsafe, yet `nodeRefresher` and the consumer's shutdown can both call it. EtcdCluster lets both pass the check and models the second `close` as a crash (see `CloseStop`). `etcd_live` shows the cluster still makes progress: the crashed node's tasks are claimed elsewhere once their markers expire. No passing run forbids the crash. A violation run would need a thirteenth run, and the project keeps to twelve.
2. **The pull-style iteration** (`coordinator.go` 1–507). Its `Watch()` returns one task ID per call, and nothing in the repository calls it. Its remaining functions repeat the current iteration line for line, and the current iteration is modelled.
3. **BalancerMux** (`muxctx.add` never stores `remaining`, `balancer.go:214`) and **ResourceBalancer** (the float32 percentage and a total of 0, `part_004:67`). Each bug shows in a single call, without concurrency, and a unit test reaches it directly.
4. **Smaller gaps.**
   - The nil-response fallthrough in `Command` is modelled but not checked by a run.
   - A GET error in `Command` (`coordinator.go:791`) ends the poller, which closes `cmdChan`, and `Run` then shuts the consumer down. spec.md §7 says such transient errors are retried internally. `CommandEventuallyDelivered` excuses this exit (`cpc = "exited"`), as the code takes it, and no run shows the divergence on its own. The Watch side of the same divergence is etcd_stranded.
   - Refinement of `TaskOwnership` is shown only as a violation (etcd_refinement). FairBalancing keeps no expiring markers, so a passing refinement there would follow from create-if-absent alone.
5. **Out of reach.** The ignore manager's internals, JSON formatting (`MarshalJSON`, `Tasks`), logging, and the `httputil` tests are out of reach or I/O only.
