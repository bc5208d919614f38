# TLA+ models of goPhat

goPhat is a ZooKeeper-like coordination service. Its three replicas agree on a log of client commands using Viewstamped Replication (VR) with master leases. This directory holds TLA+ models of the replication core, the server facade, the client, the tree database and the queue server. It also holds the TLC configurations that check them.

The modules follow the Go source. The source snapshot under `src/` does not compile as it stands:

- `SortTimes` uses undefined variables.
- `Heartbeat` is called with one argument instead of two.
- `StartView` calls `ExtendLease()` with no argument.
- `Mstate.Heartbeats` is never allocated.

Where a call is broken, the model follows its evident intent, and the affected hazards say so.

## The system and its parts

| Part | Source | What it does |
|---|---|---|
| VR normal case | `src/unnamed/part_000` (package `vr`) | `RunVR` on the master appends a command and broadcasts `Prepare`. Backups answer `PrepareOk`. `handlePrepareOK` commits at the F-th ack and broadcasts `Commit`. `doCommit` hands entries to `CommitFunc`. The renewal timer (`MasterNeedsRenewal`) re-sends `Commit` as a heartbeat, and `Heartbeat` re-arms it on each reply. |
| VR view change | `src/vr/vrviewchange.go` | A lease timeout (`ReplicaTimeout` → `PrepareViewChange`) broadcasts `StartViewChange`. F of those make a replica send `DoViewChange` to the master of the new view. That master runs `calcMasterView`, becomes master and broadcasts `StartView`. |
| VR recovery | called at 4 sites in `part_000`; not defined under `src/` | Triggered by a gap or a higher view. Specified in spec.md section 4.6. |
| Transport | `sendAndRecv`, `sendAndRecvTo`, `SendSync` in `part_000` | Calls every other replica in its own goroutine, with `MAX_TRIES` = 2 attempts per peer. The reply handler runs until it returns true. |
| Log | `phatlog` in `src/unnamed/part_001` | A map from index to command plus `MaxIndex`. |
| Server facade | `src/phatRPC/phatRPC.go` | `RPCDB`: fails unless the replica is Normal and is the master according to `getMasterId`. Writes (and GET) go through `RunVR` and wait for `CommitFunc`; other reads go straight to the database. `GetMaster` reports `getMasterId`. |
| Client | `src/phatclient/phatclient.go` | `processCallWithRetry` has a 1 s timeout. It retries after an RPC error, and before each retry it calls `connectToMaster`, which asks servers for the master with `GetMaster`. |
| Tree database | `src/phatdb/phatdb.go` lines 1-139 | A tree of `FileNode` objects linked by `Children` maps. `traverseToNode` walks it and, for CREATE, links fresh nodes (Version 0) for missing parts. `createNode`, `setNode`, `deleteNode`, `getNode`, `existsNode` and `getChildren` work on it. |
| Queue server | `src/phatqueue/queue_server.go` | The `QueueServer` loop applies PUSH, POP, DONE, LEN and SNAPSHOT to a `MessageQueue`. SNAPSHOT encodes the queue in a goroutine, and a `copyOnWrite` flag makes the next write copy the queue first. |
| Disk queue server, worker, queue RPC server | `src/queuedisk`, `src/phatdb/phatdb.go` lines 140-374 | Not modelled (see below). |
| Old copies | `src/unnamed/part_001` (client part), `part_002` | Earlier versions of the client and database. Nothing calls them. |

The components interact as follows. A client call goes to `RPCDB` on the master, which calls `RunVR` and then waits on the command's Done channel. The command replicates through Prepare, PrepareOk and Commit. `CommitFunc` applies it on each replica and, on the master, answers the waiting `RPCDB`. Lease timeouts start view changes. Gaps and higher views start recovery.

## Modules

### `VR.tla`: the replica group

The state is one function per field of `ReplicaState`, `MasterState`, `ViewChangeState` and `RecoveryState`, indexed by replica:

- `acks` is the `Replies` bitmap.
- `svcFrom` and `dvcFrom` are the two view-change bitmaps.
- `dvcMsgs` holds the `DoViewChangeMsgs` slots.
- `log` is the phatlog as a sequence.
- `applied` is the sequence of commands handed to `CommitFunc`.
- `msgs` is the set of requests and replies in flight. Go RPC replies are messages of their own, because a handler runs whenever a reply arrives.

Each RPC handler is one action, with its guards taken from its early returns, in source order:

- `ReceivePrepare`, `ReceivePrepareOk`, `ReceiveCommit` and `ReceiveHeartbeatReply`.
- `ReceiveStartViewChange`, `ReceiveDoViewChange` and `ReceiveStartView`.
- `ReceiveRecovery` and `ReceiveRecoveryResponse`.

Timer callbacks are actions too: `MasterNeedsRenewal` and `ReplicaTimeout`. `calcMasterView` is a `FoldLeft` over the slots, the same loop as the code, including its `maxNormalView` that is never raised and the skipped own slot.

A failed `assert` is `Die`: the process stops, and `fatal` records it.

`nilLog` holds the replicas whose `Phatlog` is a nil `*Log`. A `DoViewChangeMsgs` slot that no DoViewChange filled has a nil `Log` (`NoSlot`). `calcMasterView` falls back to slot 0 when no other slot has a larger normal view or op, and it never looks at the master's own slot. So an ordinary first view change with no ops, in which replica 0 sent nothing, installs a nil log on the new master, and `StartView` copies it to the backups. A nil-log replica always has op 0. `addLog` on it dereferences nil and the process ends: `AddToNilLog` is `Die`, both in `RunVR` and in a Prepare the backup accepts (`AcceptPrepare`). The second cannot happen within the runs' bounds: a nil-log backup only takes Prepares from the master of its own view, and that master has the same nil log and dies on its first `RunVR`. The environment may lose up to `MaxLoss` messages, because `sendAndRecvTo` gives up after `MAX_TRIES`. It may also stop up to `MaxCrash` replicas.

Handlers run without a lock in the code, one goroutine per call. The model takes each one as atomic. That is a refinement of the code's real behaviour, which also has data races (see the hazards).

Timers are untimed:

- The follower timer is always armed: `ReplicaInit` arms it, and `ReplicaTimeout`, `Commit`, `Prepare` and `StartView` only re-arm it. So a timeout may happen at any moment, up to `MaxView`.
- The master renewal timer fires once per arming (`mTimer`). `BecomeMaster`, `Heartbeat` and the PrepareOk path arm it. It is the one source of messages without end, so it fires at most `MaxRenewals` times in all (`renewals`).

`Next` is `RunVR` plus `ReplicaNext`. `ReplicaNext` holds everything else, so that `Service` can start `RunVR` itself.

`Restart` starts a stopped process again, as `RunAsReplica` does, from `ReplicaInit`:
- view 0, Normal status, empty log, zeroed view-change and recovery state (the nonce included);
- replica 0 is master of view 0 again and arms its renewal timer (`BecomeMaster`).

A new process has new connections. So the replies addressed to the old process are dropped, and so are the requests it sent, whose retries died with it. `Restart` is only in `RestartSpec`, which one violation run uses. The passing runs use `Spec`, in which a stopped process stays stopped: spec.md line 50 says a crashed replica comes back through recovery, and the code does not do that.

Recovery (`PrepareRecovery`, `ReceiveRecovery`, `BestResponse`, `RecoveredApplied`, `ReceiveRecoveryResponse`) is modelled from spec.md section 4.6 and marked `spec_modelled` in the map.

### `Service.tla`: the core, the facade and the client

`Service` extends `VR`.

Client state, per client:

- `conn`: `PhatClient.Id`.
- `masterId`: `PhatClient.MasterId`.
- `busy`: the client is inside `processCallWithRetry`.
- `req`: the current call, a write of a command or a read.
- `seq`: identifies the dbCall.

A client exists once `NewClient` has created it. Until then `conn` is `NoServer`.

RPC state:

- `rpcs`: RPCDB calls and replies in flight.
- `waiting`: RPCDB handlers blocked on Done.
- `done`: the commands whose calls returned success.
- `submitted`: the commands sent so far. Each write carries a fresh one.

Actions:

- `NewClient(c, id)` is `NewClient(servers, id)`. It runs `connectToServer(id)`, which fails (no client) when the server is down, and then `connectToMaster`.
- `ClientCall` is `Create`, `SetData` or `GetData` entering `processCallWithRetry` with a fresh command. GET goes through VR like a write.
- `ClientRead` is `GetChildren` or `GetStats`.
- `ClientTimeout` is its timeout goroutine firing.
- `ClientReceive` is `dbCall.Done`: success, or `connectToMaster` (the `ConnectToMaster` fold) and a new call.
- `RPCDB` is the facade handler, with four branches:
  - an error when the server is not Normal or `getMasterId` does not name it;
  - for a read, an answer from the local database, with no lease check (the TODO at line 146);
  - for a write, `Die` when one of `RunVR`'s two asserts fails;
  - otherwise `RunVR` runs and the handler waits.
- `CommitReply` is `CommitFunc` filling the Done channel.
- `CallRefused` and `HandlerGone` are the RPC errors of a stopped server.

`ServiceFairness` adds to `VR!Fairness`:

- net/rpc serves every `RPCDB` call;
- the database goroutine takes what `CommitFunc` sends it, so `CommitReply` happens;
- a dead process's connection ends, so `HandlerGone` happens.

`HandlersReturn` holds under it while a quorum can make progress. A replica in Recovery neither acks a Prepare nor answers a Recovery. With one backup crashed and the other sent into Recovery by a reordered Prepare, Recovery waits for F + 1 answers and only the master can give one, so the op never commits. VR counts a recovering replica as failed, and spec 8.5 promises progress only to a live quorum, so the property excuses states with fewer than F + 1 live replicas out of Recovery. Without that excuse TLC finds exactly this behaviour.

### `CommandLog.tla`: what the group promises

The state is `clog`, one sequence of committed commands, and `executed[r]`, how much of it replica `r` has run.

- `CommitNew(r)` lets an up-to-date replica extend the sequence and run the new entries.
- `CatchUp(r)` lets any replica run entries it has not run yet.

A step may cover several entries, as `doCommit` and a recovery do.

`VR` instantiates it with two mappings:

- `clog` is the longest history any replica has applied;
- `executed[r]` is `Len(applied[r])`.

`ImplementsCommandLog` is `CommandLog`'s specification as a property of `VR`.

### `Tree.tla` and `Namespace.tla`: the tree database

`Tree` keeps the objects, not the paths:

- `kids[n]` is the `Children` map of object `n`, with `Nil` for an absent name.
- `data[n]` is its `Value` and `Stats.Version`.
- `next` is the next fresh object id. Object 0 is the root. Go never reuses an object, so neither does the model: a deleted subtree stays behind as unreachable garbage.

`Walk` and `WalkCreate` are `traverseToNode` without and with `createMissing`, written as RECURSIVE operators. Each tree function is one action, with its error returns as branches:

- `CreateNode`
- `SetNode`
- `DeleteNode`, which unlinks with `Unlink` and panics on `"/"`
- `GetNode`, `ExistsNode` and `GetChildren`

The last reply goes to `reply`. `DatabaseServer`, which dispatches commands to these functions, is not under `src/`. Each command is one step, as its goroutine takes one command at a time.

`Namespace` is the abstract specification: a map from paths to a value and version, or `Missing`, with one action per command (spec 4.8). It follows the code in two choices that spec.md leaves open or states otherwise:

- CREATE brings missing ancestors into existence with version 0, and it succeeds on a node whose version is 0.
- DELETE removes the whole subtree.

`Tree` instantiates `Namespace` with the refinement mapping "the node the walk from the root reaches, or Missing". `ImplementsNamespace` is `Namespace`'s specification as a property of `Tree`.

### `Queue.tla`: the queue server

The state:

- `heap` holds the `MessageQueue` objects, and `mq` is the object the loop's variable points to.
- `copyOnWrite` is the flag the loop and the snapshot goroutines share.
- `enc` holds the running `encodeFunc` goroutines.

A write (`Push`, `Pop`, `Done`) is one turn of the loop, including the copy when the flag is set. `Read` is LEN and LEN_IN_PROGRESS. `Snapshot` reads the index, sets the flag and starts the goroutine.

The goroutine takes two steps:

- `EncodeStart` is `mq_snap := mq`, which reads the variable when the goroutine runs.
- `EncodeFinish` is `Bytes`, the reply and `copyOnWrite = false`.

`hist` records the queue after each request, so that a snapshot can be compared with the queue at its index. `MessageQueue` is not under `src/`: its Push, Pop (head to in-progress) and Done follow spec 4.8 and are `spec_modelled` in the map.

### MC modules

`MC_VR.tla`, `MC_Service.tla`, `MC_Tree.tla` and `MC_Queue.tla` give the constants for TLC:

- Three replicas `0..2`, the size the code hard-wires (`F` = 1).
- Commands `c1`, `c2` and clients `k1`, `k2` as model values, with symmetry over commands and over clients. Symmetry is sound because no definition tells two commands or two clients apart. The liveness runs (`vr_normal`, `vr_vcstall`, `svc_normal`) use no symmetry.
- `NoServer` (-1) marks a client not yet connected.
- Names `a`, `b` and a value `v1` for the tree, with symmetry over names. Messages `m1`, `m2` for the queue, with symmetry over messages.
- `InFlightBound`, a state constraint `Cardinality(msgs) <= MaxInFlight` that bounds the replica messages in flight at once. Only safety runs use it. TLC leaves the behaviours a constraint cuts out of its liveness checking, which makes a liveness pass empty for those behaviours. The liveness runs have no constraint: every bound they need is in an action guard.

## Runs

| Run | cfg | Expect | Checks |
|---|---|---|---|
| vr_normal | `MC_VR_normal.cfg` | pass | `AppliedAgreement`, `AppliedIsCommittedLog`, `CommitMonotone`, `EventuallyCommitted` and the refinement `ImplementsCommandLog` in view 0, under `FairSpec`, with 2 ops, no state constraint and no renewals (`MaxRenewals` 0). Reordering produces Prepare gaps and early Commits, which send backups into recovery. Every op the master prepares is committed there. 80k states, no symmetry (liveness), about 90 s. |
| vr_viewchange | `MC_VR_vc.cfg` | pass | `TypeOK` and `OpCoversCommit` through one view change, with 1 op, one crash, one lost message, one renewal and 3 messages in flight (a safety run: constraint and symmetry). This includes view changes that install the nil log of an unfilled slot, and a new master whose log is shorter than the commit number it adopts. Agreement of committed prefixes across this view change is not a property of its own: with 1 op, the fallback slot 0 is the view-0 master's, which holds every entry, so no change to the view-change code makes two replicas hold different committed entries here. 29k states, 10 s; at 4 messages in flight it is 3.6M states and four minutes, with the same result. |
| vr_vcstall | `MC_VR_vcstall.cfg` | violation | `ViewChangeCompletes` under `VCFairSpec`, with views up to 2, no ops, one crash and no loss or renewals, without a constraint. Replica 0 crashes. Replica 2 times out to view 1 and replica 1 joins it. Replica 2 times out again to view 2, and replica 1 drops its StartViewChange because replica 2 is already in its `StartViewReplies` (vrviewchange.go:56). Both stay in ViewChange for ever, with a live master and a live majority. |
| vr_applied | `MC_VR_applied.cfg` | violation | `AppliedIsCommittedLog`: a StartView commit number skips `CommitFunc`. |
| vr_durable | `MC_VR_durable.cfg` | violation | `DurableAck`: `calcMasterView` ignores the new master's own log and falls back to the unfilled slot 0, whose nil log it installs, and an acknowledged write is lost. |
| vr_restart | `MC_VR_restart.cfg` | violation | `CommittedLogAgreement` under `RestartSpec`. Master 0 prepares c1 and stops, and backup 1 takes the Prepare. Process 0 is started again as master of view 0 with an empty log. It writes c2 at index 1 and commits it with replica 2's ack. Its Commit(1) makes replica 1 apply c1 at index 1. |
| vr_viewmono | `MC_VR_viewmono.cfg` | violation | `ViewMonotone`: a late DoViewChange sets the view back (MaxView = 2). |
| svc_normal | `MC_Service_normal.cfg` | pass | `AckedIsReplicated` and `HandlersReturn` under `ServiceFairSpec`, in view 0 with one client call (a write or a read, which may time out), one op and one server crash, without a constraint. Every write reported successful is in a majority of logs, and every handler blocked on a Done channel returns while a quorum is out of Recovery. 18k states, no symmetry (liveness). |
| svc_reads | `MC_Service_reads.cfg` | violation | `LocalReadsUnderLease`: replicas 1 and 2 form view 1 without replica 0. A client created at server 0 is told by `GetMaster` that 0 is master, and its CHILDREN read is answered by the deposed replica 0. |
| svc_fatal | `MC_Service_fatal.cfg` | violation | `NoFatal`, with views up to 2: two clients' writes reach `RunVR` together, and `assert(OpNumber == CommitNumber)` kills the master. Two more paths to a failed assert lie in the same state space. One is a deposed master's renewal Commit answered into `Heartbeat`'s `assert(IsMaster)`. The other is `getMasterId`'s `View % 2` sending a view-2 write to server 0, whose `RunVR` asserts `IsMaster`; with the other two asserts switched off, TLC reaches it in 17 states. |
| tree_refines | `MC_Tree_refines.cfg` | pass | `ImplementsNamespace`: with two names, depth 2, three objects to allocate and versions up to 2, every tree function changes and answers the namespace as `Namespace` says. This covers implicit ancestors, the subtree a DELETE unlinks, re-creation after a delete, and the panic on `"/"`. 9k states. |
| queue_snapshot | `MC_Queue_snapshot.cfg` | violation | `SnapshotConsistent`: SNAPSHOT starts its goroutine, a PUSH copies the queue and points `mq` at the copy, and the goroutine then encodes the copy. The snapshot holds a PUSH past its index. |

Each violation is a disagreement between the code and spec.md. `PROJECT.json` ("findings") gives the trace's story and the line that causes it.

Each property of a passing run has a mutant in `PROJECT.json`: a variant of one mapped definition, written next to it in the module (for example `ReceivePrepareNoGapCheck` or `PicksSlotMinOp`). With the variant in place, TLC finds the property violated under the run's own cfg.

### Bounds

- **`MaxOp` 2 in view 0.** Two ops are enough for a backup to see op 2 before op 1 (the gap that starts recovery), and for a Commit to overtake a Prepare.
- **`MaxView` 1.** One view change covers the paths of the view-change findings. `ViewMonotone` needs a second view (`MaxView` 2) for a DoViewChange of view 1 to arrive in view 2. `svc_fatal` also uses 2, the first view that `getMasterId` routes wrongly.
- **`vr_restart`: `MaxView` 0, one stop, 4 messages in flight.** The restart needs no view change: view 0 with its fixed master is what the restarted process comes back to.
- **`MaxNonce` 1.** One recovery per replica. `PrepareRecovery` picks a fresh nonce each time, so the counter is bounded in its guard. A replica that would need a second recovery cannot start it, and the handler that would start it stays disabled. The code has no such limit. This is why `EventuallyCommitted` is stated for the master only: a backup's commit number can stall at the bound.
- **Tree: `MaxNodes` 3, `MaxDepth` 2, `MaxVersion` 2.** Three objects are enough for `/a/b` plus `/b`, or for `/a/b`, a delete of `/a`, and a fresh `/a`. Version 2 lets a CREATE fail on a node that was set. Four objects did not finish in five minutes: the refinement mapping walks every path in every state.
- **Queue: `MaxCmds` 4, `MaxSnaps` 1.** The race needs two requests, SNAPSHOT then PUSH.
- **`MaxInFlight` (safety runs) and `MaxRenewals`.** The untimed renewal timer would flood the network without a bound. `MaxRenewals` bounds its firings in its guard, so the liveness runs stay finite without a constraint; they take 0, which ends every behaviour. The safety runs also bound the messages in flight: 3 in `vr_viewchange`, with one renewal so that `MasterNeedsRenewal` and `ReceiveHeartbeatReply` fire.

### Fairness and deadlock

`VR!Fairness` makes each handler weakly fair on each replica, and also the renewal timer:

- net/rpc serves every request that arrives in its own goroutine.
- `sendAndRecvTo` hands every reply to its handler.
- `time.AfterFunc` fires an armed timer.

Fairness per replica, and not per action, is needed. With only `WF_vars(\E m \in msgs : ReceiveCommit(m))`, TLC finds a behaviour where the Commit to one backup waits for ever while renewal Commits to the other are served.

`RunVR`, timeouts, crashes and losses get no fairness: they are the environment's choice.

`ViewChangeCompletes` (in `vr_vcstall`) is checked under `VCFairSpec`. Its only fairness is one weak fairness condition on the three view-change handlers together: while a view-change message waits, some view-change handler runs. That is weaker than `Fairness`, which the code justifies. Timeouts get no fairness. The code re-arms the lease timer after each timeout (part_000:324), but spec 8.5 promises completion under bounded delay, that is once timers stop firing early. In the stall, further timeouts do not help either: each replica's bitmap holds the other, so every later StartViewChange between them is dropped as well. The property says that a live replica in ViewChange eventually leaves it. It excuses a crash of the master of that replica's view and a stopped majority (spec 8.5 assumes a live quorum). It is stated per replica and not per view, because a late DoViewChange can move a replica back to an older view (`vr_viewmono`), and a view abandoned that way need not complete.

`EventuallyCommitted` is stated for the master. A backup's own commit number can stall under the bounds: a second recovery is cut off by `MaxNonce`, which the code does not have. It is checked without symmetry, since TLC's liveness checking is not sound under symmetry.

`HandlersReturn` is checked in view 0 only. Across a view change, a dropped command leaves its handler blocked for ever (a hazard in `PROJECT.json`). A Service run at `MaxView` 1 under fairness does not finish in five minutes.

Every run sets `CHECK_DEADLOCK FALSE`, because its bounds end every behaviour. `MaxRenewals` stops the renewal loop, `MaxView` stops the timeouts, a crashed master leaves messages nobody can receive, `MaxCalls` stops the client, and the tree's and the queue's bounds stop their command streams. The real system never stops there: its timers keep firing.

## Not modelled, and the plan

Done so far:

1. `VR` (normal case, view change, recovery), with liveness in view 0.
2. `Service` (facade writes and local reads, `NewClient`, client retry), with liveness of the handlers in view 0.
3. `Tree` and its refinement to `Namespace`.
4. `Queue` (copy-on-write snapshot).

5. `CommandLog`, the abstract promise of the group, and its refinement by `VR` in view 0.

6. `Restart` (`vr_restart`), the view-change stall (`vr_vcstall`), and `svc_fatal` at view 2, where `getMasterId` routes wrongly.

Next, in order:

7. **Refinement across view changes.** `ImplementsCommandLog` fails there, through the findings above.
8. **Agreement of committed prefixes across view changes.** `CommittedLogAgreement` needs 2 ops or 2 views in a view-change run to be breakable by a change to the code, and both are beyond five minutes with crash and loss.
9. **A Service run across a view change under fairness.** `HandlersReturn` across a view change, the client's retry (phatclient.go:148) and `connectToMaster`'s skipped server (phatclient.go:101) all need one.

Out of reach or out of scope:

- Lease deadlines. `SortTimes` (part_000:285) does not compile: it ranges over an undefined `m` and stores an undefined `k`. No code reads a lease either: `RunVR`'s `holdLease()` is commented out, and `RPCDB` reads skip it. `LocalReadsUnderLease` states what a lease would guarantee, in terms of views.
- In `VR` and `Service`, `applied` stands for the state of the database, which `Tree` and `Queue` model on their own.
- spec 4.8 says CREATE fails when the path exists. The code lets CREATE `/a` succeed after CREATE `/a/b`, because `/a` then exists with version 0 (a hazard in `PROJECT.json`). `Namespace` takes the code's rule. The stricter rule has no run of its own: the twelve runs go to the findings above. For the same reason, `vr_commitmono` (a late StartView lowers a commit number, vrviewchange.go:134) was retired in favour of `svc_reads`. `CommitMonotone` is still checked in `vr_normal`.
- `CVersion` and `NumChildren`, which spec 4.8 says count child-set changes, are never written by the code: the model leaves them out.
- `queuedisk`: its restore decodes into a copy of the queue (`Decode(mq)` without `&`), and nothing under `src/` writes `queue_file`. Its loop is the phatqueue loop without SNAPSHOT.
- The `worker` and `queueserver` packages in `phatdb.go`. `queueserver` does not compile (`checkState` uses an undefined `args`). Its Push, Pop and Done only check the replica state. The worker only numbers its calls.
- Logging, gob encoding and configuration parsing.
- The old copies in `part_001` and `part_002`.
