# TLA+ specifications of the CLI Proxy API and its management center

The repository holds a Go proxy server that dispatches requests to accounts of AI vendors
(`backend/sdk`, `backend/internal`), a management extension of it (`backend/internal/core`:
usage collection, key administration, probing, cluster) and a React front end. This
directory specifies the parts in which several goroutines, a database and remote services
meet, model-checks them with TLC and proves the main results with TLAPS. Paths below are
relative to `backend/`.

## The system

| Part | State | Operations | Interacts with | What is hard |
|---|---|---|---|---|
| **Execution registry** `sdk/cliproxy/executionregistry` | lifecycle state, pending dispatches, scopes with a bound resource, release counters and sink, observation barriers | BeginDispatch, End, Install, Bind, EndWithRelease, SetReleaseSink, Drain, Close, WaitPending, ObserveBarrier, FreezeInFlight | request threads, the supervisor of a Home lifetime, the release flusher (as its sink), the in-flight publisher | the state is an atomic changed outside the mutex; resources close in goroutines; waiters sleep on a channel that is replaced |
| **Release flusher** `internal/home/concurrency_release.go` | per group: highest mark, last answer, waiting tickets; wake and force channels; timer | MarkDirty, SetSender, SetConfigProvider, Run, Flush | registry (marks), Home (frames), supervisor (lifetimes) | out-of-order marks, lost answers, expired contexts, backoff, lifetimes that end in the middle of a flush |
| **Probe service** `internal/core/probe` | queue of batches, configuration copy, tables of results and actions, key rows, CPA's accounts and routes | ProcessUsageEvents, the worker (results, priority, status, account, routes), expiry scan, UpdateConfig | collector, operators' pages, CPA's management interface | read-then-write against operators, repeated and late events, failing calls, a queue that drops |
| **Home supervisor and client** `sdk/cliproxy/service_home.go`, `internal/home/client.go`, `sdk/cliproxy/auth/conductor_home.go` | current client, registry and flusher, published bundle, recovery state, dispatch fence | start, subscribe, publish, dispatch, retry, replace, detach, shutdown | registry, flusher, requests, Home | which executions survive a lost connection, dispatches whose answer is lost, the order of detach, settle, drain and flush |
| **In-flight publisher** `sdk/cliproxy/auth/home_in_flight_publisher.go` | revisions, last snapshot | publish, retry | registry, Home | snapshots overtaken by newer ones |
| **Usage manager and queue** `sdk/cliproxy/usage`, `internal/redisqueue` | unbounded queue of the dispatcher, queue with retention, bounded channels of subscribers | Publish, Stop, Enqueue, PopOldest, subscribe, requeue | executors, collector, Home's forwarder | full and abandoned channels, the queue switched off, a stop with records left |
| **Collector** `internal/core/collector` | current run, mode | Start, Stop, subscribe, poll, RESP, fall back | usage queue, store, probe service | runs that overlap, lost answers, failing inserts |
| **Conductor, scheduler, selector** `sdk/cliproxy/auth` | credentials, cooldowns per model, the scheduler's copies, cooldown files | pick, MarkResult, Register, Update, Remove, ResetQuota, restore | executors, model registry, files | clones that arrive late, saves that overtake each other, restarts |
| **Auto refresh** `sdk/cliproxy/auth/auto_refresh_loop.go`, `conductor_refresh.go` | heap of due refreshes, dirty set, job queue, lock per credential | reschedule, pop, refresh, refresh after a 401 | conductor, vendors | a credential that leaves the heap, a token that is refreshed twice |
| **WebSocket relay** `internal/wsrelay` | sessions, pending requests and their channels | connect, send, dispatch, clean up, stop | executors, service callbacks | lookups and uses of a channel without a lock, full channels, a session that ends in the middle of a response |
| **Model registry** `internal/registry` | reference counts per model and client, suspensions, quotas | register, unregister, suspend | service, conductor | counts that must return to zero |
| **Cluster** `internal/core/cluster` | nodes, last result of each | push of the configuration | follower nodes | a node that fails |
| **Watcher, caches, plugin host, stores, HTTP handlers, translators, executors, front end** | | | | conversions, I/O, foreign code; see *Not modelled* |

`PROJECT.json` lists the parts under `components` and what can go wrong in the modelled
ones, line by line, under `hazards`.

## Modules

| Module | Models |
|---|---|
| `ExecutionRegistry` | `registry.go`, `observation.go` |
| `ExecutionRegistryProofs` | proofs about it |
| `MCExecutionRegistry` | instances for TLC |
| `ReleaseAccounting` | what the flusher promises (abstract) |
| `ReleaseFlusher` | `concurrency_release.go` |
| `ReleaseFlusherProofs` | proofs about it and of the refinement |
| `MCReleaseFlusher` | instances |
| `ProbeManager` | `probe/manager.go`, `store.go`, `types.go`, `cpa_sync.go` |
| `ProbeManagerProofs` | proofs about it |
| `MCProbeManager` | instances |
| `UsageQueue` | `usage/manager.go`, `redisqueue/queue.go`, the forwarder of usage records to Home |
| `UsageCollector` | `collector/collector.go` in front of `UsageQueue` |
| `UsageCollectorProofs` | proofs about both |
| `AuthConductor` | `conductor_cooldown.go`, `conductor_lifecycle.go`, `conductor_selection.go`, `selector.go`, `scheduler.go`, `cooldown_state.go` |
| `AuthConductorProofs` | proofs about it |
| `AuthRefresh` | `auto_refresh_loop.go`, `conductor_refresh.go`, on top of `AuthConductor` |
| `AuthRefreshProofs` | proofs about it |
| `WsRelay` | `wsrelay/manager.go`, `session.go`, `http.go` |
| `WsRelayProofs` | proofs about it |
| `HomeLifetime` | `service_home.go`, the lifetime of `home/client.go`, `pickViaHome` |
| `HomeLifetimeProofs` | proofs about it |
| `MCUsageCollector`, `MCAuthConductor`, `MCAuthRefresh`, `MCWsRelay`, `MCHomeLifetime` | instances |

Definitions carry the source's names where they model one function; a function with an
unlock, a database call or a remote call in the middle is several actions, and a phase
variable (`pc`, `drain`, `closer`, `run`, `w.pc`) says where its thread stands. Definitions
introduced by a comment `Mutant:` are wrong variants of the definition that follows; they
are used only to show that each property can fail. Each module has a `TypeOK` that documents
the types of its variables; it is proved for every module that has proofs, and the runs leave
it out.

### ExecutionRegistry

One dispatch id (`Token`) follows a request through BeginDispatch, Install, Bind and
EndWithRelease (`pc`). `res` is the resource: bound, closing (its goroutine runs), closed.
BeginDispatch, Install and Bind check the atomic state and then write, both under `r.mu`,
while Drain and Close switch the state without the mutex: they are two steps each, and `mu`
says who is between them. Critical sections that only touch data are one step. `live`
records whether the sink EndWithRelease read is still the installed one, `handed` what the
installed sink has heard. `observedAt` is a history variable for the snapshot properties.

Fairness (`LiveSpec`): the owner of a dispatch finishes, a close function returns, Drain and
Close are not starved. The owner's `EndWithRelease` is assumed only once its resource is no
longer open: an execution that nobody cancels may run for ever, so that Drain returns only
because it cancels. Strong fairness stands for Go's mutex, whose starvation mode hands the
lock to every waiter. Timeouts of Drain carry no fairness.

### ReleaseFlusher

`MarkDirty` may be called with any number of a group at any time, as the registry calls its
sink outside its lock and SetReleaseSink replays. The cases of Run's select are the actions
TakeWake, TakeForce, TimerFires and RunStops; flush is one step to copy the dirty groups, a
step for each send and one for its answer. A send fails because its context has ended
(always possible then) or for another reason (`MaxFaults`), and Home may or may not have
received the frame. The map iteration of flush is a choice of any group left. Delays are
numbers; that one has passed is the step `Elapse`. Home is external: it keeps the highest
number it received of a group.

Fairness: the supervisor sets a sender and starts a lifetime, timers fire, the loop goes on,
and since Go's select chooses at random among ready cases, a case that is ready again and
again is taken (`SF` for TimerFires and RunStops). Lifetimes that end and sends that fail
are bounded; without that nothing could be promised.

`ReleaseAccounting` is the promise: Home learns numbers that grow and were announced; a
ticket is completed when Home knows its number. `ImplementsAccounting` is the refinement
with `announced <- latest`, `known <- home`, `completed <- closed`.

### ProbeManager

An event is a hash with a payload (key, timestamp, outcome, code) chosen in Init, so the
collector can deliver it repeatedly and in any order. The worker `w` carries the local
variables of processBatch; the row read before the insert (`w.match`), the status read
before the update (`w.next`) and the provider's keys read before the push (`w.snapshot`)
stay in them while operators edit. `results` is the table in insertion order;
`CountConsecutive` is the query (newest timestamp first, then id, at most `RowLimit` rows)
followed by the loop. Three history variables say what the properties exempt: `overlooked`
has the keys whose last failure the policies did not see because its batch had used up
`maxActionsPerBatch` (and those that were expired when the service started); `outdated` says
that a push has failed or an operator has changed a status since the worker last read the
provider's keys; `raced` that an operator has changed the very status whose write is under way.
`lastAction` is all that LatestSuccessfulAction can see of the log.
CPA is `offline` (auth files) and `routed` (the provider's keys). Database and CPA calls can
fail (`MaxFaults`), CPA's also after having done the work. `EditKey` stands for the
operators' writes to `status` and `expires_at_ms`; `UpdateConfig` toggles the master switch
in two steps. `Init` is the state after EnsureReady with the service enabled.

Left out: statistics queries, status counters and error texts, overrides of amounts per key
(`ProbedKeys` stands for the two `enabled` flags), several providers, the other fields of a
provider's section, failures to write the action log.

Fairness: the worker's goroutine never ends and its calls have timeouts (`WF`), its select
does not pass over the ticker for ever (`SF` for expireDueKeys), time passes.

### UsageQueue and UsageCollector

`UsageQueue` is the proxy's side: Publish appends to the manager's queue, the dispatcher
takes one record after the other and hands it to the queue plugin, which either offers it to
the subscribers' channels (`subs`, of `BufferCap` messages) or appends it to `items`;
entries older than `Retention` are pruned, and Home's forwarder pops a batch and puts it
back when its send fails. `UsageCollector` adds the runs: every Start makes a new one and
cancels the old one without waiting for it, so that two are at work. A run subscribes,
polls over HTTP or pops over RESP by its mode; what it holds is normalised, inserted and
then given to the probe service. Answers that are lost, inserts that fail, connections that
break, reloads and notices are drawn from `MaxEvents`. `lost` records the records given up at
the places where the code accepts it.

Fairness: the goroutines of the runs go on, since dialling, reading and polling have timeouts.
Nothing is assumed of the proxy's side, and no record need be published and no run started.

### AuthConductor

`auths` is Manager.auths, `sched` the scheduler's clones, `disk` the credential files and
`store` the saved cooldowns. Manager.mu covers only the change of the map: what follows it
in the code (scheduler, model registry, refresh loop, file, cooldown store) is the list
`proc[p].todo`, worked off step by step while other goroutines run. `Failed` and `Aggregated`
are applyAuthFailureState and updateAggregatedAvailability with their deadlines as numbers:
the ladder of a 429, a provider's hint of any length (`RetryAfter`), the escalation of a
Cloudflare challenge whether a window is open or not (`NextCloudflareCooldown`, at least
`ChallengeCooldown`), the long cooldowns of 401, 402, 403 and of an unsupported model (without a
model the latter is an ordinary failure), and a transient one that the setting may turn off
(`TransientCooldown = 0` stands for a negative setting). The field `skips` of a model's state is
history: the windows that challenges and hints have saved.
A restart loses everything but the files. `Live` and `Restored` are the checks under which a
saved record is put back.

### AuthRefresh

EXTENDS AuthConductor: its goroutines are requests that may refresh after a 401, and
workers. The loop (`loop`) drains the dirty set, pops what is due, decides, marks it pending
and sends it to the job channel. `refreshLocks` are the locks per credential. `spent` pairs a
credential with each of its tokens that a provider has replaced, `reverted` holds the
credentials whose replaced token was brought back by a stale Update or a crash, `dropped`
those the loop has taken off its heap for a 401 or a removal.

Fairness: the loop and the workers run, a provider answers, and a goroutine goes on with
what it has begun.

### WsRelay

A session has a reader (run and dispatch: a lookup, a send, a removal, each a step), one
cleanup (a Range over the map that may or may not meet an entry stored meanwhile, then the
reset of the map, the close of the connection and the callbacks) and a heartbeat. A request
goes through store, load, the look at `closed`, the write, and the loop of NonStream or
Stream; `req` holds its channel. Sends do not wait: a full channel drops the message
(`lost`). A send on a closed channel sets `crashed`, after which nothing happens. The
provider behind the websocket is external and may repeat its final message.

Fairness: goroutines go on, reads and writes have deadlines. Nothing is assumed of clients,
providers and operators.

### HomeLifetime

`sup` is where runHomeSubscriber stands, from GET and SUBSCRIBE over the probe to the lost
connection and through detach, close, settle, the decision whether the next lifetime may
take the membership over, drain and replacement, or drain, flush and the end. The registry
and the flusher appear with what `ExecutionRegistry` and `ReleaseAccounting` promise (Drain
and WaitPending return when nothing is left, or time out; a marked release is sent until it
is answered). `worker` is the configuration worker, which checks and publishes in two steps, and which
returns in a live lifetime when a configuration cannot be committed or applied
(`ConfigRefused`: invalid weights of credentials, a commit that another one has overtaken, a
pprof server that does not stop in 5 s): nothing starts it again before the connection is lost;
`CloseOnCancellation` is the goroutine that closes the client when the context ends during a
finalization, and which nobody waits for. A request carries the client and the registry of
the bundle it loaded (`req`), however late it goes on. Home is external: it starts from zero
without a takeover, refuses a takeover of a membership it has given up, may be of an older
version, and may or may not have acted when an answer is lost (`held`, `known`).

Fairness: the supervisor, the worker and the requests go on, since their calls have timeouts
and their waits bounds. Nothing is assumed of the length of an execution: a drain may always
time out. Nor is it assumed that a configuration can be applied: `Reconnects` exempts a
connected lifetime whose first configuration was refused (`Unapplied`), which publishes nothing
until its connection is lost.

Left out: the contents of configurations and plugins, forwarders of logs and usage, the
choice among the nodes of a Home cluster, answers of Home that contradict themselves
(which lead to AbortAmbiguousDispatch as well), dispatches without accounting, a
configuration without a lifecycle revision.

## Runs

| Run | Instance | States | Shows |
|---|---|---|---|
| `registry_shutdown` | 2 dispatches, 2 Drain callers (symmetric), Close, WaitPending, one group, sink replaced | 1,836,512 | NoLostWakeup; DrainCancelsAll; CloseLeavesNoResource; SinkCaughtUp; CopyMissesNothing |
| `registry_snapshot` | 2 dispatches, 2 barriers, 2 snapshots, Close | 1,066,340 | BarrierSound; SnapshotComplete |
| `registry_live` | 2 dispatches, Drain and Close, fairness | 76,062 | DrainReturns; CloseReturns |
| `flusher` | 1 group, 2 numbers, 1 failing send, 1 Flush, 2 timings, 2 lifetimes, fairness | 73,424 | NoTicketStranded; FlushComplete; ImplementsAccounting; TicketsComplete |
| `probe_policy` | 1 key, 3 events, 2 deliveries of up to 2 events over a queue of 1, limit 1, 1 failing call | 1,903,908 | ActsOnce; FailingKeyTakenOut |
| `probe_expiry` | 2 keys of a provider, a batch of up to 2 events, limit 1, renewal, 1 edit of a status (to -2) or an expiry, 1 failing call, clock to 2, fairness | 630,931 | RoutingFollowsStatus; ProtectedStays; DueKeysExpire |
| `usage` | 2 records, 2 runs, modes auto and RESP, channels of 1, 1 disturbance, fairness | 647,724 | NothingVanishes; SubscriberNeverPolls; CancelledRunEnds |
| `conductor` | 1 credential, 1 model or none, 2 goroutines (symmetric), 4 operations or crashes, results ok, 429, challenge and 429 with a hint, clock to 2 | 3,156,370 | CooldownsAreSaved; BackoffIsEarned; RemovedStaysRemoved; RestartKeepsCooldowns |
| `auto_refresh` | 1 credential, a request and a worker, 1 operation beside the loop, fairness | 164,708 | RefreshScheduled; RefreshTokenUsedOnce; DueIsRefreshed |
| `relay` | 1 session, 1 request, a channel of 2, up to 3 chunks, fairness | 484,667 | NoRequestStranded; ResponseIntact; CrashNeedsAnotherCloser; RequestsEnd |
| `home_lifetime` | 2 requests, 6 lifetimes, 3 failures, configurations refused, fairness | 594,428 | ExecutionsAreCounted; NoSlotLeaks; NoOrphans; PublishedIsCurrent; OrderlyEndReleasesAll; Reconnects; ShutdownEnds |

Why the bounds are enough. Registry: two dispatches make every pair of phases of two owners
meet every phase of the shutdown threads; two drainers and a closer make three parties want
the same resource; two barriers are the least for an observed but unpublished one to be
overtaken. Flusher: two numbers give a mark out of order and a mark between a send and its
answer, two timings a configuration that shrinks during a backoff; the proofs below remove
the bounds, several groups included. Probe: three events with two timestamps and thresholds
of 2 and 1 give runs that are completed, interrupted and completed by a late event, and a
batch of two under a limit of one leaves an event that the policies do not see, whose key they
must still take out at its next failure; rows of different keys meet only in the provider's
push, which `probe_expiry` covers with two keys, with a push that fails and is made up for by
a later one, and with an operator's -2 set between a read and its write.
Usage: two runs overlap, two records can be in any two places when the disturbance comes, and
a channel of one message fills up. Conductor: two goroutines
make every clone meet every other step, four operations reach a second window of the backoff,
a removal with a late Update and a restart after it; with all nine outcomes the same
properties hold (13.2 million states). Refresh: with two operations the safety properties
hold (1.9 million states). Relay: channels of requests are independent except for the
session's cleanup, which visits them one by one; three chunks overflow a channel of two
before the final message. Home: `MaxLives` is the number of failures and requests plus one,
the most lifetimes these can end, so that the bound never stops the supervisor.

Deadlock is checked for the registry; the other models may come to rest when their bounds
are used up.

## Findings

`probe_online_bug` (`RecoveredIsOnline`) ends in a counterexample, a sentence of the
repository that the code does not keep: with the default switches an account that was taken
offline is never brought online again. `applyCPAAccount` requires the latest logged action to
be `cpa_offline`, but the same event has just logged `priority_boost` or `status_recover`.

Seen while modelling, without a run of their own (TLC found the ones marked * as violations of
a property that is not part of the project, because the code does not keep it):

* Probe service. \* The worker overwrites a `-2` that an operator sets between the worker's
  read and its unconditional update (`probe/manager.go:442`); the batch path of
  `expireMatchedKey` does the same to a `-2` it has read, although the scan's query excludes
  it. \* Renewal gives an expiry time to keys that have none, which then expire (`:225`). \* A
  reload that overlaps `UpdateConfig` puts the old configuration back (`:119`).
  `maxActionsPerBatch` limits events that acted, not side effects (`types.go:28`); a status of
  `-1` is changed by successes, although the operations document calls it manual. Between a
  failed push and the next one that succeeds CPA routes by old statuses, and a lone failure
  beyond the limit of its batch leaves its key routed: nothing looks at either again.
* Usage. \* Every subscription begins with the notice `{"support_refresh":true}`
  (`redisqueue/queue.go:15`), and changes of credentials add `{"refresh":true}`: `NormalizeRaw`
  accepts any JSON object, so that each becomes a row of `usage_events` and a sample for the
  probe service (`collector.go:258`), while the documents call the table one of requests. A
  batch whose insert fails is gone; only malformed payloads reach `dead_letter_events`.
* Conductor. \* After a deletion, a clone published late by MarkResult or ResetQuota leaves the
  deleted credential in the scheduler. Two updates of a credential may write its file in the
  opposite order, and the file is truncated in place. A result on a disabled credential that
  is enabled before the next save leaves an unsaved cooldown. The registry's suspend and
  resume of two results may arrive in the opposite order.
* Refresh. \* A refresh stores the clone it took before it called the provider: a credential that
  an operator disabled meanwhile is enabled again, in the map and on disk
  (`conductor_refresh.go:499`; `types.go:66` calls the flag the operator's). \* A credential
  that is taken off the heap for a 401 and whose 401 is cleared by a later success or by
  ResetQuota is not looked at again before an Update or a restart. The unschedule of a Remove
  that arrives late drops a credential that has logged in again. An executor's Refresh is
  called without a timeout.
* Lifetimes. \* A lifetime whose first configuration cannot be applied stays connected and
  publishes nothing: no dispatch reaches Home until the connection is lost
  (`service_home.go:713-721`).
* Relay. A context that ends, or cleanup, can close a request's channel between dispatch's
  lookup and its send, and a send on a closed channel panics in a goroutine that nobody
  recovers (`session.go:109`, `:176`); `CrashNeedsAnotherCloser` states that nothing else does.
  A request's second load may find no entry, and its type assertion then panics (`:149`). A full
  channel drops chunks, and NonStream returns a body with a hole. The disconnect callback of
  a session can run before its connect callback.

## Proofs

The `*Proofs` modules hold for every set of groups, requests, sessions, keys, records,
credentials and goroutines and for every bound. They use only the named assumptions of the
modules they extend: constants are numbers of the right sign, model values are distinct and
no value of the set they stand outside of, finite sets are finite, an interval is positive and
not above the maximal backoff, which `timings()` enforces. In each module the properties are
not inductive by themselves; `IndInv` adds what they need, was checked by TLC before it was
proved, and is proved with a step per action.

* **Registry.** The invariant is `TypeOK`, the safety invariants of the runs and `IndInv`.
  The safety properties are not inductive: that Drain's copy misses nothing needs that
  nobody is inside a check-then-write section when it is taken and that nobody who enters
  one later finds the state accepting (`MutexInv`, `ShutInv`); that Close leaves nothing open
  needs that what is still open is in its copy (`CopyInv`); releases need the phase of every
  resource and number (`ResourceInv`, `NumberInv`), snapshots that the sequence kept for the
  last barrier covers the earlier ones (`BarrierInv`). `SafetyTheorem` is the invariance, one
  step per action; each property is a theorem of its own, the action properties
  `CopyMissesNothing` and `SnapshotComplete` too.
* **Flusher.** `IndInv` adds to the invariants that what a flush took is not above the highest
  mark and that an answer is one to a number Home received (`FlushInv`), that completed
  tickets are answered (`ClosedInv`) and that marks are never taken back (`TargetInv`). The
  theorems are the invariants, `DelayInBounds`, and `Refinement`: a mark is an Announce, a
  Complete or a stutter, a received frame a Learn or a stutter, an answer a Complete, and
  every other step a stutter.
* **Lifetimes.** `IndInv` has a part for each thing the supervisor keeps in order, and a lemma
  with a step per action for each part. A request that has loaded a bundle holds the client at
  hand or a fenced one (`LifeInv`); so one that has passed the fence belongs to the lifetime at
  hand, and none is left after WaitPending (`DispatchInv`). The worker is joined before the
  detach (`WorkerInv`), and the registry is shut by a Drain only (`ShutInv`). What makes
  `ExecutionsAreCounted` hold is `CountInv`: from the end of a lifetime to the next
  subscription either the membership will be taken over, or a drain comes first, or nothing
  runs and nothing can start to run (`Prepared`). `NoSlotLeaks` and `OrderlyEndReleasesAll` rest
  on `SlotInv`, which says whose every slot is. Replacing Settle, Join, Replace or Flushed by
  the mutant of it makes the step of that action fail.
* **Probe service.** `IndInv` adds what the worker has in hand at every place of processBatch
  (`HandsInv`), that an event the policies have seen has its row and is not seen again
  (`HandledInv`), that the status about to be overwritten is not a protected one unless the
  operator has just set it (`StatusInv`), and that the routes are the usable keys unless CPA is
  outdated or a push is due (`RoutedInv`). An outdated CPA is made up for by one push, because
  what is pushed is read anew each time. `FailingKeyTakenOut` needs more (`FailInv`): the worker's
  copy of a row is still the row (`MatchInv`), an expired key's account is or will be offline
  (`ExpiredInv`), the logged actions tell whether an account is offline (`LoggedInv`), and a run
  of failures of the threshold is acted upon or about to be (`TakenOutInv`). The heart is what
  one insert does to `CountConsecutive`, in whatever place of the order the new row comes.
  No length of a batch or limit is assumed. Events beyond `maxActionsPerBatch` are counted but
  not acted upon, so the property exempts a key whose last failure was such an event
  (`overlooked`) until the policies see its next failure, which must take it out whatever was
  overlooked before; and a key expired before the service started, whose account is not looked at.
* **Usage.** `NothingVanishes` is proved together with what the dispatcher, the forwarder and
  the runs have in hand (`HandsInv`, `RunInv`): a record that leaves one place is in the next,
  or in `lost`. `SubscriberInv` keeps a run that has subscribed on the way around its
  subscription, which is `SubscriberNeverPolls`.
* **Relay.** `PendingInv` says which requests are in the map, `RangeInv` what the Range of
  cleanup has visited and must still visit, `ReaderInv` what dispatch may rely on between
  its lookup and its send. With them a request that waits is in the map or has been told
  (`NoRequestStranded`). `ResponseIntact` rests on `FlowInv`: as long as nothing was dropped,
  what the caller has read, followed by what is in the channel and what the provider has not
  sent, is the response. `CrashNeedsAnotherCloser` is inductive with these parts.
* **Conductor.** `HandsInv` says that a goroutine has what the steps before it need and that
  its list of steps ends where the code's does, `MutexInv` that only the holder of
  configCooldownMu saves, `RecordsInv` that a credential has one record per model. The saves
  rest on `SavedInv`: a cooldown is in the store, or in what the goroutine that saves is about
  to write, or a save is still to begin. `BackoffIsEarned` has an invariant of its own,
  `EarnedInv`: a level is earned, or will be when its window ends, in the map, in saved and in
  loaded records and in the clone an operator edits. A challenge climbs inside an open window,
  and a hint shorter than the window replaces it but keeps the level, so that the next failure
  climbs early: each of the two saves one window (`skips`), and the theorem says that nothing
  else does, for hints and settings of every length. Powers of two are
  the function `Pow2`; that its recursive definition defines it is proved by well-founded
  induction on sets of numbers, from the least counterexample.

* **Refreshes.** `RIndInv` is the conductor's invariant with what the refreshes add to it. A
  step of the conductor's is proved once, in the form `Leaves`: it neither takes nor frees the
  lock of a credential, and a reschedule its goroutine had ahead is done or still ahead; from
  this alone follow all the parts (`AsideKeeps`). The loop moves no goroutine (`LoopKeeps`),
  and a goroutine that refreshes moves nobody else (`RefreshKeeps`). The parts: who is between
  the lock and its release holds the lock, and releases it once, as its last step or, for a
  worker, the last but one (`LocksInv`, `UnlocksInv`); a worker ends by asking for a new look
  at its credential (`WorkersInv`); every credential of the map is in the heap, in hand or
  dropped, whether it can be refreshed at present or not (`ScheduledInv`); a spent token is in
  the map only while the goroutine that replaced it has still to store the new one
  (`SpentInv`). `RefreshTokenUsedOnce` follows: only LockRefresh leads to the provider
  (`AskedUnderLock`), it needs the lock free, and a spent token in the map means that its
  replacer holds it. The conductor's safety properties are proved of the composition again,
  but for `BackoffIsEarned`.

Some theorems state properties that no run lists, because they are proved outright: the
`TypeOK`s, the invariances, the conductor's properties in AuthRefresh, `DrainedIsEmpty`, `ReleasesCounted`, `ReleaseAfterClose`,
`AckedIsReceived` and `DelayInBounds`.

Only model-checked: the liveness properties, since TLAPS does not handle fairness and
`ENABLED`. Every invariant and every action property of the runs has a theorem. The provers
accept no `RECURSIVE` operators, and the modules use none.

## Not modelled

Translators, executors and vendor protocols (conversion of documents; by far the largest part
of the source), the front end, HTTP handlers and SQL pages (formatting and queries), the
plugin host (foreign code), logging, the terminal interface and the examples. The Home
protocol itself is external. What is modelled is the code in which goroutines, files and
remote services interleave, a small share of all lines.

In the modelled parts these are left out or coarser than the code:

* Registry. A second caller of Close, which waits for the first (`registry.go:425-433`); Bind's
  errors for a scope that is bound already or no longer active (`:268-283`): an owner binds once.
* Flusher. `flusher` has one caller of Flush, so the drop of a second one's context while the
  force channel is full (`concurrency_release.go:236-245`) happens in the proofs only, which
  hold for every set of callers; `FlushComplete` says what a Flush that returned nil has
  brought to Home, not that it returns, which is what the dropped context may delay.
* Usage. SetEnabled switches the queue and clears it in two steps (`redisqueue/queue.go:43-53`),
  here in one.
* Conductor. Edits change the disabled switch only; Register is a login of an absent
  credential, while the code's overwrites a present one, and the watcher registers as well.
* Refresh. An executor's Refresh returns. A refresh that fails has not spent its token: an
  answer of the provider that was lost after the token was consumed
  (`conductor_refresh.go:452-477`) is not modelled.
* Relay. The removal of a pending request and the close of its channel are one step
  (`session.go:151-161`), as are the send and the close of the cleanup (`:175-179`); Stream
  passes messages on to its caller without waiting for a slow one (`http.go:132-137`).

## Plan

1. **InFlightPublisher** over FreezeInFlight: revisions never go back, a barrier is
   eventually published.
2. **ModelRegistry**: reference counts per client return to zero, suspensions follow the
   conductor's cooldowns; then the late suspend and resume of AuthConductor in composition.
3. **Watcher**: debounce and dispatch of file events in front of the conductor's Register,
   Update and Remove.
4. Theorems: `BackoffIsEarned` with the refreshes, for which the clone a refresh carries has to
   be in `EarnedInv`.
