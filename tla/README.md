# qmt-rpyc: TLA+ verification project

qmt-rpyc is a server that makes the MiniQMT/xtquant SDK, or a BigQMT strategy
reached over named pipes, available to RPyC clients: market data, a persistent
cache of it, downloads, orders. This project models the parts of it that run
concurrently or have to survive failures, checks the models with TLC on small
instances, and proves the most important results with TLAPS for every value of
the constants. Source paths below are relative to `src/src/qmt_rpyc/`.

Contents: 1 inventory, 2 hard behaviours, 3 plan, 4 modules and how they
correspond to the code, 5 runs, bounds and what they show, 6 fairness,
7 proofs, 8 disagreements found, 9 what is not modelled.

## 1. Inventory

| component | source | state it keeps | operations |
|---|---|---|---|
| xtquant connection manager | `adapters/xtquant_2_0_6_1/connection.py` | trader object, connected flag, generation counter, reconnect worker, heartbeat, stop event, native lock per trader | start, probe, stop, reconnect loop, heartbeat check, on_disconnected, call_trader_method |
| download task manager | `server/downloads.py`, `server/download_service.py` | table of tasks (bounded), table of futures, accepting flag, executor | submit, get_task, run, progress, done callback, fail_pending, shutdown |
| request gate and orderly stop | `server/draining.py`, `server/managed.py`, `server/managed_protocol.py` | draining, active requests, reply leases, stop lock, closing | admit, reply, drain, undo_drain, handle("stop") |
| request dispatch and RPC service | `server/dispatch.py`, `server/service.py`, `server/main.py` | RPyC server, connected clients | dispatch of one request, start and end of the process |
| BigQMT bridge queue and strategy | `adapters/bigqmt/bridge_queue.py`, `bridge_runtime.py`, `bridge_trading.py`, `strategy.py` | bounded queue of tickets, closed flag, instance id, used markers | submit, claim, finish, pump, execute a trading command, start, stop |
| BigQMT pipe transport and trading adapter | `adapters/bigqmt/transport.py`, `winpipe.py`, `trading.py` | believed instance, slots, LIFO pool of persistent clients, channels | request, exchange, one retry of an unsent write, accept/read/reply per channel, reconciliation of a submitted order with the order list |
| BigQMT connection health loop | `adapters/bigqmt/connection.py` | health thread, failures in a row, last error | start, ping and adoption of the instance that answered, end after `max_attempts` failures, stop |
| BigQMT discovery cache | `adapters/bigqmt/cache.py` | bounded values with an age, loads in flight, generation | get (a hit, a load, or the wait for another caller's load of the same key), clear |
| persistent coverage and repository | `storage/repository.py`, `coverage.py`, `policy.py` | SQLite tables of rows, coverage intervals, state | prepare, read, write with splitting of coverage, invalidation |
| read-through storage service | `storage/service.py`, `concurrency.py`, `providers.py` | partition locks; otherwise the repository | calendar, range read, historical write, details, tail refresh, derived daily bars |
| adjustment and suspension filling | `storage/adjustment.py` | none | pure functions over bars and factors |
| event bus | `adapters/xtquant_2_0_6_1/events.py` | bounded queue per subscription, count of dropped events | publish, drain, subscribe, unsubscribe |
| process control | `cli/processes.py`, `cli/server.py` | `command.lock`, `instance.lock`, `process.json`, control port, child process | start in the background or the foreground, stop, restart, status |
| software update | `cli/update.py` | installed package, the worker process on Windows | prepare and download, stop, install, verify; nothing is rolled back, and the server stays stopped |
| client calls and download handle | `client/client.py`, `client/downloads.py`, `transport/messages.py` | closed flag; nothing else | negotiate, invoke, poll and wait for a download |
| bounded batch reads | `adapters/batch.py` | a pool of threads per call | one result per security in the order of the request, or the error that fails the batch |
| authentication | `transport/auth.py`, `server/auth_limiter.py` | failure counters | left out |
| contracts and codec | `contracts/`, `transport/codec.py` | none | declarations, validation and conversion |
| provider adapters | `adapters/*/market.py`, `financials.py`, `reference.py`, ... | none | conversion of vendor results |
| configuration, environment, logging | `config.py`, `server/config.py`, `server/environment.py` | files | reading and writing them |
| debug interfaces, documentation | `client/debug.py`, `contracts/documentation.py` | none | pass-through, generated text |
| command-line clients | `cli/client.py`, `cli/api_help.py` | none | parsing and printing |

How they interact:

- A request of an RPyC client takes a reply lease and passes the request gate,
  is dispatched to a provider (storage service, adapter, download service), and
  gives the gate back; the lease ends when RPyC has written the reply.
- The storage service answers from the repository and asks the adapter's source
  only for the gaps. The xtquant adapter reaches the SDK through the connection
  manager; the BigQMT adapter sends a request over the pipe transport to the
  strategy, which runs it on QMT's own thread.
- The connection manager publishes connection events on the event bus and is
  called back by SDK threads.
- The stop command, sent by another process over the control channel, drains the
  gate and asks the download manager whether it is idle before it closes the
  server.
- `start`, `stop`, `restart`, `status` and `update` are processes of their own; they
  meet each other at `command.lock`, and the server at `instance.lock`,
  `process.json` and the control channel.
- The health loop and the callers of the discovery and of batch reads share the
  transport's belief about the running instance.

What makes each correct, in one line:

- connection manager: a lost connection is always being recovered by exactly one
  worker, a late success never hides a newer loss, nothing survives `stop`;
- downloads: every task ends with the outcome of its own SDK call or without
  ever having been executed, whatever is cancelled or forgotten meanwhile;
- orderly stop: what was accepted is finished and answered, or the gate opens
  again;
- BigQMT bridge: a mutation is executed at most once, where it was addressed to,
  and the caller is never told "not executed" of something that was, or may
  still be, executed;
- storage: coverage never claims what the rows do not hold, a failed refresh
  leaves the old answer, today's row never becomes history;
- discovery and batches: an answer is of one strategy instance, and is whole;
- process control: software is replaced only while nothing runs that a command still
  answers for, and a server that serves can be found and told to stop.

## 2. Hard behaviours

- threads that meet at locks held only for part of an operation: generation
  counters and identity checks decide what a late thread may still do
  (connection manager, download manager, bridge tickets);
- native calls that hang, traders abandoned while a thread is inside them, and
  traders taken away under a lock but used after it was released;
- callbacks that arrive before the code that registers them has gone on
  (download futures, SDK disconnects during `connect`);
- a reply that is lost after the order was placed, a request sent twice because
  the first write is known not to have left, a strategy restarted in between;
- a drain that polls two subsystems that start work in each other;
- midnight, which may fall into a query, the source call it makes, or its wait for
  a lock;
- a strategy restarted between the reads of one answer;
- several processes (start, stop, update) that look at the same files, and may be
  killed between any two steps, while the server or the pip process they started
  lives on.

`PROJECT.json` lists each at the line where it bites, with the properties that
cover it; one has none, a native call that never returns (`connection.py:324`).
One more is harmless and has no property: a worker that outlives `stop()` may
write `_connection_state` after `stop()` has set it (`connection.py:592`).

## 3. Plan

The modules, in the order of what matters most to users of the server. All of
them are written; section 9 says what stays outside, and why.

1. `TraderConnection`: the xtquant connection manager.
2. `TaskLife` (abstract) and `DownloadTasks` (detailed): a task's life and the
   manager that implements it. `DownloadHandle` extends it by the clients that
   wait for a download.
3. `Maintenance`: request gate, stop command and the end of the server, composed
   with `TaskLife` for the downloads. `ClientCalls` extends it by the clients'
   side of a mutation, and implements `MutationCall` for it.
4. `MutationCall` (abstract) and `Bridge` (detailed): what an order or a
   cancellation may count on, and the transport, queue and strategy that
   implement it. `OrderSubmit` extends it by the order list and the reconciliation
   of a submitted order.
5. `ProvenDays` (abstract) and `Repository` (detailed): tables, transactions and
   coverage algebra. `PartitionLocks`: the per-key locks. `PersistentData`: the
   queries, from `QueryTime` (clock and locks), `DailyBars` (bars, dividends,
   calendar) and `Collections` (what is stored whole).
6. `DiscoveryCache`, `OptionDiscovery` (the cache's users beside the health loop and
   strategy restarts) and `BatchReads` (the pool of a batch over the same
   transport). `SourceReads` puts them beside `PartitionLocks`: what a thread of
   the storage service may wait for.
7. `ProcessControl`: lock files, state file, launch, stop, restart, update.

## 4. Modules and the code

Every section under a lock of the code is one action, and so is every call that
leaves the program (SDK, executor, pipe, operating system). A local variable that
is used after a lock was given up is a variable of the model. Constants named
`None` (`Nothing` in the modules of the discovery) stand for Python's None.

The operators with the comment `mutant:` stand beside the definition whose body
they can replace. Each describes a plausible slip in the code, and the property
named with it in `PROJECT.json` is then violated. No action uses them.

### TraderConnection (`connection.py`)

Threads: `Workers` run `_connection_worker`; `Hb` the heartbeat; each trader
object stands for the SDK thread that calls its `on_disconnected`; `Callers` are
inside `call_trader_method`; `Main` calls `start()` or `probe()` and then
`stop()`. Worker and trader identities are used again, so the model describes any
number of them. `pc` is the next section of each thread and `held` the trader it
keeps in a local.

| variable | attribute |
|---|---|
| `trader`, `connected`, `connectionState` | `_trader`, `_connected`, `_connection_state` (`waiting_retry` and `connecting` are one value, `trying`) |
| `attempts`, `failures` | `_reconnect_attempts`, `_heartbeat_failures` |
| `reconnectThread`, `stopEvent` | `_reconnect_thread`, `_stop_event` |
| `unbroken` | the comparison of a thread's copy of `_disconnect_generation` with the attribute: threads for which it is still equal. The counter itself never wraps and is only compared, so the set says all of it |
| `nativeLock` | the lock each trader carries; a heartbeat check that hangs keeps it |
| `announced` | the last connection event on the event bus |
| `qmt`, `native`, `session` | the environment: QMT, and what has become of each trader object in the SDK |

`CreateTrader` to `Commit` are the sections of `connect()`; the worker and
`probe()` share them. A trader is taken from `_trader` in one section and asked to
stop in the next, without the lock (`StopTrader`, `connection.py:237-244` and the two
other callers of `_stop_trader`); a worker that outlived the joins of `stop()` may
make another trader in between. A business call looks a second time under the
lock (`CallLooks`) and enters the SDK after releasing it (`CallEnters`,
`connection.py:689-707`); its trader may be lost in between. `disowned` (traders whose
loss was accepted) and `overtaken` (calls whose trader was lost or replaced, or which
`stop()` overtook, while they waited for the native lock) are history, for the properties
only. `QmtDown` loses all open sessions and tells any subset of
the traders. Left out: wrapping of account arguments, order events, counters of
the health text.

### DownloadTasks and TaskLife (`downloads.py`)

`submitter[t]` and `worker[t]` are the steps of `submit()` and of `_run_*` for
task `t`; `future` and `callback` are the executor's side. The executor takes
queued work in any order, which includes its FIFO queue. `fail_pending` has no
caller in the sources except the tests; the manager offers it for the loss of the
connection, so it may be called `FailPendings` times at any moment. `submit`
stamps a task with `datetime.now()` and eviction sorts by it: in the runs `Clock`
has one value, so that all stamps tie and every order of eviction is possible. The
theorems hold for any clock.

`TaskLife` is what clients and the drain rely on: none, pending, running, an
outcome, gone; executed once, between pending and the outcome. Several tasks may
end and be forgotten in one step (`Prune`).

### DownloadHandle (`client/downloads.py`)

`handle[t]` is what `wait()` has told the client of task `t`, or that it is waiting.
A poll reads the task as `get_task` does; `Status` is TASK_NOT_FOUND for a task
that is not in the table. A deadline may have passed at any poll, and the client
may wait again afterwards.

### Maintenance (`draining.py`, `managed.py`, `managed_protocol.py`, `dispatch.py`, `main.py`)

`phase[r]` follows a request from its reply lease through the gate, its operation
and its reply; `active` and `replies` are the holders the gate counts. `stop[s]`
is the step of the stop command `s`; `answer[s]` what it was told. The drain's
two conditions are read as the code reads them: under the condition variable the
active requests and leases, with a poll of the downloads and a second look.
Downloads take the steps of `TaskLife`; only an admitted request starts one. A
request may be refused while the gate is shut; its reply is written all the same.

### ClientCalls (`messages.py`, `dispatch.py`)

The requests of `Mutations` are orders, cancellations and downloads. `runs` counts
how often the operation was begun in QMT (or its task entered), `reply` is the
outcome the dispatcher reports, `told` what `invoke` told its caller. `OutcomeOf` is
the dispatcher's mapping of what the handler ended with in the phase it is in:
once the provider was called, nothing is reported as not executed. The handler
may go on after its outcome was given up as unknown (`CallQmt`). A reply may be
lost, late or unreadable at any moment (`GiveUp`), and what was sent may arrive
after its caller has given up. `Promise` is `MutationCall`, implemented here as it
is by `Bridge` one layer below.

### Bridge and MutationCall (`transport.py`, `winpipe.py`, `bridge_queue.py`, `bridge_trading.py`, `strategy.py`)

`Begin` to `Receive` are `PipeTransport.request` and `PipeClient`; `Accept` to
`Recreate` a `PipeChannel` on the strategy's side; `Submit` the queue;
`Take` to `Return` the strategy thread: take a ticket, claim it, check the
command, call the native function, finish the ticket. `Start`, `Stop` and `Crash`
are the life of the strategy; a new start is a new instance with an empty queue.

- Time is abstract: a deadline may have passed whenever the code looks at it.
- The pool is a set and so is the queue: LIFO and FIFO are among the orders.
- A reply is the name of its request, `response` and `origin` are its content.
  "gone" stands for STALE_INSTANCE and STOPPED, "unknown" for the failures after
  which the caller cannot know (EXPIRED, OVERLOADED, SOURCE_ERROR).
- A write that fails has sent nothing: `Resend` is guarded by it. This is what
  `winpipe.py` (31-32, 361-363) assumes of `WriteFile` when it raises
  `PipeWriteError`; the model takes it over from there. A write that is cut short
  or whose reply is lost is never sent again, and the model has both.
- Data the other end has not read when a handle is closed may be lost or may still
  be read (`CloseClient`).
- Channels move only while the strategy thread is at no command: the pump runs
  them on the same thread. The pump's budget per call is left out.
- Markers (`correlation_ref`) belong to one instance; the documentation promises
  no idempotency beyond it (`contracts/documentation.py:143`).

`MutationCall` has two steps per request, `Run` and `Tell`. `MutationRuns` and
`MutationTold` are the refinement mapping.

### OrderSubmit (`trading.py`)

`rows` is the account's order list. QMT lists an order late (`ListOrder`): a row of
its own signal, perhaps refused, then a row of the broker, perhaps rejected.
`CheckOrder` is the check of the strategy before the native call: no row may carry
the marker yet; `before` is the list it found. `Look` is one look of
`submit_order` at the list: rows that were there before the call, or two rows of
the broker with one marker, leave the outcome unknown; otherwise the row of the
broker counts, and a signal only if it was refused and stands alone. An instance
of the strategy knows the markers of its own orders only, so an order placed under
the same marker by another instance (`PlacedElsewhere`) is the one order a caller
can be told of that is not its own: `AnswersOwnOrder` says that it is no other.

### Repository and ProvenDays (`repository.py`, `coverage.py`)

One entity in one dataset with its partitions: a plain one, or the two date bases
of a financial table. `stored` and `work` hold the three tables `cache_coverage`,
rows and `cache_state` as committed and as the open transaction sees them;
SQLite lets one transaction write at a time (`BEGIN IMMEDIATE`). `ApplyWrite` is
`_write` as a whole, `Commit` and `Rollback` are the two ends of `write`; a row
outside its interval, a value that cannot be encoded, an error of SQLite and the
end of the process are all `Rollback`.

- Days are numbers from 1 (FULL_START) to `LastDay` (FULL_END). A row is named by
  the generation of its write, its day and its position in the day.
- `Requests` are writes of any shape; `Asked` says which of them the services make:
  financial reports withdraw the coverage of their table, and a state comes only
  with the whole range (`snapshot`, `details`, events of a dividend query that is
  open on both sides).
- The freshness policy only decides which stamps a reader accepts. Readers are
  checked for every set of accepted generations.
- `Gaps` and `CoveredSuffix` are the loops of the code as folds over the sorted
  intervals (`Sorted` says what `sorted()` returns and leaves out how);
  `MissingIsAskedFor` compares them with the sets of days they stand for.

`ProvenDays` says what a reader of coverage and rows may rely on: for every day no
proof, or the rows of one write. `View` is the refinement mapping.

### PartitionLocks (`concurrency.py`, `service.py`)

`entries` is `_entries`, `owner` says who has each lock object, `at[t][k]` is the
place of thread `t` in `hold(k)`. A lock object nobody refers to may be the next
fresh one, as memory is used again. `Plans` are the sets of keys the queries hold:
the sorted codes of `details`, one security (`batch`, `dividends`), a calendar
(`trading_dates`; the keys of `snapshot` behave alike), or a calendar within a
security, any number of times. A batch runs its codes on threads of its own, so
no thread holds a key twice and the reentrancy of the locks is never used.

### DiscoveryCache and OptionDiscovery (`cache.py`, `connection.py`, `options.py`, `instruments.py`, `reader.py`)

`values`, `pending` and `generation` are the attributes of the cache, the values in
their order of use (the least recently used has rank 1 and is evicted first); a
flight is named by its leader, and `get[c]` is the place of caller `c` in `get()`: it has a hit,
leads a load, or waits for the future of a leader. Any value may have expired at
any `get`. Each step of `get` under the lock is one action, and `set_result` and the
end of the flight are two more.

`OptionDiscovery` adds who loads: `my[c]` is a query for a chain (through the
cache), for expiry dates (past the cache), or for the list of underlyings (a read,
then the candidates of each, with a check of the instance around it all). Each
read is addressed to the instance the transport believes in, and answered only by
that instance; `health` is the loop that pings, adopts the instance that
answered, and gives up after `MaxAttempts` failures in a row (a strategy that runs may
answer a ping with an error, which drops the believed instance or leaves it); `Restart`
ends the strategy or starts the next one. A value is what its load read: from which
instances, and after how many clears.

### BatchReads (`batch.py` and its users)

`batch` is the caller with the read it makes once for all securities, where the
operation has one (`contracts`, `ticks`); `item[i]` is the read of one security in the
pool. Items are begun in order and at most `Workers` are read at a time. A lost
bridge (NOT_CONNECTED, API_UNAVAILABLE) is raised for the whole batch once its
turn comes in the order of results, any other failure becomes the result of
its security; the pool is left when its threads are done.

### SourceReads (`providers.py`)

The three above and `PartitionLocks` in one specification. A thread that has a
partition lock never waits for a flight, because only chains go through the
cache and they take no lock; so the parts share no variable, and `Traffic` says which
of them move in a run.

### QueryTime, DailyBars, Collections, PersistentData (`service.py`, `providers.py`, `storage_evidence.py`, `adjustment.py`)

`QueryTime` has the clock, the locks of a security, of the calendar and of the two
lists, each held by one thread (which `PartitionLocks` shows of `hold`), the
step `at[t]` of each thread and the two default policies, "forever" and "day".

`DailyBars` follows a query for bars from the listing dates and the dividend events
through the split into history and tail, the gaps that are read from the source,
the proofs of what may be stored (a closed day, a window of which the source
vouches), the tail that is answered but stored only up to the last closed day, to
the answer: raw, adjusted (`Adjusted` and `Formulas`: which events apply to which
bar) and filled (`Filled`: which days of the calendar get a suspended bar), or the
source's own adjusted bars where they cannot be derived. `my[t]` holds the locals,
`store` the three datasets day by day, as `ProvenDays` promises of `Repository`.
The calendar is queried on its own and from within a query for bars, under its own
lock, with the clock of the outer query. A query for dividends holds the lock of
its security, as a query for bars does. The writes a query has staged are
accumulated as the one write they amount to (`Following`): the days whose rows it
replaces, the days whose proof it brings and those whose proof it withdraws.

A bar is 1 while its day is open and 2 once it is final; an adjusted price is the
set of the events applied. `Download` fills in a missing bar of the source, `Announce`
adds an event, `Tick` is midnight; `morning` remembers the events known when the day
began, for the property only. The store begins empty, or with what an earlier
process had proven. A source call or a write of SQLite may fail `MaxFaults` times;
a failed write leaves the answer as it is. The condition "once its day is over the
bar is final" is about QMT, not about this code.

`Collections` are the queries whose answer is stored whole: details, underlyings,
expiry dates and the two views of financial reports. A value is the instant at
which the source returned it; a refresh of one view of the reports withdraws
the other. Views are kept for ever, so nothing is claimed of their age. The date that
labels the answer of `expiry_dates` (`storage/service.py:160`) is read before the lock, and
may be of the day before its content; it is not modelled.

### ProcessControl (`processes.py`, `cli/server.py`, `update.py`, `managed.py`)

`at[c]` is the step of the management command `c`, `srv[s]` that of the server process
`s`. Both lock files are tried, never awaited; `running()` takes `instance.lock` for
a moment (`Probe`, `NotRunning`) and finds it taken by a server or by another
probe (`IsRunning`). `record` is the server that wrote `process.json`, which nobody
deletes; `seen`, `saved` and `child` are the locals of `request`, `restart` and `launch`.
A background server is launched by a command that holds `command.lock` until it is
ready; a foreground server holds that lock itself until its control channel is
open. `Kill` ends a command and `Exit` a server at any step; the locks go with the
process, the files stay, and so do the processes a command has started: its server,
and the `pip install` of an update (`replacing`; `update.py:34`, `153`), which an interrupt
ends but a hard kill leaves running without `command.lock` until it is done
(`PipEnds`). On Windows the update runs in a worker that takes the
lock before its parent ends (`Schedule`, `AwaitWorker`, `AwaitParent`). A stop that
is accepted drains first, which is `Maintenance`; here it is accepted or refused.
`conf` says with whose configuration a server was started: its own, which stands for a
new one given on the command line, or the one a restart has read. A restart with
`--config` (`cli/server.py:375`) is the kind `reconfigure`. `Orphans` are servers whose start
command has given up on them or was killed, `victim` remembers the server that
accepted a stop, for the properties only.

## 5. Runs

Times are for two workers on four cores. Deadlock is checked in the runs of
`TraderConnection`, whose threads never all stop while QMT can still go up and
down; the other systems end (all calls answered, process finished, all
writes made), so their runs allow it. That nobody waits in a circle is an
invariant of `source_reads` instead (`QueriesMove`).

| run | instance | what it shows |
|---|---|---|
| `trader_safety` | 2 workers, 1 caller, 2 traders, 1 attempt, 1 heartbeat failure; `start()` or `probe()`, and `stop()` (14.9M states, 3 min) | no reconnect is lost, no accepted disconnect is overwritten by a late success, a second live trader exists only between the two steps in which `stop()` takes the first and asks it to stop, unpublished, although callbacks start workers beside a probe; nothing returns after `stop()`, subscribers know of a connection (not of every loss: the heartbeat announces none), a call that was overtaken while parked at the native lock is refused by its second look |
| `trader_liveness` | 1 worker, 2 traders, unlimited attempts, 2 heartbeat failures | silent losses are noticed, the manager recovers once QMT stays up, `stop()` ends every thread |
| `trader_probe_retries` | 2 workers, 2 traders, `probe()`, unlimited attempts | violated: see section 8 |
| `downloads` | 2 tasks, 2 workers, table of 1, one `fail_pending`, shutdown, a client per task | outcomes are those of the calls; what a waiting client is told is true, also of a task that was pruned; the manager implements `TaskLife`; every task that was entered settles |
| `maintenance_stop` | 2 requests, one of them a mutation, 2 stop commands, 1 download, an interrupt (1M states, 2 min) | nothing accepted is left when the server is to close, replies are written, the gate is shut while a drain is under way or has succeeded and at no other time, stop commands are answered although anything may hang; what clients are told of a mutation implements `MutationCall` |
| `maintenance_answer` | 2 requests, 2 stop commands, 2 downloads | violated: see section 8 |
| `bridge_restart` | 2 heartbeats, 1 cancellation, 2 clients and pipes, queue of 1, 2 instances | the promise of `MutationCall` through stops, crashes and a restart; requests run where they were addressed; a failure invalidates only the instance it saw |
| `bridge_orders` | 1 heartbeat, 2 submissions with one marker, 3 clients and pipes, queue of 2, 1 instance | one order per marker and instance; every reply read on a shared connection is the reader's own; who is told of an order is told of its own |
| `repository_safety` | 3 days, 1 row a day, 3 writes | proven days show the rows of their proof, a state vouches for the whole range, what is missing is asked for, and the tables implement `ProvenDays` |
| `source_reads` | queries: 3 threads, 2 securities, a calendar, 4 lock objects; discovery: 2 callers, cache of 1, 1 clear, 2 instances, 1 failure, 2 attempts of the health loop; batch: 3 securities, 2 threads (6.3M states, 2 min) | no key is held twice although locks are dropped and made anew; nobody waits in a circle for locks or flights; a discovery is of one instance, also through the cache, and not older than a clear it came after; a batch is answered whole or raised for a lost bridge, and leaves no read behind |
| `process_control` | 3 commands of any kind, 2 servers, kills at any step (7.0M states, 2 min) | software is replaced only while nothing runs but a server its start has given up, and the pip process of an update that was killed; a server that serves is the one in `process.json`; a restart without `--config` keeps the configuration of the server it stopped, unless that server's own start had given up on it; a start that reports readiness reports its own server |
| `persistent_data` | 2 threads, 1 midnight, 4 days with 3 sessions, 1 day of events, 5 kinds of queries for bars, 1 failure; bars with dates, or lists alone (3.7M states, 2 min) | what is stored as proven is final and complete; an answer has every bar the source had when it was asked; prices are adjusted with the events of the day, lists and details (not the views of financial reports) are not older than the day they were asked for |

Why these bounds are enough to be worth something: two workers or two traders are
needed for a late thread to meet its successor, and a third would meet the same
states, since `_reconnect_thread` names one. One attempt lets a worker give up
and another be asked for; the loop itself is in `trader_liveness`. Two tasks
on two workers with a table of one let a task be evicted while another runs; the
proofs are for any number. Two stop commands are needed for one to overtake the other. Two clients are the least for
which heartbeat and business requests have a slot each, three the least for which
two business requests meet; two instances are one restart. Two submissions that
share a marker are the least for one to see the other's rows. Three days are the
least for a write in the middle that leaves a tail on both sides, and three writes
let the third meet a tail of the first; one row a day is enough for a day to have
a row or none. Three threads let one come for a key while one leaves it and one
waits. Two callers and two instances let a follower wait for a leader of a
bridge that is gone, and a cache of one lets a value be evicted; three items in a pool
of two let one be begun after another has failed. Three commands let an update
meet a restart and a probe; two servers let one come up late beside the next. Four
days, one of them no session and one today, have a gap, a boundary
and a tail, before midnight and after it. The theorems of section 7
have no bounds.

A third request or a second download of `maintenance_stop` adds nothing new: one
request may start a download while the other meets the shut gate, and the safety
properties of the gate are proved for any numbers. Read requests of the bridge
(`Reads`) take the same steps as the other requests, with the guard of mutations
on the instance and the failures of heartbeats; the runs have none, the theorems
cover them.

Bounds that are in the guards of the models: `AttemptCap` (attempts are counted
up to it; it is at least `MaxAttempts`), `FailPendings`, `MaxInstance`,
`MaxGeneration` (writes ever made) and `MaxRows` (rows of a day in one write),
`MaxClears`, `MaxInstances`, `MaxFailures` (requests that fail although the strategy
is up), `LastClock`, `LastDay`, `MaxFaults` and `Traffic` (what comes at the same time).
Each request, task, stop command, management command and server process is made
once; queries of a thread of `PersistentData` too. `heartbeat_failures` is bounded by
`MaxFailures` in the code.

Symmetry is used in safety runs only, for identities the modules never compare
other than by equality: workers and traders, clients and pipes, callers of the
discovery, commands and servers. `bridge_orders` shares a marker between the
submissions and declares no symmetry among them.

## 6. Fairness

- `TraderConnection`: each worker, the heartbeat, the callback threads and the
  rest of `stop()` are threads of the process and are scheduled; the native
  `connect` and `subscribe` return. Nothing is assumed of business calls, of a
  check thread that hangs (the heartbeat abandons it after its timeout), of QMT,
  or of when `start()` and `stop()` are called. `Recovery` assumes in its own
  statement that QMT stays up from some time on.
- `DownloadTasks`: a `submit()` or `shutdown()` that was begun goes on, executor
  threads are scheduled, and SDK downloads return. Nothing makes a client submit
  or the server shut down. In the run of `downloads` (`HandleFairSpec`) clients also
  go on polling, which no property rests on.
- `Maintenance` and `ClientCalls`: stop commands, the closing thread and the main
  thread are scheduled and a wait with a timeout ends (`StopStep`, `ProcessStep`).
  Requests, operations and downloads may hang for ever.
- The other modules promise nothing that must happen in time: their calls have
  deadlines, after which the answer is a failure, and no fairness is stated.

All of it is weak fairness, in `TraderConnection` of the steps that move a thread's `pc`
(any other step of a thread changes nothing). A thread that waits for a lock is modelled by the
action that takes it, and no lock section of these parts blocks inside.

## 7. Proofs

`tlapm` checks every proof from nothing. Constants are arbitrary up to the named
assumptions (`ThreadAssumption`, `BoundAssumption`, `NoneAssumption`,
`BridgeAssumption`, `RepositoryAssumption`, `LocksAssumption`, `CacheAssumption`,
`DiscoveryAssumption`, `BatchAssumption`, `TimeAssumption`, `DaysAssumption`,
`QueriesAssumption`, `ListsAssumption`, `ThreadsAssumption`): identities of
different kinds are different, bounds are numbers, queries are what the contracts
admit; `Tasks`, `Requests`, `Stops`,
`Commands` and `Servers` may be infinite.

The proofs are laid out alike. A lemma for each action (or group of actions that
change the same variables) says what the action does to the conjuncts of the
invariant it can disturb; frame lemmas say of the rest that it depends on
variables that did not change. The steps of `Next` are split once, at the end.

`TraderConnectionProofs`. `TypeInv` adds to `TypeOK` that a thread holds a trader
at the steps that use one (`HeldOK`; `TypeCorrect` states both). `SchedInv` is about who reconnects: the loop belongs to
the thread that `_reconnect_thread` names, therefore whoever clears it is the one
to look for a missed loss afterwards. `LiveInv` is needed for `DisconnectSticks`:
that a commit with an unbroken generation commits a trader nobody disowned holds
only because a trader is created when none is published, reaches `connect()`
unused (`FreshHere`), and a loss is reported only of a trader that had a session
(`Sessions`). Results: `TypeCorrect`, `OneConnectorHolds`, `NoReconnectIsLost`,
`StopStays`, `DisconnectWins`, `ConnectedMeansCurrent`, `LiveTraderIsUnique`. The last has
the exception the code has: `stop()` holds a trader it has not yet asked to stop, and a
worker that outlived the joins has made another; `Ownership` says of each live trader
that it is published or in the hands of one thread, and that only these two can
be at it at once.
Two more rest on them. While the manager is connected and the last event on the bus is
not "reconnect", a worker is about to publish it (`EventsAreCurrent`; nothing is said of
a manager that is not connected, since the heartbeat announces no loss). A call that
was overtaken while it waited is refused (`OvertakenCallsAreRefused`): `CallInv` says that
the trader of such a call is no longer published, was lost, or that the manager was
stopped, each of which the second look sees. What is accepted after the second look
reaches no such call, and the code does not promise it either.

`DownloadTasksProofs`. `IInv` ties, for each task, the step of its submitter, the
step of its worker, the state of its future and its status (`SubmitInv`,
`WorkInv`, `OverInv`, `ErrorInv`, `TableInv`). Status alone is not inductive:
that an outcome does not overwrite a failure needs that a failed task is never
executed, which needs that its worker has not begun. On it rest the safety
properties of the run, the action property `RecordIsFinal`, and the refinement
`ManagerImplementsTaskLife`: steps are split into those that leave the tables
alone, the worker's begin and call, and the loud ones (`Prune`, outcomes) that
are one `Advance` of `TaskLife`. `TableIsBounded` needs induction over finite
sets only through the cardinality theorems of the library.

The same module proves what `DownloadHandle` tells: what a client was told is what
is recorded (`ToldInv`). That is inductive beside `IInv` because a finished record
never changes (`FinishedStays`) and no entered task becomes new again
(`EnteredStays`); what the record says of the call is `OverInv` and `ErrorInv`.
Result: `WaitsTellTheTruth`.

`MaintenanceProofs`. `IInv` adds the owner of the stop lock, what each phase of a
request says of the gate's counters, and that a drain past its second look keeps
the gate shut with nothing admitted and the downloads idle. That the downloads
stay idle (`DownloadsStayIdle`) is a lemma about `TaskLife`: nothing starts by
itself. Results: `OrderlyStopLosesNothing`, `RepliesAreWritten`,
`GateServesTheStop`.
Of the clients, `ClientInv` says that the reply is fixed when the call leaves its
handler or is refused, that only an unknown one leaves open whether QMT is still to
be called (`ReplyInv`), and that who was told for good has the reply, or never sent
the request (`ToldInv`). With it each step maps to a step of `MutationCall` or to a
stutter: `UncertaintyIsNeverRejection`.

`BridgeProofs`. `IInv` follows a request: it lies in at most one pipe, has a ticket
only after it left its caller, is current only after its ticket left the queue,
and its response is written once. `BridgeKeepsPromise` is the refinement of
`MutationCall`: each step is a `Run`, a `Tell` or a stutter. `AddressesRespected`
adds the instance each ticket carries, `MarkersUsedOnce` that the markers of the
running instance name its orders, `RepliesBelong` whose request and reply a pipe
contains (`PipeInv`), and `ObservedInstanceOnly` is an action property. `OrderInv`
follows a submission to the order list: what ran was placed (`NativeInv`), only an
order that was placed has rows, and one that was refused is nowhere alive (`RowInv`),
and an answer is made of a row with the marker of its request, which that row's
outcome agrees with (`WatchInv`). That this row is the request's own follows from
`MarkersUsedOnce`, within one instance of the strategy.
Result: `OwnOrderAnswered`.

`RepositoryProofs`. `IInv` says the same of the committed tables and of those of
the open transaction (`Sound`): intervals are ordered and disjoint, the rows of a
proven day and of a partition with a state come from the write that says so. Both
are needed, since a rollback goes back to the first and a commit takes over the
second; disjointness is needed for the tails, which keep a generation whose rows
on their days nobody replaced. `Implements` shows that `View` changes as
`ProvenDays` allows: a day in the new interval has its proof, a day outside keeps
the proof it had, as a tail or as the same interval. The loops of coverage.py
have invariants of their own: after k intervals the ranges `gaps` has found are the
days before its cursor that no interval covers, and none of the k reaches a day
from the cursor on (`GapInv`); `covered_suffix` has the days after its cursor
covered, and none of the k contains the cursor (`SuffixInv`). A fold is a chosen
recursive function on sets of positions, so first it is shown that there is one
(`FoldExists`: the least set without one would get one from its parts) and that it
has the state of the loop at every prefix (`FoldRuns`). The induction over the steps
takes the least number of steps after which an invariant would fail, which the
well-foundedness of finite subsets gives. Both hold for intervals that overlap, and
so do not depend on `CoverageDisjoint`. Other results: `CoverageDisjoint`,
`RowsAreProven`, `StatesAreWhole`, `WhatIsMissing`.

`SourceReadsProofs`. Its parts share no variable, so each has its own invariant and
`QueriesMove` joins them.
- Locks: `IInv` counts the users of each entry by the threads that are inside `hold`,
  which makes the last one the only one (`CountInv`), gives all of them the lock of
  the entry (`LocalInv`) and different keys different locks (`FreshInv`). Results:
  `Exclusion`, `EntriesAreDropped`.
- Discovery: `DInv`. The instances a query reads from are never older than the one
  it began with, and none is newer than the one its check finds; since instances
  grow, they are one. `QueryInv` has that of a query, `PlaceInv` where a
  query is in `get`, `GetInv` what it was given there (a follower waits for a leader
  with its key and its generation), `StoreInv` what may lie in the cache. Results:
  `OneInstanceAnswers`, `FreshAnswers`.
- Batches: `BInv` ties each item's state to the place of the caller in the order of
  results. Result: `BatchesAreWhole`.
- Who waits for whom: `OrderInv` and `HeldInv` say that a thread has the locks of the
  keys of its plan up to the one it waits for. Of all that are blocked, take one that
  waits for the greatest key: the thread that has that lock is not blocked, and a
  leader of the discovery waits for no lock. Result: `ThreadsMove`.

`ProcessControlProofs`. The holder of `command.lock` is the command (or foreground
server) whose step says so (`LockInv`), a server that is alive has `instance.lock`
(`InstanceInv`), and a server that has not yet written its state is known: it has the
command lock, or was launched by the command that has it, or is one of the `Orphans`
(`ChildInv`). Therefore an update that has found the instance lock free, and still
has the command lock, meets no server but an orphan; `InstallInv` carries that
from the probe to the end of the installation. `PipInv` says that the pip process of an
update runs only while that update waits for it, or after it was killed; that no two
updates install at once follows from `LockInv`. `RecordInv` says that only the server
that is alive writes `process.json`, once. Results: `UpdatesInstallAlone`,
`ServingIsReachable`, `ReadinessIsOwn`, and `RestartsKeepConfiguration`: `RestartInv`
follows a restart from the record it read to the server it spawns. While it has the
command lock, a server that begins to serve is one whose start has given up
(`NobodyComes`). Hence the server that accepts its stop is the one it has read, or such
an orphan; the premise of the property excepts no more than the second.

`PersistentDataProofs`. What is known of a query is a predicate (`Holds`) of its step,
its locals, and the clock and the source as parameters; so it can be said of the
step a query takes next (`Good`) and of a source that has moved on since
(`HoldsLater`). At every step of a query for bars (`Base`), the rows it has are as the
source had them when it began, or newer, and what it has staged may be written at
any time from now on (`Sound`): rows that the source has not outgrown, and proofs only
of days that were over when the query began. `Phase` adds what each step needs: the
tail is the newest that are counted (`Newest`), only the gaps are missing (`Gapped`), the rows that
evidence is sought for are final (`Final`), the rows an answer is made from are all
there (`Ready`); `Dated`, `ReadsDates` and `AsksDates` say what a calendar that was read
for a step is worth, and what is left of it to ask for. `StoredBars` and
`StoredEvents` say that the store is sound itself, `LockInv` that who reads and
writes a security has its lock, `KnownInv` that a query that trusts the events of
the store finds all that were known in the morning there. Lists have `ListsInv` and
`WishInv`. The module goes from days and series through the ways of one query to its
writes, its answers, the calendar, the lists and the source, and needs no induction:
the lowest and the highest day of a set come from the well-foundedness of
finite subsets. Results: `QueriesAreSound`, `CoverageIsFinal`, `AnswersCurrent`,
`ServedToday`. The last bounds the age of a list from below (a list may be of a later
day than its question, when midnight falls into the query) and leaves out the views of
financial reports.

Proved, but in no run, to keep the runs to one property a question: the types,
`RecordIsFinal`, `LiveTasksKept`, `NoLeakedFuture`, `BoundKept`, `CancelledNeverRuns`,
`CompletedHasResult`, `OneConnector`, `ConnectedIsCurrent`, that coverage is disjoint
(`CoverageDisjoint`) and that unused locks are dropped (`EntriesAreDropped`).

Only model-checked: everything under fairness (`Recovery`, `SilentLossNoticed`,
`ShutdownCompletes`, `TasksSettle`, `StopsEnd`), since liveness and ENABLED are out of
the prover's reach. Every invariant and action property of a passing run is a
theorem.

## 8. Disagreements found

- `probe()` promises to "never schedule retries" (`connection.py:251-252`). A
  disconnect callback that arrives while it connects ends in
  `schedule_reconnect()` (`connection.py:533`), and a worker goes on trying
  (`trader_probe_retries`, property `ProbeNeverRetries`).
- A stop command that fails is answered "new requests are accepted again"
  (`managed.py:44`). One that arrives after a successful drain, before the server
  is inactive, is told so although the gate stays shut (`maintenance_answer`,
  property `AnswerIsTrue`). `ShutExactlyForStop` shows that the gate itself is right.

## 9. Not modelled

Whole components:

- the event bus: nothing under `qmt_rpyc` subscribes, so its queues have no reader;
  the last connection event is `announced` of `TraderConnection`;
- authentication and its failure counters, contracts and codec, configuration and
  environment, debug interfaces, documentation generator, command-line clients: no
  state that several actors share, or conversion of data only;
- the xtquant provider adapters and the conversions of the BigQMT ones.

Inside the modelled components:

- `qmt-rpyc server uninstall` takes no command lock (`cli/server.py:432`), so nothing can
  be said of it beside a start;
- a status, or any probe, holds `instance.lock` for a moment (`cli/processes.py:72`): a
  server that starts just then ends at once, and a command is told "running" although
  only another probe was. `ProcessControl` has these steps (`IsRunning`, `Own`);
  no document promises otherwise and no property forbids them;
- `adapters/bigqmt/connection.py:93`: `stop()` waits for the health thread with a timeout,
  and a thread that outlives it may still write the state of the health text;
- a thread that cannot be started (`server/managed.py:41`);
- what two pip processes, or a pip process beside a starting server, do to the files:
  the model says when they meet, which takes a killed update;
- the date that labels expiry dates (`storage/service.py:160`), and the age of views of financial
  reports;
- reads of SQLite that fail, which behave as an empty store; policies with an age;
  more than one security and one market in a query, whose parts share nothing but
  the calendar; the arithmetic of prices; intraday bars, which are passed
  through; an empty batch;
- the reconciliation of an order across a restart of the strategy, after which its
  marker is unknown to the new instance: the documentation promises no idempotency
  (`contracts/documentation.py:143`);
- `trader.connect()` and `subscribe()` have no timeout
  (`adapters/xtquant_2_0_6_1/connection.py:324`): one that never returns keeps the only
  worker, and the liveness of the manager assumes that they return;
- wording and counters of health texts, order events, schema, encoding and failure
  counters of the repository, formats of frames and envelopes, what read operations
  compute, the pump's budget of calls and time, how pip and the package index are
  asked.
