# A TLA+ verification of YCSB-cpp

YCSB-cpp drives a database with a configurable workload from many client threads and reports
throughput and latency. This directory holds TLA+ models of its concurrent core and of its
database bindings, the TLC configurations that check them on small instances, and proofs,
checked by TLAPS, that most of their safety properties hold for every number of clients, keys
and operations.

Paths below are relative to the repository's root. `PROJECT.json` lists, for each definition,
the lines it models.

## 1. Inventory

| Component | State | Operations | Where it is hard |
|---|---|---|---|
| Driver (`core/ycsbc.cc`, `core/client.h`, `utils/countdown_latch.h`) | two latches on main's stack, the clients' futures, one DB per client | load and transaction phase; ClientThread, StatusThread, RateLimitThread | who initialises and cleans up which DB over two phases; latches shared by threads that must be gone before them; exceptions of two kinds; the split of operations |
| Acknowledged counter (`core/acknowledged_counter_generator.*`, used by `core/core_workload.cc`) | `counter_`, `limit_`, a ring of 65536 slots | `Next`, `Acknowledge`, `Last` | acknowledgements out of order, a ring that wraps, readers without the lock |
| Core workload (`core/core_workload.*`, generators) | two key counters, `op_chooser_`, `key_chooser_` | `DoInsert`, `DoTransaction` | keys drawn against a limit that moves; a sum that clients extend with stale bounds; a draw loop that may not end; statuses dropped or never set |
| Other workloads (`core/checking_workload.*`, `core/pure_insert_workload.*`, `core/core_workload.h`) | `tx_count_`, `correct_count_`; per client the mapped trace files and an offset | `DoInsert`, `DoTransaction`, `InitThread` | a process that stops itself amid its load, and what a second one finds; records divided among clients, files of unequal length |
| Measurements (`core/measurements.*`, `core/db_wrapper.h`) | atomic counters per operation, `report_on_`, `start_`, last values | `Report`, `GetStatusMsg`, `Emit`, `Reset` | lock-free updates, a plain bool, a skip period whose start another thread sets |
| Rate limiter (`utils/rate_limit.h`, `RateLimitThread`) | `r_`, `b_`, `tokens_`, `last_` | `Consume`, `SetRate` | a rate that changes while a client sleeps; integer precision; state read after the unlock |
| Embedded handles (`rocksdb`, `leveldb`, `lmdb`, `wiredtiger`, `sqlocal`) | a handle and its reference count, shared by all DB objects | `Init`, `Cleanup` | clients that finish before others have started |
| Row operations (the same, and `postgres`) | a table of rows | `Read`, `Scan`, `Insert`, `Update`, `Delete` | read-modify-write without a transaction |
| Composite keys (`leveldb`, formats "row" and "column") | an entry for each field of a record | the same | records are found by walking entries in byte order, and no loop looks at whose entry it takes |
| eRPC end points (`rocksdb-clisvr`, `sqlite`, `lazykv`) | a Nexus, a counter of ids, an Rpc per client | `Init`, `Cleanup` | `Cleanup` without the lock that `Init` holds |
| RPC requests and servers (`rocksdb-clisvr`, `sqlite`) | `req_`, `resp_`, `complete_`; per server thread `resp_buf_` | client methods, handlers, the server's loop | shared buffers, lengths without checks, polling without a limit, a server that is interrupted |
| Other bindings, factories, scripts | - | - | see section 7 |

Main spawns the clients, each of which calls `Consume` of its rate limiter, then an operation of
the workload, which draws a key and calls the DB through `DBWrapper`, which reports the latency
to the measurements. The status thread reads the measurements; the rate-file thread sets the
limiters' rates. Main waits for all of them at two latches.

## 2. Modules

| Module | Models | Builds on |
|---|---|---|
| `AckPrefix` | what the acknowledged counter promises (abstract) | |
| `AckCounter` | the counter, its ring and the transactions that use it | implements `AckPrefix` |
| `AckCounterProofs` | theorems about `AckCounter` | `AckCounter` |
| `SumLemmas` | lemmas about sums over finite sets and about products | |
| `Driver` | the driver's threads and latches | |
| `RefCountedDb` | the shared handle of embedded stores | composed with `Driver` |
| `ErpcHandle` | Nexus, Rpc objects and their ids | composed with `Driver` |
| `DriverProofs` | theorems about `Driver` and about the two that are composed with it | `RefCountedDb`, `ErpcHandle`, `SumLemmas` |
| `Measurements` | `BasicMeasurements` and its callers | |
| `MeasurementsProofs` | theorems about `Measurements` | `Measurements`, `SumLemmas` |
| `RateLimiter` | the token buckets and the rate-file loop | |
| `RateLimiterProofs` | theorems about `RateLimiter` | `RateLimiter`, `SumLemmas` |
| `DbContract` | what `core/db.h` promises of a binding (abstract) | |
| `RowStore` | the record operations of six bindings | implements `DbContract` |
| `RowStoreProofs` | theorems about `RowStore` | `RowStore` |
| `CompKeyStore` | leveldb's formats with an entry per field | implements `DbContract` |
| `RowCodec` | the layout of keys and rows in buffers | |
| `RpcStore` | the client/server bindings over eRPC | uses `RowCodec`, implements `DbContract` |
| `RpcStoreProofs` | theorems about `RpcStore` | `RpcStore`, `SumLemmas` |
| `InsertTrace` | the trace reader of `PureInsertWorkload` | |
| `Workload` | the four workloads over phases and processes | uses `AckPrefix`, `InsertTrace` |
| `WorkloadProofs` | theorems about `Workload` | `Workload`, `SumLemmas` |
| `MC...` | values of constants for TLC | the module of that name |

An action is named for the function or the part of a function it models, and a variable for the
member it stands for. What deserves saying about the correspondence:

* **AckCounter.** `Acknowledge` is one step, because it runs under `mutex_` and stores `limit_`,
  the only thing read outside, once, at its end. A read of `limit_` is a step of its own: drawing
  a key and checking it are two. `limit = -1` stands for the wrapped `RecordCount - 1`. `stored`
  and `failed` are the database as far as keys are concerned; `acked` and `overrun` are history.
* **Driver.** A database operation is its outcome: true, false, a `utils::Exception` (caught by
  ClientThread, which calls `exit(1)`), any other exception (kept in the future and rethrown when
  main joins). The condition variable of the latch is the guard "count is 0". `Cleanup` may throw a
  `utils::Exception` too (`CleanupThrows`). `timed` says whether one of the two status intervals is
  above 0; if none is, the status thread never waits on the latch and never learns that it is open.
* **RefCountedDb, ErpcHandle.** They extend `Driver` and refine its `ClientInit` and
  `ClientCleanup`: the first as single steps, since both functions hold the binding's mutex, the
  second broken into the steps other threads can see.
* **Measurements.** One action per atomic access of `Report`. The latencies' sums are treated like
  the counts in the code, and only `count_` keeps its "last" value in the model. `U32`, `U64` are
  the moduli of the two counters. Two history variables tell the phases apart, which the code does
  not: `phase_start`, when `Start()` was called in this phase, and `carried`, that recording in the
  second phase is, or was, what the first one left behind.
* **RateLimiter.** Arithmetic is `int64_t` with wrap-around at `H`; quotients truncate. A
  `Consume` that must wait unlocks in one step, reads `tokens_` again in the next (`LoadTokens`) and
  divides by `r_` in a third, so `SetRate` may come between any two of them.
  `limit.ops` is a variable with a value per configuration, one of which is below the number of
  clients.
* **RowStore.** A row is a function from field names to values, a value the number of the call
  that wrote it. What differs between bindings (whether update is a transaction, what happens to
  an absent key, how a scan starts and moves, whether rows are packed into one string) is in one
  record per binding. Assertions are compiled out, as the Makefile does for releases.
* **CompKeyStore.** Strings are sequences of characters, since their order is what the loops depend
  on; the parts that all keys or all field names share are left out. An operation is one step: a
  write is one `WriteBatch`, and an iterator sees the database as it was when it was created.
* **Workload.** The acknowledged counter is used as `AckPrefix` describes it. A key is drawn,
  compared with `Last()` and used in three steps; with "latest", the bound is read in another. A
  random number is any of its range. `DiscreteNext` also has the draw that rounding leaves past the
  last weight: `op_chooser_` then answers with `last_`, the operation it chose before (at first, the first it was given).
  `zeta` counts how often each term went into `zeta_n_`. "restart" is one process for the load,
  which `CheckingWorkload` stops with `exit(1)` while other clients are in the middle of an
  insertion, and another one for the check.
* **RpcStore.** `req_`, `resp_`, `resp_buf_` and `pre_resp_msgbuf_` are sequences of cells, with a
  cell for each length field, status or character. Writing more cells than `msg_size` sets
  `corrupt`, and nothing is said of what follows. eRPC is external: it delivers requests once,
  drops those of an unregistered type, and reads the response's buffer whenever it (re)transmits.
  A server thread leaves its loop when SIGINT was received (`StopThread`); then eRPC may give a
  request up and complete it with an empty response (`Abandon`), or the client polls for ever.

## 3. Runs

| Run | Instance | Shows |
|---|---|---|
| `ack_safety` | 3 threads, 2 slots, keys 1..4, inserts that fail | the inductive invariant; chosen keys are settled; no false alarm |
| `ack_refine` | 3 threads, 4 slots, keys 3..8, "latest" | `AckCounter` implements `AckPrefix`; the limit lags by at most one; every key becomes readable |
| `driver` | 2 clients, 3 operations, all modes and helpers, every outcome | the inductive invariant `DriverInv`; all operations are executed; the last status covers them; latches outlive their users; DBs are bracketed; results are what was counted after the skip period; the process ends for good, or main waits for ever at one of two places |
| `refcount` | 3 clients, all modes, both kinds of guard | the handle is live while a DB is open, unless it is reopened by pointer; references balance |
| `erpc` | 3 clients, `-load -run`, with and without lock and re-initialisation, ids modulo 3 | ids and Nexus are right if a phase's Inits precede its Cleanups |
| `erpc_sequential` (violation) | 3 clients | two live Rpc objects with the same id, without overlap of Init and Cleanup |
| `measure` | 2 clients, 2 + 1 reports, a skip period, `U32 = 3` | emitted numbers are exact; nothing is recorded too early, except what the second phase takes over from the first; period counts add up within a phase |
| `rate` | 2 clients, limits of 1 and 5, 4 ticks, 5 operations, two changes of rate, and a garbage line | the limit holds until a change, if it is not below the number of clients; a change costs at most one bucket; debt is bounded |
| `rows` | 2 clients, 2 keys, 2 fields, 3 calls, 6 bindings, 3 mixes | the inductive invariant `StoreInv`; a row is never a mixture of two updates; under five conditions the binding implements `DbContract` |
| `compkey` | 2 clients, keys 1 and 10 with and without padding, up to 2 fields, 3 calls, 3 mixes | under four conditions the entries implement `DbContract`, and only a read of a missing key leaks its iterator |
| `rpc` | 2 clients, 2 keys, 2 fields, 2 or 3 calls, 2 bindings, a server that is interrupted | no overrun if `msg_size` suffices; client and server together implement `DbContract` until the server thread is gone; calls return |
| `workload` | 2 clients, 3 records, up to 5 operations, 20 scenarios: 4 workloads, 4 distributions, `-load`, `-run`, both, a restart | keys that are read were inserted, unless the counter's window was overrun; no key is inserted twice; successes counted are successes measured; only weighted operations are chosen; `zeta_n_` is exact; what a check finds; who replays which record; every workload ends |

**Bounds.** The ring of `ack_safety` has two slots and wraps twice, so a mark left behind or a slot
read one lap late shows; three threads let two keys overtake a third. `measure` has more reports
than fit in its 32-bit counter stand-in, so the wrap happens. In `rate`, four ticks cover a bucket
that a change fills to its brim, two changes of rate, and a change before, between and after the two
reads of a client that waits. In `rows`, three calls suffice for two overlapping updates and a third
call between the read and the write of one (a delete, or a read after both). `rpc` needs two calls
of a client for a stale `complete_` or a stale `resp_buf_`, two clients for a shared one, and sizes
one below and exactly what is needed. `driver` has both values of everything that is fixed for a
process. `compkey` has a key that begins with another one, and the padding that prevents it; two
fields and two records are the least with which a loop can run on into the next record. `workload`
has three records for two clients, so shares differ; two inserting clients can acknowledge out of
order, extend `zeta_n_` with an older bound than the other's, and stop while the other holds an
earlier key.

**Conditions.** `ImplementsContract` (in `rows`) holds where `Covered` does, and each of its five
conjuncts is necessary: without it TLC finds a counterexample. They say what a user of a binding
must know: rows must be loaded with the `writeallfields` they are updated with; rocksdb, leveldb
and wiredtiger must not mix deletes with updates, since the write of an update can bring a deleted
row back; wiredtiger's scan returns its first record over and over; sqlocal and postgres ignore the
list of fields; postgres stores the values as one string of at most 255 bytes without the names.
In `compkey` the four conditions are: the same fields at loading and later; fields with names (or one
field, and no deletes, which go by name); scans that list no fields, unless there is just one; and no
key name that begins with another. Each is necessary too. In `rpc` they are a server thread for each
client and a large enough `msg_size`. Properties of `workload` that depend on a configuration name it:
`insertstart` 0, no `RDIDX`, files of equal length, and a sequential range that begins below the last
key.

**Deadlock** is not checked where the system may stop: after `exit(1)`, when main has ended, or
when a bound is reached.

## 4. Fairness

* `ack_refine`: a thread that took a key goes on to acknowledge it. Database calls return, and the
  mutex is only held for the length of `Acknowledge`. Readers and new insertions are not assumed.
* `driver`: the operating system runs every thread that is not blocked.
* `rpc`: a call's next step is taken. Server threads and clients poll in a loop, and eRPC
  retransmits. At most one step of a call is enabled, and no other step disables it, so weak
  fairness of their disjunction is weak fairness of each. Nothing is assumed of a response once its
  server thread has left its loop, nor that eRPC ever gives a request up.
* `workload`: every client goes on and main waits for them. A random draw that is repeated hits a
  key up to `Last()` some time (strong fairness of such a draw): each key has a probability above 0
  at each draw. Nothing of the kind is assumed of the sequential generator, which is deterministic.

## 5. Proofs

The proofs hold for every value of the constants that satisfies the named assumptions of the
modules: any number of clients, keys, fields, records, operations and calls. Each follows the same
argument: an inductive invariant, which holds initially and which every action keeps (one lemma or
step for each action), and from which the property follows. No property of the runs but
`ZetaExact` is inductive by itself.

| Module | Theorems | Inductive invariant |
|---|---|---|
| `AckCounterProofs` | `TypeCorrect`, `Invariance`, `ChosenKeys`, `NoFalseAlarm`, `BoundedLag`, `Refinement` (of `AckPrefix`) | `IInv` |
| `DriverProofs` | `DriverInvariant`, `AllOpsAreExecuted`, `LastStatusIsComplete`, `LatchesAreOutlived`, `ReturnsAreOpsAfterSkip`, `DbsAreBracketed` | `DriverInv` |
| | of `RefCountedDb`: `RcInvariant`, `HandleIsLiveUnlessReopened`, `ReferencesAreBalanced` | with `RcInv` |
| | of `ErpcHandle`: `ErpcInvariant`, `IsSafeIfPhased` | with `ErpcInv` |
| `MeasurementsProofs` | `EmittedExactly`, `SkippingIsRespected`, `PeriodsAreDeltas` | `StatsInv`, `SkipInv`, `PeriodInv` |
| `RateLimiterProofs` | `LimiterTypes`, `LimitIsRespected`, `BurstIsBounded`, `DebtIsBounded` | `Types`, `LimitInv`, `BurstInv`, `DebtInv` |
| `RowStoreProofs` | `StoreInvariant`, `RowsAreWhole`, `BindingsImplementContract` (refinement of `DbContract`) | `StoreInv` |
| `WorkloadProofs` | `ZetaIsExact`, `OksAreMeasured`, `InsertsAreDistinct`, `KeysAreInserted`, `TraceIsReplayed`, `CheckFindsTheRest`, `WorkloadTypes` | `CtlInv`, `ZetaInv`, `OksInv`, `LoadInv`, `KeyInv`, `ReplayInv`, `CheckInv`, `TypeInv` |
| `RpcStoreProofs` | `RowsDecode`, `MessagesFit`, `RpcTypes`, `TableInvariant`, `RpcBindingsImplementContract` (refinement of `DbContract`) | `RpcInv`, `TableInv` |

**Acknowledged counter.** W need not be a power of two, since `k & (W - 1)` is modelled as
`k % W`. `IInv` adds who holds which key (`InFlight`: distinct keys, not acknowledged yet, and every
key handed out is held or acknowledged), that keys settle before they are acknowledged (`Settled`),
and, while there was no overrun, what the ring means (`WindowInv`): a slot is marked exactly when
the one key of `(limit_, limit_ + W]` that it stands for is acknowledged, nothing is acknowledged
beyond, and everything up to `limit_` is. The step that matters is `Acknowledge` (lemma
`AcknowledgeKeepsWindow`): the slots it clears are those of the keys it passes, so they stand for
the keys that enter the window at the other end, none of which is acknowledged. That W consecutive
keys have distinct slots is `SlotInjective`, and that a key entering the window has the slot of the
one that leaves is `SlotPeriodic`. The lag of one is in `Prefix!Covers`: the scan stops one slot
short of a full window, and only then can an acknowledged key be right above `limit_`; the invariant
says that it is the last one.

**Sums.** That all operations are executed, that measurements are exact and that the load hands out
`recordcount` keys are statements about sums over the clients. `MapThenSumSet` is defined by
recursion over subsets, and induction over the data is out of reach of the provers as a scheme.
`SumLemmas` therefore argues by least counterexample: the sizes of the subsets for which a fact fails
have a least element (`WFMin` of the library), and removing an element leads to a smaller one. So the
recursive function exists and is unique, the sum is any element's term plus the rest, an update
changes it by the difference of the two terms, and shares of `n / m`, the first `n % m` of them one
more, add up to `n`.

**Driver.** `DriverInv` says together where main, the clients, the latches and the helpers can be:
the second latch counts exactly the clients that have not finished (`LatchInv`), so that an open
latch means finished clients; the first may stay too high if an `Init` threw. A client that has
finished executed its share (`ClientInv`); who has a database open depends on its place and on which
phase opens and closes (`DbInv`); the status thread's last message comes after the latch is open
(`HelperInv`). It is an invariant of the run `driver` too.

**Shared handles.** `RefCountedDb` and `ErpcHandle` take only steps of the driver (lemmas
`RcStepIsDriverStep`, `EStepIsDriverStep`), so `DriverInv` is theirs. `RcInv` adds that the count is
the number of open DB objects and that a handle with references is live, unless a pointer guard was
fooled. `ErpcInv` needs more, since `Cleanup` is not one step: the clients that the counter counts
(`Holders`), that while no `Cleanup` has begun all ids are below their number (hence a new id is new),
that only one client can be closing the Nexus and then nobody holds an Rpc on it, and that behind the
lock each Nexus is deleted before the next is made. The hypothesis `EnoughIds` is that the clients
are not more than the counter's range (256 in the code): beyond that, ids repeat at once.

**Measurements.** A client updates count, sum, minimum and maximum of an operation one after the
other, without a lock. `StatsInv` says that what was logged and is not in a cell is owed by a client
between two updates: the count is the number logged less the clients that have not counted, modulo
2^32; a logged latency below the minimum belongs to a client that has not compared it yet, and the
value the client last read is not below the cell's. When all clients have finished nobody owes
anything, and the cells are exact. `PeriodsAreDeltas` has the hypothesis `NoWrap`, that no phase has
2^32 calls: at a wrap, the code's difference of two counts is wrong.

`SkipInv` says of `start_` that it is either what this phase's `Start()` set or what the first phase
left, and of a client about to store a true answer that it compared with one or the other.
`SkippingIsRespected` is a statement about each phase's own `Start()`, with `carried` as the only way
round it, and that way is open in the second phase only.

**Rows.** `StoreInv` says that every row was written whole, and that an update between its read and
its write holds a row as it was read. The refinement maps the table, the calls and the answers
to themselves; the read of a read-modify-write is a stuttering step unless the row is absent. It is
proved under `Covered`, the conditions of section 3, each of which TLC shows to be necessary.

**Workload.** `CtlInv` says which places of the code a client can be in, given workload and phase;
without it a client might acknowledge a key it never took. `LoadInv` has the sum that makes the load
end at `recordcount`, where the transactions' counter begins. `KeyInv` follows a key from the load,
the acknowledgement or the draw to its use. `KeysAreInserted` uses of the acknowledged counter what
`AckPrefix` says, which `AckCounter` is proved to implement. `ReplayInv` gives the place in a client's
files that its reader has reached in terms of what the client has replayed and of the operations it
has left: the reader never wraps to its first file before the quota is used up. `TraceIsReplayed` has
the hypothesis `DistinctRecords`, that no two files of the trace hold a record in common, without
which two clients replay the same record because the trace says so. `CheckInv` follows the keys that
the load has handed out and not inserted: there are at most as many as clients, each below the counter
and above what is certain to be stored; in the check, `correct_count_` and the hits not counted yet are
the stored keys among those handed out. `TypeInv` is what the types rest on: a client counts no more
successes than its quota, and the kind of a transaction is one whose weight is not 0.

**Rate limiter.** All amounts are compared in tokens times ticks per second, so that nothing is
rounded but what the code rounds. `DebtOK` says what a limiter may owe at each place of `Consume`: a
client that may consume has paid, but for what roundings and changes of rate forgave; one that sleeps
has earned its debt when it wakes, and one that read `tokens_` after the unlock has read that debt,
unless `SetRate` came in between. `BurstOK` says that what a bucket
holds and has earned since `last_` is covered by what the rates add up to and the allowance for
changes. `LimitRespected` follows for each limiter that no change has reached, and is summed over the
clients. The hypotheses are about `int64_t`, not about the algorithm. `Fits`: the products that
`Consume` and `SetRate` compute are not wrapped. Without it `DebtBounded` is false, and in the code it
does not always hold: `SetRate` multiplies by `TOKEN_PRECISION` what already contains it, and with a
share of 1000 operations a second the product is beyond 2^63 when more than 92 ms have passed since
`last_`; with 100000, when more than 0.92 ms have. `SteadyFits` asks it of `Consume` only, and
only while the rate is the first one: that is all `LimitIsRespected` needs. `ModestRates`: no rate is
above one operation per tick of the clock, which is a nanosecond. The rates that the assumption of
the module admits are those whose tokens `r_` can hold. The run `rate` satisfies all of them.

**RPC messages.** `MessagesFit` needs the length of every request and response. Rows are built by
`FlattenSeq`, whose recursion over the sequence is treated like the sums: by least counterexample the
length is the number of pieces times theirs if they are equally long. `RpcInv` says that a call is in
one place at a time (request, response in flight, completed, answered), that the request of a call has
its key and its length, that the store holds nothing or rows of full length, and that a server
thread's buffer is never empty: only so is a response that overwrites just the status of the last one,
as sqlite's server sends it, within the buffer.

**RPC bindings as a table.** `RpcBindingsImplementContract` needs what the bytes mean, not only how
many there are. `FlattenPieces` says where each piece is in what `FlattenSeq` makes. Both decoders are
functions that are recursive in the position (`Decoding`: produce something, go on behind it); they
exist, and a decoder that is led from place to place to the end produces what is at those places
(`DecodedFrom`), again by least counterexample. `RowDecodes` and `RowsDecode` apply this to a row
anywhere in a buffer and to the rows of a scan. `TableInv` adds to `RpcInv` that what is stored is
nothing or the bytes of a row that the workload built, and that a request under way holds the key, the
length and the row of its call, so that `TableOf` is a table of rows whose fields are all written
together, and an update overwrites all of a row. `AnswerOf` of a client depends only on its own
buffers if the server thread is its own (`AnswersAre`); so each handler is one step of the contract
(`ReadContract`, `ScanContract`, ...), giving a request up is `GoneWrong`, and delivery, polling and
the end of a server thread are stutters. The theorem says nothing of clients that share a server
thread, for which `RpcImplementsContract` promises nothing either.

**Assumptions** made for the proofs beyond positive sizes: finitely many clients; the bindings are the
six that `RowStore` describes; a scenario of `Workload` has one of the four workloads, four
distributions and natural numbers (`ScenarioAssumption`). TLC evaluates all of them in the runs.

**Only model-checked:**

* `KeysBecomeReadable`, `EndsOrStuck`, `CallsReturn`, `WorkloadEnds`: liveness under fairness is
  beyond the prover.
* `EntriesImplementTable`, `LeaksOnlyOnMiss`: they need the byte order of composite keys, whose digits
  are computed by recursion.

## 6. What the checks say about the code

One run shows the code disagreeing with what it says of itself:

* `erpc_sequential`: the counter of live clients is the source of ids, and a new client can get the
  id of one that is still there. By `rpc`, two clients with an id share a server thread and its
  `resp_buf_`.

Met while modelling, and part of the models or excluded by a stated condition:

* The check in `Acknowledge` looks at the slot of the key it is given. For a key W ahead of an
  unacknowledged one that slot is free, the acknowledgement counts for the missing key, and `limit_`
  passes it. It takes one insertion stalled for 65536 others (`overrun`, which the properties of
  `AckCounter` except).
* `Cleanup` of most embedded bindings deletes the handle and keeps the pointer; a client whose `Init`
  comes after the last `Cleanup` of clients that were quick takes the dangling pointer (excepted by
  `HandleLiveUnlessReopened`). lmdb, which looks at the count, is right.
* An insertion that failed is acknowledged, so readers may choose its key (`ChosenKeySettled` says
  "or failed"). With `recordcount=0`, `limit_` starts at 2^64 - 1 and every key counts as readable.
* `Reset` keeps `last_count_`: the first period count of the transaction phase is relative to the
  load phase's count (`PeriodIsDeltaInPhase` excludes that message).
* If no report falls into the ten seconds after the skip period, nothing is ever recorded; without
  `-s` nobody calls `Start()`, and a skip period has the same effect.
* ClientThread's result may include one operation of the skip period, if that period never ended.
* The share of `limit.ops` truncates; a share of 0 means no limit. A rate set to 0 while a client is
  between its unlock and its division ends the process with a division by zero. `SetRate` counts
  `TOKEN_PRECISION` twice when it refills, so every change of rate fills the bucket, or overflows.
* A rate file that ends in a newline is read once more, with uninitialised values.
* lmdb's `Update` and `Delete` of an absent key throw, which ends the process; wiredtiger's scan of an
  empty table does too.
* rocksdb-clisvr's `Update` replaces the row and inserts an absent one; its server and that of sqlite
  ignore the list of fields. sqlite's server has no handler for scans, and the client waits for ever.
* A request is written before its size is known: ten fields of 100 bytes, the default workload, do not
  fit the default `msg_size` of 1024 (the properties files set 2048).
* A write that eRPC gives up returns whatever status `resp_` held, since only reads and scans look at
  the size of the response.
* leveldb's format "row": `user1:` sorts behind `user10:`, so a read of `user1` may answer `kNotFound`;
  a scan with a list of fields splits records; a field without a name is never deleted; the iterator
  of a read that finds nothing is never freed. Format "column" only writes.
* With `insertstart` above 0, the load's keys and those of inserting transactions overlap, and reads
  choose keys below it that were never loaded.
* `RDIDX` leaves the status uninitialised, and what the client counts is undefined.
* A sequential distribution with `min_read_idx` above the last key never ends.
* `CheckingWorkload` with `-load -run` goes on with the load's counter and reads keys that were never
  inserted. A check finds `stop_at_ + 1` records only if it reads more keys than that, one for each
  other client.
* `PureInsertWorkload` inserts the same records in both phases; with files of different lengths it
  reads past the end of the shorter ones, and a client without operations reads through an empty vector.
* `Reset` leaves `report_on_` and `start_` too. In the second phase of `-load -run` recording is on
  from the first call, or a call before the second `Start()` turns it on because the first one is long
  enough ago; but `client.h:40-44` skips the period again, so the two disagree about what counts.
  The comment at `measurements.cc:36`, that `report_on_` cannot be set "in the beginning", is true of
  the first phase only. `SkipRespected` excepts these cases by name (`carried`). A slow client may
  also turn recording off again, by storing the answer that it computed before another's.
* An `Init` that throws anything but `utils::Exception` leaves main waiting at `init_latch` for ever
  (`StuckInAwait`). With `status.interval` and `status.intervalus` both 0 the status thread never
  ends, and main waits for it for ever after the clients have (`StuckInWait`). `EndsOrStuck` says that
  there is no third way not to end.

## 7. Not modelled

* The probabilities of the random distributions and the bytes of values (floating point), the hash in
  `BuildKeyName` (taken to be free of collisions), the unsynchronised state of `UniformGenerator`,
  `HdrHistogramMeasurements`' histogram (a library), parsing of options and properties, factories,
  scripts.
* redis, mariadb, mongodb, kafka, lazylog: each operation is one call of a client library. lazykv's
  operations need a server that is not in the repository; its end point is in `ErpcHandle`.
* rocksdb's merge operator, which is compiled out.
* Three details of modelled code, where a property could not tell the difference. `DrawLatest` takes
  the unlocked test of `count_for_zeta_` and the one behind the lock as one, since the second decides.
  The exception of `Acknowledge` on an overrun is in `AckCounter`; `Workload` uses what `AckPrefix`
  promises, which excepts it. A response that was already sent when its server thread ended may still be delivered
  intact (`Deliver` in `RpcStore`): the packets have left the buffer that the thread frees.
* Opening the servers' database and its options, and a server that is started again: the clients'
  session handler is empty, so they do not connect again.
* Trace files that are missing or cannot be mapped, and the length given to `munmap`.

## 8. Plan

Done: models of the acknowledged counter, the driver, both kinds of shared handle, measurements, rate
limiter, the record operations with both layouts, the eRPC bindings with a server that is interrupted,
and the workloads; proofs of the invariants that the runs check, and that the embedded and the
client/server bindings implement `DbContract`.
To come: `CompKeyStore`, that its entries are a table and that only a read of a missing key leaks its
iterator.
