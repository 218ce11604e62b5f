# ETF-MM: a TLA+ verification project

ETF-MM is two programs in one repository. A Python package (`etf_mm_sim/`)
simulates market-making strategies on an ETF by Monte Carlo and writes the
results to disk. A C++ program pair (`cpp/`) captures two Binance streams to a
binary tape and replays the tape through a basis-deviation strategy. This
directory models both, checks the models with TLC on small instances, and
proves the central results for every value of the constants with TLAPS.

Paths are relative to the root of the repository.

## 1. Inventory

### 1.1 C++ capture and replay

| Component | State | Operations | Interacts with |
|---|---|---|---|
| SPSC ring, `ring.hpp` | atomic counters `head_`, `tail_`, plain array `slots_` | `try_push`, `try_pop`, `approx_size` | one WebSocket thread pushes, the writer thread pops; no lock |
| WebSocket client, `ws_client.cpp` | `stopping_`, `reconnects_`, `msg_count_`, local `backoff` | `run`, `run_session_`, `stop` | calls the capture's callback; main calls `stop` |
| Capture program, `capture_main.cpp` | two rings, `g_stop`, one tape, four threads | the callbacks, the writer loop and final drain, the signal handler, the wait and the stop/join sequence | all of the above |
| Tape, `tape.cpp` | a `FILE*` with its buffer; the file | `TapeWriter` (header, `write_frame`, `flush`, close), `TapeReader` (header, `read_frame`) | written by the writer thread, read by replay |
| Replay, `replay_main.cpp` | two books, the strategy, counters, the CSV | the loop: read, parse, dispatch, apply, run the strategy | tape, book, strategy |
| Order book, `order_book.cpp` | price-ordered maps `bids_`, `asks_` | snapshot, diffs, best prices, mid | replay |
| Basis strategy, `basis_strategy.cpp` | `ewma_bps_`, `armed_`, counters | `on_update` | replay |

What makes them correct:

* Ring: no slot is touched by both threads without ordering, items come out in
  order, none lost, the counters may wrap. It is lock-free, so every
  interleaving and every stale load counts.
* Client: a failure is always followed by another attempt, backoff is
  `min(2^(n-1), 30)`, `stop` ends the run, hardly anything is delivered after it.
* Capture: what was accepted before the stop reaches the tape, the frames of a
  venue keep their order, main returns only when no thread can touch what it
  destroys, a deadline or a signal ends the process.
* Tape: after a crash or a short write, what the reader returns is what the
  writer wrote, or an error.
* Replay, book, strategy: the book is what the last updates say; one event for
  each time the smoothed deviation leaves the band.

### 1.2 Python simulator

| Component | State | Operations | Interacts with |
|---|---|---|---|
| Path runner, `path_runner.py`, `risk_manager.py` | output arrays; locals `q`, cash, the kill latch | one grid step, the terminal step | reads schedules of the quoters, the mid path, the fill draws |
| Quoters, `quoters/` | precomputed schedules | `precompute`, `quote_arrays` | path runner, backtest |
| Fill engine, `fill_engine.py` | none | intensity, fill probability, `draw_fill_uniforms` | path runner, backtest |
| Mid-price models, `mid_price.py` | a generator | GBM, regime-switching | backtest |
| Backtest, `backtest.py` | results by (regime, strategy) | `run_backtest` | all of the above, seeding |
| Seeding, `seeding.py` | stateful `SeedSequence.spawn` counters | `build_seed_tree`, `analytics_seed` | backtest, command line |
| Persistence, `persistence.py` | the run directory | temporary file + rename for the parquet files, configuration, manifest | command line |
| Analytics and bootstrap, `analytics.py`, `bootstrap.py` | none | P&L, drawdown, spread capture, adverse selection, paired comparison, intervals | command line |
| Configuration, `config.py` | dataclasses | load, dump, validate | everything |
| Command line, `cli.py` | exit code | `run` | everything |
| Plots and notebooks, `viz.py`, `notebooks/` | none | figures | command line |

What makes them correct:

* Path runner: inventory never exceeds the bound although each side is checked
  alone, books balance, the kill-switch fires at the first step at or beyond the
  loss limit and stays, no off-by-one between arrays of length `N` and `N + 1`.
* Backtest and seeding: the strategies of a regime see the same paths and the
  same draws; no seed is used twice.
* Persistence: a manifest exists only if all it lists exists and is complete; a
  directory belongs to one run; a failure is reported as the documented error.
* Analytics: the decomposition of the profit accounts for all of it; the paired
  interval depends on the pairs only and agrees with the means beside it.
* Configuration: what `load_config` accepts no later stage refuses, an error
  names the offending field, and a dumped configuration loads as itself.
* Quoters: the loop of `run_path`, which restates them and the risk manager,
  agrees with them at every step, on whatever grid floating point gives.
* Mid-price models: the regime walk is the Markov chain of the matrix, for
  rows within the tolerance too.

`PROJECT.json` lists the hazards of this code, each at its line, with the
properties that cover it.

## 2. Modules

| Module | Models | Kind |
|---|---|---|
| `BoundedQueue` | what the ring promises: a lossless bounded FIFO with credit-based flow control | abstract specification |
| `SpscRing` | `ring.hpp`, one action per shared-memory access | detailed specification, implements `BoundedQueue` |
| `ProofLemmas` | remainders, induction over a set of numbers, `SelectInSeq` and `FlattenSeq`, finite sums | lemmas |
| `SpscRingProofs` | theorems about `SpscRing` | proofs |
| `WsClient` | `ws_client.cpp`, one state machine per client | specification |
| `Capture` | `capture_main.cpp`: all threads; extends `WsClient` | composition |
| `CaptureProofs` | theorems about `WsClient` and `Capture` | proofs |
| `Tape` | `tape.cpp`: writer, crash, file and reader, byte by byte | component of `Replay` |
| `Replay` | `replay_main.cpp`, `order_book.cpp`, `basis_strategy.cpp`; extends `Tape` | composition |
| `ReplayProofs` | theorems about `Tape` and `Replay` | proofs |
| `MCReplay` | the frames of a small instance | instance for TLC |
| `Quoters` | the arrays of the three quoters, the risk manager, the crossed-quote rule | operators |
| `PathRunner` | `run_path`; extends `Quoters` | specification |
| `PathReport` | the fills table and the metrics of one finished path | operators on `PathRunner`'s state |
| `MCPathRunner` | schedules, masks and prices of a small instance | instance for TLC |
| `PathProofs` | theorems about `PathRunner`, its agreement with `Quoters`, and `PathReport` | proofs |
| `TimeGrid` | step count, time grid and mask in binary floating point | operators |
| `Config` | `config.py`: `load_config`, `validate`, `dump_config`; extends `TimeGrid` | operators |
| `Simulation` | seed tree, backtest sweep, analytics streams; extends `Config` | operators |
| `ConfigProofs` | theorems about `Config`: validation and the round trip | proofs |
| `RegimeWalk` | the walk of `simulate_regime_switching`; extends `Config` | operators |
| `Comparison` | cell summaries, paired comparison, percentile bootstrap | operators |
| `Study` | a file is edited, loaded, swept, walked and compared; extends the four above | composition |
| `StudyProofs` | theorems about `Study`, `RegimeWalk` and `Comparison` | proofs |
| `MCStudy` | documents, edits and results of a small instance | instance for TLC |
| `Persistence` | `persistence.py` and `cli.py`: processes on one file system; extends `Simulation` | composition |
| `PersistenceProofs` | theorems about `Persistence` | proofs |
| `MCPersistence` | configuration files of a small instance | instance for TLC |

### 2.1 SpscRing

Every load and store of `try_push` and `try_pop` is a step of its own. A C++
atomic is represented by its *modification order*, the sequence of the messages
stored so far. The load of the thread's own counter returns the last message; the
load of the other thread's counter returns any message not older than the last
one that thread read (read-read coherence). That is what the C++ memory model
allows for an acquire load of a location with one writer. A release
store carries the number of slot accesses its thread made before it, the acquire
load learns that number, and the slots are plain memory: `NoDataRace` says that
the thread about to touch a slot knows of the other's last access to it. Counters
wrap at `W = Capacity * Laps`, which stands for 2^64.

`slotOps` is the model of happens-before. A relaxed store would carry no such
number and the property would not be provable.

`approx_size` is modelled for the thread that calls it, the consumer: its own
counter cannot move between the two loads. A third thread could see an
underflow; no code calls it from one.

`BoundedQueue` is what the callers may rely on: a push is refused only if the
pops the producer knows of leave no room. What it knows may lag. The refinement maps
`popsKnown` to `tailSeen - 1` and `pushesKnown` to `headSeen - 1`; a push is
decided when it loads `tail_` (refused) or stores `head_` (accepted).

### 2.2 WsClient

`cpc` is the place in `run` / `run_session_`: `loop` the `while` of `run`,
`connect` everything up to the handshake, `check` the `while` of
`run_session_`, `read` a pending `ws.read`, `callback` inside `on_text`, `close`
the best-effort close, `after` the check before the backoff, `sleep` the backoff
with its 100 ms polls, `done` returned. A TCP resolve, a TLS and a WebSocket
handshake are one step that succeeds, throws or stays pending: nothing in the
code distinguishes them. Beast's `ws.read` throws also when the server closes
in order (`error::closed`), which is the difference `ServerCloseResetsBackoff`
is about. Time is not modelled: a sleep may end at any moment.

### 2.3 Capture

Extends `WsClient` with the callback (`Handler`: push, or drop when the ring is
full), the writer (`check`, `drain` spot then perp, `flush`, and the final drain after
`g_stop`), the signal handler, and main's wait, stop, stop, join, join, join.
Rings are the abstract queue with both sides up to date, so `try_push` and `try_pop` are
atomic here. The writer's `write_frame` may fail; the code ignores the result,
so the frame is gone. A frame pushed between the final drain and the stop of
its client stays in the ring and is destroyed with it: the model has this
behaviour, `EveryFrameAccounted` counts such a frame as in the ring, and
`NothingLostBeforeStop` says what is guaranteed nevertheless. History variables
(`dropped`, `unwritten`, `beforeStop`) record what properties need and no guard
of the code reads them. Timestamps are left out: they come from the wall clock,
which may step back, and nothing in either program depends on their order.

### 2.4 Tape and Replay

A byte of the tape is known by the frame it comes from and its position there,
so that a misaligned read shows: after a short write the reader decodes bytes of
two frames as one, and the length it finds in the place of `payload_len` is
then any of the possible ones. `TapeWriter` and `TapeReader` run one after the
other, as the two programs do. The writer's stdio buffer is `bytes` beyond `durable`: `Flush`
makes all of it durable, a crash leaves any prefix that contains the durable
part, a failing `fclose` likewise.

`Replay` extends `Tape`: each `read_frame` that returns a frame is one step with all the
loop does for it: parse or count the error, apply to the book of the venue, and
run the strategy if both books have a mid. An envelope whose `stream` is not a
string is neither parsed nor an error: `replay_main.cpp:164` reads it outside the
`try`, the exception leaves `main`, and no frame after it is read
(`terminated`). The strategy skips mids that are not positive (`Skip`), which
keep its average and whether it is armed. Prices may be any number: a ticker
without prices puts a level at 0 into the book. A book is the set of its price
levels (quantities matter only as positive or zero), `std::map` order being the
order of the prices. Mids are kept doubled and deviations are integers in units of
`1 / Scale`; a division rounds down where the code rounds a double.

### 2.5 PathRunner and PathReport

One iteration of the loop of `run_path` is one action; the terminal grid step is
another. Prices and cash are integers (ticks). A fill is certain when the quote
is at or through the mid (`delta <= 0`), impossible when the side is suppressed,
and otherwise free: the pre-drawn uniforms are an arbitrary sequence. The three
quoters are one formula with the skew or the half-spread replaced, as in the
loop. `run_path` receives the mask from `t_grid >= T`; `MCPathRunner` has one
that starts at the last step, one step before it, or not at all, and `TimeGrid`
shows that there are no others.

`Quoters` holds what the library offers for the same purpose: the
`quote_arrays` of each quoter, `apply_inventory_bounds`, `kill_switch_triggered`
and `flatten_terminal`. The loop calls none of them (it inlines them for
speed), so `QuotesExplained` states that the two copies agree: each recorded quote, and each
missing one, is what the primitives say of the recorded mid, inventory and profit.

`PathReport` computes from the arrays of a finished path what `persistence.py`
writes of it (the fills table) and what `analytics.py` reports of it (profit,
drawdown, fill-rate asymmetry, spread capture, adverse selection). Its
properties relate these tables to each other and to the path.

### 2.6 Simulation and Persistence

`Simulation` has the functions of one run as operators: the tree of
`SeedSequence`s, the sweep and the streams of the analytics; the configuration
comes from `Config`. A stream of random
numbers is known by the spawn key of its seed, a draw by stream and position, a
result by what went into it. So two results are equal in the model exactly if
the code would compute the same numbers, which is what reproducibility and
pairing are about. The spawn counter of a `SeedSequence` is left out: the code
spawns once from each. With `model: regime_switching` the sweep runs
`simulate_gbm` for each regime, as the code does.

`Persistence` has processes that run `main` of `cli.py` on a shared output
directory, one step per call to the file system, each of which may fail with
`OSError`, and each process may be killed at any moment. A file records its
writer, what is meant to be in it, and whether it is completely written. A `with` block that
opens and fills a file is two steps when others can see the file in between.
A failing `unlink` is swallowed by the code and the file stays. After `dump_config` the run goes on,
and the call is one of the faults; in a handler it comes on top of the fault that led there and is
not counted again. `Tick` is the clock of the directory name: two processes may
get the same second. After `persist` returned, `Analyse` ends well or with
code 4, and `Report` writes the plots in the order of `save_all_figures`: all
of them, none (`--no-plots`), or only the first few and a part of the next, after an exception
or a kill. No other process touches the plots, so this is one step.

### 2.7 TimeGrid, Config, RegimeWalk, Comparison and Study

`Config` takes a document as a function from paths (sequences of keys) to
nodes. `StructuralChecks` and `Clauses` are the checks of `load_config` and
`validate` *in their order*, since the first one that fails decides what the
error names; a check carries the path that the code puts into its message. Numbers
are decimal, in units of 1/20; a node may also be a bool, a NaN, null, or of the
wrong kind. A key that YAML reads as a number cannot be sorted with strings:
building the message about an unknown key then raises `TypeError`, and the
program exits with 4 instead of 1. That error names no field (`Unsortable`, `Rejection`). `str(pathlib.Path(x))`
turns the empty directory into `.`; on every other text that occurs it is the text.

`TimeGrid` has `T / dt`, `i * dt` and `T - i * dt` in a binary floating-point
format with 6 significant bits where IEEE 754 has 53, rounding to nearest, ties
to even. The short format makes the interesting cases frequent: over the grids
in the run, the last grid point falls short of `T` by a rounding error, is `T`, or
lies a step beyond the first one that reaches `T`.

`RegimeWalk` enumerates the uniform numbers on a grid as fine as the entries of
the matrix, so a share of them is a probability. `Comparison` keeps means as
sums (all those compared are over the same number of paths), so the percentiles
are exact.

`Study` composes them. Someone edits a valid file (drops a field, replaces a
node, adds a key), `load_config` reads it, and `Sweep` and `Switch` are what
`run_backtest` and `simulate_regime_switching` make of it. Each of the
later stages validates its inputs again in code of its own; the operators
`...Accepts` are translations of that code, not of `validate`, so
`LoadedMeansRunnable` compares independent texts. `Compare` chooses any results of
the paths and any resampling.

## 3. Runs

| Run | Instance | Question |
|---|---|---|
| `ring` | 4 slots, counters modulo 8, 9 pushes | is the ring a lossless FIFO, does it implement `BoundedQueue`, is everything delivered |
| `client` | 1 client, 3 frames, 6 failures | late frames, backoff, retries, end of run |
| `capture_safety` | 2 venues, 3 frames, rings of 2, 1 failing write | nothing lost before the stop, quiescent exit, order |
| `capture_live` | 2 venues, 1 frame, 1 failure each | does a timed run exit, and do a deadline and a signal end any run |
| `replay` | 4 frames of 9 kinds, 1 failing call (then 3 frames), headers of 1 and 2 bytes | the tape after short writes and crashes; the books and the strategy |
| `path_safety` | 4 steps, 3 prices, 3 strategies, 3 masks, bound 2, limit 2 | the risk rules, agreement with the library's primitives, the tables and metrics |
| `persist` | 2 processes, 4 configuration files, 2 seconds, 1 failing call | what a manifest and an exit code vouch for; pairing and repeatability |
| `study` | 2 documents, 2 edits, floats of 6 bits, 2 paths, 3 resamples | what an accepted file guarantees, what an error names, grid, walk and comparison |
| `client_backoff` | 1 client, 3 frames, 2 failures; violation | does an orderly close by the server reset the backoff |
| `capture_silent` | 2 venues, 2 frames; violation | does a timed run exit when the server is silent |
| `path_kill_terminal` | 2 steps, bound 1, limit 1; violation | does a kill halt all further quoting |
| `persist_exit` | 1 process, 1 failing call; violation | does a failing call exit with code 3 |

Why the bounds are enough.

* `ring`: nine pushes go more than twice round four slots and once round the
  counters; each of full, empty, refused and stale loads occurs.
* `client`: six failures reach the cap of 30 (1, 2, 4, 8, 16, 30, 30).
* `capture_safety`: three frames of one venue fill its ring of two and the third is dropped;
  or two of one venue and one of the other interleave; the stop may come
  between any two steps.
* `replay`: four frames are enough to fill both books, leave the band, return and
  leave it again, to either side (the perpetual's mid is half as high again as the other,
  or a fifth of it), to meet a mid of 0 inside or outside the band, or for a depth
  update to erase what a ticker set; a frame without a stream name may stand anywhere among
  them. Three around a failing call leave a good frame, a torn one and one that is misaligned.
* `path_safety`: four steps with limit 2 let the bound be hit, the latch fire
  before the end and after a recovery, and both sides fill in one step.
* `persist`: two processes are the least that can collide. One configuration
  file has one regime, one has two, one has two of the same name and is refused, and one
  has a key that is not a string, which `load_config` does not survive; the hashes of the first two begin alike, so that directories collide across
  configurations as well. One fault and any number of kills meet each call once.
  Processes are interchangeable (`MCSymmetry`). Rendering stops after the third
  plot, with the fourth in part (`PlotStops`); other stops differ by name only. The clock ticks only
  while some process has still to take its timestamp: nobody looks at it afterwards.
* `study`: no check relates two sections of a document, so two edits of one section
  (`InSection`) reach every clause and every pair of fields that a clause relates. The grid
  values are 1 to 40 twentieths for both `T` and `dt`, 1,600 grids in all; a matrix
  row may be off by the tolerance and beyond it. Results are compared only
  for documents edited in `mc` or `analytics`, or not at all: nothing else enters
  the comparison (bound in `Compare`). Three values of the metric, two paths
  and up to three resamples meet ties, both orders and every interpolation at
  the alphas in the instance.

The ring's consumer polls for ever and `stop` may always be called again, so the
runs of the ring and of the client check deadlock. Capture, replay, a path and a run of the simulator
end: their configurations say `CHECK_DEADLOCK FALSE`.

Fairness. In the ring run a polling consumer and a load that eventually reads
the last store ([intro.progress] of the C++ standard) are assumed; without the
latter a consumer might never see an item. `ThreadsRun` and `ThreadsScheduled`
(weak fairness of what a thread does by itself) are the
scheduler. `NetworkAnswers` (weak fairness of connect, read and close) is *not*
something the code ensures: `client` and `capture_live` assume it and say what
follows; `capture_silent` shows what happens without it, because
`ws_client.cpp:143` removes the read timeout.

## 4. What the violation runs found

`findings` in `PROJECT.json` quotes the lines. In short:

1. `client_backoff`: an orderly close by the server backs off like an error,
   although a comment says that it resets the backoff.
2. `capture_silent`: a silent server blocks a timed run for ever.
3. `path_kill_terminal`: after a kill, the symmetric strategy still records a
   quote at the terminal grid point.
4. `persist_exit`: a failing `mkdir` of the output directory, and a failing
   `mkdir` or `mkstemp` for a Parquet file, exit with 4 where 3 is documented.

Five smaller disagreements have no run of their own. `mid_price.py:8` says
that `n = ceil(T / dt)` makes `n * dt >= T`, and `path_runner.py:449` that the mask is set at the
terminal step "by construction": in `TimeGrid` the last grid point may fall
short of `T` by the last bit of `T`, and then no step is masked
(`GridMeetsHorizon` allows a start at `n + 1`). `mid_price.py:195` asks for rows that sum to 1
within 1e-9, `np.isclose` in line 152 also takes 1e-5 of the sum. In replay,
depth diffs edit the book the tickers set, so the mid the strategy is given is not always that
of the last ticker, on which `replay_main.cpp:22` says it is based. `config.py:10` and the
docstring of `load_config` (`config.py:504`) promise a `ConfigError` with the dotted path of the
field for every structural violation; for unknown keys of mixed types lines 296 and 297 raise a bare
`TypeError` without one (`ErrorNamesField` says exactly when: only if an edit put in a key that is no
string). And `replay` counts what it cannot use as `parsed_err` and goes on, but one envelope whose `stream` is
no string ends it at line 164, without the totals and uncounted (`TypeOK` has the exact count).

## 5. Proofs

`SpscRingProofs` proves, for every `Capacity`, every `Laps >= 2` and every
`MaxOffers`: `TypeCorrect`, `RingHasNoDataRace`, `RingIsFifo`,
`RingSizeInRange`, `RingImplementsQueue`. None of these is inductive, since the
counters only say how many pushes and pops there were modulo `W`. `RingInv`
adds what the program does not store: message `k` of `head` holds `Wrap(k - 1)`
and `k - 1` slot writes (`HeadInv`, `TailInv`), each thread's knowledge lags by
at most `Capacity` (`KnowledgeInv`), and the slots between the pops and the
pushes hold the accepted items (`SlotInv`). Each action has a lemma. The
arithmetic (a masked wrapped counter is the slot of the unwrapped one, since
`Capacity` divides `W`; a wrapped difference below `W` is the true one) is in
`ProofLemmas`. The only assumption is `RingAssumption`: positive capacity that divides
the counters' range, with at least two trips in it, as a power of two below
2^64 does.

`PathProofs` proves, for every horizon, price set, schedule, mask, bound
and limit: `TypeCorrect`, `InventoryNeverExceedsBound`, `BooksAlwaysBalance`,
`KillSwitchAlwaysHalts`, `PnlAlwaysDecomposes`. Strengthenings:
`LocalsCurrent` (the locals are the last entries of the arrays), and for the
latch that its step is within the part already run. The assumption is
`PathAssumption`, the checks of `_validate_common` in integers.
`BooksAlwaysBalance` and `PnlAlwaysDecomposes` are proved only: no run checks
them, since `QuotesExplained` and `ProfitIsCaptureLessDrift` say more of the
same arrays on the instance.

It also proves `LoopAgreesWithPrimitives`, that `QuotesExplained`
holds for every instance. That is not inductive alone: the loop reads the latch and its locals where
the primitives read the recorded arrays. Its invariant `QuotesInv` joins
it with `KillInv`. `LatchIsKilled` shows that the latch is
on exactly if some recorded profit reached the limit, `PrimitivesAreLive` that
the three quoters agree with the live quotes of a step, and a step
leaves what the primitives read of earlier steps alone.

`PathProofs` also proves the three properties of the tables and metrics, under
`PathAssumption` alone: `FillsTableTellsPaths`, `MetricsAccountForProfit` and
`DrawdownIsTheWorstLoss`. They are about the arrays of a path that has ended, so their
invariant is short: `ReportInv` adds to the balanced books that they start flat and
that the counters are the numbers of the fills recorded. The rest is about operators.
`FlatNonzero` enumerates a set of steps in order (`FlatNonzeroIs`), so the
rows of a side with a step before `j` are a set `Before` that gains one row at
each fill and none otherwise (`BeforeGrows`). `SumFunctionOnSet` adds up a set in an
order of its own choice; `TakeFirst` shows that any element may be taken first,
so a sum grows by the row that is added (`SumOfMore`). Then both theorems are
inductions over the steps of the path: what the rows before `j` add up to is the
books at `j` (the fills table), or the profit at `j` marked at the *last* mid
(the metrics), which at `j = N` is the property. For the drawdown,
`RunningMaxIs` gives what the recursive maximum is at each point: an upper bound
of the curve so far that the curve attains.

`CaptureProofs` first proves of the clients `StopIsPrompt` and `BackoffIsOfFailures`, for any set of
clients and any number of frames and failures, without an assumption;
`ClientTypeCorrect` needs the bounds to be numbers (`BoundsAssumption`).
`ClientInv` says of each client what the two properties do not: one that has
handed out a frame after `stop()` is on its way out (at the loop's check,
closing, or past it), so it reads no other; `close` and `done` are reached only
because of `stop()`, and `after` and `sleep` otherwise only by a failure, so the
one reset of the backoff cannot happen to a client that runs on. A step of one
client leaves what the invariant says of the others untouched.

It then proves every invariant of `capture_safety`, for any venues, ring
capacity, frames, failures and signals. `ClientsRunAsAlone` comes first: every
step of the program is a step of `WsClient` or leaves its variables alone, so
`Spec` implements the clients' specification and their theorems hold of it. The
order on the tape is not inductive alone; `FrameInv` adds that the numbers in a
ring increase, exceed those already taken from it, and are at most the number of
frames handed out, and `NoFrameVanishes` that the places of a frame are disjoint.
`ControlInv` ties the place of each thread to the flags it has seen and to the threads
main has joined, which gives `ExitIsAlwaysQuiescent`; `StopInv` says what the
final drain has still to take of each ring, which gives `FinalDrainCompletes`. The
assumptions are a positive capacity and the two distinct venues of the program.

`ReplayProofs` proves every invariant of `replay`. For the tape, the file is a
sequence of bytes whose frame boundaries no variable records. The invariant says that
*there are* offsets, one for each frame sent, at which the frames up to the first short
write lie undisturbed; the reader is at one of them, or beyond that write. From
that follow `TapeReadsBack` and `FlushedSurvives`, with `TapeAssumption`
(headers of at least one byte, lengths that are numbers). For the strategy, `armed` is
exactly "the last *usable* mids left the average inside the band" and the average is the one they
left (`StrategyInv`); a mid that is not positive changes neither what is known before a sample nor
after it (`BeforeGrows`), which makes `OneEventPerExcursion` inductive for any prices.
`EveryFrameIsCounted` holds up to the one frame that ends the program.
`BookHoldsLastWord` is about `apply_diff_`, a
fold over the diffs of an update: that the fold leaves, for every price, what its last mention
says (`DiffIsLastWord`) is proved by naming the value of each prefix and
induction over the prefix lengths; then a book before and after a frame is
compared with the indices of the frames that mention a price (`About`).
`ReplayTypeCorrect` needs more than types: that a book has finitely many levels, so that
`best_bid` and `best_ask` exist, and that the average is computed only where `Usable` holds,
so that the deviation does not divide by zero. `ReplayAssumption` says nothing of the sign of a price: `WellFormed` is what the two
parsers make of a payload, and prices are finitely many numbers, as doubles are.

`PersistenceProofs` proves every property of `persist`, for any number
of processes, configuration files, regimes, paths, faults and any clock. The invariant `PersistenceInv` has
four parts. *Ownership*: a temporary file carries the pid of
its writer, any other file lies in the directory of its writer, and no
directory is that of two processes, because `mkdir` refuses an existing one. *Place*:
where a process is in `persist` decides whether it has a directory, and which temporary
file it may have as long as each `unlink` succeeded. *Progress*: the published files of a process are exactly the items before the one
it is at, so a manifest is there only at the end. *Plots* come after it. With
these, `ManifestVouchesForItsDirectory`, `NothingIsLeftBehind` and `ExitCodeTellsTheDirectory`
follow; whoever else writes leaves `ProcessInv` of a process alone (`OthersKept`).
`PublishedFilesAreFinal` needs one thing more: that no two items of a run have
one name, or the second rename would replace the first file. That holds because `validate`
refuses equal regime names: `LoadedIsValid` (in `ConfigProofs`) proves that a document accepted by
`load_config` has passed every clause, the ones inside `FlattenSeq` included.
`RunsArePairedAndIndependent` joins what is in the files (`DataSound`: the data of a
file is what its writer's configuration computes for its name) with the seed tree:
streams of paths have four numbers and of bootstraps five, each number is
decided by its position, and the bids and asks of one stream do not overlap.
`RunsRepeatFromDisk` adds to `DataSound` that the `config.resolved.yaml` of a run is
what `dump_config` writes of its configuration, and then needs the round trip below.
`PersistenceAssumption` says that a configuration file is a document (paths of strings,
numbers that are integers in the model's unit), that a loaded configuration has integer step and path
counts, as `math.ceil` and the type checks give, that each has a hash, and that `None` is no name.

`ConfigProofs` proves the round trip, `DumpLoads`: whatever document `load_config`
accepted, what `dump_config` writes of the result loads as the same
configuration. The proof never looks at a particular document. An accepted document has
the structure its checks demand (`Accepts`), which fixes the kinds of the fields and so the
types of the configuration. The dump consists of the inner nodes and,
below each, the keys of `Entries`; `DumpAt` and the lemmas after it say which node
stands at each path, so each structural check passes on the dump: the right kind, no unknown
key, the word among the allowed ones. Counting the children of a list in the dump gives its
length back, whatever its length, and `Regime`, `Matrix` and `Floats` of the dump then give
the fields back one by one. Two things are less obvious. `dump_config` leaves
out a `gamma` that is `None` but writes a `transition_matrix` and an `L_kill` that
are `None` as null, and the three read as `None`; and `dir` is written after
`pathlib` normalised it, which a second reading leaves as it is.
That the configuration is valid is the one thing not to be proved twice: `validate`
depends on the configuration alone.

Recursive definitions. The induction theorems of the library take a predicate as
a parameter, which the provers cannot instantiate. `ProofLemmas` derives from
well-foundedness an induction over a *set* of numbers, which they can, and
the recursive functions behind `FlattenSeq`, `FoldLeft` and `SelectInSeq` are
handled with it, as is a finite sum: an explicit function is shown to satisfy the recursion, so the chosen one does.

`StudyProofs` proves the properties of `Study`, for any base documents, any values put into
them, any number of edits, any results and any resampling. `StudyInv` says that the
document stays a tree of nodes whatever is edited (`EraseIsTree`, `PutIsTree`, `AddIsTree`),
that `load` is what `load_config` makes of the document as it is, and what each stage has passed.

* `LoadedRuns` (with `LoadedIsRunnable` for a single document). The clauses of
  `validate` are split into named parts, each of which holds of a loaded configuration
  (`PartsAreOk`, `ValidateHolds`), and imply the conditions that the later
  stages check in code of their own. Three of these are no
  clause of `validate`: that `T` and `dt` are positive *as floats*, which needs that
  rounding cannot reach zero (`FloatIsPositive`), that the simulator's looser
  tolerance admits what `validate` admits, and that `alpha`, a number strictly between 0 and 1,
  is one of the levels between. `NeverCrashes` follows; the second half of the property is `DumpLoads`.
* `WalksFollow`. A row is turned into its partial sums (`RowAccumulates`), which grow from 0.
  A uniform number leads to regime `j` just if it falls between the partial sums `j - 1` and `j`,
  the last one being closed by force (`NextRegimeIs`, `BucketExists`); counting the numbers
  there gives the share of each regime (`ShareIs`), which differs from the entry of the matrix by
  what the row is off one, and by nothing if the row sums to one (`ShareIsOff`). Pairs of numbers
  are counted by a product (`PairsMultiply`), so consecutive steps are independent.
* `IntervalsAreOfPairs`. An order statistic is the value with fewer than `k` values below
  and at least `k` values at or below it; it exists (`OrderExists`), is unique (`OrderIs`), grows
  with `k`, and the one of the negated values is that from the other end (`OrderMirrors`). A
  quantile mixes two neighbours: it grows with the level although the neighbours
  change (`QuantileGrows`), and mirrors (`QuantileMirrors`). Together with the sums
  (`TotalsAdd`, `ResampleBetween`, `ShocksCancel`) this gives each conjunct for every number of paths.

* `ErrorsNameFields`, that is, `ErrorNamesField`: the field in a `ConfigError` was edited, holds or is held
  by an edited one, or is compared with one; and the `TypeError`, which names no field, is raised only if an
  edit put in a key that is no string (`UnsortableIsEdited`). A rejection does not say how the document came to be what it
  is, so the proof needs `EditInv`: there is a base document from which the one at hand differs
  only at and below the paths edited (`Edits`: every node was edited or stands as it did, a node that
  is gone went with an edited path, a new one stands in a mapping), whatever the order of the edits
  (`EraseIsEdit`, `PutIsEdit`, `AddIsEdit`). Suppose that the field named is not edited, nor around or
  inside an edited path, nor compared with one. A structural check looks at the field and at the
  mapping around it alone, and finds there what it accepted in the base (`RejectedIsBeside`). A
  clause of `validate` compares several fields; each is taken in turn
  (`PositivesAreExplained`, `PriceIsExplained`, `RegimeIsExplained`, `SquareIsExplained`,
  `RowIsExplained`, `RunIsExplained`, `OthersAreExplained`): had none of the fields it reads been edited it would hold
  as it did in the base, so one of those in `Related` was. The hard one is the matrix, whose
  rows are measured against the number of regimes: a regime added, removed or put back
  moves the blame to a row that nobody touched, and a matrix taken from
  a list to anything else is no matrix.
* `StudyTypes`. The proof of `ErrorsNameFields` (`Grounded`) also says what a rejection names: a
  `ConfigError` a path of fields, a `TypeError` nothing. With `StudyInv` that is `TypeOK`.

`StudyAssumption` says that the base documents are accepted trees whose keys are strings, that none of their matrices is
`None`, and that the numbers of base
documents and edits are below `LargestNumber`, a bound: the model's floats end at 2^20 grains,
as binary64 ends somewhere.

Only model-checked:

* all liveness properties (`AcceptedIsDelivered`, `RetriesAfterFailure`,
  `StopEndsRun`, `StopEndsProcess`): fairness and ENABLED are outside the prover;
* `MaskWithinOneStep`. It is not true of every grid: when a grid has more steps than the floats
  have significands, adjacent grid times round to the same float and the mask can
  start earlier than one step before the last. With 53 bits that takes 2^52 steps, with the 6 bits of the model
  a few dozen, so a proof would need a hypothesis on the step count that no line of
  the code states; the run covers all grids up to 40 steps of the model's unit.

## 6. Limits

* Memory orders below acquire/release are represented by the loads they allow,
  not by a full model of C++11: with one writer per location these agree.
* Frames are bounded, so each drain ends. A producer that keeps pace with the
  writer can keep `drain` in one ring for ever; that needs an unbounded producer.
* `Capture` composes with the abstract queue, not with `SpscRing`, and does not
  write through `Tape`: its tape is the sequence of frames, a failing write
  loses exactly one. What a short write does to the file is `Tape`'s subject.
* A tape with a wrong magic or version, which the reader refuses, is not
  modelled; nor is the CSV file of replay. A payload may also hold "nan" or "inf",
  which `std::stod` accepts, as a price or a quantity: prices are numbers here.
* `Config` starts from the parsed document: syntax errors of YAML, an empty
  file and integers too large for a float (`OverflowError`) are left out, as is
  `KeyboardInterrupt` in the command line.
* `LargestNumber` keeps the quotient `T / dt` finite. In the code a `T` and a `dt` that
  `validate` accepts may have a quotient beyond the largest float, and then `math.ceil(T / dt)`
  (`mid_price.py:105`) raises `OverflowError`: `LoadedMeansRunnable` holds within the bound only.
* Fill probabilities, log-Euler increments, the closed form of the half-spread,
  the Sharpe ratio and the standard deviation are transcendental or square roots in floating
  point: only whether a fill is certain, possible or impossible is modelled, and the
  schedules only as linear in the horizon left.
* The scalar `as_quote`, `semi_as_quote` and `symmetric_quote` are the formulas of
  `quote_arrays` at one step, called by tests only.
* Drawing, notebooks, argument parsing and log lines are not modelled.

## 7. Plan

Done: the ring and the client with their proofs, the capture program, the tape and
its replay, the quoters and the path runner with their proofs and reports, the
simulator from configuration file to plots, the regime walk and the comparison.

Proved since: the safety properties of the capture program, the tape, its replay,
the path with its tables and metrics, the run directory, the round trip of the
configuration, what follows from accepting one (runnable stages, the regime walk and the paired
interval), and what a rejected one names.

Left to prove: `MaskWithinOneStep` under a bound on the number of steps, for any number of bits.

Extending the model: `Capture` writing through `Tape`, so that a capture crash
and replay are one behaviour (what was accepted before the last flush is
replayed), and the drain loop against a producer that never stops.
