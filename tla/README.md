# VWAP trader: TLA+ models, checks and proofs

The program (`src/include`, `src/src`) connects to a market data server and an
order server, keeps the volume weighted average price (VWAP) of the trades in a
sliding window, and sends an order when a quote is better than it. This
directory models it, with the simulator that serves market data to it, checks
the models with TLC on small instances and proves their safety properties with
TLAPS for every instance.

Paths below are relative to the repository (`src/vwap_calculator.cpp` is the
file of that name in its `src` directory).

## Inventory

| component | state | operations | what makes it correct |
|---|---|---|---|
| `CircularBuffer` (`include/circular_buffer.h`) | array, head, tail, count | `push_back` (overwrites when full), `pop_front`, `clear`, `front`, `back`, iteration | behaves as a bounded deque |
| `VwapCalculator` (`src/vwap_calculator.cpp`) | window, two prefix arrays, two running sums, cached VWAP, start of the window, completion flag | `addTrade` (reject, append, overwrite, expire), `getCurrentVwap`, `hasCompleteWindow` | sums and cache are those of the window; sums never wrap; completion means what it says |
| `DecisionEngine` (`src/decision_engine.cpp`) | ready state, last quote and order time, decision history, counters | `onVwapWindowComplete`, `evaluateQuote` | cooldown between orders, no order twice for one quote, statistics add up |
| `OrderManager` (`src/order_manager.cpp`) | its own ready state and totals, order history | `processTrade`, `processQuote`, getters | no order before the window is complete, every order beats the VWAP, the three objects agree |
| `TcpClient` (`src/tcp_client.cpp`) | connection state, attempts, backoff | `connect`, `reconnect`, `send`, `receive`, `disconnect` | backoff grows up to its cap; attempts are limited |
| `OrderClient` (`src/order_client.cpp`) | send queue | `sendOrder`, `processSendQueue` | each order on the wire whole and at most once |
| `MessageBuffer` (`src/message_buffer.cpp`) | byte ring | `append`, `peekMessage`, `consume`, `resync`, `clear` | a queue of bytes; messages come out whole |
| `MarketDataClient` (`src/market_data_client.cpp`) | the buffer, the callback | `processIncomingData` | every message delivered once, intact, in order |
| `NetworkManager` (`src/network_manager.cpp`) | two clients, a reconnect delay for each | `processEvents`, `tryReconnect*`, `stop` | every outage ends, or the attempts are used up |
| `main` (`src/main.cpp`) | totals, shutdown flag | quote and trade callbacks, loop | totals mean what they say; only valid orders; a signal ends it |
| `MarketDataSimulator` (`src/simulator.cpp`) | client list shared by two threads, stop flags | accept, generate, broadcast, `start`, `stop` | no descriptor used after close, none lost; one client's failure is not another's; stops |
| `CSVReplayEngine` (`src/csv_reader.cpp`) | position, clocks | `start`, `getNextMessage` | records at the scaled time, again and again |
| `MemoryPool` (`include/memory_pool.h`) | lock-free free list | `allocate`, `deallocate` | never instantiated |
| parser, serializer, wire format | none | fixed offsets, validation | round trip |
| `SystemMetrics`, `Optional`, `Config`, benchmark | counters, values | | only printed, or no behaviour of their own |

Interaction. One thread runs `main`'s loop: `processEvents` selects on the two
sockets, reconnects a client that is down, lets `MarketDataClient` receive and
parse, which calls back into `OrderManager` and from there `sendOrder`, and lets
`OrderClient` flush its queue. So the difficulty is not in threads but in the
order of calls and in what the network and the kernel may do between them:
partial reads and writes, errors, connections lost and made again with buffers
that survive them, trades and quotes whose timestamps are in any order, rings
and histories at their limits, 64-bit sums and differences that may wrap. The
simulator is the only program with several threads: its main thread, one that
accepts clients and one that broadcasts, over a list of descriptors. `PROJECT.json` lists each
hazard at its line, with the properties that would catch it going wrong.

## Modules

| module | models | state and actions |
|---|---|---|
| `CircularBuffer` | `CircularBuffer` as it is: array, head, tail, count | `push_back`, `pop_front`, `clear`; `Front`, `Back`, `At`, `Contents` |
| `DequeSpec`, `BoundedDeque` | what the ring promises: a sequence that drops its front when full | the operators the other modules use for a buffer |
| `LowerBound` | the binary search of `removeExpiredTrades` and `lowerBoundTime` | one step per turn of the loop |
| `MachineIntegers`, `Sums` | `uint64_t` difference, cast of a `uint32_t` to `int32_t`; running totals and the prefix arrays that hold them | operators |
| `VwapCalculator` | `VwapCalculator` | `AddTrade` (`RejectTrade` or `AcceptTrade` with expiry), `GetCurrentVwap` |
| `DecisionEngine` | `DecisionEngine` | `OnVwapWindowComplete`, `EvaluateQuote` (`RejectQuote` for each early return, `TriggerOrder`) |
| `OrderManager` | `OrderManager`, composed of the two above | `ProcessTrade`, `ProcessQuote`, `ReadVwap` |
| `TcpClient` | `TcpClient`, with the age of the last attempt in place of its time | `ReconnectSucceeds`, `ReconnectFails`, `ConnectionLost`, `Disconnect`, `Elapse` |
| `OrderChannel` | what the order client promises: orders that are written, pending or abandoned, no bytes | `SendOrder`, `Flush`, `Abandon`, `Reopen`, `Close` |
| `OrderClient` | `OrderClient` on a `TcpClient`; implements `OrderChannel` | `SendOrder`, `ProcessSendQueue`, `ReconnectClient`, `DisconnectClient` |
| `MessageBuffer` | `MessageBuffer` | `append`, `consume`, `resync`, `clear` |
| `MarketDataClient` | `MarketDataClient` on both, with server and network | `ServerSends`, `StartProcessing`, `Receive`, `ReceiveBlocks`, `ReceiveEnds`, `ParseMessage`, `StopParsing`, `ReconnectMarket` |
| `NetworkManager` | `NetworkManager` over two instances of `TcpClient` | `MarketHalf`, `OrderHalf` and `InputOutput`, the three parts of a turn of `processEvents`; `Stop`, `Tick` |
| `TradingSystem` | `main`: `OrderManager` composed with the order channel | `OnQuote`, `OnTrade` (the callbacks, after validation), `StartTurn`, `EndTurn`, `Signal`, `Stop` |
| `CsvReplay` | `CSVReplayEngine` | `EmitMessage` (when `ShouldEmitNow` may be true), `Restart`, `ReplayTick` |
| `Simulator` | `MarketDataSimulator` and its `main`, on `CsvReplay` | the main thread (`LeaveLoop`, `JoinAndCleanup`), the accept thread (`AcceptClient`, `PushClient`, `PruneClients`, ...), the data thread (`GenerateMessage`, `CopySockets`, `SendNext`, `FinishBroadcast`, ...), `Signal`, and the peers |
| `VwapCalculatorProofs`, `WindowPartsProofs` (`CircularBuffer` and `LowerBound`), `TradingSystemProofs` (`OrderManager` and `TradingSystem`), `NetworkManagerProofs`, `OrderClientProofs`, `MarketDataClientProofs`, `SimulatorProofs`, on `SumTheorems` | | theorems and lemmas |

The `MC` modules only choose input sets and bound the number of calls; they
replace no definition. Variables marked auxiliary record history for a property
(what was overwritten, which bytes an earlier connection carried) and guard no
action. An operator introduced as a mutant of a definition is a plausible mistake
in that code; each property is known to fail when its mutant takes the place of
the definition.

Abstractions that matter to a reader of the code:

- A VWAP is the pair of its sums and is compared by cross multiplication; the
  code divides doubles. Prices and quantities are small numbers, with the limits
  of `int32_t` and `uint64_t` as constants, so that casts, overflow tests and
  wrapping differences are still exact.
- `VwapCalculator` expires with the operator `IsLowerBound`, the specification
  that `LowerBound` is shown to meet, and buffers are the deques that
  `CircularBuffer` is shown to implement.
- A byte carries the order or message it belongs to and its position. The code
  does not see these; the properties do. How much a `send` takes and `recv`
  returns, and every error, are free choices. A message body is a short sequence
  of values, the first standing for what `validateQuote` and `validateTrade` look
  at.
- `connect` blocks until it is decided, so `CONNECTING` is not seen between
  calls. NetworkManager's own delay between attempts is in `NetworkManager` and
  left out of the two clients' modules: it only makes attempts rarer.
- Times that are only compared with a delay are ages, capped at the longest delay
  that they are compared with. The clock of the replay is compared with offsets of
  any size; it stops at `ClockMax`, the longest time that `steady_clock` measures
  (its nanoseconds are an `int64_t`).
- `CsvReplay` scales offsets through doubles as the code does: the set `Doubles`
  holds the numbers up to 2^64 that a double can have, in units of 2^-53, conversion
  and division give the nearest (either of two that are equally near), and the cast
  back to `uint64_t` truncates or, out of range, where it is undefined, gives 0 or
  the largest value. So `ShouldEmitNow` is the set of possible answers. The cast of a
  double to `int32_t` in `DecisionEngine` (`DoubleToInt32`) is treated likewise.
- `TradingSystem` is built on `OrderChannel`, which `OrderClient` is shown to
  implement (`ImplementsChannel`), and takes from the market data client that a
  turn hands up to `BatchLimit` validated messages to the callbacks. A symbol is
  the configured one, a longer one that starts with it, or another.
- In `Simulator` a critical section of the mutex is one step, since nothing in it
  blocks; a socket is its descriptor and the connection it was opened for, and
  the kernel hands out the lowest free number. A peek at a peer that has hung up
  may find it or fail, a send to it may succeed or fail, and a send to a peer
  that does not read waits, unless a signal cuts it short. Messages are counted.
- Metrics, printing and the wording of reasons are left out.

## Runs

| run | what it shows | bounds |
|---|---|---|
| `order_manager` | the calculator: the window slides (`WindowSlides`); sums stay in range (`VwapTypeOK`) and are the window's plus whatever was overwritten (`SumsAccount`); prefixes are right unless marked for rebuilding (`PrefixesConsistent`); the cache is never stale (`CacheFresh`); completion is never early (`NotCompleteTooEarly`), and comes only with a trade exactly one window after a retained one (`CompletionExact`). Engine and manager on it: `ReadinessAgrees`, `OrdersBeatWindowVwap`, `TotalsAgree`; orders are a cooldown apart when quotes are in order (`OrdersSpaced`); the statistics add up (`DecisionsAddUp`) | 6 calls, up to 3 of them quotes, interleaved freely; 3 slots, window 3, times 0..5, a `uint64_t` that ends at 16: the window fills, overwrites, rebuilds, expires all, some or none, and both overflow tests fire. Histories of 2 and 1, cooldown 2: both histories overflow and quotes fall inside, at the end of and before a cooldown |
| `trading_system` | no order before the first window (`NoOrderBeforeWindow`) or without quantity or with a negative price (`NoEmptyOrder`); what each printed total counts (`ReportedTotals`); a signal stops the handling of messages within a turn (`SignalEndsTrading`) and ends the program (`ShutdownCompletes`) | 3 trades, 3 quotes, turns of up to 2 messages, queue of 1 order; quotes that are free, empty, or beyond `int32_t`, trades that do not validate; the signal anywhere |
| `network_manager` | `BackoffGrows`; a client that has used up its attempts is down ever after (`GivesUpForGood`); a success forgets the outage in both layers (`FreshStart`), every outage ends or uses up the attempts (`OutageEnds`) | 3 attempts, backoff 1 to 5 with half of it as jitter, manager's delay 1 to 2 with jitter of 50 to 150 percent, both clients down in any overlap |
| `order_client` | `AtMostOnce`, `AcceptedAccountedFor`, `FramedUnlessBroken`, and the refinement `ImplementsChannel` | 4 orders of 3 bytes, queue of 2, 2 reconnect attempts: partial entries, a full queue, errors, several connections |
| `market_data` | `RingHoldsReceived`, `DeliveredIntact`, `NothingTwice`, `BadHeaderBlocks` | 4 messages of 4 or 5 bytes in a ring of 8 (each wraps somewhere), pieces of 1 or 2 bytes, one body that contains a plausible header |
| `window_parts` | the ring: `EndsAgree`, and the refinement `RefinesDeque`; the search: `SearchInvariant`, `SplitsAtCutoff`, `Terminates` | capacity 4, 3 items; every sorted window of up to 6 timestamps, every cutoff |
| `simulator` | sockets copied from the list stay those of their clients (`NoStaleDescriptor`); the pruned descriptors are the only leak (`OpenAccounted`); one client's failure does not cost another a message (`EveryoneServed`); a signal ends the program unless a client holds a send for ever (`StopCompletes`); a replay goes round if its clock reaches every record (`ReplayGoesOn`); a record older than the first, whose offset wraps beyond the clock and stays below 2^64 through both roundings, stops it for good (`OlderRecordBlocks`) | 3 connections on 2 descriptors, so that numbers are reused and run out, with no file and with a file in order at half speed. Without clients, every file of 3 records over three timestamps, and one with a record only just older than the first; doubles of 2 bits and a `uint64_t` that ends at 15, so that offsets are exact, or round below, to or past the limit; speeds 1/2, 1, 3, and not positive |

Deadlock is checked except where the program may really stop: a client that has
given up reconnecting for good, a search that has ended, `main` and the simulator
after their shutdown. In the other runs the bounds leave some step (a getter, the
clock) enabled.

Fairness, always weak, is assumed of the program's own threads and of time:

- the loop body of the search and the loop of `main` (`select` waits for at most
  100 ms, and every call in a turn returns), in `LowerBound` and `TradingSystem`;
- `processEvents` and the clock, in `NetworkManager`;
- each of the three threads of the simulator and, for the replay, the clock.

Nothing is assumed of the servers, the peers or the user: they need not answer,
read, hang up or send a signal. `StopCompletes` and `ReplayGoesOn` therefore name
the one thing that may keep them from happening, a peer that does not read.

Five runs state what a test, a usage text or the order server says of the
program, and TLC finds what the code does instead (details under `findings` in
`PROJECT.json`):

- `vwap_complete_after_duration`: expiry moves `windowStartTime` before the
  completion test, so trades may be accepted for any length of time without the
  window being complete. With nanosecond timestamps only an exact coincidence, or
  an overwritten record, completes it. `CompletionExact`, proved below, is the
  positive statement.
- `vwap_late_trade`: a trade older than the last accepted one is rejected, though a
  test wants it counted while it is within the window. `WindowSlides` is about the
  trades that are accepted.
- `order_after_duration`: a quote does not complete the window, though several tests
  send trades over 0.8 seconds, wait until the window's second has passed, and
  expect an order. `NoOrderBeforeWindow` says what the code waits for: trades over
  the whole duration.
- `order_framing`: `sendOrder` writes past the queue, and a partial order in the
  queue is carried to the next connection. `FramedUnlessBroken` shows that these,
  and the loss of an order's rest from a full or emptied queue, are the only ways.
- `simulator_duration`: the end of the duration stops both threads of the
  simulator and leaves its main thread waiting for a signal.

Two more behaviours worth knowing are part of what the passing runs say: trades
overwritten in a full window stay in the sums for ever (`SumsAccount` names them),
and the cooldown does not hold for a quote older than the last order, whose
unsigned difference wraps (the condition of `OrdersSpaced`).

## Proofs

TLAPS proves the following for all values of the constants that meet the named
`ASSUME`s beside their declarations: capacities, durations, sizes and divisors are
positive, machine bounds are natural numbers in their order, the ring of bytes is a
power of two and has room for one message, trades and quotes have fields in the
range of their machine types. TLC evaluates each of them on the instances it
checks. Every safety property is proved from an inductive invariant, because none
of the interesting ones is inductive alone.

`VwapCalculatorProofs`: the seven properties of the calculator in `order_manager`. That expiry
subtracts the right amounts needs the prefixes, the prefixes need the lengths and
the pending flag, the ranges of the differences need the sums to be those of the
window plus the overwritten part. The inductive invariant is

    IInv == Shape /\ VolumeInv /\ PriceVolumeInv /\ CacheInv
              /\ WindowSlides /\ Timeline

`Shape` gives lengths and ranges; `VolumeInv` and `PriceVolumeInv` are the same
statement about one prefix array with its sum and the part overwritten, preserved
by append, overwrite, rebuild and shift; `Timeline` relates first, last and start
times. The two instances are proved once, in `SumTheorems`, about an arbitrary
array of natural numbers.

`ExpiryAlwaysDefined` is about the model's use of the search: the window of an
accepted trade, when its oldest record is expired, splits at the cutoff in exactly
one place, so `IsLowerBound` neither blocks `addTrade` nor leaves it a choice.

`WindowPartsProofs`: `RingRefinesDeque` (every step of the ring is a step of the
deque under the mapping that reads the ring from head, the oldest element, to tail,
or leaves it unchanged) and `EndsAlwaysAgree`, from the invariant that tail is count
places after head, modulo the capacity (`RingIsInvariant`). `SearchIsSafe` and
`SearchSplits`, partial correctness of the search for every sorted window and
cutoff, and `SearchNarrows`: each turn makes the range smaller and keeps it a range,
which is all of `Terminates` but the fairness.

`TradingSystemProofs`, on the invariant of the calculator. Its first part is about
`OrderManager`, whose invariant

    ManagerInv == IInv /\ LostTogether /\ EngineTypeOK /\ ManagerTypeOK
                    /\ ReadinessAgrees /\ TotalsAgree /\ DecisionsAddUp
                    /\ Spacing /\ Waited

adds to the properties what lets one step prove the next: `Spacing`, that
`lastOrderTimestamp` is the latest order's as long as quotes are in order, so that
one comparison keeps every pair of orders apart; `Waited`, that an order means
readiness; `LostTogether`, that a record does not leave the sums without a trace in
the volume. `DecisionsAddUp` needs that overwriting the oldest decision removes at
most one of its kind. The second part is about `main`: `SystemInv` is `ManagerInv`
with `OrdersInv`, `ReportedTotals` and `TurnInv`, which bounds what a turn may still
handle after a signal. `OrdersBeatWindowVwap` is proved there and not of
`OrderManager` alone, where it does not hold: a bid above the largest `int32_t`
is compared as `uint32_t` and stored as a negative price. `validateQuote`, which `main`
calls first, refuses such a quote (lemma `ValidQuote`), and the proof uses it.

`NetworkManagerProofs`: `FreshStart`, `BackoffGrows` and `GivesUpForGood`. What is
inductive is a lower bound of the current backoff: the initial one doubled once per
failed attempt, up to the cap, whatever the jitter (the recursive function
`LeastBackoff`, unfolded by the induction of `SumTheorems`). `GivesUpForGood` is
proved as stability: no step of either layer takes a client that is down with its
attempts used up out of that state, since only a success resets the count and a
success takes an attempt.

`OrderClientProofs`: `AtMostOnce`, `AcceptedAccountedFor`, `FramedUnlessBroken`,
and that the client implements `OrderChannel` (`ClientImplementsChannel`), so that
what `TradingSystem` assumes of the channel is proved of the client. The invariant
`ClientInv` describes the queue as a sequence of rests of accepted orders in the
order of the calls, without a gap (`QueueInv`), and says that while the framing is
not at risk the queue continues the stream of the connection to the end of an order
(`StreamInv`). A partial write then splits the queue anywhere and both parts keep
their form.

`MarketDataClientProofs`: the four properties of `market_data`. `RingHoldsReceived`
is proved from the arithmetic of indexes that go at most once past the end of the
array. The rest is about the bytes on their way to the callback, received and then
in flight:

    MarketInv == TcpTypeOK /\ MarketTypeOK /\ RingHoldsReceived
                   /\ OrderInv /\ StreamInv

`OrderInv` (they ascend, and all that was delivered comes before them) survives
every loss, since each loss removes a piece of the sequence at its front or its end;
`NothingTwice` follows. `StreamInv` says that as long as nothing was cut they are
all the bytes of the messages from some number on, and that every due message below
that number is delivered. So a header is found where a message begins, its length
is that of the body, and taking it off leaves the same statement for the next
number; `DeliveredIntact` follows with the order of the first bytes.
`BadHeaderBlocks` is proved step by step.

`SimulatorProofs`: the safety properties of `simulator`, for any number of
descriptors and connections. The invariant is about who owns a socket:

    SimInv == SimTypeOK /\ Accounted /\ Apart /\ HandInv
                /\ WorkInv /\ TurnInv /\ OwedInv

The sockets in use are those on the list, in the hand of the accept thread and
pruned (`Accounted`), and no socket is in two of these places (`Apart`). `WorkInv` is
the reason that the data thread may work outside the lock: what it has copied, and
what has failed, is on the list or pruned, and nobody but the data thread, and
`cleanup` after it has ended, closes such a socket. So a number stands for the same
socket in the copy and in the kernel (lemma `SameNumberIsSame`), erasing and closing
by number hit no other, and the accept thread's new socket is never among them.
It is the leak that keeps this safe: with the pruned sockets closed by the accept
thread (the mutant of `NoStaleDescriptor`), the copy goes stale. `OwedInv` gives
`EveryoneServed`. `StopLeaksOnlyPruned` adds what remains open after `stop`: only
sockets of clients that had hung up. The list is cut with `Erase`, a recursive
function, because the prover has no facts about `SelectSeq`; that it returns the
elements not erased is proved by the induction of `SumTheorems`.

`OlderRecordAlwaysBlocks` is about `CsvReplay`, for every file, positive speed and
precision of the doubles. `NeverDue` names the older records it is about: between the
largest time of the clock and 2^64 there are doubles on both sides of the wrapped
offset, before and after the division by the speed. A nearest double never crosses
another double (`NearestAbove`, `NearestBelow`), so both roundings keep the offset
between them, the cast is in range and its result is later than any time of the clock
(`ScaledBeyondClock`). At speed 1 these are the records older by 2048 ns to 2^63 ns.
A record that is older by less rounds to 2^64, and what the cast makes of that is
undefined: in the model it may be handed out at once or never, and neither is claimed.

Only model-checked: liveness (`Terminates`, `OutageEnds`, `ShutdownCompletes`,
`StopCompletes`, `ReplayGoesOn`), which is outside the prover's reach.

## Not modelled

- The field layout of messages and byte order: fixed offsets, no state. CSV
  parsing, argument parsing and configuration: string handling without state.
- Random prices in the simulator: the messages it sends are only counted.
- `SystemMetrics`: relaxed counters that are printed and never read to decide
  anything. `Optional`: a value with a flag. The benchmark only measures.
- `MemoryPool` and `SimplePool`: nothing instantiates them.
- Messages themselves in `TradingSystem`: the bytes are in `MarketDataClient`, and
  composing both would multiply two large state spaces that meet only in
  validated messages.

## Plan

Done, in this order: the window and its parts, engine, manager, the connection and
its two clients; then the event loop over both clients, the abstract order channel
and its refinement, the trading program, the simulator and the replay.

Then the proofs: calculator, ring and search; manager and trading program, event
loop, order client with its refinement, market data client; simulator and replay.

What could follow: the symbol filter of `main`, the one hazard without a property,
with symbols as sequences of characters in `TradingSystem`; and the lemmas on the
types of `TcpClient` that two proofs repeat, in one place.
