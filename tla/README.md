# A verification of calculated-tennis

TLA+ models, TLC runs and TLAPS proofs kept beside the code of the repository:
a tennis simulator (`tennis/`), a Polymarket trading program that follows ATP
markets (`polymarket/`) and the money manager that sizes and signs its orders
(`moneymanager/`). Line numbers in this directory (`PROJECT.json`, comments)
are those of the sources the models were written from.

## 1. Inventory

### polymarket

| Part | State | Operations | Hard behaviour |
| --- | --- | --- | --- |
| **Market feed** `core/market_feed.go` | `subscribers`, `conn`, context, `stopOnce` | `connectLoop` (dial, resubscribe, read, back off), `dispatch`, `Subscribe`, `Unsubscribe`, heartbeat, `Stop` | subscriptions race reconnections; two mutexes, one read of `conn` under neither; writes that fail on a live connection; `Stop` at any point of the loop |
| **Sports feed** `core/sports_feed.go` | the same, by game | the same loop without resubscription; ping/pong in the reader | the same |
| **ATP trader** `core/atp_trader.go` | `marketSubs`, `sportsSub`, `stop`, `signals`, `listenersWg`, `stopOnce` | `Start`, one listener per token, `handleMarket`, `Stop` | a listener asks for the `Stop` that waits for it; `Stop` overtakes `Start` |
| **Discovery** `core/atp_market_discovery.go` | `startedSet`, the flights of `singleflight` | `HandleNewMarket` in a goroutine per event, retries, claim, start, release | two slugs of one market, a failed start, joined calls, the hand-over from start-up |
| **Registry and shutdown** `main.go` | `traders`, `forwardWg`, context | `Register`, forwarders, `StopAll`, `shutdown` | discovery registers while shutdown stops; the order of four shutdown steps |
| **Signal execution** `main.go` | `signals` of a trader, `signalCh` | `emitSignal`, the forwarders, `executeTradeSignal`: money manager, then CLOB | two bounded channels, a drop at the first only; no retry, no deadline, no reservation; shutdown in the middle of an order |
| **CLOB and Gamma clients** `clob/`, `gamma/` | credentials | one HTTP request each | Gamma's client has no timeout |

The feed calls the traders through buffered channels it never blocks on, and
the discovery through a callback in a new goroutine. Traders call the feeds'
`Subscribe` and `Unsubscribe`. `main` owns the context.

### moneymanager

A gRPC server without state of its own: `ProcessSignal` checks the expected
value (`pkg/risk/ev.go`), sizes the order from the live balance
(`pkg/risk/allocator.go`) and signs it (`pkg/signer`). Correct means: a stake
within the percentage, the absolute cap and the balance, in cents, or a
refusal. Successive signals see the same balance until the chain moves.

### tennis

| Part | State | Operations | Hard behaviour |
| --- | --- | --- | --- |
| **Rules** `tennis/rules.go`, `state.go`, `format.go` | `Match` | `WinGame`, `WinTiebreakPoint`, `completeSet` | service across tiebreaks and sets; the boundaries 6-6, 7-5, the deciding set |
| **Simulation** `tennis/simulate.go` | a clone of the match | `runOnce` to the end | an unbounded loop |
| **Score hydration** `tennis/score.go` | none | `ParseScore`, `ValidateScoreSequence`, `MatchFromScore` | replaying a score in another order than it was played |
| **Request gate** `tennisabstract/fetch_http.go` | one time stamp and mutex for the process | `waitRequestInterval`, `doHTTP` with its retries | goroutines that sleep outside the mutex and check again; cancellation in any wait |
| **Fetchers and caches** `tennisabstract/client.go`, `cache.go`, `fetch*.go`, `career_file.go`, `player_rates_file.go`; `cmd/fetchrates`, `fetchcareer`, `getstats` | Redis, a file per player, the rates file | look up, fetch, parse, store; merge and overwrite | a kill between truncating a file and writing it; partial failures and the exit code; what `-merge` may give up |
| **Odds join and loaders** `odds_join.go`, `player_key.go`, `matches_csv.go`, `matches_odds_csv.go`, `cmd/joinmatchodds` | the output file and its counters | index, nearest row, write; load for calibration, load for bets | two spellings of a name, the limit of 21 days, two loaders that must agree |
| **Form and rates** `form.go`, `form_env.go`, `recent_filter.go`, `backtest_form.go`, `backtest_rates.go` | none | season baseline, tuning, recent form, blend | looking ahead of a match; three copies of one formula; unset against zero |
| **Calibration** `cmd/calibrateform`, `cmd/calibratealpha`, `backtest_preload.go`, `form_grid.go` | preload cache, grid, errgroup | preload, a goroutine per grid point behind a semaphore, sort, report | one of several goroutines fails; a cache key too coarse; reproducible random streams |
| **Backtest** `cmd/backtestbets` | statistics, bankroll | a walk over matches with singles or parlays | accounting identities, windows of a parlay |
| **TUI** `cmd/tui` | form, loading, result, error | key and result messages | a message in the wrong state, an edit after a run |

The fetchers fill what the form, the calibration and the backtest read; the join
makes the backtest's input from the matches file and the odds file. All of them
are programs of their own, which meet in files only.

## 2. The modules

| Module | Models | Composes |
| --- | --- | --- |
| `MarketFeed`, `MarketFeedProofs` | one `MarketFeed` with its traders, context and network; proofs | |
| `TraderRoster` | abstract: what discovery promises | |
| `MarketDiscovery`, `MarketDiscoveryProofs` | `ATPMarketDiscovery`, the start-up of `main` and the feed's callback; proofs | refines `TraderRoster` |
| `TraderLifecycle`, `TraderLifecycleProofs` | `ATPTrader`, `traderRegistry`, `shutdown`; proofs | |
| `OrderSizing` | `Evaluate`, `Allocate` and the signed amounts as integer operators | |
| `SignalPipeline`, `MCSignalPipeline`, `SignalPipelineProofs` | a signal's way from `emitSignal` to the exchange, and what shutdown does to it; an instance; proofs, of the sizing too | `OrderSizing` |
| `TennisRules` | the rules engine as operators on a match record | |
| `TennisMatch`, `TennisMatchProofs` | `runOnce`: one simulated match; proofs | `TennisRules` |
| `ScoreHydration` | `score.go` as operators | `TennisRules` |
| `TennisScores`, `MCTennis` | the engine and the hydration against each other, also proved in `TennisMatchProofs`; instances | `TennisMatch`, `ScoreHydration` |
| `Backtest`, `MCBacktest`, `BacktestProofs` | the walk of `cmd/backtestbets`, singles and parlays; an instance; proofs | |
| `SimTUI`, `SimTUIProofs` | the terminal front-end with its commands and messages; proofs | |
| `RequestGate` | the process-wide gate and the retries of `doHTTP` | |
| `PlayerFetch` | `fetchrates`, `fetchcareer` and `getstats` over Redis and files | |
| `OddsJoin` | `joinmatchodds` and the loaders of what it writes | |
| `FormRates` | baseline, tuning, recent form and their blend, in exact fractions | |
| `FormCalibration` | both grid searches | `FormRates` |
| `TennisCommands`, `MCTennisCommands` | a session of each command; an instance | `PlayerFetch`, `OddsJoin`, `FormCalibration` |
| `TennisAbstractProofs` | proofs of the gate, the fetchers, the join, the searches and the adjustment | `RequestGate`, `TennisCommands` |

Some definitions are introduced by a comment that begins with "Fault:". They
are what a plausible mistake would make of the definition after them; no
specification uses them. `PROJECT.json` ("mutants") lists which property each
of them breaks, and so which part of the code each property rests on.

### MarketFeed

`loop` is the program counter of `connectLoop` with the `readLoop` it calls.
Every action is one stretch of code between two points where another goroutine
can come in: a lock, a network call, a look at the context. `conn`,
`subscribers` and the channels' fill (`backlog`) are the fields of the feed.
`pending` is the send of the `Subscribe` or `Unsubscribe` that holds `mu`, so
that `MuFree` is the guard of everybody else who takes `mu`. `sendSubscribe`
is two steps (`BeginResubscribe`, `FinishResubscribe`) because it reads `conn`
twice without `mu`; what the second read finds after a `Stop` is a choice of
both possible outcomes, one a panic. `link` and `server` are the two ends of
each socket, outside the repository: a write may fail while reads still work,
a dead peer may still take writes, and a write error is sticky, as in
gorilla/websocket. An event is a set of tokens; its content plays no part in the
feed. `Stop` may happen at any time ("early"), or after the cancellation as in
`shutdown` ("final").

### MarketDiscovery

A handler is a goroutine of `HandleNewMarket`. `flight` is singleflight's map:
the first of a slug leads, later ones are "joined" and return with it
(`Return`). `GammaFails`, `GammaEmpty` and `GammaAnswers` are the three kinds of
answer of Gamma's client; `Normalized` is `normalizeMarkets` on sets of
identifiers, and the filters that follow may reject the result. `MarkStarted` and
`UnmarkStarted` are the critical sections of `startedMu`. `startup` is `main`
from the fetch of the open markets to `OnNewMarket`; its handler's callback
starts a trader (`StartTrader`) or fails (`StartTraderFails`). The refinement
mapping to `TraderRoster` sees as claimed the seeds until the discovery
serves, and `startedSet` from then on.

### TraderLifecycle

`Start` is split where it calls the feed and where it appends to `marketSubs`,
`Stop` into its loop over the copied slice, the sports feed, `close(stop)`, and
the wait with `close(signals)`. `stopper` is the one execution of `stopOnce`'s
function; a resolution (`resolved`) and `StopAll` both ask for it. Reading
`marketSubs` in the middle of an append is a data race, whose outcomes are the
old slice or a crash. `main` walks through `shutdown` and its `registry`; the
markets of `Initial` are started by `main`, the others by the discovery, which
may be starting one while `shutdown` runs.

### OrderSizing, SignalPipeline

Money is in micro-USDC, prices in ticks, sizes in hundredths of a share, so that
every rounding of the code is an integer division: `Truncate(2)` of the shares
rounds down, `StringFixed(0)` of the two signed amounts to the nearest.
`Allocated` carries the denominator of the percentage along.

`signals` and `signalCh` are the two channels with their capacities, `hand` is
the signal a forwarder has received and not yet sent. `emitSignal` is the only
place that drops (`Emit`). `exec` is the program counter of the one goroutine
that runs `executeTradeSignal`: "asking" during the call of the money manager,
"signed" when its answer is on its way, "placing" and "answering" before and
after the exchange has taken the POST. The money manager gets the context, so
that a call after the cancellation fails at once (`TakeSignal`); `PlaceOrder`
gets none. The executor belongs to no wait group: `Exit` may find it anywhere,
with a POST sent or not. `ProcessSignal` reads whatever balance the
chain shows, since nothing is reserved between two signals. Salt, encoding and
the signature itself are opaque. `emitSignal` has no caller outside the tests
at this commit: `Emit` is the interface a strategy will use.

### TennisRules, TennisMatch

A match is a record with the fields of `Match`, `CompletedSets` a sequence of
game counts. `WinGame` and `WinTiebreakPoint` return the next match. The fields
of `MatchFormat` are constants. `TennisMatch` draws a winner among those that
`GameWinProb` gives a positive probability: the rates only matter where they
make one player win for sure. `total`, a history variable, counts games. `Fold`
takes two points from each side of a tiebreak that is level beyond its target:
there the future depends on the difference and the order of service, which
repeats every four points, so the model needs no bound on the length of a
tiebreak.

### ScoreHydration, TennisScores

A score is a sequence of tokens (games, and the tallies of a tiebreak), as
`ParseScore` returns them; each function of `score.go` is an operator and an error is the name of its kind.
The body of each replay loop is an operator that goes on with a match, ends with one or
fails (`RegularGamesTurn` and its like); `Replay` takes turns with it, as a recursive
function of the number of turns that stands still once the loop has ended. `MostTurns` is
more than any loop takes from the start of a set: the proof shows it, and a loop that did need more would leave
`Replaying`, which no property accepts. `Hydrated` takes the tokens one by one in the same
way. `TennisScores` runs all this on every state of `TennisMatch`; what a user may
type is the constant `Tokens`, of which `TokensAssumption` says only that it holds tokens as
`ParseScore` makes them.

### Backtest

`tracks` holds, for each of the three strategies, the fields of `BacktestStats`
and the rows of its log; `pos` is the match or the anchor the walk has reached.
In singles `WalkMatch` is one iteration of the loop, with its three decisions:
the simulations are independent, so each draws the number of its wins
from `WinCounts`. In parlays `strategy` is the track being walked, and one action
is one leg asked of `evalLeg` (`AddLeg`, `NoRates`) or one window decided
(`NoValue`, `PlaceParlay`, `SkipAnchor`); `window` is the product built so far,
`cache` is `parlayEvalDeps.cache`. A match is what the walk can tell apart: its
surface, its two odds, and whether rates are missing, refused by the simulation
("bad"), on disk, or to be fetched for the recent form, which may fail each
time. Refused rates end the run with an error (`Abort`). Stakes, odds and
balances are whole numbers and probabilities counts of simulations, compared
after multiplication, so that `Ledger` can ask for equality where the code rounds
floating-point sums; `Stake` is `Allocate` at the price `1/odds`, with the shares
not truncated to cents (`OrderSizing` is about that).

### SimTUI

`mode` is `model.state`, `page` and `focus` the place in the form, `form` the texts
of its fields, `chosen` the fields of the model that submitting a page sets. A
command is a member of `runs` (or counted in `loads`) from the moment `Update`
returns it until its message is handled; there may be a state change of the
user's between the two. A message in a mode that does not expect it is dropped, as
in `Update`. A text field is the library's: `ForwardToFocused` leaves any text in
it, valid or not. `RunFails` is the error message of either command.

### RequestGate

`age` is the time since `lastHTTPRequest`, which saturates at the interval:
the gate never looks further back. `stage`, `attempt` and `sleep` are the local state of
a goroutine in `doHTTP`, `Tick` is the passage of time, which runs every timer
down but does not force a goroutine whose timer has run out to act. The three
`select`s are `WakeAtGate`/`Retry` against `ReturnCancelled`. `passes`, `asked` and
`sent` are ghosts. Options of 0 mean the default, as in the `effective...`
functions. The clients without an interval (`Hasty`) pass by the gate and do not
stamp it.

### PlayerFetch

One tool runs at a time (`tool`, `pc`); between two steps it may be killed
(`Kill`), and the next run starts from what is left in Redis and on disk. A file is
"torn" from the moment it is opened with truncation until its last byte is written. What the
statistics of a page give is one of four kinds: no row of the year, a row without a
dominance ratio, a full one, or one of which the division makes NaN, which the
JSON encoder refuses. `Failed` is what the tools do with a player that failed:
`getstats` ends, the others count it and go on. A request is one step
(`RequestGate` is its inside). `before` is a ghost.

### OddsJoin

A row is a record of the columns the code reads; a name is a sequence of words
and a day a number. The two key functions, the index and the nearest row are
operators; `JoinRow` is one iteration of the loop, `JoinFails` an error in the middle
of it, after which the writer's deferred flush leaves the rows so far. The
loaders are operators on the rows of either file; the rows kept are given by their
positions (`RowsAt`), the k-th being at the k-th smallest position (`Nth`), which is what
appending them in the loop gives.

### FormRates, FormCalibration

`FormRates` has the formula of the adjusted rates in fractions, with the tuning and
its environment, as `AdjustedHoldBreak` and `SeasonBaseline` compute it. The decay
of a half-life is a constant table of weights. The recent results are the newest first, those of
one day in the order of the list, as the stable sort leaves them (`NewestOf`). Those without a dominance
ratio are left out before the sort, which comes to the same as skipping them after it. One action adjusts a player
for a live projection, one as the backtest and the calibration do.

In `FormCalibration`, `phase` is the main goroutine and `task` the goroutine of each
grid point: running, failed (its place in the semaphore is given back before
errgroup records the error), or ended. `score` fixes what each random stream
leads to, so that a point's metrics depend on the stream it is given and nothing
else. The sort is any order that the comparison allows, since `sort.Slice` is not stable.

### TennisCommands

A behaviour is a session of one command: runs of the fetchers one after the other
over files that stay, one join, one search, or one adjustment. The
variables of the other commands stay at their idle values. A session that has
ended stops, so the run does not look for deadlocks; `CommandsEnd` says that what was
started ends.

## 3. The runs

| Run | Question | Bounds | Distinct states |
| --- | --- | --- | --- |
| `market_feed` | is a subscription ever lost, a panic possible before `Stop`; does the loop end, is a token with a listener streamed in the end? | 2 traders, 1 token, 3 connections, channels of 1; no symmetry | 62,452 |
| `market_feed_ghost` | finding | 1 trader, 2 tokens, 2 connections | |
| `discovery` | does it implement the roster (one trader per market, no orphaned claim), do handlers return? | 3 handlers, 2 slugs of one market, 1 retry; no symmetry | 127,199 |
| `trader_lifecycle` | no deaf subscription, no send on a closed channel, a clean exit that comes? | 1 initial and 1 discovered trader, 2 tokens each, one sports game | 62,135 |
| `trader_leak` | finding | 1 trader | |
| `signals` | is an order within the share, the cap and the balance, at most one after the cancellation; is nothing lost before it, is an accepted signal decided, does `main` return? | 2 traders (one that `StopAll` may not know), 3 signals of 3 kinds, channels of 1, 2 balances; no symmetry | 613,831 |
| `tennis` | rules, service, hydration, termination | the women's Grand Slam format itself; 2 servers; tokens up to 8 games | 37,844 |
| `tennis_stall` | finding | hold 100, break 0 | |
| `backtest` | do the books balance with every match counted once, does the log tell the walk, are windows the longest, does the walk end? | lists of 3 matches of 5 kinds, 2 configurations of singles and 2 of parlays (2 and 3 legs), 3 simulations | 169,533 |
| `tui` | is what is shown the result of the form as it stands, is there one run at a time, does loading end? | 2 names, 1 count, 2 name lists under way | 1,858,856 |
| `request_gate` | do passes keep their distance, is the server spared as it asked, does every call return? | 2 throttled goroutines and one that is not, interval 2, 2 retries, Retry-After 3, 1 call each; no symmetry | 477,332 |
| `commands` | the fetchers over their caches, the join, both searches, the adjustment (below) | see below | 727,528 |

`commands` asks of the fetchers whether exit code 0 means that every player asked
for is there (`ExitZeroIsComplete`) and whether `-merge` ever gives an entry up
(`MergeKeepsEntries`), of the join whether a row's odds are those of the nearest
meeting of the same two (`OddsAreOfTheMeeting`) and whether the two loaders
agree (`PoolsAgree`), of the searches whether the preload knows the past only
(`PreloadedIsAsOf`) and the report is complete, comparable and reproducible
(`ReportIsReproducible`), of the adjustment whether it looks ahead (`NoLookAhead`)
and whether form only scales the stored baseline, within its bounds and
monotonically (`FormScalesBaseline`); and whether each command ends (`CommandsEnd`).

Type correctness is a theorem where a module has proofs, and in
`TraderLifecycle` and `SimTUI` an invariant of the run (`TypeOK`) as well; the variables of
`OddsJoin`, `FormRates` and `FormCalibration` are typed by what their properties
read of them.

Why the bounds are enough. A loss of a subscription takes one token, a trader
that leaves, one that stays and a reconnection; snapshots of several tokens are
in the run of finding 1, and the theorems hold for any number. `MaxConns` is the
number of connections; the last never fails, or nothing could be streamed for good. A
channel of one is full after one event, as one of 100 is after a hundred. The
three handlers of `discovery` are a leader, one that joins it, and the leader
of another slug for the same market; a second market meets the first only in
the answer that lists both, as does the blank identifier, which the run has. A trader has two tokens in every ATP
market, and one trader of each origin is what the two paths of `main` need. The
channels of `signals` hold one signal, so that three signals fill them and the
hands; the kinds are a favourable signal, one without expected value and a
malformed one, the balances one on each side of the cap, with quotients that
do not divide evenly. A list
of three matches has windows of one, two and three legs, an anchor behind a
placed window and one behind a skip; the four configurations of `backtest` pair
each mode with and without the filters and the money manager, whose minimum the
stakes fall below after a few losses. The
tennis run has no bound but the format: the longer men's format differs only in
the number of sets, and the theorems hold for every format of the kind.

In `tui` two names tell a player edited after a run from the one before, and two
lists of names can be under way because a list that arrives while loading is dropped
and asked for again. The gate needs two throttled goroutines to race and a third
that passes it by; an interval of 2 lets a stamp be neither new nor old, and the
backoff of 1, 2, 2 reaches its cap. The files of `commands` are: three names, two of
which share a slug and hence a file; a table of two rows for the matches and two for the
odds, with days on both sides of the limit of 21, surnames with a particle, without one and
of two words, retirements, a surface and a format unknown to the loaders; two surfaces, of
which one has three matches with the same two players on two days; a grid of three points on
two workers, so that one waits for the semaphore while others run or fail; and
players with no, few and enough matches on either tour, in this year and the last, with recent
results before, on and after the day. The runs of the fetchers follow one
another without bound: their files have finitely many states.

Deadlock is checked everywhere but in `commands`: actions such as `Ended`, `Over`,
`Exited` and `Crashed` mark the states in which the program has ended.

### Fairness

* Goroutines are scheduled (weak fairness of their steps). In `MarketFeed`
  the steps of the loop have strong fairness: Go's `RWMutex` does not let a
  waiter starve, but traders may disable a step by taking `mu` again and again.
  A dial that may succeed is not refused for ever, a closed or dead
  connection ends in a read error, and a server drops a client whose pings no
  longer arrive. Nothing is assumed of messages, traders, `Cancel` or `Stop`.
* Gamma's client has no timeout: its answer is only fair once the context is
  cancelled.
* In `TraderLifecycle` no trader has to start and no market to resolve.
* In `SignalPipeline` the forwarders and the executor are scheduled, and a
  `select` between a done context and a channel does not prefer the channel for
  ever. The money manager and the exchange need not answer:
  `AcceptedIsDecided` assumes it as its premise, and `MainReturns` holds without
  (together `PipelineEnds`).
* In `Backtest` the walk is scheduled; a fetch and a simulation are single steps,
  which end (`MatchEnds`, but for finding 3).
* In `SimTUI` a command ends, because its requests time out, and `Update` takes its
  message. No key is ever pressed; the user may quit or go on for ever.
* In `RequestGate` time passes, goroutines run once their timer has fired, and a
  request is answered or times out (`http.Client.Timeout`). With a bounded number of calls no goroutine
  starves at the gate; callers that come back for ever could keep one out, since a
  goroutine that wakes up competes anew.
* In `TennisCommands` one weak fairness covers all: a command that runs makes a step.
  Redis, the network and the simulations answer or fail. Starting a command and
  killing it are nobody's duty.
* In `TennisMatch`, strong fairness of every possible winner at each difference
  of points stands for independent draws: what has a positive probability and
  comes back for ever happens.

### Findings

1. *A ghost subscription.* `connectLoop` sends a snapshot of the tokens after it
   has released `mu`; a token unsubscribed in between is subscribed again
   (`market_feed.go:167` against the comment at 427).
2. *A leaked subscription.* The resolution of a market can stop its trader
   while `Start` subscribes the remaining tokens; they stay subscribed, and
   `stopOnce` is spent (`atp_trader.go:295`).
3. *An endless simulation.* Rates of 1 and 0, which the validation accepts, make
   every tiebreak endless (`simulate.go:140` against the comment at 78).

What else the models showed, without a statement of the repository against it:
`WaitForForwarders` can miss the forwarder of a trader that the discovery is
registering during `shutdown` (`CleanExit` exempts exactly that one); a
subscription whose send fails on a connection that can still be read waits for
the next reconnection (`LiveSubscriptions` asks for a writable connection);
after a `Stop` the unsynchronised read of `conn` can panic
(`PanicOnlyAfterStop`); an order may reach the exchange after the cancellation,
one at most (`OneLateOrder`), and nobody learns of its answer; two signals in a
row are sized from the same balance, so that the share is a bound for each
order and not for their sum. In the backtest, a right pick at odds of 1 counts
as a loss; without a money manager the log's balances start from 0 and are cut off
there, so that they do not chain (`LogIsAnAccount` is about managed runs); a
window refused by the money manager passes all its matches but counts one skip
(`EveryMatchCounted`); and the favourite track may bet on other matches than the
simulation once a filter on value or odds is on (`FavoriteMirrorsSim`, a part of `LogTellsTheWalk`, as
`RowsFollowWalk` and `LogIsAnAccount` are).

Also seen, in code whose comments say otherwise or nothing:

* `ValidateScoreSequence` accepts equal games above the tiebreak, as 7-7
  (`score.go:134` against the comment at 66); `MatchFromScore` still refuses them.
* `evalLeg` forgets failures: a career list that cannot be fetched for the long
  window is fetched again for a shorter one, which is then placed although the long one could be
  evaluated (`parlay.go:100`). `LargestSeasonWindow` is about the other tracks.
* The gate separates the stamps, not the sends: a goroutine may be delayed
  between the two. A cancelled call that finds the gate open passes and stamps it. Zero
  retries cannot be asked for: 0 means the default.
* A torn career file, or a torn rates file, stops every later run with `-merge` until it
  is deleted; without `-merge` it is overwritten. A NaN of one player keeps the whole
  rates file from being written. The branch `skip empty slug` is never taken.
* A compound surname without a particle never meets its odds (the part of
  `OddsAreOfTheMeeting` with `Compound`). The nearest odds may be of a day before the tournament and
  may serve two matches. A file joined a second time keeps its first `AvgW` and
  `AvgL`. The column indices of the odds file start at 0, so that the check for a missing column
  never fires (`odds_join.go:83`). A join that fails leaves a shorter file that parses. `Def.` is
  not taken for the `DEF` of an incomplete score.
* The condition of `formWeightMaxExplicitZero` on the half-life always holds, since
  the half-life has got its default by then; a weight of 0 can be calibrated but not be given
  through the environment. The historical form counts rows without a dominance ratio
  against its limit, the live one does not.
* A grid of the half-life or of a ratio that starts at 0 is not refused: its points at 0 are scored with
  the default and printed as 0 (`form.go:174`).
* The default of `-alpha-min`, 0, is refused by the search itself (`main.go:39`
  against `calibrate.go:71`). With form, two alphas may be compared on different matches,
  because a career that cannot be fetched for one may be for the other; `matches_included` counts the
  eligible ones. When a worker of the form grid fails while the main goroutine waits for
  the semaphore, the error shown is `context canceled`.

## 4. The proofs

The theorems hold for all values of the constants, from the assumptions named
in the modules only.

* `MarketFeedProofs` (`FeedAssumption`). `FeedInvariant` proves an invariant
  that says, point by point of the loop, what `conn`, the newest link and the
  streamed tokens are: before the snapshot nothing is known, between the
  snapshot and the send every registered token is in the snapshot, streamed or
  about to be sent, and while reading it is streamed or about to be sent.
  `LiveSubscriptions` alone is not inductive because it speaks of the reading
  points only. `TypeCorrect`, `SubscriptionsAreLive`, `ConnectionIsCurrent` and
  `PanicNeedsStop` follow.
* `MarketDiscoveryProofs` (`DiscoveryAssumption`). `DiscoveryInv` adds to the
  properties that a claiming handler's market is in `startedSet`, that two
  handlers never claim the same market, that a start implies a claim, and what
  the start-up has prepared. From it `OneTraderPerMarket`, `ClaimsAreOwned`, and
  `DiscoveryImplementsRoster`: the initial states map to initial states of
  `TraderRoster`, and each action maps to `Seed`, `Claim`, `Start`, `Release` or a
  stutter.
* `TraderLifecycleProofs` (`LifecycleAssumption`). `LifecycleInv` says of each trader how
  far its `Start` has come and what it has therefore set (`StartInv`), that every channel is
  one Stop can find, but for the one being appended (`ChannelInv`), what each step of
  a Stop that no Start raced leaves over (`StopInv`), and that what is subscribed is listened to
  until the feeds stop (`HeardInv`); `MainInv` says what the shutdown has waited for.
  A race is recorded in `raced` and exempted, because finding 2 is
  what it does. `NoDeafSubscription` is not inductive: that a Stop finds every channel
  rests on the slice it copied, which only `ChannelInv` relates to the subscriptions.
  `LifecycleTypeCorrect`, `OnlyRacedAreDeaf`, `StopLeavesSilence` and `ExitIsClean` follow for
  any number of traders and tokens.
* `TennisMatchProofs` (`FormatAssumption`, which the three formats of
  `format.go` satisfy). `MatchInv` adds to the properties that an unfinished set
  is open (nobody above the games of a set, not both at it, nobody has won), or
  that in a tiebreak both have the games of a set and the points played are the
  points won (which `Fold` needs to stay in `Nat`). `MatchTypeCorrect`,
  `ServiceAlternates` and `SetsAreLegal` follow, for formats of any length.
  `TiebreaksAreFair` counts the points each player serves in a tiebreak of any
  length: the points of one server are two of the four residues modulo 4, and a bijection
  between the classes bounds the difference, so that no induction is needed.
  `ScoresAreFaithful` (with `TokensAssumption`) is the round trip: `HydrationFaithful`, for every
  format, every match the engine reaches and every token. The property itself is far from
  inductive. `ScoreInv` says that there is a match between two sets, or the first one, that
  the tokens of its completed sets lead to (`Rebuilt`), and that the present match is that one
  after some games, after some points of its tiebreak, or after the set that ended it
  (`Standing`); `InSet` and `InTiebreak` say what it then is, the server included, whatever the order
  in which the games were won. The replay wins them in one order: `Path` says which tallies it
  comes through on the way to a target, that none of them ends the set too early
  (`PathOpen`), and that the next winner keeps to it (`PathNeeds`). A loop whose every turn goes
  one tally further on such a path or ends comes to its end within `MostTurns`
  (`TallyReaches`), which gives one lemma for each loop and one for each kind of token
  (`HydrateOpen`, `HydrateTiebreak`, `HydrateWon`, and `HydrateBeyond` for the equal games above the
  tiebreak that the validation lets pass and only the replay refuses). The inductions are on sets of
  naturals, from the well-foundedness of their order (`AllNaturals`), as the induction rules of the library take operators.
* `SignalPipelineProofs` (`SizingAssumption`, `ResolutionAssumption`,
  `PipelineAssumption`, `NoSignalAssumption`). First the sizing: `SizeIsLargest` says that
  the size is the largest number of hundredths of a share that the allocated
  money buys, and lemmas bound the rounded amounts. The second assumption, that
  the smallest order is worth a unit at the smallest tick, holds by far for the
  real resolutions; without it an order could pay nothing.
  `PipelineInvariant` adds that a quote held by the executor is what sizing
  returns for some balance, and that a late order leaves the executor in no
  state from which another call can start. `PipelineTypeCorrect`,
  `SpendingIsBounded` and `AtMostOneLateOrder` follow. `NoSignalIsLost`, an action property, follows a
  signal through the two channels, the hands and the executor: until the cancellation it leaves
  them only decided.
* `BacktestProofs` (`BacktestAssumption`). `BacktestInv` adds to types, `Ledger` and
  `EveryMatchCounted` which strategies walk in which mode, and that the window
  being tried is no longer than the list allows: otherwise the step behind it could
  leave the list. The lemmas treat one bet at a time: settling or skipping keeps a
  track balanced, and counts one match or the legs of one window.
  `BacktestTypeCorrect` and `BooksAreKept` hold for lists of
  any length, any odds, stakes and outcomes. `LogsTellTheWalk` rests on `LogInv`, which
  strengthens the three parts of `LogTellsTheWalk` by what the next row will be compared with: in
  singles a log has one row for each match walked, in parlays the next anchor is behind the last
  row; the account is what the last row left, and never negative because a managed
  stake is at most the balance (`ShareBounded`); and the favourite's rows skip where the
  simulation's do.
  `LargestWindowIsPlaced` (outside the recent-form track) says that a window placed has value by the
  products over its legs, and that no longer one of evaluable legs had. `WindowInv` keeps, while
  a window grows, that it is the product of its legs so far (`Product`, a recursive function), and of each longer
  window given up (`GivenUp`) that it would not have done.
* `TennisAbstractProofs` (`GateAssumption`, `FetchAssumption`, `ProfilesAssumption`,
  `PagesAssumption`, `TuningAssumption`, `TablesAssumption`, `GridPointsAssumption`, `SearchAssumption`).
  - *The gate.* `GateInv` says that every remembered pass is
    as old as the stamp and younger than the interval: a pass asks for a stamp of
    a full interval, so nothing is remembered when the next comes. `RetryInv` bounds
    the sends by the attempts and the time a server asked for by the timer of the goroutine,
    which is why a retry never comes early. `GateTypeCorrect`, `Spaced` and `Spared`
    follow for any number of goroutines, any interval, backoff and number of retries.
  - *The fetchers.* The invariant says who can be where
    (`InRange`, `Placed`), that while no error has been counted every player before the present
    one has an entry (`RatesGathered`) or a whole file (`FilesWritten`), that a rates
    file is whole once opened for reading (`OpenedWhole`), and that the map in memory
    holds what it was opened with (`KeepsBefore`). `ExitZeroIsComplete` alone says nothing of a
    run that has not ended. `FetchTypeCorrect`, `ExitZeroVouches` and the action
    property `MergeGivesNothingUp` follow for any list of names, any sharing of slugs and
    files, and any sequence of runs and kills. They are theorems of `FetchSpec`; `CommandsFetch`
    shows that `CommandsSpec` implements it, each step of another command being a
    stutter, so that they hold of every session of the commands.
  - *The join* (`BothPoolsAgree`). `JoinInv` says that each row written so far is the row of its
    number with the odds found for it, counted on one side. Positions in order are what makes
    two loaders comparable: every place of a set of positions is taken by one of them
    (`AllPlaced`), and rows kept of rows kept are those of the file at the positions of both
    (`KeptOfKept`), so that filtering what was loaded for bets, and filtering the pool of the
    calibration, keep the same rows of the output. It holds for any two files, whatever their rows.
    `OddsOfTheMeeting` says the odds joined to a meeting are those of its own row, for tables whose
    keys tell apart the meetings near in time (`KeysTellApart`, a fact on the data that
    the loader does not check, and that the instance satisfies). The row found is the nearest of those
    with its key, which exists because distances are numbers (`LeastNatural`), and every row of the output carries
    what was found for it (`OutputInv`).
  - *The preload* (`PreloadsAreAsOf`). What the cache holds under a key is what the lookup of
    that player and day gives, and what was preloaded for each match so far is what the
    keys of its own day hold (`PreloadInv`); it is a theorem of `CommandsSpec`.
  - *The searches* (`ReportsAreReproducible`). `CalibrationInv` says that unless a goroutine has
    failed every point that has ended has the metrics of its own index on what was
    preloaded (`GridInv`), that the alphas come in order and without form on all matches
    (`AlphaInv`), and that each surface reported is right and none is missing (`ReportInv`). Sorting
    is any bijection of the rows that the comparison allows (`SameRows`), so nothing depends on how it is
    done. That the points of the grid are positive, as with the default flags, is an
    assumption: see the last findings for a grid that starts at 0.
  - *The adjustment* (`NothingAhead`). The library has no facts on filtered or sorted sequences, so
    the recent results are defined by their place: a result is at place k when k - 1 of the results
    before the day are ahead of it. The places are taken one by one (`PlacesTaken`), a result struck
    from the list on the day or later has none, and so the k-th result of
    the shortened list is that of the full one (`SameBefore`); the rates read nothing else
    (`RatesAsOf`).
  - *The scaling* (`FormOnlyScales`). The fractions of `FormRates` are in lowest terms, so their
    order is reasoned about by what they are worth (`Worth`): the recursive gcd divides both
    numbers, by its recursion and the least number it could fail for (`GcdDivides`), and sums,
    products, quotients and blends keep the order (`PlusRises`, `TimesRises`, `OverRises`,
    `MixRises`). A list with a better ratio (`Better`) has the same matches at the same places newest
    first, and before a day, so its mean is no lower (`FormRises`). The options of a surface pass
    `withDefaults` unchanged (`OptionsSettled`), and so `AdjustedHoldBreak` and what `fetchrates`
    stores read one baseline (`StoredBaseline`, `HistoricalRates`). Two assumptions:
    `PagesAssumption`, that a season on a page has matches (two without any would blend as 0 / 0)
    and that its figures are not negative; and `TuningAssumption`, that the tuning in force
    has a weight of at most 1, bounds in order, and positive weights of the decay. The defaults satisfy it; `withDefaults` takes
    any positive number from the environment without comparing the bounds.
* `SimTUIProofs` (`TUIAssumption`). `TUIInv` adds to the types that what the earlier pages
  submitted is still what their fields say (`SubmittedInv`), that a run is that of the form,
  which stands still until it ends (`RunInv`), and that behind the first page names are loaded or
  on their way (`NamesInv`). `TUITypeCorrect`, `ResultsAreOfTheForm` and
  `OneCommandAtATime` follow for any names, counts and number of lists under way.

Only model-checked: liveness everywhere, since it rests on fairness. Every safety property
that a passing run checks is a theorem.

## 5. Abstractions and what is not modelled

Time is an order of events but in `RequestGate`; elsewhere delays matter only for the
cap of the backoff. Events, names, logs and JSON are not represented. A Gamma list that
names a market twice is not considered. Clone, the counters of `Simulate` and
the validation of its parameters are left out: they hold no control the
properties could see. `FormRates` is exact where the code rounds to float64;
a weight or a ratio at its bound up to rounding is not told apart.

Not modelled, or in part:

* *Sports feed*: the loop of the market feed without resubscription; next in the plan.
* *CLOB and Gamma clients*: one request each, they are answers and failures of
  the other models. *Order signing*: byte layouts and cryptography without state.
* *Signal execution*: `CancelOrder` and the calls of the command-line tools.
* *Parsers*: the scanning of pages, JavaScript arrays and CSV columns is text
  conversion without state; their outcomes are kinds of rows and failures here.
* *Command-line tools*: the prompts of `simmatch`, `liveclob` and the inputs of
  `backtestbets` are flags and text around calls of the modelled packages.
* *Secrets, deployment, generated code*: no logic a model would say more about.

## 6. Plan

In this order:

1. `SportsFeed`: the loop of `sports_feed.go`; with `TraderLifecycle`, whether a
   reconnection loses an event a trader waits for.
2. A reservation-aware account of the exposure of several open orders in
   `SignalPipeline`.
