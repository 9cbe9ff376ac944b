# trading-bot-lab: a verification project

TLA+ models of `trading-bot-lab`: the simulation engine that batch backtests and
the historical paper replay share, with its sizing, risk policy, profit accounting
and benchmark; the session, the command line, the artifacts and the event log
around it; and the LEAN side of the laboratory, its operator, its algorithms, the
parity check and the evidence of the walk-forward protocol. TLC checks them on small
instances, TLAPS proves the results listed under *Proofs*. `PROJECT.json` maps every
definition to the lines it models, every property to a mutant of the code that
breaks it, and every hazard to the properties that watch it.

## 1. The system

The repository is a research laboratory for one symbol, long only, with no live
trading. Its parts, the state each keeps and the way they interact:

| part | state | operations | interacts with |
|---|---|---|---|
| simulation engine (`backtesting/engine.py`) | ledger (cash, quantity, average cost, realized PnL, fees, slippage), marks (peak, last close, start of day, date), pending signal, halt latch, history, audit trail, event buffer, failure flag | `process_bar`, `activate_kill_switch`, `expire_pending_signal`, `publish_event`, `finish` | calls the strategy, the risk policy, the event sink |
| target sizing (`_cost_aware_target_quantity`) | none; one bisection | find the largest safe quantity | engine arithmetic |
| risk policy (`risk/policy.py`) | none | `evaluate_order`, `evaluate_portfolio_halt` | called by the engine |
| paper-replay session (`paper.py`) | status, cursor, failure reason, transitions | `start`, `pause`, `resume`, `stop`, `activate_kill_switch`, `step`, `run_to_completion`, `fail_runtime` | drives one engine; calls the sleeper; publishes to the same sink |
| strategies (`backtesting/moving_average.py`, caller code) | none | `signal_for_history` | called by the engine, may hold a reference to it |
| event log (`observability.py`) | a rotating file, closed flag | `__call__`, `close` | the event sink of the command line |
| artifacts (`artifacts.py`), reports, provenance | files | atomic text and CSV writes, manifests | called by the command line when a run has finished |
| command line (`cli.py`) | exit code, exports written | `backtest`, `paper-replay`, `validate-csv`, `show-config` | all of the above |
| CSV loading (`csv_data.py`), domain types (`domain.py`) | none | validation | before any of the above |
| LEAN runtime and operator (`lean_runtime.py`, `scripts/run_lean_parity_local.py`) | execution counter, lock file, runtime directory, container, logs | `prepare`, `run_lean`, `compare`, `execute` | the file system, Docker |
| LEAN algorithms (`lean-workspace/Strategies`) | LEAN's portfolio, a latched risk model, a pending target | `on_data`, `on_order_event`, `on_end_of_algorithm` | the LEAN engine (external) |
| parity check (`parity/`) | none; two traces | normalize, extract, compare | the engine, the LEAN fixture |
| walk-forward evidence (`walk_forward/`) | evidence of each fold, an aggregate | extract from a log, import a result, aggregate, show | files the LEAN runs left |
| repository checks | none | scans | the working tree |

Where the difficulty is:

* **Atomicity.** `process_bar` changes some twenty fields and calls caller code in
  between; any exception must take all of it back, and no event may leave before
  the commit. The strategy and the sink may hold the engine and change it.
* **Order.** A signal computed at one close trades at the next open and at no
  other; the day rolls before the open is marked; a halt can latch at the open,
  after the fill, at the close or by hand, and each must stop what comes after.
* **Numbers.** Money and quantity are rounded separately, fees have a minimum,
  and the policy derives the state after the fill with roundings of its own: where
  it disagrees with the ledger an approved order ends the run.
* **Callbacks.** The sleeper of the replay loop and the event sink may call the
  session's controls while a call of it is on the stack.
* **Crashes.** The LEAN operator counts executions in a file before it launches
  them, holds a lock file and leaves a runtime directory.
* **Foreign engines.** LEAN calls the algorithms back while they submit, fills in
  parts, late or never, leaves bars out, and wraps and truncates its logs.
* **Two implementations of one thing.** The fixture has its own sizing, veto and
  fills; the comparison must see every difference that matters and no other.
* **Files that change.** Evidence is read twice, staged files may be replaced, stored
  aggregates edited, several invocations write into the same directories.

What makes each part correct, and where it is stated (the names in parentheses after a
property are the parts it is a conjunction of):

| part | property |
|---|---|
| engine | a bar happens whole or not at all and a halt is final (`ImplementsContract`); next-open execution (`NextBarOpen`); loss limits latch, measured from the right base and peak (`LossLimitsLatch`: `BreachLatches`, `DailyLossBase`, `PeakCovers`); a halt freezes (`HaltFreezes`); a complete audit and events of committed bars only (`AuditHolds`: `AuditComplete`, `EventsAreCommitted`); a fill within its target (`PostCostTarget`); orders that fit their bar (`OrdersAreConsistent`); cash, fees, profits and equity are one history (`BooksReconcile`: `LedgerReconciles`, `ProfitReconciles`, `CostIsOfThisPosition`); a call ends (`CallEnds`) |
| sizing | the largest safe quantity (`ResultIsSafe`, `ResultIsLargest`, `FindsLargestSafe`), in few probes (`HalvesInterval`), accepted by the policy (`SizedOrderIsAccepted`) |
| benchmark | buys the most the cash affords, is charged what it reports, is not handicapped (`BenchmarkIsFair`) |
| risk policy | approves nothing the ledger cannot book (`PolicyGuardsLedger`); fails closed, approves nothing unsafe, applies the stricter of two limits (`GateHolds`: `FailsClosed`, `ApprovedIsSafe`, `EffectiveIsStricter`) |
| session | agrees with its engine and leaves nothing to execute (`SessionMatchesEngine`), trades only while running (`FrozenUnlessRunning`), comes back (`LoopReturns`) |
| CSV loading | loads the file and only a file the engine takes, reports gaps (`LoadedIsTheFile`: also `LoadedIsSimulatable`, `GapsAreReported`) |
| command line | no control is passed over, the exit code tells (`CommandIsHonest`: `ControlsTakeEffect`, `ExitTells`) |
| artifacts | an atomic store (`ImplementsStore`); nothing torn, the manifest last, the input and every artifact survive (`ArtifactsSurvive`: `NeverTorn`, `ManifestIsLast`, `InputIsUntouched`, `EveryArtifactSurvives`) |
| event log | bounded files holding the end of the session, losses disclosed (`LogIsHonest`: `FilesAreBounded`, `OldestLeaveFirst`, `LossIsDisclosed`) |
| LEAN operator | a budget of launches (`ImplementsBudget`), counted and one at a time (`StartsAreCounted`: also `SerialRuns`), evidence that is its own (`EvidenceHolds`: `EvidenceIsKept`, `TraceIsAudited`, `CleansItsOwn`, `NoStartOverLeftovers`), an end (`InvocationEnds`) |
| LEAN algorithms | never short (`NeverShort`), a halt that freezes or liquidates (`HaltIsHonoured`: `HaltFreezesPosition`, `HaltOnlySells`, `LiquidationRequested`, `HaltSellsAll`), a report that is true (`ObservationIsSound`: `ReportedDrawdownHalts`, `EmittedIsAccepted`, `OutageEmitsNothing`) |
| parity fixture | the engine's sizing and veto, funded fills, a whole trace (`FixtureMirrors`: `SizingMirrors`, `VetoMirrors`, `FillsAreFunded`, `TraceIsWhole`), of the contract's rows (`OnlyTheFixture`) |
| parity check | honest runs agree, halts are seen (`ComparisonHolds`: `TracesAreAccepted`, `EnginesAgree`, `HoldingsStayClose`, `HaltsAreSeen`) |
| walk-forward evidence | what is read was emitted, and what was emitted whole is read (`LogIsRead`: `ReadIsEmitted`, `WholeIsRead`), what is imported is true (`AcceptedIsTrue`: `EvidenceIsTrue`, `EquityIsTrue`, `BenchmarkSpansFold`) and truth is importable (`TruthIsAccepted`), what is shown follows from the folds (`ShownIsDerived`: also `OrderOfPathsIsFree`) |

## 2. Modules

```
Money ──── TargetSizing ─┬─ OrderProposal ─── SimulationEngine ── ProfitAccounting
      └─── RiskPolicy ───┘
OrderProposal_proofs ── SimulationEngine_proofs (extends ProfitAccounting)
OrderProposal_proofs ── Decisions_proofs (extends MCDecisions)
SimulationEngine ─implements─> EngineContract ─── PaperReplay ── PaperReplay_proofs
LeanOperator ─implements─> LaunchBudget           LeanOperator ── LeanOperator_proofs
ArtifactWrites ─implements─> ArtifactStore        ─implements─>: INSTANCE; checked and proved
PrecisionSearch, OrderProposal ── SizingSearch
LeanMarket, LatchedRisk, TrailingSignal ─┬─ BaselineAlgorithm, LegacyBaseline
                           FoldEvidence ─┴─ WalkForwardAlgorithm
OrderProposal, TrailingSignal ── ParityFixture ── ParityAgreement (uses TraceComparison)

MCDecisions       PrecisionSearch, SizingSearch (the loop on the real test), PolicyScrutiny, BuyAndHold
MCLeanAlgorithms  ParityAgreement, BaselineAlgorithm, WalkForwardAlgorithm, LegacyBaseline  (LeanAlgorithms_proofs)
MCEvidence        ObservationLog, ResultImport, WalkForwardOperator  (Evidence_proofs)
MCFiles           ArtifactWrites, ArtifactPaths, EventLog, CommandLine, MarketDataFile, FixtureSource  (Files_proofs)
```

The last four put components that are checked in the same way into one instance: a
selector variable, constant in every behaviour, says which of them runs, and the
variables of the others stay as they began. They leave the parts' constants open (but for the import's), so that
theorems about them hold for every value. The parts do not interact there; where
components do interact (session and engine, fixture and engine, writers and
comparator, algorithm and evidence) a module composes them. A property of such an
instance is the conjunction of the named properties of its parts.

* **Money**: rounding, slippage, fee, market value. Two integer scales replace the
  floats: a *quantum* is 10^-money_precision and every amount the code rounds is a
  whole number of them; an amount it has not rounded yet is counted in *raw units*,
  `Quantum` of which make a quantum. Rounding is Python's, half to even. The code's
  comparison tolerances (1e-9 in the policy, 1e-12 in sizing) lie far under a
  quantum's effect on the amounts compared and are exact here. Two weights that differ
  at all differ by one part in `equity * WeightScale`, which is more than 1e-9 for the
  amounts of every run; with an equity of 10^9 raw units and more the code lets a weight
  pass its limit by 1e-9, which the model does not. No property depends on it.
* **PrecisionSearch**: the bisection loop, used by target sizing and by the
  benchmark purchase, over *any* set of safe candidates.
* **TargetSizing**: the test the loop applies (`CandidateIsSafe`), its interval, and
  the whole of `_cost_aware_target_quantity` as a function.
* **SizingSearch**: the loop on that test, so that the loop and the function are
  compared and the real safe sets, with the holes fees and rounding make, are met.
* **RiskPolicy**: `evaluate_order` and `evaluate_portfolio_halt`; a decision is its
  set of reasons. A numeric field may hold something that is not a finite number.
* **OrderProposal**: the order and the snapshot the engine builds, and
  `_effective_policy`.
* **PolicyScrutiny**: starts from an order the engine would build and overwrites up
  to `MaxWrong` of its fields or of the snapshot's. `evaluate_order` is public: its
  fields are claims.
* **SimulationEngine**: `process_bar` from `bar_received` to the delivery of its
  events. One action per stretch of code between two places where caller code runs
  or a decision is made; `pc` says where the call stands. `barSnapshot` and
  `callSnapshot` are the two copies of the protected state the code takes, in
  `process_bar` and around a call of the strategy or sink. `Tamper` is the caller
  code changing the engine: an amount, the pending target and the halt latch stand
  for all protected fields. The properties speak of `Committed`, the state a failure
  of the call under way would leave.
* **EngineContract**: what a driver of the engine relies on, in five variables.
* **PaperReplay**: the session on top of the contract. `todo` is the rest of the call
  on the stack, `delivering` that the sink is being called, `loop` where
  `run_to_completion` stands, `sink` which of the two kinds of sink the session was given.
* **ProfitAccounting**: the ledger, the average cost and both profits booked again from
  the fills the engine's model commits (`Account`). The code keeps average and profit in
  fields saved and restored with the ledger, so their value is determined by the fills;
  the average is an exact fraction, the profits are rounded where the code rounds them.
* **BuyAndHold**: `_build_benchmark_comparison` on the bars processed so far, which is
  what `finish()` sees in the middle of a replay too.
* **MarketDataFile**: `load_market_data_csv` row by row and `validate_simulation_bars`
  on what it returns. Time counts half seconds, so that a gap may fall between two
  whole ones, and a row's clock has an offset.
* **CommandLine**: one call of the backtest or the replay command, from its arguments
  to its exit code, with the session seen through its status and its bars.
  **ArtifactPaths**: the check of the paths of a call and what the call then does to
  the files behind them, on file systems that do and do not tell letter case apart.
* **ArtifactWrites**: several calls of the program write their artifacts at once;
  **ArtifactStore** is what they promise a reader, with `at` counting what is in place.
* **EventLog**: the sink with the standard library's rotating handler below it; every
  operation on a file may fail.
* **LeanOperator**: invocations of `run_lean_parity_local.py`, each one phase, over the
  files they share, the lock, the runtime directory and the container. `proc[p].at` is
  the next step of an invocation; the LEAN CLI it launches is a process of its own that
  outlives its timeout and its death. Taking the lock is two calls, and an invocation whose
  write into the new file fails is `"stranded"`: over, not dead, its lock left to a person.
  The guards in the CLI write the audit (`GuardAudits`) and then start the container
  (`GuardStarts`); either may fail (`GuardRefuses`), and so may the removal that follows.
  **LaunchBudget** is the promise about executions.
* **LeanMarket** (external), **LatchedRisk**, **TrailingSignal**: what the LEAN
  algorithms share. **WalkForwardAlgorithm**, **BaselineAlgorithm** and
  **LegacyBaseline** have one action per callback; which comes next is the market's
  choice. A halt of the draft submits the sale of all it holds; when it holds nothing it
  submits nothing, and an order that was open then stays open (`HaltSellsAll`). `algo` holds the algorithm's fields, `market` LEAN's account and orders.
* **FoldEvidence**: what `observation.py` accepts as the evidence of one fold.
  `WalkForwardAlgorithm` checks what it emits against it.
* **ObservationLog**: a console that wraps, truncates, interleaves and leaves blank lines,
  and the reader that scans it once. A line is the tokens the reader tells apart.
* **ResultImport**: a fold trades, the service exports it, one part of the file may be
  lost, doubled or stale, the importer derives the evidence or refuses.
* **WalkForwardOperator**: the offline phases, two side by side, over inputs replaced and
  aggregates edited between their steps; a file is replaced whole, or its writing fails.
* **ParityFixture**: `ParityFixtureV1`'s own sizing, veto and fills, with the engine's
  operators (`OrderProposal`) beside them to compare with. **FixtureSource**: the two
  readings of its rows.
* **TraceComparison**, **ParityAgreement**: the comparator, and fixture and engine run on
  the same rows through the two writers into it.

Correspondence of state, engine: `book` is `_cash`, `_quantity`, `_cumulative_fees`,
`_cumulative_slippage`; `marks` is `_peak_equity`, `_previous_close_equity`,
`_start_of_day_equity`, `_current_utc_date`; `pending` is `_pending_signal`; `halt` is
`_halt_state`; `bars` is `_history`; `trail` is `_order_intents`, `_risk_decisions`,
`_fills`/`_trades`, `_equity_curve`; `events` is `_event_buffer` and, after the commit,
what is left of it to deliver. Session: `status`, `cursor`, `failure` are `_status`,
`_cursor`, `_failure_reason`.


## 3. Runs

| run | states | shows |
|---|---|---|
| `decisions` | 187 thousand | how an order is decided. *search*: every interval and every safe set within 0..6. *sizing*: cash 0..30, holding 0..8, price 1..6, eight weights: loop and function agree, the largest safe quantity is found, the order is accepted. *gate*: up to two wrong fields of an order or its snapshot, two policies each stricter somewhere. *benchmark*: cash 1..40, three prices, three bars |
| `subquantum_sizing` | violation | finding 2 below |
| `market_engine` | 593 thousand | three bars, two prices, days that stay or roll, a fee larger than a unit, a policy stricter than the configuration: buys, partial sells, every limit and refusal, the books |
| `faulty_engine` | 96 thousand | four bars, one price, a warm-up; strategy, sink and policy all may fail or change the engine |
| `paper_replay` | 3.7 thousand | five bars, controls between any two of them, a sleeper that controls the session, a sink that listens or calls back |
| `reentrant_kill` | violation | finding 1 |
| `lean_operator` | 586 thousand | three invocations of any phase, a batch of two, one death between any two steps, a lock taken in vain, timeouts that leave the container running, a person who clears up |
| `counted_execution` | violation | finding 3 |
| `lean_algorithms` | 1.05 million | *baseline*, *walkforward*, *legacy*: every market of six sessions at three prices, fills in part, late, refused, sessions without a bar. *parity*: fixture and engine on every five rows of three prices, LEAN delivering a fill twice, in part or not at all, and the comparison of the two traces |
| `legacy_daily_loss` | violation | finding 4 |
| `walk_forward_evidence` | 1.50 million | *log*: up to three lines, two payloads, noise of three kinds, blank lines, every wrapping. *download*: up to two orders over three days, with every single record lost or doubled and every single value stale. *phases*: two folds, two phases side by side, three changes of files between their steps |
| `files_and_inputs` | 1.47 million | *writes*: three overlapping calls with every fault and crash. *paths*: two reports and a log over five names and three files, on a file system that ignores letter case and one that does not. *log*: five events of three sizes, two backups, any file operation failing. *command*: four bars, any controls and exports. *csv*: three rows on four clocks, two of which show one instant. *fixture*: three rows, two changes of the source |

**Bounds.** A signal, its order, the post-fill check, the close and the next open span
two bars; three show a signal replaced, a halt after a fill and a day that rolls between
a buy and a sell, and an average cost kept over a partial sale and dropped with the last;
four (`faulty_engine`) leave room for a warm-up and a failure after a halt. Two prices
suffice for a gain, a loss and a breach of every limit, since the limits are small
multiples of a tick. Weights 0, half and all give no, partial and full targets; with two
of them equal a target is kept. `max_open_positions` cannot refuse an order of an engine
with one symbol; *gate* meets it. *search* has intervals of up to seven candidates, three
probes deep. A batch of two with three invocations has one that must be refused, and one
that starts while another's container runs on. Six sessions hold a warm-up of two, a
signal, its fill, a loss and the liquidation of what is left in two parts. Five rows give
the fixture three orders: a buy, a partial sale and one more under a halt. Three lines are
an observation in two pieces and a line between them, or one before and one after; a line
of noise is ordinary, closes a brace, or is too long. Two backups let a rotation fail
after the first move and before the second. Two folds suffice for a fold missing, doubled
or swapped. The cash of `lean_algorithms` is one at which the fee of the first order, a
quantum apart in the two engines, makes a later order larger by a share.

**Fairness.** The engine runs on its caller's thread: once called it goes on
(`WF(EngineStep)`), and the strategy and the sink are assumed to return
(`WF(CallReturns)`); nothing obliges the caller to call. In the session a call on the
stack goes on, an illegal transition raises and unwinds, the replay loop calls `step`
while the session runs, and the sleeper returns even when it keeps calling controls
(`SF(Wake)`: pausing and resuming disables and enables the return again and again). No
fairness is put on any control. An invocation of the LEAN operator keeps executing
(`WF(Step(p))`): every call it waits for has a timeout; nothing forces a crash, a person
or a new invocation, and `InvocationEnds` allows that an invocation died, or was stranded
before it counted anything. The other runs
check safety only.

**Deadlock** is checked on the engine, whose kill switch can always be called, and on the
evidence, whose parts end in a stutter. The search stops when it is finished, a benchmark
after its last bar, and a session, a call, a fold and a batch may end.

**External behaviour.** Strategy and sink are caller code: they raise, return, or change
the engine. A sink that calls the session back may use its controls (pause, resume,
stop, kill), not `step`. LEAN, Docker, the console, the LEAN cloud's export, the rotating
handler of the standard library and the owners of files are modelled as the code uses
them and marked external in the modules.

**What the bounds of the agreement are.** `ComparisonHolds` is stated with the
comparator's tolerance scaled to 2 quanta; with 0 or 1 it does not hold, because one fee
is taken on the open and the other on the slipped price. The same drift can make one
engine halt and not the other (cash 4896), or size a later order a share differently
(4600, 4683, 5024, 5120 and others): the comparator then reports a difference, as it
should, and the property asks for agreement only where neither halted and both traded the
same shares. A halt never passes as agreement, since the engine records a decision on the
portfolio and the fixture records none; the fixture latches at closes only and lets a
sale pass a breach at the open, where the engine refuses every order.

**What the evidence does not catch.** An honest fold with an order cancelled after a
partial fill, or without order events and with an unfilled order, cannot be imported
(`Importable` names these); without events the displayed quantity is only compared with
zero; that a fill costs more than two cents is assumed, else a lost fill hides in the
displays' tolerance. An input replaced between the naming of an output and its writing
leaves a fold's file with another fold in it, which the aggregation refuses. A gap is
reported for certain only from a second over the limit.

## 4. Findings

1. *A kill switch from the sink does not latch the engine* (`reentrant_kill`).
   `docs/paper-replay.md:52` says the kill switch latches the shared risk halt. Called
   from a sink while an event is delivered, the latch is set and then rolled back with
   everything else the sink changed in the engine; the session, which is not protected,
   stays `HALTED`. The engine reports no halt and no reason. Nothing trades, because the
   session takes no more bars.
2. *The bisection is not always the largest safe quantity* (`subquantum_sizing`). A buy
   whose value rounds to zero is unsafe, so when a unit is worth less than a quantum the
   small candidates fail, the search looks below them and returns 0, though larger ones
   pass. The docstring of `_cost_aware_target_quantity` promises the largest. With whole
   quanta per unit (`decisions`) it holds.
3. *A counted execution need not be a launched one* (`counted_execution`). `run_lean`
   writes the count before it creates the runtime directory and checks the network
   (`run_lean_parity_local.py:553`); a failure there uses up an execution of the batch,
   and the next one too when it left the directory behind, though `lean_runtime.py:861`
   speaks of launched executions. The order is the safe one for the budget: no launch is
   ever uncounted (`StartsAreCounted`).
4. *The draft's daily loss is always zero* (`legacy_daily_loss`). The preserved
   `lean/algorithms/MovingAverageBaseline/main.py:62` takes the base of a day's loss from
   the daily bar it then compares with it; its `README.md:19` promises a halt at 2%. The
   active algorithm takes the base from the close before.

## 5. Proofs

Everything below is proved from the assumptions the modules state on their constants
(positive scales, slippage under 100%, weights and limits within 0..1, positive prices,
plans that end with their manifest, ...), which TLC evaluates in the runs, and from
nothing else: for every price, fee, rounding, number of bars, strategy, sink, invocation
and call. 41 listed theorems state 33 of the 40 properties the runs check.

**How an order is decided** (`Decisions_proofs`).

* *The search*: for every interval of integers and every test, `Searched` is inductive and
  gives `ResultIsSafe`, `ResultIsLargest` and `HalvesInterval`. "best is safe" alone does
  not survive a step: that the best candidate lies just below the remaining interval, and
  the last refused one just above, is what makes the finished search maximal.
* `SizedOrdersAreAccepted`: `SizedOrderIsAccepted`. `AskedInv` adds to the search what it
  was asked: a portfolio that passed the check at the open, and the safe set of the real
  test. What was found has therefore passed the test, and each check of `evaluate_order`
  is answered from it; what the order claims is what the policy derives (`SafeOrderIsStated`,
  shared with the engine's `OrdersAreConsistent`), so only the caps and the cash are left
  (`LeftToCheck`), and of those the cash of a sale.
* `LargestSafeIsFound`: `FindsLargestSafe`, under a condition on the price that is part of the
  statement (`NoHoles`). `LoopInv`, what is left of the interval and the best so far
  determine the function's result, makes loop and function agree without any condition. That
  nothing larger passes needs the safe sizes to form a prefix (`SafeSetIsPrefix`). For a
  purchase it is enough that one unit is worth something: cost and value grow with the
  quantity, cost by more, and a larger safe one leaves the equity to weigh a smaller one
  (`PurchasesArePrefix`); for a sale, that a unit brings in more than two quanta after its
  proportional fee, so that the roundings of value and fee cannot make up for it
  (`ProceedsGrow`, `SalesArePrefix`). A purchase outside the condition is finding 2.
* `BenchmarkHolds`: `BenchmarkIsFair`. The cost of a purchase grows with its quantity,
  whatever the minimum fee and the roundings, so the bisection ends at the largest
  affordable one. The engine's search is compared with it over the interval both have; a
  quantity beyond the benchmark's interval has a value the cash does not cover, and only
  the rounding of that value, with slippage charged and no minimum fee, can hide it
  (`EngineBuysNoMore` says so). The three roundings of `CostsAreCharged` add up to at most
  one and a half quanta.
* The policy as a gate, for *any* order, portfolio and policy, whoever states them:
  `ApprovedNumbersAreFinite`, `ApprovedOrdersAreSafe` and `EffectivePolicyIsStricter`. A
  check of the policy is a set of reasons, an approval is that all are empty (`AllPass`); a
  comparison with something that is no number would be false, which is why every field a
  later check reads is one an earlier check has found finite. Every check is monotone in
  the limits (`NoLooser`), so the minimum of two policies approves less than either.

**Types and approvals** (`SimulationEngine_proofs`).

* `TypeCorrect`: the type invariant, cash and quantity never negative. It is made
  inductive by one conjunct (`TypeInv`): the sink is only called with an event at the
  head of the queue. It rests on lemmas on the helpers: rounding keeps the sign, a
  fee is never negative, a price survives slippage, the policy answers only with
  reasons of its taxonomy.
* `ApprovalsAreBooked`: `PolicyGuardsLedger`. The cash the policy projects is, term by
  term, the cash the ledger will book (`ApprovedIsBookable`), so an approved order
  cannot leave the ledger negative, and a sale never exceeds the holding; and a bar is
  only in process on an engine that has not failed (`RunsUnfailed`).

**Histories** (`SimulationEngine_proofs`). The properties speak of the committed state, which a
bar only changes when it commits, so each invariant says besides what the bar under way has
done so far; while the strategy runs it says it of the snapshot taken before the call,
because the caller may have changed everything else.

* `SignalsExecuteNextBar`, `HaltsFreeze`: `NextBarOpen` and `HaltFreezes`, from
  `HistoryInv`: until the strategy is called the intents are no later than the bar and than
  a latched halt, and between `expire_pending_signal` and the latch of the kill switch no
  signal is left.
* `LossLimitsHold`: `LossLimitsLatch`, from `LimitsInv`. A point of the curve is within the
  limits or halted; its peak covers the initial cash, its equity and every peak before; the
  start of its day is the last close before the first bar of its date. The marks carry
  this from one bar to the next: they are those of the last point (`MarksHold`), the open
  rolls them once a date (`Rolled`), the close raises the peak before it is judged
  (`Closed`). That the floors in the policy's snapshot hide no breach is `MarkIsChecked`.
* `EngineImplementsContract`: `ImplementsContract`. The five variables of the contract
  are read off the committed state, so every step of a bar is a stutter
  (`CommittedKept`), a failure is `FailBar` and a commit is one `CommitBar` from the
  state before the bar. `BarInv` relates the bar under way to that state: the same
  signal, at most one trade towards it and none when halted, a flat target only sells,
  one more bar in the history once the close is marked.

**Sizing, orders and audit** (`OrderProposal_proofs`, `SimulationEngine_proofs`). The lemmas
about rounding, the search, and the order made of a safe target (`SafeOrderIsStated`,
`NoCapBreached`) serve the engine, its search and the parity fixture alike.

* `SizedIsSafe`: the recursive `Bisection` that the engine's model uses is defined on every
  interval (`BisectionDefined`) and finds a candidate of the interval that passed the test, or
  none (`BisectionFinds`). Recursive functions are reasoned about without an induction
  theorem that takes an operator: a nonempty set of numbers has a least one
  (`LeastNumber`, from the well-founded order of the numbers), so a set that holds 0 and each
  number after one of its own holds all of them (`UpTo`); the induction is over the length
  of what is left of the interval.
* `FillsKeepTarget`: `PostCostTarget`. A buy is of a size that passed the test, and what the
  test projects is what the ledger books; a sale towards a smaller target is of a size that
  passed it too, or goes flat.
* `OrdersAreWellStated`: `OrdersAreConsistent`. What the order claims (notional, projected
  cash and weights) is what the policy derives, and what would refuse the portfolio was
  checked at the open (`OpenIsClear`).
* `AuditIsComplete`: `AuditHolds`. `BooksInv` keeps the one-to-one correspondence of intents
  with decisions and of approvals with fills (`Audited`), on the trail and on the snapshots it
  may be restored from, and that a queued event is of a bar up to the last and a fill's event
  has its fill (`Announced`).

**The books** (`SimulationEngine_proofs`). `BooksAreOneHistory`: `BooksReconcile`. Two inductions
meet. Over the fills (`UpTo` again): `Account` is defined, one more fill leaves the earlier
entries alone (`AccountGrows`), and after each of them the *excess*, which is the cash that
profits and fees do not explain plus the cost of the holding, times the denominator of
the average so that it is a whole number, stays within half a quantum a rounding
(`Explained`). One rounding moves it by at most half a quantum (`RoundedNear`); the
weighted average makes a buy's cost exactly what was paid (`BuyExplained`); a sale realizes the
difference (`SaleExplained`); at a close the unrealized profit and the market value add one
rounding each (`CloseExplained`). The average lies between the prices paid since the engine was
flat because a mean lies between its parts (`CostHolds`). Over the steps: `LedgerInv`
says that the ledger is the last entry of the account, and that each point of the curve
values the entry at the bar's split of the fills.

**The session** (`PaperReplay_proofs`). `SessionIsTheEngines` and `TradesOnlyRunning`:
`SessionMatchesEngine` and `FrozenUnlessRunning`. The properties speak of a session at rest;
`SessionInv` says of one with a call on the stack how far the uncounted bar has come, that a
call about to end the session has expired its signal first, that a bar is only asked for
while running and nothing is being delivered. For a sink that only listens it adds that the
transition about to be made is legal, so that a halt reaches both machines; a sink that calls
back breaks exactly that (finding 1). With `EngineImplementsContract` this covers the real
engine: the session is proved over the contract, the engine to implement it.

**The LEAN operator** (`LeanOperator_proofs`), for any number of invocations and any batch.
`OperatorInvariant`: the lock is held by whoever is in the locked section or whose CLI
still runs, even when it died (`LockIsHeld`); a runtime directory belongs to who uses it; a
counted number is nobody else's and the last one while its invocation is engaged
(`Numbers`); a started container was launched under its number, and the audit on disk is
that of the run in the locked section from the moment it was written (`Starts`). From it
`StartsCounted` (`StartsAreCounted`), `EvidenceIsSound` (`EvidenceHolds`, four action
properties) and the refinement `OperatorImplementsBudget` (`ImplementsBudget`).

**Files and inputs** (`Files_proofs`), each part for all of its constants.

* *The writer*, for any plans and any number of overlapping calls. `WritesInv`: a temporary is
  what its call's next step takes it for, none before it writes, a part until it is flushed,
  whole after. A move is therefore of a whole artifact: `NeverAPart` (`NeverTorn`), and the
  refinement `WriterImplementsStore` (`ImplementsStore`). What a call has placed is what it
  has passed (`PlacedInv`), which with manifests last in their plans gives
  `ManifestsAreLast`; a temporary left behind is accounted for (`LeftoversAreExplained`).
* *The paths.* `PathsInv`: once the check of the paths has passed, the places of the input and
  of every chosen artifact are apart (`Apart`), and what is written at one of them leaves the
  files behind the others alone, the rotation of the log included. With the writer this is
  `ArtifactsAreSafe` (`ArtifactsSurvive`).
* *The CSV file.* `CsvInv`: every row read is a bar in its place (`Read`) and a refusal has a
  reason in the file (`Refusable`). A gap cut to whole seconds is over the limit only when
  the gap is, and one that is not over the limit was less than a second over it; instants in
  order are what `validate_simulation_bars` asks for. `FilesAreLoadedWhole` (`LoadedIsTheFile`).
* *The log.* `LogInv`: across the files, oldest first, and within each the events are in order
  and what was rotated away is older than all of them (`Ordering`); every event handled so far
  is in a file, was rotated away, or a loss was disclosed (`Accounted`); while the files move up
  the next place is free, so no move overwrites one. `LogsAreHonest` (`LogIsHonest`).
* *The command.* `CommandInv`: in the loop no limit has been passed over and the pauses are those
  of the arguments (`Looping`); on the way out the summary is there unless an exception is
  (`Leaving`). `CommandsAreHonest` (`CommandIsHonest`).
* *The fixture's source.* `SourceInv`: the lines accepted are the first of the contract's, whatever
  was put in the file's place in between. `FixtureIsTheContracts` (`OnlyTheFixture`).

**The LEAN algorithms** (`LeanAlgorithms_proofs`), for every price, fee, window, limit, weight and
number of sessions.

* *Both active algorithms* keep the market `Covered`: at most one order is open, and what is left
  of it never sells more than is held; parts, late fills and cancellations preserve that, and a
  new order is only submitted where none is left. `PositionNeverShort` (`NeverShort`).
* *The baseline.* `BaselineInv`: after a halt what is still open is a sale or on its way out
  (`SoldOff`), so the position only falls, and the close of every bar finds nothing in the way
  of the next request.
* *The fold.* `WalkInv`: the metric and the guard, fed by different handlers, have the same peak
  until the guard halts (`Agrees`); what the bars have left in the record is in order and the
  close of the last one is in the metric (`Begun`, `Recorded`); after a halt nothing is left that
  could be filled (`Frozen`). What is emitted is then accepted check by check, and nothing is
  emitted without the last session. `ObservationHolds` (`ObservationIsSound`).
* *The draft.* A cancellation of every order before a liquidation leaves the liquidation alone.
  With the two above: `HaltsAreHonoured` (`HaltIsHonoured`).
* *The parity fixture.* `FixtureIsTheEngine` (`FixtureMirrors`), for every series of prices, cash,
  cost, limit and window of the contract's shape (`FixtureAssumption`: exact amounts, no minimum
  fee, one limit for position and order that is under the allowed exposure, loss limits above
  zero, fee and slippage under 100% together, weights no finer than costs, nothing that stops
  the engine by configuration; `main.py:56-70` and `main.py:615-645` fix all of it). Four
  arguments. The fixture's search and `Bisection` probe the same candidates and differ in what
  they start from (`FromZeroFinds`, `SearchIsUnique`), and the two tests of a candidate are one
  (`TestsAgree`): `SizesAgree`. A safe target is refused by either for losses only
  (`VetoIsForLosses`, `RefusedForLosses`): the fixture does not round the fee where the engine
  does, which the distance of the target from the allowed exposure absorbs (`MarginHolds`); were
  the two limits equal, the half quantum could decide. The fee LEAN charges on the open is never
  over the one the test estimated for a purchase (`FeeCovered`), and a sale brings more than its
  fee (`SaleBrings`): `FillIsFunded`. `FixtureInv` then carries the account and the trail through
  every handler: the account is what the noted fills leave, but for the fill LEAN has reported
  and `market_order` has not returned from; an order that stands can be funded; the approved
  intents are those filled, but for the one that stands. Once the fixture has raised, only the
  account is promised anything, and nothing is published.

**The evidence** (`Evidence_proofs`), for any observations, noise, limits, folds and phases.

* *The log.* `LogInv` has two halves. What is written (`WrittenInv`): the first prefixed line
  tells the story of the log. It is noise that pretends, or the lines from it on are the pieces
  of one observation, which is whole, broken off by another line, or still being written
  (`Told`). What is read (`ReadInv`): what the reader has joined is the observation as far as
  its pieces went, or begins as no observation does, and stays so whatever is joined to it
  (`Joined`, `SpoiltForGood`). A readable log never exceeds the limits of the reader, since what
  it has counted are bytes of lines it has passed. `LogsAreRead` (`LogIsRead`). Assumed of the
  texts, and evaluated by the run: an observation is one JSON object closed by its last token
  that fits its limit and does not hold the prefix (what `walk_forward/observation.py` writes),
  and a line of noise, unless it is blank, does not happen to go on as an observation would
  where it was wrapped. Without the second the claim is false: noise that reads like the
  missing rest completes it. A blank line is joined as a piece without a token
  (`BlankKeepsWritten`).
* *The phases.* `OperatorInv`: what is stored is an observation or an aggregate of as many folds as
  the protocol has, all of its format, whatever was edited, and a phase holds what it may have
  read (`Stored`, `Phase`). What is shown was derived again from its own folds
  (`HoldsIsDerived`); two lists of the same files give the same set of folds, from which an
  aggregate is made. `ShownEvidenceIsDerived` (`ShownIsDerived`).

The functions these models define by recursion (the orders left, the bytes of a file, the
warnings of a timeline) are unrolled by lemmas of one form (`Unrolls`): such a function exists,
from the induction over pairs of a length and a value.

**Only model-checked.** `CallEnds`, `LoopReturns` and `InvocationEnds`: liveness under fairness
is beyond the prover (that the search ends follows from `HalvesInterval`, which is proved).
`FindsLargestSafe` outside `NoHoles`: there it is false when a unit bought is worth nothing
(finding 2), and for sales at prices of a few quanta only the run's amounts are checked.
`GateHolds`: its parts `FailsClosed` and `EffectiveIsStricter` are proved of the
policy itself, in a stronger form (any fields wrong); `ApprovedIsSafe` computes what an
approved order leaves from the true portfolio, and holds for the two wrong fields it is checked
with: with more, a claimed exposure of less than half a quantum can be worth a unit.
`ComparisonHolds` and what is imported of a download (`AcceptedIsTrue`, `TruthIsAccepted`)
are not proved; `ComparisonHolds` holds only for the amounts of the contract's bounds, and
what it says of the tolerance is a fact about those.

## 6. Not modelled

* Of the engine: the ratios of the summary, digests and the session id,
  `KeyboardInterrupt` during a bar (which bypasses the rollback, as `except Exception`
  does not catch it).
* Of the policy: its metrics, the types of its Boolean fields, the money precision of
  an order.
* Of the session and the command line: the content of summaries and manifests;
  `validate-csv` and `show-config`, which only print.
* Of the CSV loader: decoding, the header's other checks, the parsing of a cell.
* Of the LEAN runtime: what makes a Docker request, a host or staged bytes valid; a
  validation is a step that may fail.
* Of parity and walk-forward: schemas, digests, canonical decimals, derived ratios, the
  extraction of the parity trace from LEAN's log, the contract file.
* Parts listed as `not_modelled` in `PROJECT.json`, with the reason: domain objects,
  reports, provenance, classification of text, skeletons, scans of the working tree.
  They keep no state between calls.
* Benchmark figures are compared with exact values up to the rounding of a quantum.

## 7. Plan

1. *Done*: the engine, its sizing, policy, books and benchmark; the session; the LEAN
   operator, algorithms, parity check and evidence; artifacts, paths, event log, command
   line and CSV loading. Theorems: every safety property of the engine's, the session's,
   the operator's and the files' runs, those of the LEAN algorithms with the parity
   fixture's, and all but `GateHolds` of those about how an order is decided, the reader of a fold's log and the
   offline phases.
2. Next: `AcceptedIsTrue` of `ResultImport`, whose sums over orders need lemmas of
   their own.
