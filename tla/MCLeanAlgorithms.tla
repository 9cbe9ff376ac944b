-------------------------- MODULE MCLeanAlgorithms --------------------------
(***************************************************************************)
(* The LEAN algorithms on small instances, one of them at a time:          *)
(*   "parity"       ParityAgreement: the fixture beside the local engine;  *)
(*   "baseline"     BaselineAlgorithm;                                     *)
(*   "walkforward"  WalkForwardAlgorithm, one fold of four sessions after  *)
(*                  two of warmup;                                         *)
(*   "legacy"       LegacyBaseline.                                        *)
(* The last three share one market; an algorithm that is not run stays as  *)
(* it was initialized.                                                     *)
(***************************************************************************)
EXTENDS ParityAgreement

CONSTANTS Algorithms,                  \* the algorithms to run
          Dollars, Charges, Capital,   \* the market: its prices, fees and the cash,
          FirstSession, FinalSession,  \* and the sessions of the evaluation
          DailyLimit, DeclineLimit,    \* percent
          FastCloses, SlowCloses, LongWeight,
          WarmupCloses,                \* what a fold asks of its warmup
          ThisFold

VARIABLES algorithm, market, baseline, walking, emitted, legacy, before

lean == <<market, baseline, walking, emitted, legacy, before>>
all == <<algorithm, vars, local, lean>>

Baseline == INSTANCE BaselineAlgorithm WITH
    algo <- baseline, Prices <- Dollars, Fees <- Charges, InitialCash <- Capital,
    FirstDay <- FirstSession, LastDay <- FinalSession, DailyLossLimit <- DailyLimit,
    DrawdownLimit <- DeclineLimit, Fast <- FastCloses, Slow <- SlowCloses,
    TargetWeight <- LongWeight

Walk == INSTANCE WalkForwardAlgorithm WITH
    algo <- walking, Prices <- Dollars, Fees <- Charges, InitialCash <- Capital,
    FirstDay <- FirstSession, LastDay <- FinalSession, DailyLossLimit <- DailyLimit,
    DrawdownLimit <- DeclineLimit, Fast <- FastCloses, Slow <- SlowCloses,
    TargetWeight <- LongWeight, WarmupBars <- WarmupCloses, StartingCapital <- Capital,
    FoldIds <- <<ThisFold>>, Fold <- ThisFold, Nothing <- None,
    Window <- [fold \in {ThisFold} |-> [start |-> FirstSession, end |-> FinalSession]]

Legacy == INSTANCE LegacyBaseline WITH
    algo <- legacy, Prices <- Dollars, Fees <- Charges, InitialCash <- Capital,
    FirstDay <- FirstSession, LastDay <- FinalSession, DailyLossLimit <- DailyLimit,
    DrawdownLimit <- DeclineLimit, Fast <- FastCloses, Slow <- SlowCloses,
    TargetWeight <- LongWeight

ASSUME LeanAssumption ==
    /\ Baseline!MarketAssumption /\ Baseline!LimitAssumption
    /\ SlowCloses \in Nat /\ FastCloses \in 1 .. SlowCloses - 1 /\ LongWeight \in 1 .. 100
    /\ Walk!FoldAssumption /\ Walk!AlgorithmAssumption
    /\ \A day \in FirstSession .. FinalSession : day # None
    /\ Traces!ToleranceAssumption

AllInit ==
    /\ algorithm \in Algorithms
    /\ AgreementInit
    /\ Baseline!Init /\ Walk!Init /\ Legacy!Init
    /\ algorithm = "parity" => market.mark = CHOOSE price \in Dollars : TRUE

AllNext ==
    /\ algorithm' = algorithm
    /\ \/ /\ algorithm = "parity" /\ AgreementNext
          /\ UNCHANGED lean
       \/ /\ algorithm = "baseline" /\ Baseline!Next
          /\ UNCHANGED <<vars, local, walking, emitted, legacy, before>>
       \/ /\ algorithm = "walkforward" /\ Walk!Next
          /\ UNCHANGED <<vars, local, baseline, legacy, before>>
       \/ /\ algorithm = "legacy" /\ Legacy!Next
          /\ UNCHANGED <<vars, local, baseline, walking, emitted>>

AllSpec == AllInit /\ [][AllNext]_all

-----------------------------------------------------------------------------
(***************************************************************************)
(* However the fills of the signal's orders and of a liquidation arrive,   *)
(* late, in parts or after the bar that would have cancelled them, neither *)
(* moving-average algorithm is ever short.                                 *)
(***************************************************************************)
NeverShort == algorithm # "legacy" => market.quantity >= 0

(***************************************************************************)
(* What a latched halt promises, to each algorithm its own: the fold keeps *)
(* its position to the last share, the baseline only ever sells and asks   *)
(* for the sale of the rest at every bar, the draft asks for that too.     *)
(***************************************************************************)
HaltIsHonoured ==
    /\ Walk!HaltFreezesPosition
    /\ Baseline!HaltOnlySells
    /\ Baseline!LiquidationRequested
    /\ Legacy!HaltSellsAll

(***************************************************************************)
(* The observation of a fold, on every market: the drawdown it reports and *)
(* the one that halts agree, the repository's extraction accepts it, and   *)
(* an outage at the end of the fold leaves none.                           *)
(***************************************************************************)
ObservationIsSound ==
    /\ Walk!ReportedDrawdownHalts
    /\ Walk!EmittedIsAccepted
    /\ Walk!OutageEmitsNothing

(***************************************************************************)
(* The fixture mirrors the engine: it sizes and vetoes as the engine does  *)
(* on the same account, LEAN can fund what it orders, and the trace it     *)
(* publishes is whole, whatever LEAN delivered twice, late or in part.     *)
(***************************************************************************)
FixtureMirrors ==
    SizingMirrors /\ VetoMirrors /\ FillsAreFunded /\ TraceIsWhole

(***************************************************************************)
(* The parity check reports what it must and nothing else: both traces are *)
(* accepted, they agree when neither run halted and both traded the same   *)
(* shares, they stay within a share of each other, and no halt passes.     *)
(***************************************************************************)
ComparisonHolds ==
    algorithm = "parity" =>
        TracesAreAccepted /\ EnginesAgree /\ HoldingsStayClose /\ HaltsAreSeen
=============================================================================
