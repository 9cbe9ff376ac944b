--------------------------- MODULE EngineContract ---------------------------
(***************************************************************************)
(* What the simulation engine promises to whoever drives it, a batch       *)
(* backtest or a paper-replay session: a bar is processed entirely or not  *)
(* at all, at most one order follows each signal, a halt freezes the       *)
(* holding for good, and a failure ends the engine with the state of the   *)
(* last whole bar.  SimulationEngine implements it.                        *)
(***************************************************************************)
EXTENDS Naturals

CONSTANTS
    Bars,       \* the number of validated bars
    Warmup,     \* config.warmup_bars
    Targets,    \* the target weights a signal may carry
    Holdings,   \* what the portfolio may be, [cash, quantity]
    Initial,    \* the holding an engine starts with
    Nothing     \* no pending signal

ASSUME ContractAssumption ==
    /\ Bars \in Nat
    /\ Warmup \in Nat
    /\ Initial \in Holdings

VARIABLES
    processed,  \* bars_processed
    holding,    \* cash and quantity
    signal,     \* the pending signal, [bar, weight]
    halted,     \* the halt latch
    failed      \* _processing_failed

contractVars == <<processed, holding, signal, halted, failed>>

ContractInit ==
    /\ processed = 0
    /\ holding = Initial
    /\ signal = Nothing
    /\ halted = FALSE
    /\ failed = FALSE

\* The holding trades towards the pending target, and a flat target never buys.
Traded ==
    /\ ~halted
    /\ signal # Nothing
    /\ holding' \in Holdings
    /\ holding'.quantity # holding.quantity
    /\ signal.weight = 0 => holding'.quantity < holding.quantity

\* process_bar returns.
CommitBar ==
    /\ ~failed
    /\ processed < Bars
    /\ processed' = processed + 1
    /\ holding' = holding \/ Traded
    /\ halted' \in {halted, TRUE}
    /\ \E weight \in Targets \cup {0} :
        /\ halted' \/ processed' <= Warmup => weight = 0
        /\ signal' = [bar |-> processed', weight |-> weight]
    /\ UNCHANGED failed

\* process_bar raises.
FailBar ==
    /\ ~failed
    /\ failed' = TRUE
    /\ UNCHANGED <<processed, holding, signal, halted>>

\* expire_pending_signal
DropSignal ==
    /\ signal # Nothing
    /\ signal' = Nothing
    /\ UNCHANGED <<processed, holding, halted, failed>>

\* The latch of activate_kill_switch: no signal is left to execute.
Halt ==
    /\ signal = Nothing
    /\ ~halted
    /\ halted' = TRUE
    /\ UNCHANGED <<processed, holding, signal, failed>>

ContractNext == CommitBar \/ FailBar \/ DropSignal \/ Halt

ContractSpec == ContractInit /\ [][ContractNext]_contractVars
=============================================================================
