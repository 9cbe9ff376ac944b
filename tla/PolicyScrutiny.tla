--------------------------- MODULE PolicyScrutiny ---------------------------
(***************************************************************************)
(* The risk policy as a gate: it is shown an order and a portfolio of      *)
(* which a few fields say something else than the quantities and prices    *)
(* imply, as a caller with a bug, a rounding of its own or a NaN would     *)
(* hand them over, and must approve nothing that the real fill would make  *)
(* unsafe.                                                                 *)
(***************************************************************************)
EXTENDS OrderProposal, FiniteSets

CONSTANTS
    Cash, Quantities, Ticks,  \* the portfolios and prices to start from
    Amounts,                  \* what a wrong field may say
    NaN,                      \* what _is_finite_number refuses
    MaxWrong                  \* how many fields may be wrong

VARIABLES
    order,      \* the OrderRequest
    portfolio,  \* the PortfolioSnapshot
    wrong       \* the fields that were overwritten

vars == <<order, portfolio, wrong>>

OrderAmounts == {"quantity", "reference_price", "execution_price", "notional",
                 "estimated_fee", "cash_required", "available_cash",
                 "current_quantity", "current_symbol_exposure",
                 "current_total_gross_exposure", "resulting_symbol_exposure",
                 "resulting_total_gross_exposure", "resulting_quantity",
                 "data_age_seconds", "open_positions"}

PortfolioAmounts == {"equity", "start_of_day_equity", "peak_equity", "daily_pnl",
                     "cash", "open_positions"}

\* An order the engine would build, on a portfolio it could hold.
Init ==
    /\ \E holding \in [cash : Cash, quantity : Quantities], ticks \in Ticks,
          target \in Quantities :
        LET equity == EquityAt(holding, ticks)
        IN  /\ target # holding.quantity
            /\ equity > 0
            /\ order = OrderTo(target, holding, ticks)
            /\ portfolio = Snapshot(holding, equity,
                                    [peak |-> equity, start_of_day |-> equity], FALSE)
    /\ wrong = {}

\* One more field may be overwritten.
May(field) == field \notin wrong /\ Cardinality(wrong) < MaxWrong

MisstateOrder ==
    \E field \in OrderAmounts, value \in Amounts \cup {NaN} :
        /\ May(<<"order", field>>)
        /\ order[field] # value
        /\ order' = [order EXCEPT ![field] = value]
        /\ wrong' = wrong \cup {<<"order", field>>}
        /\ UNCHANGED portfolio

MisstateSide ==
    /\ May(<<"order", "side">>)
    /\ order' = [order EXCEPT !.side = IF @ = Buy THEN Sell ELSE Buy]
    /\ wrong' = wrong \cup {<<"order", "side">>}
    /\ UNCHANGED portfolio

MisstateReduction ==
    /\ May(<<"order", "reduces_risk">>)
    /\ order' = [order EXCEPT !.reduces_risk = ~@]
    /\ wrong' = wrong \cup {<<"order", "reduces_risk">>}
    /\ UNCHANGED portfolio

MisstatePortfolio ==
    \E field \in PortfolioAmounts, value \in Amounts \cup {NaN} :
        /\ May(<<"portfolio", field>>)
        /\ portfolio[field] # value
        /\ portfolio' = [portfolio EXCEPT ![field] = value]
        /\ wrong' = wrong \cup {<<"portfolio", field>>}
        /\ UNCHANGED order

Next ==
    \/ MisstateOrder
    \/ MisstateSide
    \/ MisstateReduction
    \/ MisstatePortfolio

Spec == Init /\ [][Next]_vars

-----------------------------------------------------------------------------
Reasons == EvaluateOrder(EffectivePolicy, order, portfolio)
Approved == Reasons = {}

\* What the fill really does, from the quantities and prices alone.
After ==
    LET bought == IF order.side = Buy THEN order.quantity ELSE -order.quantity
        paid   == MoneyOf(order.quantity * order.execution_price)
        cash   == portfolio.cash - order.estimated_fee
                    + (IF order.side = Buy THEN -paid ELSE paid)
        value  == MoneyOf((order.current_quantity + bought) * order.reference_price)
    IN  [cash |-> cash, quantity |-> order.current_quantity + bought,
         value |-> value, equity |-> cash + value]

(***************************************************************************)
(* Whatever fields are wrong, an approved order leaves cash and quantity   *)
(* non-negative and equity positive, and one whose holding then exceeds    *)
(* the position cap is a sale: the claims about exposures, notional and    *)
(* reduced risk cannot talk the policy into it.                            *)
(***************************************************************************)
ApprovedIsSafe ==
    Approved =>
        /\ After.cash >= 0
        /\ After.quantity >= 0
        /\ After.equity > 0
        /\ \/ ~Exceeds(After.value, EffectivePolicy.max_asset_weight, After.equity)
           \/ order.side = Sell /\ After.quantity < order.current_quantity

(***************************************************************************)
(* The policy fails closed: one number that is not finite, in any field    *)
(* of the order or of the portfolio, is enough for a rejection.            *)
(***************************************************************************)
FailsClosed ==
    \/ \E field \in OrderAmounts : order[field] = NaN
    \/ \E field \in PortfolioAmounts : portfolio[field] = NaN
    => ~Approved

(***************************************************************************)
(* The engine runs under the stricter of the policy it was given and its   *)
(* own configuration: it approves nothing that either would refuse.        *)
(***************************************************************************)
ConfiguredPolicy ==
    [Policy EXCEPT !.max_asset_weight = MaxPosition,
                   !.max_total_gross_exposure = MaxTotalExposure,
                   !.max_order_notional_weight = MaxOrderNotional,
                   !.max_daily_loss_pct = MaxDailyLoss,
                   !.max_drawdown_pct = MaxDrawdown,
                   !.max_open_positions = MaxOpenPositions]

EffectiveIsStricter ==
    Approved => /\ EvaluateOrder(Policy, order, portfolio) = {}
                /\ EvaluateOrder(ConfiguredPolicy, order, portfolio) = {}
=============================================================================
