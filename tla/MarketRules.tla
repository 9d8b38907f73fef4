----------------------------- MODULE MarketRules -----------------------------
(***************************************************************************)
(* market_rules.c: what a market accepts and what a trade costs.  Prices,  *)
(* quantities and rates are integers here; a market with fractional lots   *)
(* and a manager without rules are left out.                               *)
(***************************************************************************)
EXTENDS Integers, FiniteSetsExt

(* The preset markets, reduced to what the order manager looks at.  A rate *)
(* is per unit of notional, a price limit is a multiple of the last close. *)
US_EQUITY == [name |-> "US_EQUITY", lot |-> 1, tPlus |-> 0, hasLimit |-> FALSE, up |-> 0,
              dn |-> 0, short |-> TRUE, rate |-> 0, minCommission |-> 1, stamp |-> 0]
CN_ASTOCK == [name |-> "CN_ASTOCK", lot |-> 2, tPlus |-> 1, hasLimit |-> TRUE, up |-> 1,
              dn |-> 0, short |-> FALSE, rate |-> 0, minCommission |-> 1, stamp |-> 1]
Markets == {US_EQUITY, CN_ASTOCK}

RoundLot(rules, quantity) == (quantity \div rules.lot) * rules.lot

Upper(rules, prevClose) == prevClose * (1 + rules.up)
Lower(rules, prevClose) == prevClose * (1 - rules.dn)
Limited(rules, prevClose) == rules.hasLimit /\ prevClose > 0

ClampPrice(rules, price, prevClose) ==
    IF Limited(rules, prevClose)
    THEN Max({Lower(rules, prevClose), Min({Upper(rules, prevClose), price})})
    ELSE price

Commission(rules, notional, isSell) ==
    Max({notional * rules.rate, rules.minCommission})
        + (IF isSell THEN notional * rules.stamp ELSE 0)

(* market_validate_order returns ORDER_OK, for an active asset and without *)
(* a session time, as the order manager calls it.                          *)
ValidateOrder(rules, price, quantity, direction, prevClose, position, boughtToday) ==
    /\ quantity > 0
    /\ direction < 0 => /\ quantity <= position \/ rules.short
                        /\ rules.tPlus >= 1 => quantity <= position - boughtToday
    /\ Limited(rules, prevClose) =>
          Lower(rules, prevClose) <= price /\ price <= Upper(rules, prevClose)
    /\ quantity % rules.lot = 0
=============================================================================
