---------------------------- MODULE PricingMath ----------------------------
(***************************************************************************)
(* The formulas of src/utils/pricing-math.util.ts: from the price of a     *)
(* metal, a ratio, a weight, the labour and the stones to the price that   *)
(* is quoted.  Everything is a pure operator; the price tables and the     *)
(* calculations over them are in PriceTables and OptionPricing.            *)
(*                                                                         *)
(* The program computes with floating point numbers that are rounded once, *)
(* at the end.  Here an amount in between is a fraction <<n, d>> with      *)
(* d > 0, so that nothing is rounded but where the program rounds.         *)
(***************************************************************************)
EXTENDS Integers, Sequences

CONSTANTS Hundred,   \* what a percentage is a part of; 100 in the program
          Thousand   \* a quoted price is a multiple of it; 1000 there

ASSUME PricingAssumption ==
    /\ Hundred \in Nat \ {0, 1}
    /\ Thousand \in Nat \ {0}

----------------------------------------------------------------------------
(* Fractions.                                                              *)

Whole(n) == <<n, 1>>
Plus(a, b) == <<a[1] * b[2] + b[1] * a[2], a[2] * b[2]>>
Minus(a, b) == <<a[1] * b[2] - b[1] * a[2], a[2] * b[2]>>
Times(a, b) == <<a[1] * b[1], a[2] * b[2]>>
Over(a, b) == <<a[1] * b[2], a[2] * b[1]>>
AtMost(a, b) == a[1] * b[2] <= b[1] * a[2]

\* Math.round: the nearest integer, a half is rounded up.
Round(a) == (2 * a[1] + a[2]) \div (2 * a[2])

AtLeastZero(n) == IF n > 0 THEN n ELSE 0

----------------------------------------------------------------------------
roundToThousand(a) == Thousand * Round(Over(a, Whole(Thousand)))

\* 40 and 0.40 both mean 40%: what is greater than 1 is divided by 100.
normalizeAppliedRatio(a) ==
    CASE AtMost(a, Whole(0)) -> Whole(0)
      [] ~AtMost(a, Whole(1)) -> Over(a, Whole(Hundred))
      [] OTHER -> a

WithVat(cost, vatRate) == Times(cost, <<Hundred + vatRate, Hundred>>)

(***************************************************************************)
(* The tier of a cost: tiers are sorted by maxCost (equal ones keep their  *)
(* order), the first that the cost does not exceed applies, and beyond all *)
(* of them the last.  A tier is [maxCost, divisor].                        *)
(***************************************************************************)
TierOf(tiers, cost) ==
    LET NotAfter(i, j) == \/ tiers[i].maxCost < tiers[j].maxCost
                          \/ tiers[i].maxCost = tiers[j].maxCost /\ i <= j
        fits == {i \in DOMAIN tiers : AtMost(cost, Whole(tiers[i].maxCost))}
    IN  IF fits # {}
        THEN tiers[CHOOSE i \in fits : \A j \in fits : NotAfter(i, j)]
        ELSE tiers[CHOOSE i \in DOMAIN tiers :
                     \A j \in DOMAIN tiers : NotAfter(j, i)]

\* Without tiers (a default formula of another type) the divisor is 1.
Margin(tiers, cost) ==
    IF tiers = <<>> THEN cost ELSE Over(cost, TierOf(tiers, cost).divisor)

computeStoneSellPrice(stoneCost, vatRate, defaultTiers) ==
    LET cost == Whole(stoneCost)
        withVat == WithVat(cost, vatRate)
        price == IF stoneCost = 0 THEN cost ELSE Margin(defaultTiers, withVat)
    IN  [stonePrice |-> price,
         stoneVatAmount |-> Minus(withVat, cost),
         stoneProfit |-> Minus(price, withVat)]

(***************************************************************************)
(* The result of a formula: what metal and labour cost, the price they are *)
(* sold at (raw), the part of the stones, and the rounded sum.             *)
(***************************************************************************)
Quote(metalRawCost, laborCost, vatRate, raw, stone) ==
    LET production == Plus(metalRawCost, Whole(laborCost))
        costWithVat == WithVat(production, vatRate)
    IN  [ok |-> TRUE,
         metalRawCost |-> metalRawCost,
         vatAmount |-> Minus(costWithVat, production),
         metalProfit |-> Minus(raw, costWithVat),
         raw |-> raw,
         stone |-> stone,
         quotedPrice |-> roundToThousand(Plus(raw, stone.stonePrice))]

NoQuote == [ok |-> FALSE]

applyMarginTiers(metalRawCost, laborCost, vatRate, tiers, stoneCost, defaultTiers) ==
    LET costWithVat == WithVat(Plus(metalRawCost, Whole(laborCost)), vatRate)
    IN  Quote(metalRawCost, laborCost, vatRate, Margin(tiers, costWithVat),
              computeStoneSellPrice(stoneCost, vatRate, defaultTiers))

\* prices: the active price of every metal; 0 where there is none.
getSpotPrice(metal, prices) ==
    IF metal \in DOMAIN prices THEN prices[metal] ELSE 0

MetalCost(material, weightChi, prices) ==
    Times(Times(Whole(getSpotPrice(material.baseMetal, prices)),
                normalizeAppliedRatio(material.ratio)),
          Whole(weightChi))

\* silverMultiplier is optional: -1 stands for a request that leaves it out.
NoChoice == -1

Multiplier(formula, choice) ==
    IF choice # NoChoice THEN Whole(choice)
    ELSE IF formula.multipliers # <<>> THEN formula.multipliers[1] ELSE Whole(3)

computeMetalQuote(material, formula, weightChi, laborCost, stoneCost, vatRate, prices, choice, defaultTiers) ==
    LET metalRawCost == MetalCost(material, weightChi, prices)
    IN  CASE getSpotPrice(material.baseMetal, prices) <= 0 -> NoQuote
          [] formula.formulaType = "MULTIPLIER" ->
               Quote(metalRawCost, laborCost, vatRate,
                     Times(WithVat(Plus(metalRawCost, Whole(laborCost)), vatRate),
                           Multiplier(formula, choice)),
                     computeStoneSellPrice(stoneCost, vatRate, defaultTiers))
          [] formula.tiers = <<>> -> NoQuote
          [] OTHER ->
               applyMarginTiers(metalRawCost, laborCost, vatRate, formula.tiers,
                                stoneCost, defaultTiers)
=============================================================================
