--------------------------- MODULE MCPriceTables ---------------------------
\* PriceTables with percentages that are quarters and prices that are
\* multiples of ten: every rounding and every border of a tier occurs with
\* small numbers.
EXTENDS PriceTables, TLC

Steep == [formulaType |-> "MARGIN_TIERS", multipliers |-> <<>>,
          tiers |-> << [maxCost |-> 60, divisor |-> <<3, 4>>],
                       [maxCost |-> 20, divisor |-> <<1, 2>>] >>]
Flat == [formulaType |-> "MARGIN_TIERS", multipliers |-> <<>>,
         tiers |-> << [maxCost |-> 25, divisor |-> <<2, 3>>] >>]
Double == [formulaType |-> "MULTIPLIER", tiers |-> <<>>, multipliers |-> << <<2, 1>> >>]

Row(config, isDefault) ==
    [formulaType |-> config.formulaType, tiers |-> config.tiers,
     multipliers |-> config.multipliers, isDefault |-> isDefault, isActive |-> TRUE]

MCConfigs == {Double}
MCPatches == {[config |-> Flat], [isDefault |-> TRUE], [isDefault |-> FALSE]}
MCHistory == [m \in Metals |->
    << [priceVnd |-> 8, isActive |-> TRUE, changePct |-> NoChange] >>]
MCFormula == "tiers" :> Row(Steep, TRUE)
MCMaterial ==
    "18K" :> [baseMetal |-> "gold", ratio |-> <<3, 1>>, formula |-> "tiers", isActive |-> TRUE]
MCRatios == {<<1, 2>>}
MCStone == "ruby" :> 7
MCCategories == "ring" :> [laborCost |-> 4, vatRate |-> 2]

Product(materials, stones, stoneCost, vat, category) ==
    [materials |-> materials, stones |-> stones, stoneCost |-> stoneCost,
     laborCost |-> 5, vatRate |-> vat, choice |-> NoChoice,
     includeVat |-> "yes", category |-> category]

MCProducts ==
    LET gold == [name |-> "18K", weightChi |-> 2]
        pale == [name |-> "10K", weightChi |-> 1]
        rubies == << [id |-> "ruby", quantity |-> 2] >>
    IN  {Product(<<gold>>, <<>>, 3, 1, "none"),
         Product(<<gold, pale>>, rubies, 0, 0, "ring")}

Symmetric == Permutations(Updaters)
=============================================================================
