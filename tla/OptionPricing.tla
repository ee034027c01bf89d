--------------------------- MODULE OptionPricing ---------------------------
(***************************************************************************)
(* The four calculations of quote-options.service.ts and the breakdowns of *)
(* option-mapper.util.ts, over one state of the price tables               *)
(*                                                                         *)
(*   T.prices    metal |-> active price, for the metals that have one      *)
(*   T.formula   id |-> [formulaType, tiers, multipliers, isDefault,       *)
(*                       isActive]                                         *)
(*   T.material  name |-> [baseMetal, ratio, formula, isActive]            *)
(*   T.stone     id |-> price, the stones of the catalogue                 *)
(*   T.category  id |-> [laborCost, vatRate]                               *)
(*                                                                         *)
(* A product to be priced is a record                                      *)
(*   [materials |-> <<[name, weightChi]>>, stones |-> <<[id, quantity]>>,  *)
(*    stoneCost, laborCost, vatRate, choice, includeVat, category]         *)
(* of which the calculations of one material use the first.                *)
(***************************************************************************)
EXTENDS PricingMath, SequencesExt

CONSTANT DefaultVat   \* the VAT without a category; 10 in the program

ASSUME VatAssumption == DefaultVat \in Nat

NoMetal == "no metal"

ActiveMaterial(T, name) == name \in DOMAIN T.material /\ T.material[name].isActive

FormulaOf(T, name) == T.formula[T.material[name].formula]

\* getDefault: any active formula with the mark; the tiers of another type
\* are empty.
Defaults(rows) == {f \in DOMAIN rows : rows[f].isDefault /\ rows[f].isActive}
DefaultTiers(rows) == {rows[f].tiers : f \in Defaults(rows)}

StonesKnown(T, stones) == \A i \in DOMAIN stones : stones[i].id \in DOMAIN T.stone

Quantity(selection) == IF selection.quantity > 1 THEN selection.quantity ELSE 1

StoneTotal(T, stones) ==
    FoldLeft(LAMBDA sum, s : sum + T.stone[s.id] * Quantity(s), 0, stones)

\* The stones chosen from the catalogue, or else the cost typed in.
StoneCost(T, product) ==
    IF product.stones = <<>> THEN AtLeastZero(product.stoneCost)
    ELSE StoneTotal(T, product.stones)

----------------------------------------------------------------------------
(* What a SALE may not choose.                                             *)

\* Labour and VAT of a category; without one no labour and the default VAT.
resolveSaleDefaults(T, product) ==
    LET category == product.category
        known == category \in DOMAIN T.category
        vatRate == IF known THEN T.category[category].vatRate ELSE DefaultVat
    IN  [laborCost |-> IF known THEN T.category[category].laborCost ELSE 0,
         vatRate |-> IF product.includeVat = "no" THEN 0 ELSE vatRate]

ForSale(T, product) ==
    LET own == resolveSaleDefaults(T, product)
    IN  [product EXCEPT !.laborCost = own.laborCost, !.vatRate = own.vatRate,
                        !.choice = NoChoice]

----------------------------------------------------------------------------
(* The calculations; stoneTiers are those of the default formula found.    *)

\* mutant: the part of the metal is its own price, rounded on its own
RawPrice(q) == Round(q.raw)

\* What the stones leave of the price.
MaterialPrice(q) == q.quotedPrice - Round(q.stone.stonePrice)

\* The amounts a calculation answers with, each rounded on its own.
Answer(q, laborCost, vatRate, stoneCost, quotedPrice) ==
    [ok |-> TRUE,
     quotedPrice |-> quotedPrice,
     stonePrice |-> Round(q.stone.stonePrice),
     materialPrice |-> MaterialPrice(q),
     totalMetalCost |-> Round(q.raw),
     metalRawCost |-> Round(q.metalRawCost),
     laborCost |-> laborCost, vatRate |-> vatRate, stoneCost |-> stoneCost,
     metalVatAmount |-> Round(q.vatAmount),
     metalProfit |-> Round(q.metalProfit),
     stoneVatAmount |-> Round(q.stone.stoneVatAmount),
     stoneProfit |-> Round(q.stone.stoneProfit)]

SingleQuote(T, stoneTiers, product) ==
    LET item == product.materials[1]
    IN  IF /\ ActiveMaterial(T, item.name)
           /\ StonesKnown(T, product.stones)
        THEN computeMetalQuote(T.material[item.name], FormulaOf(T, item.name),
               AtLeastZero(item.weightChi), AtLeastZero(product.laborCost),
               StoneCost(T, product), AtLeastZero(product.vatRate), T.prices,
               product.choice, stoneTiers)
        ELSE NoQuote

calculate5StepPrice(T, stoneTiers, product) ==
    LET q == SingleQuote(T, stoneTiers, product)
    IN  IF ~q.ok THEN NoQuote
        ELSE Answer(q, AtLeastZero(product.laborCost), AtLeastZero(product.vatRate),
                    StoneCost(T, product), q.quotedPrice)

\* One item of a batch: as above, the fee is added to the rounded price and
\* the sum is rounded again.
WithFee(quotedPrice, fee) == roundToThousand(Whole(quotedPrice + AtLeastZero(fee)))

BatchItem(T, stoneTiers, product, fee) ==
    LET q == SingleQuote(T, stoneTiers, product)
    IN  IF ~q.ok THEN NoQuote
        ELSE Answer(q, AtLeastZero(product.laborCost), AtLeastZero(product.vatRate),
                    StoneCost(T, product), WithFee(q.quotedPrice, fee))

\* An item that cannot be priced answers an error of its own.
calculateBatch(T, stoneTiers, products, fee) ==
    [i \in DOMAIN products |-> BatchItem(T, stoneTiers, products[i], fee)]

\* Several materials in one product: all of them priced by one formula with
\* tiers, every one with a price of its metal.
Mixable(T, materials) ==
    \A i \in DOMAIN materials :
        LET name == materials[i].name
        IN  /\ materials[i].weightChi > 0
            /\ ActiveMaterial(T, name)
            /\ FormulaOf(T, name).formulaType = "MARGIN_TIERS"
            /\ T.material[name].formula = T.material[materials[1].name].formula
            /\ getSpotPrice(T.material[name].baseMetal, T.prices) > 0

MixedCost(T, materials) ==
    FoldLeft(LAMBDA sum, m : Plus(sum, MetalCost(T.material[m.name], m.weightChi, T.prices)),
             Whole(0), materials)

\* mutant: the stones are priced by the formula of the metals
MixedQuoteOneFormula(T, stoneTiers, product, laborCost, vatRate) ==
    LET tiers == FormulaOf(T, product.materials[1].name).tiers
    IN  IF tiers = <<>> THEN NoQuote
        ELSE applyMarginTiers(MixedCost(T, product.materials), laborCost, vatRate,
                              tiers, StoneCost(T, product), tiers)

MixedQuote(T, stoneTiers, product, laborCost, vatRate) ==
    LET tiers == FormulaOf(T, product.materials[1].name).tiers
    IN  IF tiers = <<>> THEN NoQuote
        ELSE applyMarginTiers(MixedCost(T, product.materials), laborCost, vatRate,
                              tiers, StoneCost(T, product), stoneTiers)

calculateMulti(T, stoneTiers, product, fee) ==
    LET laborCost == AtLeastZero(product.laborCost)
        vatRate == IF product.includeVat = "yes" THEN AtLeastZero(product.vatRate) ELSE 0
        q == IF /\ Mixable(T, product.materials)
                /\ StonesKnown(T, product.stones)
             THEN MixedQuote(T, stoneTiers, product, laborCost, vatRate)
             ELSE NoQuote
    IN  IF ~q.ok THEN NoQuote
        ELSE Answer(q, laborCost, vatRate, StoneCost(T, product),
                    WithFee(q.quotedPrice, fee))

\* The price of a stored option by the tables of today; materials without a
\* weight do not count, and one material must be of a metal.
LiveQuote(T, stoneTiers, option) ==
    LET materials == SelectSeq(option.materials, LAMBDA m : m.weightChi > 0)
        weighed == [option EXCEPT !.materials = materials, !.choice = NoChoice]
        only == T.material[materials[1].name]
    IN  CASE ~StonesKnown(T, option.stones) \/ materials = <<>> -> NoQuote
          [] Len(materials) = 1 ->
               IF ActiveMaterial(T, materials[1].name) /\ only.baseMetal # NoMetal
               THEN SingleQuote(T, stoneTiers, weighed) ELSE NoQuote
          [] OTHER ->
               IF Mixable(T, materials)
               THEN MixedQuote(T, stoneTiers, weighed, option.laborCost, option.vatRate)
               ELSE NoQuote

\* computePriceBreakdown and computeLivePriceBreakdown: the material is what
\* the stones leave of the total.
PriceBreakdown(total, stone) == [material |-> total - stone, stone |-> stone]

LivePrice(T, stoneTiers, option) ==
    LET q == LiveQuote(T, stoneTiers, option)
    IN  IF ~q.ok THEN NoQuote
        ELSE [ok |-> TRUE, total |-> q.quotedPrice,
              parts |-> PriceBreakdown(q.quotedPrice, Round(q.stone.stonePrice))]

----------------------------------------------------------------------------
(***************************************************************************)
(* computeCostBreakdown: VAT and profit of a saved option, from the        *)
(* rounded columns that were stored with it.                               *)
(***************************************************************************)
computeCostBreakdown(opt) ==
    LET metal == Whole(opt.metalRawCost + opt.laborCost)
        stone == Whole(opt.stoneCost)
        metalWithVat == WithVat(metal, opt.vatRate)
        stoneWithVat == WithVat(stone, opt.vatRate)
    IN  [metalVatAmount |-> Round(Minus(metalWithVat, metal)),
         metalProfit |-> Round(Minus(Whole(opt.totalMetalCost), metalWithVat)),
         stoneVatAmount |-> Round(Minus(stoneWithVat, stone)),
         stoneProfit |-> Round(Minus(Whole(opt.stonePrice), stoneWithVat))]
=============================================================================
