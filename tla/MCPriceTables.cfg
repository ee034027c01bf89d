SPECIFICATION Spec
SYMMETRY Symmetric
CONSTANTS
  Hundred = 4
  Thousand = 10
  DefaultVat = 1
  Metals = {"gold", "silver"}
  Prices = {8, 9}
  Updaters = {u1, u2}
  MAX_ATTEMPTS = 2
  Formulas = {"tiers", "silver"}
  Configs <- MCConfigs
  Patches <- MCPatches
  Materials = {"10K"}
  Ratios <- MCRatios
  Editors = {e1}
  Stones = {"ruby"}
  Products <- MCProducts
  FirstHistory <- MCHistory
  FirstFormula <- MCFormula
  FirstMaterial <- MCMaterial
  FirstStone <- MCStone
  Categories <- MCCategories
  Fee = 6
  MaxInFlight = 2
  MaxChanges = 4
INVARIANTS TypeOK PriceChain OneDefault OnePriceEverywhere 
 
CHECK_DEADLOCK FALSE
