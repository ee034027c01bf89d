-------------------------- MODULE MCQuoteWorkflow --------------------------
(* Symmetry for the instances of QuoteWorkflow: option ids, Orders and      *)
(* request slots are interchangeable; only safety is checked.               *)
EXTENDS QuoteWorkflow, TLC

Symmetry == Permutations(OptionIds) \cup Permutations(Orders) \cup Permutations(Requests)
=============================================================================
