---------------------------- MODULE MCLarkBridge ----------------------------
\* LarkBridge with interchangeable calls and quotes.
EXTENDS LarkBridge, TLC

Symmetric == Permutations(Quotes) \cup Permutations(Calls)
=============================================================================
