---------------------------- MODULE MCUserCache ----------------------------
\* UserCache with interchangeable users and requests.
EXTENDS UserCache, TLC

Symmetric == Permutations(Users) \cup Permutations(Requests)
=============================================================================
