------------------------------ MODULE MCDataSets ------------------------------
\* Two data sets of up to two members, one copy and two commands beside it.
EXTENDS DataSets, TLC

Names == Permutations(Dsn)
===============================================================================
