-------------------------------- MODULE Sums --------------------------------
\* The sum of a function over a set of its arguments, as the fold of the
\* community modules computes it.
EXTENDS FiniteSetsExt

SumOver(f, S) == MapThenSumSet(LAMBDA x : f[x], S)
=============================================================================
