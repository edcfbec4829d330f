--------------------------- MODULE MCTickerLease ---------------------------
\* TLC instance of TickerLease.  One time unit is 30 seconds: TTL = 6 is the
\* 180 s of the code, Recheck = MaxNap = 1 its 30 s, MaxIter = 2 a minute.
EXTENDS TickerLease
=============================================================================
