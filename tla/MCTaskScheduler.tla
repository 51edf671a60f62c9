--------------------------- MODULE MCTaskScheduler ---------------------------
EXTENDS TaskScheduler, TLC

\* A calendar expression falls due at the multiples of n, @every counts n from the claim.
Calendar(n) == [t \in Times |-> ((t \div n) + 1) * n]
Every(n)    == [t \in Times |-> t + n]

TwoCrons  == {"calendar", "every"}
TheRuns   == [c \in TwoCrons |-> IF c = "calendar" THEN Calendar(2) ELSE Every(3)]

OneCron   == {"calendar"}

SchedulerSymmetry == Permutations(Panels) \union Permutations(Clients)
=============================================================================
