--------------------------- MODULE MCPersonalOps ---------------------------
EXTENDS PersonalOps

\* A day of four ticks, quiet from the third over midnight to the first.
Defaults ==
    [mode |-> "personal_zca", personal |-> TRUE, friends |-> FALSE, groups |-> FALSE,
     approval |-> TRUE, threshold |-> 2, maxBatch |-> 1, dailyLimit |-> 1,
     maxFailures |-> 1, stopOnReports |-> 1, quietStart |-> 3, quietEnd |-> 1]

Pushed ==
    {[groups |-> TRUE], [groups |-> FALSE], [friends |-> TRUE],
     [quietStart |-> 1, quietEnd |-> 2]}
=============================================================================
