------------------------------ MODULE MCRelease ------------------------------
\* Small instances of Release for TLC.
EXTENDS Release

CONSTANTS run1, run2, run3

\* The same commit pushed twice, and another one.
TwoPushes == [r \in Runs |-> IF r = run3 THEN "c2" ELSE "c1"]
=============================================================================
