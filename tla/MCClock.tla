------------------------------- MODULE MCClock -------------------------------
EXTENDS Clock
SkewOfClient == -7
StepsOfClock == {-2, 3}
==============================================================================
