--------------------------- MODULE MCSignetDelivery ---------------------------
\* Instances of SignetDelivery for TLC.  A program's TUID changes at a restart;
\* one spare TUID allows one such restart, and what was sent under the old TUID
\* competes with the new one for slots.
EXTENDS SignetDelivery, TLC

CONSTANTS console, dimmer, a, b, c

TwoEndpoints == {<<a, 1>>, <<a, 2>>, <<b, 1>>, <<b, 2>>}
Devices == Permutations({a, b})
===============================================================================
