-------------------------- MODULE MCLevelTransmitter --------------------------
\* Five datagrams over two rollovers from one endpoint and the announce's, a
\* restart under the spare TUID, a keep-alive of two ticks handled one late.
EXTENDS LevelTransmitter

CONSTANTS a, b

Endpoints == {a, b} \X {0, 1}
===============================================================================
