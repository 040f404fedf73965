----------------------------- MODULE MCNodeReceive -----------------------------
\* Two senders with two pairs each, and a tick that wraps after little more than
\* two intervals, so that every phase of the rate limit meets the wrap.
EXTENDS NodeReceive

CONSTANTS console, manager
===============================================================================
