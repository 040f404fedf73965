----------------------------- MODULE MCManagerNode -----------------------------
\* A poll every tick or two, one in two of them lost: the longest wait is just
\* the threshold, and the node's tick counter wraps soon after.
EXTENDS ManagerNode

\* What an action or an invariant reads.
View == <<k0_set, poll_repeat, settings, timer, unpolled, now, node_in_lost_mode,
          last_valid_poll_tick, last_lost_tx_tick, lag, pending, lost_in_row,
          steady>>
===============================================================================
