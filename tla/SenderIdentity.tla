----------------------------- MODULE SenderIdentity -----------------------------
(***************************************************************************)
(* What senders and receivers of datagrams have in common: who a datagram   *)
(* is from, and the width of its sequence number (sig-net-types.hpp,        *)
(* sig-net-constants.hpp).                                                  *)
(***************************************************************************)
EXTENDS Integers

CONSTANTS
    Tuid,         \* the six-byte device identifiers
    SenderId,     \* the Sender-IDs in use, each a pair <<tuid, endpoint>>
    MaxSequence   \* 0xFFFFFFFF, the largest sequence number

ASSUME SenderIdAssumption == SenderId \subseteq Tuid \X Nat

===============================================================================
