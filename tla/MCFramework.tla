---------------------------- MODULE MCFramework ----------------------------
(* Small instances of ZbFramework for TLC. *)
EXTENDS ZbFramework

CONSTANTS p1, c1, c2, k1

MCPans == {p1}
MCChannels == {c1, c2}
MCKeys == {k1}

MCRequests == {[type |-> "PERMIT_JOIN", window |-> "timed"],
               [type |-> "CHANGE_CHANNEL", channel |-> c2],
               [type |-> "RECONFIGURE"]}

\* A new channel, with all but that left to the defaults.
MCSettings == {[pan |-> Zero, channel |-> c2, key |-> Zero]}
=============================================================================
