------------------------------- MODULE MCJoin -------------------------------
(* Small instances of JoinButton for TLC. *)
EXTENDS JoinButton

MCDurations == {0, 1}
=============================================================================
