---------------------------- MODULE MCTransport ----------------------------
(* Small instances of ZnpTransport for TLC. *)
EXTENDS ZnpTransport

CONSTANTS framework, app, sys, read, write, none

MCCallers == {framework, app}

\* Two commands of one subsystem, as ZCD_NV reads and writes are.
MCCommands == {<<sys, read>>, <<sys, write>>}
MCNoCommand == <<none, none>>
=============================================================================
