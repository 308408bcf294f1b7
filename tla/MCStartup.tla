------------------------------ MODULE MCStartup ------------------------------
(***************************************************************************)
(* Two starts, one of them a daemon, on the same port or on different ones.*)
(***************************************************************************)
EXTENDS Startup, TLC

CONSTANTS a, b

MCStarts  == {a, b}
MCDaemons == {a}
MCPorts   == {80, 8080}

=============================================================================
