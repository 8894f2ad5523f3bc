------------------------------ MODULE MCStartup ------------------------------
(* Integers for Startup that a configuration file cannot write down.       *)
EXTENDS Startup

MCPorts == {-1, 0, 9000, 9100, 65535, 74636}

MCSeconds == {-1, 0, 1}

=============================================================================
