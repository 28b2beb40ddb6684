--------------------------- MODULE MCPortForward ---------------------------
EXTENDS PortForward

CONSTANTS c1, c2

MCClosers == {c1, c2}
MCPorts == {1, 2}
=============================================================================
