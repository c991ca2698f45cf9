--------------------------- MODULE MCDMConfigFile ---------------------------
EXTENDS DMConfigFile

CONSTANTS a, b, all, one
MCPaths == {Root, a, b}
MCValues == {all, one}
MCFirstAcls == [p \in {Root} |-> all]
=============================================================================
