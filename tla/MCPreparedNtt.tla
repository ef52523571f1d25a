---------------------------- MODULE MCPreparedNtt ----------------------------
EXTENDS PreparedNtt, TLC
=============================================================================
