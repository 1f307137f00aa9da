---------------------------- MODULE MCStdioConn ----------------------------
\* StdioConn on a short input, with two concurrent writers.
EXTENDS StdioConn
=============================================================================
