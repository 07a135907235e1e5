---------------------------- MODULE MCMediaCache ----------------------------
EXTENDS MediaCache

CONSTANTS f   \* the file the operator sends

OneEach == [a \in Received |-> 1]
SameFile == [a \in Sent |-> f]
=============================================================================
