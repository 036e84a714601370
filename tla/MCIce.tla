------------------------------- MODULE MCIce -------------------------------
EXTENDS IceTransportChannel
CONSTANTS a, b
OneConn == {a}
TwoConns == {a, b}
SamePriority == [c \in Conns |-> 1]
FirstPreferred == [c \in Conns |-> IF c = a THEN 2 ELSE 1]
=============================================================================
