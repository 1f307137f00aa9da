------------------------------ MODULE MCEngine ------------------------------
\* Engine with three calls of which two share an id, and with two calls of
\* which one has no id.
EXTENDS Engine

CONSTANTS c1, c2, c3, k1, k2

SharedKeyOf == [c \in {c1, c2, c3} |-> IF c = c3 THEN k2 ELSE k1]
NullKeyOf   == [c \in {c1, c2} |-> IF c = c1 THEN k1 ELSE NoKey]
=============================================================================
