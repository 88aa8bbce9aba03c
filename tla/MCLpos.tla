------------------------------- MODULE MCLpos -------------------------------
\* Small instances of Lpos.
EXTENDS Lpos

CONSTANTS v1, v2, v3

\* Neighbouring sets always differ, and share a validator.
SetsOfThree == <<{v2, v3}, {v1, v3}>>
MCSetsOfThree == [k \in 0..2 |-> IF k = 0 THEN {v1, v2} ELSE SetsOfThree[k]]
MCSetsOfTwo == [k \in 0..1 |-> IF k = 0 THEN {v1, v2} ELSE {v2}]
=============================================================================
