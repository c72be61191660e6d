------------------------- MODULE MCActiveGovernance -------------------------
\* Two members of a batch and one asset registered on its own, which claims the
\* identity of the first member.
EXTENDS ActiveGovernance

MCIdent == [a \in Assets |-> IF a = "y" THEN "i2" ELSE "i1"]
=============================================================================
