---------------------------- MODULE MCImageProxy ----------------------------
EXTENDS ImageProxy

CONSTANTS s1, s2, s3, k1, k2

\* Two requests may overlap on one image, a third asks for another.
MCSlot == {s1, s2, s3}
MCKey == {k1, k2}
MCWants == [s \in MCSlot |-> IF s = s3 THEN {k2} ELSE {k1}]
=============================================================================
