------------------------------- MODULE MCFlow -------------------------------
EXTENDS Flow

CONSTANTS s1, m1

MCScalars == {s1}
MCContainers == {m1}
=============================================================================
