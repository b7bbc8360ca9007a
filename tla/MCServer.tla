------------------------------ MODULE MCServer ------------------------------
EXTENDS Server, TLC

CONSTANTS r1, r2, r3
==============================================================================
