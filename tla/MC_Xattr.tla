----------------------------- MODULE MC_Xattr ------------------------------
EXTENDS Xattr
CONSTANTS n1, t1
MCKept == [n |-> n1, val |-> [tok |-> t1, len |-> 1]]
=============================================================================
