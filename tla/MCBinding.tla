----------------------------- MODULE MCBinding -----------------------------
EXTENDS Binding

CONSTANTS a, b, f1, f2, x1, x2

MCHandles == {a, b}
MCFiles == {f1, f2}
MCFds == {3, 4}
MCAddrs == {x1, x2}
=============================================================================
