--------------------------- MODULE MCFunctionQueue ---------------------------
\* A called function, a program that is loaded and unloaded, and one that is
\* always loaded and calls an operation of another component.
EXTENDS FunctionQueue

CONSTANTS f, p, r

MCFunctions == {f, p, r}
MCCalled == {f}
MCResident == {r}
MCDriven == {p}
==============================================================================
