---------------------------- MODULE MCMotorPanel ----------------------------
EXTENDS MotorPages

\* One diagonal button and one along the first axis.
TwoWays == {1, -1}
OnePad == {[a \in Axes |-> 1]}
=============================================================================
