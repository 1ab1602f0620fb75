---------------------------- MODULE MCStabilityPool ----------------------------
\* Instance of StabilityPool for TLC.
EXTENDS StabilityPool

MCKickbackRate == [f \in FrontEnds |-> 15]
=============================================================================
