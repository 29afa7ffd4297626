---------------------------- MODULE MC_Airspace ----------------------------
EXTENDS Airspace, TLC

\* Every key but the protocol's governor is like any other.
MCSymmetry == Permutations(Key \ {ProtocolGovernor})
=============================================================================
