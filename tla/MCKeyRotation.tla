---------------------------- MODULE MCKeyRotation ----------------------------
\* Constant values for the runs of KeyRotation.
EXTENDS KeyRotation, TLC

\* Values of one or two bytes, so that either threshold can be the first.
MCValueSizes == {1, 2}
MCNoSizes    == {0}

\* No action tells two names or two threads apart.
MCSymmetry == Permutations(Names) \union Permutations(Threads)

\* Once two calls of increment_key_epoch have interleaved, every property is
\* excused; once rotations have overlapped, all are but EpochNamesOneKeychain.
MCExcused == "interleave" \notin history /\ (history # {} => dbEpoch <= 2)

=============================================================================
