-------------------------- MODULE MCVisaProcessing --------------------------
EXTENDS VisaProcessing, TLC

Symmetry == Permutations(Threads)
=============================================================================
