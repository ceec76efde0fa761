-------------------------- MODULE MCMediaPlayback ---------------------------
EXTENDS MediaPlayback, TLC

\* Capture threads differ in nothing but their name.
CaptureSymmetry == Permutations(Captures)
=============================================================================
