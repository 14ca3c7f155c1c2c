---------------------------- MODULE MCSessionHandle ----------------------------
\* SessionHandle with two prompts that nothing tells apart.
EXTENDS SessionHandle, TLC

Symmetry == Permutations(Prompt)
=============================================================================
