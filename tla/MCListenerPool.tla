---------------------------- MODULE MCListenerPool ----------------------------
EXTENDS ListenerPool, TLC

\* The sends, and the relogins, differ in nothing but their names.
Symmetry == Permutations(Sends) \cup Permutations(Relogins)
=============================================================================
