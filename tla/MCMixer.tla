------------------------------- MODULE MCMixer -------------------------------
\* Three jobs over two paths: substitutions of the same or of different files,
\* and new files, which may ask for the same name.
EXTENDS Mixer, TLC

AllRequests == Request
OneName == {[replace |-> FALSE, path |-> p] : p \in Paths}
Symmetry == Permutations(Jobs) \union Permutations(Paths)
=============================================================================
