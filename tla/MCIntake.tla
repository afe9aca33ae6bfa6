------------------------------- MODULE MCIntake -------------------------------
EXTENDS Intake, TLC

CONSTANTS h1, h2, p1, p2, main, dev, g1  \* model values

\* Handlers, projects and branches are interchangeable where no liveness is checked.
Symmetry == Permutations(Handlers) \cup Permutations(Projects) \cup Permutations(Branches)
================================================================================
