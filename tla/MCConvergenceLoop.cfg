\* The abstract convergence loop on its own.
CONSTANTS
    MaxIter = 7
    Trees <- MCTrees
    Tree0 = 1
SPECIFICATION Spec
INVARIANTS
    TypeOK
    FirstRoundSuccessUntouched
