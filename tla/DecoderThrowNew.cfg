CONSTANT Programs <- MCMoves
SPECIFICATION Spec
INVARIANT ExceptionsCatchable
CHECK_DEADLOCK FALSE
