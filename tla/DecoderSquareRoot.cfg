CONSTANT Programs <- MCSquareRoot
SPECIFICATION Spec
INVARIANT AllRv64gDecoded
CHECK_DEADLOCK FALSE
