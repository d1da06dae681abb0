CONSTANT Programs <- MCCsr
SPECIFICATION Spec
INVARIANT CsrNumberKept
CHECK_DEADLOCK FALSE
