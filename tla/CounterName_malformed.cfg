\* A '*' after the last '@' is not rejected.
CONSTANT Names <- MCNames
SPECIFICATION Spec
INVARIANT ParseRejectsMalformed
CHECK_DEADLOCK FALSE
