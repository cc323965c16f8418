\* Every name of length at most 6 over six characters, parsed once; the
\* run ends after the call.
CONSTANT Names <- MCNames
SPECIFICATION Spec
INVARIANT ParseMatchesScheme
CHECK_DEADLOCK FALSE
