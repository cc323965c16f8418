\* The example name of the specification.
CONSTANT Names <- MCSpecExample
SPECIFICATION Spec
INVARIANT SpecExampleParses
CHECK_DEADLOCK FALSE
