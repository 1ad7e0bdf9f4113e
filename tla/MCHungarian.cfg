CONSTANTS
    Sizes <- MCSizes
    Costs <- MCCosts
SPECIFICATION Spec
INVARIANTS
    AssignmentIsMaximum
