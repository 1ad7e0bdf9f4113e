CONSTANTS
    Sizes = {2}
    Costs <- MCCosts
SPECIFICATION Spec
INVARIANTS
    GloballyOptimal
