SPECIFICATION Spec
CONSTANTS
    Runs = {r1, r2, r3, r4, r5}
    e1 = e1
    e2 = e2
    e3 = e3
    e4 = e4
    Executions <- MCExecutions
    Mode <- MCMode
    ConfiguredLimit <- MCLimit
SYMMETRY RunSymmetry
INVARIANTS
    WorkConserving
PROPERTIES
    ImplementsGate
