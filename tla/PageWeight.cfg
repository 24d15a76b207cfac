SPECIFICATION Spec
CONSTANT Inputs <- MCInputs
INVARIANTS
    TypeOK
    LinksCounted
    MatrixFits
PROPERTY Terminates
