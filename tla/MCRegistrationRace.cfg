CONSTANTS
    v1 = v1
    v2 = v2
    Operator = {op1, op2}
    Request <- Requests
SYMMETRY OperatorSymmetry
SPECIFICATION RegistrationSpec
INVARIANT
    RegisteredAsAsked
