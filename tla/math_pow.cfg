SPECIFICATION MathSpec
CONSTANTS
    Precision = 4
    Scales = 20
    Unit = 32
    MaxReal = 160
    Exponents = {0, 16, 32, 48, 64}
    Pi = 104
    MaxAngle = 400
PROPERTIES PowReturns
CHECK_DEADLOCK FALSE
