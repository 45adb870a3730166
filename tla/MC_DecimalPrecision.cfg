\* Precision 2: -100 has three digits and is accepted.
CONSTANTS
  DecimalPrecision = 2
  Bound = 120
SPECIFICATION Spec
INVARIANT FitsPrecision
