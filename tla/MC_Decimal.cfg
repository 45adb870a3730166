\* Precision 2: the bounds are 99 and -100, and the inputs reach past both.
CONSTANTS
  DecimalPrecision = 2
  Bound = 120
SPECIFICATION Spec
INVARIANT AcceptsRepresentable
