CONSTANT Words <- MCWords
SPECIFICATION Spec
INVARIANTS DecodesAsDeclared ImmediatesInvertible ShiftAmounts
