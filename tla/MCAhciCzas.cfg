CONSTANTS
  Sektory = {0, 1}
  Dane = {"x", "y"}
  MaksLimitow = 2
SPECIFICATION AhciSpec
INVARIANT Wykonana
