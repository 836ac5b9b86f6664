SPECIFICATION Spec
CONSTANTS
  Page = 4
  ListPrps = 3
  SmallPrps = 2
  SmallSgls = 2
  Threshold = 3
  Offsets = {0, 3}
  Tails = {0, 1}
  MaxPages = 8
  Inputs <- SomeInputs
  Later <- SomeLater
  MaxFail = 2
INVARIANTS
  DescribesData
  AllReleased
