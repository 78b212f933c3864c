\* The same ring when the consumer is late.
CONSTANTS
  Capacity = 4
  Word = 8
  MaxWrite = 3
  MaxRead = 3
  MaxSamples = 9
  Loads = {"any"}
SPECIFICATION Spec
INVARIANT OnlyOldestDropped
