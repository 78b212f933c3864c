\* Capacity 4, positions wrap at 8: buffer and positions wrap within 9 samples.
CONSTANTS
  Capacity = 4
  Word = 8
  MaxWrite = 3
  MaxRead = 3
  MaxSamples = 9
  Loads = {"paced", "alternating"}
SPECIFICATION Spec
INVARIANT TypeOK
PROPERTY ImplementsFifo
PROPERTY EverySamplePlayed
