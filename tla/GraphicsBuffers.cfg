\* Two clients and two buffers of two sizes, whose descriptors and inodes are reused.
CONSTANTS
  Surfaces = {s1, s2}
  Buffers = {b1, b2}
  Fds = {f1, f2}
  Inodes = {i1, i2}
  Sizes = {1, 2}
SPECIFICATION Spec
SYMMETRY Symmetry
INVARIANT TypeOK
INVARIANT TrackedIsItsBuffer
INVARIANT StaleImportIsRecycled
INVARIANT GpuWorkIntact
