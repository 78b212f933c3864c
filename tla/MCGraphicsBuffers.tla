-------------------------- MODULE MCGraphicsBuffers --------------------------
(* Small instances of GraphicsBuffers for TLC: surfaces, buffers,          *)
(* descriptors and inodes are interchangeable.                             *)
EXTENDS GraphicsBuffers, TLC

Symmetry ==
  UNION {Permutations(S) : S \in {Surfaces, Buffers, Fds, Inodes}}

=============================================================================
