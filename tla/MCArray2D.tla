------------------------------ MODULE MCArray2D ------------------------------
(* Small images for TLC.                                                   *)
EXTENDS Array2D

CONSTANTS MaxWidth, MaxHeight, MaxChunks

Ceiling(a, b) == (a + b - 1) \div b

(* Every size up to the bounds that has at most MaxChunks chunks.          *)
SmallSizes ==
  {z \in [width : 2 .. MaxWidth, height : 2 .. MaxHeight,
          chunk_width : 1 .. MaxWidth - 1, chunk_height : 1 .. MaxHeight - 1] :
     /\ z.chunk_width < z.width
     /\ z.chunk_height < z.height
     /\ Ceiling(z.width, z.chunk_width) * Ceiling(z.height, z.chunk_height) <= MaxChunks}
=============================================================================
