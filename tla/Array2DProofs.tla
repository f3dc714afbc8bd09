--------------------------- MODULE Array2DProofs ----------------------------
(***************************************************************************)
(* The chunks tile the image, and what the server assembles is the image,  *)
(* for images and chunks of any size.                                      *)
(*                                                                         *)
(* Columns and rows are treated alike: an axis of length w is cut every c  *)
(* pixels, and the pieces tile it (AxisInside, AxisCovered, AxisDisjoint). *)
(* A chunk id is a pair of a column and a row of chunks (IdToPair,         *)
(* PairToId), so the product of two axes is tiled as well (ChunksTile).    *)
(* No step changes the sizes (SizesKept), which makes Tiling an invariant. *)
(*                                                                         *)
(* A pixel has one position in the vector (IndexInRange, PositionIsPixel), *)
(* so set_region() changes the pixels of a rectangle and no other          *)
(* (RegionSet).  ImageInv says what each tile and the image hold at any    *)
(* moment; with Tiling it gives ImageAssembled and PixelsKept.             *)
(***************************************************************************)
EXTENDS Array2D, TLAPS

-----------------------------------------------------------------------------
(* Division of natural numbers.                                            *)

(* Division of natural numbers, as the code uses it, rounds down.          *)
LEMMA DivBounds ==
  ASSUME NEW w \in Nat, NEW c \in Nat \ {0}
  PROVE  /\ w \div c \in Nat
         /\ (w \div c) * c <= w
         /\ w < (w \div c) * c + c
BY SMT

(* Multiples of c are c apart.                                             *)
LEMMA MulMono ==
  ASSUME NEW i \in Nat, NEW j \in Nat, NEW c \in Nat, i < j
  PROVE  i * c + c <= j * c
<1>1. PICK d \in Nat : j = i + 1 + d BY SMT
<1>2. j * c = i * c + c + d * c BY <1>1, SMT
<1>3. d * c \in Nat BY SMT
<1> QED BY <1>2, <1>3, SMT

(* The quotient of a number is determined by its remainder being small.    *)
LEMMA DivUnique ==
  ASSUME NEW n \in Nat, NEW r \in Nat, NEW c \in Nat \ {0}, r < c
  PROVE  (n * c + r) \div c = n
<1>1. n * c + r \in Nat BY SMT
<1> DEFINE q == (n * c + r) \div c
<1>2. q \in Nat /\ q * c <= n * c + r /\ n * c + r < q * c + c BY <1>1, DivBounds
<1>3. ~ q < n BY <1>2, MulMono
<1>4. ~ n < q BY <1>2, MulMono
<1> QED BY <1>2, <1>3, <1>4

(* And so is the remainder.                                                *)
LEMMA ModUnique ==
  ASSUME NEW n \in Nat, NEW r \in Nat, NEW c \in Nat \ {0}, r < c
  PROVE  (n * c + r) % c = r
<1>1. n * c + r \in Nat BY SMT
<1>2. (n * c + r) \div c = n BY DivUnique
<1>3. (n * c + r) % c = (n * c + r) - c * ((n * c + r) \div c) BY <1>1, SMT
<1>4. c * n = n * c /\ n * c \in Nat BY SMT
<1> QED BY <1>2, <1>3, <1>4, SMT

-----------------------------------------------------------------------------
(* One axis: width, chunk_width, rest_width and chunks_x in the source, or *)
(* the same of the height.                                                 *)

Rest(w, c) == w - (w \div c) * c

Pieces(w, c) == IF Rest(w, c) = 0 THEN w \div c ELSE (w \div c) + 1

PieceLength(w, c, i) == IF i = Pieces(w, c) - 1 /\ Rest(w, c) > 0 THEN Rest(w, c) ELSE c

InPiece(w, c, i, x) == i * c <= x /\ x < i * c + PieceLength(w, c, i)

(* The rest is what the full pieces leave, and less than one of them.      *)
LEMMA AxisTypes ==
  ASSUME NEW w \in Nat, NEW c \in Nat \ {0}, c < w
  PROVE  /\ w \div c \in Nat
         /\ Rest(w, c) \in 0 .. c - 1
         /\ (w \div c) * c + Rest(w, c) = w
         /\ Pieces(w, c) \in Nat \ {0}
<1> DEFINE a == w \div c
<1>1. a \in Nat /\ a * c <= w /\ w < a * c + c BY DivBounds
<1>2. a * c \in Nat BY <1>1, SMT
<1>3. Rest(w, c) = w - a * c BY DEF Rest
<1>4. Rest(w, c) \in 0 .. c - 1 BY <1>1, <1>2, <1>3
<1>5. a # 0
  <2>1. SUFFICES ASSUME a = 0 PROVE FALSE OBVIOUS
  <2>2. w < 0 * c + c BY <1>1, <2>1
  <2> QED BY <2>2, SMT
<1>6. Pieces(w, c) \in Nat \ {0} BY <1>1, <1>5 DEF Pieces
<1>7. a * c + Rest(w, c) = w BY <1>2, <1>3
<1> QED BY <1>1, <1>4, <1>6, <1>7

(* No piece is empty or reaches beyond the end.                            *)
LEMMA AxisInside ==
  ASSUME NEW w \in Nat, NEW c \in Nat \ {0}, c < w, NEW i \in 0 .. Pieces(w, c) - 1
  PROVE  /\ PieceLength(w, c, i) \in 1 .. c
         /\ i * c \in Nat
         /\ i * c + PieceLength(w, c, i) <= w
<1> DEFINE a == w \div c
           r == Rest(w, c)
<1>1. /\ a \in Nat /\ r \in 0 .. c - 1 /\ a * c + r = w
      /\ Pieces(w, c) \in Nat \ {0} /\ a * c \in Nat
  <2>1. a \in Nat /\ r \in 0 .. c - 1 /\ a * c + r = w /\ Pieces(w, c) \in Nat \ {0} BY AxisTypes
  <2>2. a * c \in Nat BY <2>1, SMT
  <2> QED BY <2>1, <2>2
<1>2. PieceLength(w, c, i) \in 1 .. c BY <1>1 DEF PieceLength
<1>3. i \in Nat /\ i * c \in Nat
  <2>1. i \in Nat BY <1>1
  <2> QED BY <2>1, SMT
<1>4. CASE i = Pieces(w, c) - 1 /\ r > 0
  <2>1. i = a BY <1>1, <1>4 DEF Pieces
  <2>2. PieceLength(w, c, i) = r BY <1>4 DEF PieceLength
  <2> QED BY <1>1, <1>2, <1>3, <2>1, <2>2
<1>5. CASE ~ (i = Pieces(w, c) - 1 /\ r > 0)
  <2>1. i < a BY <1>1, <1>5 DEF Pieces
  <2>2. PieceLength(w, c, i) = c BY <1>5 DEF PieceLength
  <2>3. i * c + c <= a * c BY <1>1, <1>3, <2>1, MulMono
  <2> QED BY <1>1, <1>2, <1>3, <2>2, <2>3
<1> QED BY <1>4, <1>5

(* Every position is in a piece.                                           *)
LEMMA AxisCovered ==
  ASSUME NEW w \in Nat, NEW c \in Nat \ {0}, c < w, NEW x \in 0 .. w - 1
  PROVE  \E i \in 0 .. Pieces(w, c) - 1 : InPiece(w, c, i, x)
<1> DEFINE a == w \div c
           r == Rest(w, c)
           i == x \div c
<1>1. /\ a \in Nat /\ r \in 0 .. c - 1 /\ a * c + r = w
      /\ Pieces(w, c) \in Nat \ {0} BY AxisTypes
<1>2. i \in Nat /\ i * c <= x /\ x < i * c + c BY DivBounds
<1>3. a * c \in Nat /\ i * c \in Nat BY <1>1, <1>2, SMT
<1>4. i <= a
  <2>1. SUFFICES ASSUME a < i PROVE FALSE BY <1>1, <1>2
  <2>2. a * c + c <= i * c BY <1>1, <1>2, <2>1, MulMono
  <2> QED BY <1>1, <1>2, <1>3, <2>2
<1>5. r = 0 => i < a
  <2>1. SUFFICES ASSUME r = 0, i = a PROVE FALSE BY <1>1, <1>2, <1>4
  <2> QED BY <1>1, <1>2, <1>3, <2>1
<1>6. i \in 0 .. Pieces(w, c) - 1 BY <1>1, <1>2, <1>4, <1>5 DEF Pieces
<1>7. x < i * c + PieceLength(w, c, i)
  <2>1. CASE i = Pieces(w, c) - 1 /\ r > 0
    <3>1. i = a /\ PieceLength(w, c, i) = r BY <1>1, <2>1 DEF Pieces, PieceLength
    <3> QED BY <1>1, <1>3, <3>1
  <2>2. CASE ~ (i = Pieces(w, c) - 1 /\ r > 0)
    <3>1. PieceLength(w, c, i) = c BY <2>2 DEF PieceLength
    <3> QED BY <1>2, <3>1
  <2> QED BY <2>1, <2>2
<1> QED BY <1>2, <1>6, <1>7 DEF InPiece

(* No position is in two pieces.                                           *)
LEMMA AxisDisjoint ==
  ASSUME NEW w \in Nat, NEW c \in Nat \ {0}, c < w, NEW x \in Nat,
         NEW i \in 0 .. Pieces(w, c) - 1, NEW j \in 0 .. Pieces(w, c) - 1,
         InPiece(w, c, i, x), InPiece(w, c, j, x)
  PROVE  i = j
<1>1. Pieces(w, c) \in Nat BY AxisTypes
<1>2. i \in Nat /\ j \in Nat BY <1>1
<1>3. /\ i * c \in Nat /\ PieceLength(w, c, i) \in 1 .. c
      /\ j * c \in Nat /\ PieceLength(w, c, j) \in 1 .. c BY AxisInside
<1>4. ~ i < j
  <2>1. SUFFICES ASSUME i < j PROVE FALSE OBVIOUS
  <2>2. i * c + c <= j * c BY <1>2, <2>1, MulMono
  <2> QED BY <1>3, <2>2 DEF InPiece
<1>5. ~ j < i
  <2>1. SUFFICES ASSUME j < i PROVE FALSE OBVIOUS
  <2>2. j * c + c <= i * c BY <1>2, <2>1, MulMono
  <2> QED BY <1>3, <2>2 DEF InPiece
<1> QED BY <1>2, <1>4, <1>5

-----------------------------------------------------------------------------
(* Chunk ids and pairs: cy and cx of get_chunk_property().                 *)

(* A chunk id is in some row of chunks, and in some column.                *)
LEMMA IdToPair ==
  ASSUME NEW m \in Nat \ {0}, NEW n \in Nat \ {0}, NEW k \in 0 .. m * n - 1
  PROVE  /\ k \div m \in 0 .. n - 1
         /\ k - (k \div m) * m \in 0 .. m - 1
<1> DEFINE cy == k \div m
<1>1. m * n \in Nat /\ k \in Nat BY SMT
<1>2. cy \in Nat /\ cy * m <= k /\ k < cy * m + m BY <1>1, DivBounds
<1>3. cy * m \in Nat /\ n * m = m * n BY <1>2, SMT
<1>4. cy < n
  <2>1. SUFFICES ASSUME ~ cy < n PROVE FALSE OBVIOUS
  <2>2. n * m <= cy * m
    <3>1. CASE cy = n BY <3>1, <1>1, <1>3
    <3>2. CASE n < cy
      <4>1. n * m + m <= cy * m BY <1>2, <3>2, MulMono
      <4> QED BY <1>1, <1>3, <4>1
    <3> QED BY <1>2, <2>1, <3>1, <3>2
  <2> QED BY <1>1, <1>2, <1>3, <2>2
<1> QED BY <1>1, <1>2, <1>3, <1>4

(* A row and a column of chunks are those of some chunk id.                *)
LEMMA PairToId ==
  ASSUME NEW m \in Nat \ {0}, NEW n \in Nat \ {0},
         NEW cx \in 0 .. m - 1, NEW cy \in 0 .. n - 1
  PROVE  /\ cy * m + cx \in 0 .. m * n - 1
         /\ (cy * m + cx) \div m = cy
         /\ (cy * m + cx) - cy * m = cx
<1>1. cy * m \in Nat /\ n * m = m * n /\ m * n \in Nat BY SMT
<1>2. cy * m + m <= n * m BY MulMono
<1>3. (cy * m + cx) \div m = cy BY DivUnique
<1> QED BY <1>1, <1>2, <1>3

-----------------------------------------------------------------------------
(* The image has the sizes it was created with, whatever its pixels.       *)
Sized(c, z) ==
  c = [chunk_width |-> z.chunk_width, chunk_height |-> z.chunk_height,
       rest_width |-> Rest(z.width, z.chunk_width),
       rest_height |-> Rest(z.height, z.chunk_height),
       chunks_x |-> Pieces(z.width, z.chunk_width),
       chunks_y |-> Pieces(z.height, z.chunk_height),
       array2d |-> [width |-> z.width, height |-> z.height, data |-> c.array2d.data]]

SizesInv == \E z \in Sizes : Sized(array2d_chunk, z)

(* What the asserts of new() say about sizes.                              *)
LEMMA SizeTypes ==
  ASSUME NEW z \in Sizes
  PROVE  /\ z.width \in Nat /\ z.chunk_width \in Nat \ {0} /\ z.chunk_width < z.width
         /\ z.height \in Nat /\ z.chunk_height \in Nat \ {0} /\ z.chunk_height < z.height
BY Array2DAssumption

(* get_chunk_property() in terms of pieces.                                *)
LEMMA ChunkIsPieces ==
  ASSUME NEW z \in Sizes, Sized(array2d_chunk, z), NEW k \in ChunkIds(array2d_chunk)
  PROVE  \E cx \in 0 .. Pieces(z.width, z.chunk_width) - 1,
            cy \in 0 .. Pieces(z.height, z.chunk_height) - 1 :
           /\ k = cy * Pieces(z.width, z.chunk_width) + cx
           /\ get_chunk_property(array2d_chunk, k) =
                [x |-> cx * z.chunk_width, y |-> cy * z.chunk_height,
                 width |-> PieceLength(z.width, z.chunk_width, cx),
                 height |-> PieceLength(z.height, z.chunk_height, cy)]
<1> DEFINE m == Pieces(z.width, z.chunk_width)
           n == Pieces(z.height, z.chunk_height)
           cy == k \div m
           cx == k - cy * m
<1>1. m \in Nat \ {0} /\ n \in Nat \ {0} BY SizeTypes, AxisTypes
<1>2. k \in 0 .. m * n - 1 BY DEF ChunkIds, num_of_chunks, Sized
<1>3. cx \in 0 .. m - 1 /\ cy \in 0 .. n - 1 BY <1>1, <1>2, IdToPair
<1>4. k = cy * m + cx
  <2>1. cy \in Nat /\ k \in Nat
    <3>1. m * n \in Nat BY <1>1, SMT
    <3> QED BY <1>1, <1>2, <1>3, <3>1
  <2>2. cy * m \in Nat BY <1>1, <2>1, SMT
  <2> QED BY <1>3, <2>1, <2>2
<1>5. get_chunk_property(array2d_chunk, k) =
        [x |-> cx * z.chunk_width, y |-> cy * z.chunk_height,
         width |-> PieceLength(z.width, z.chunk_width, cx),
         height |-> PieceLength(z.height, z.chunk_height, cy)]
  BY DEF get_chunk_property, Sized, PieceLength
<1> QED BY <1>3, <1>4, <1>5

(* And conversely: the chunk of a pair of pieces.                          *)
LEMMA PiecesAreChunk ==
  ASSUME NEW z \in Sizes, Sized(array2d_chunk, z),
         NEW cx \in 0 .. Pieces(z.width, z.chunk_width) - 1,
         NEW cy \in 0 .. Pieces(z.height, z.chunk_height) - 1
  PROVE  \E k \in ChunkIds(array2d_chunk) :
           get_chunk_property(array2d_chunk, k) =
             [x |-> cx * z.chunk_width, y |-> cy * z.chunk_height,
              width |-> PieceLength(z.width, z.chunk_width, cx),
              height |-> PieceLength(z.height, z.chunk_height, cy)]
<1> DEFINE m == Pieces(z.width, z.chunk_width)
           n == Pieces(z.height, z.chunk_height)
           k == cy * m + cx
<1>1. m \in Nat \ {0} /\ n \in Nat \ {0} BY SizeTypes, AxisTypes
<1>2. k \in 0 .. m * n - 1 /\ k \div m = cy /\ k - cy * m = cx BY <1>1, PairToId
<1>3. k \in ChunkIds(array2d_chunk) BY <1>2 DEF ChunkIds, num_of_chunks, Sized
<1>4. get_chunk_property(array2d_chunk, k) =
        [x |-> cx * z.chunk_width, y |-> cy * z.chunk_height,
         width |-> PieceLength(z.width, z.chunk_width, cx),
         height |-> PieceLength(z.height, z.chunk_height, cy)]
  BY <1>2 DEF get_chunk_property, Sized, PieceLength
<1> QED BY <1>3, <1>4

(* The chunks of an image of any size tile it.                             *)
LEMMA ChunksTile ==
  ASSUME NEW z \in Sizes, Sized(array2d_chunk, z)
  PROVE  Tiling
<1> DEFINE m == Pieces(z.width, z.chunk_width)
           n == Pieces(z.height, z.chunk_height)
           Box(cx, cy) == [x |-> cx * z.chunk_width, y |-> cy * z.chunk_height,
                           width |-> PieceLength(z.width, z.chunk_width, cx),
                           height |-> PieceLength(z.height, z.chunk_height, cy)]
<1>1. /\ array2d_chunk.array2d.width = z.width
      /\ array2d_chunk.array2d.height = z.height BY DEF Sized
<1>2. /\ z.width \in Nat /\ z.chunk_width \in Nat \ {0} /\ z.chunk_width < z.width
      /\ z.height \in Nat /\ z.chunk_height \in Nat \ {0} /\ z.chunk_height < z.height
  BY SizeTypes
<1>3. ASSUME NEW k \in ChunkIds(array2d_chunk)
      PROVE  \E cx \in 0 .. m - 1, cy \in 0 .. n - 1 :
               k = cy * m + cx /\ get_chunk_property(array2d_chunk, k) = Box(cx, cy)
  BY ChunkIsPieces
<1>4. ASSUME NEW k \in ChunkIds(array2d_chunk)
      PROVE  LET p == get_chunk_property(array2d_chunk, k)
             IN  /\ p.width > 0 /\ p.x + p.width <= array2d_chunk.array2d.width
                 /\ p.height > 0 /\ p.y + p.height <= array2d_chunk.array2d.height
  <2>1. PICK cx \in 0 .. m - 1, cy \in 0 .. n - 1 :
               get_chunk_property(array2d_chunk, k) = Box(cx, cy) BY <1>3
  <2>2. /\ PieceLength(z.width, z.chunk_width, cx) \in 1 .. z.chunk_width
        /\ cx * z.chunk_width + PieceLength(z.width, z.chunk_width, cx) <= z.width
    BY <1>2, AxisInside
  <2>3. /\ PieceLength(z.height, z.chunk_height, cy) \in 1 .. z.chunk_height
        /\ cy * z.chunk_height + PieceLength(z.height, z.chunk_height, cy) <= z.height
    BY <1>2, AxisInside
  <2>4. /\ PieceLength(z.width, z.chunk_width, cx) > 0
        /\ PieceLength(z.height, z.chunk_height, cy) > 0 BY <1>2, <2>2, <2>3
  <2> QED BY <1>1, <2>1, <2>2, <2>3, <2>4
<1>5. ASSUME NEW x \in Columns, NEW y \in Rows
      PROVE  \E k \in ChunkIds(array2d_chunk) : Covers(k, x, y)
  <2>1. x \in 0 .. z.width - 1 /\ y \in 0 .. z.height - 1 BY <1>1 DEF Columns, Rows
  <2>2. PICK cx \in 0 .. m - 1 : InPiece(z.width, z.chunk_width, cx, x)
    BY <1>2, <2>1, AxisCovered
  <2>3. PICK cy \in 0 .. n - 1 : InPiece(z.height, z.chunk_height, cy, y)
    BY <1>2, <2>1, AxisCovered
  <2>4. PICK k \in ChunkIds(array2d_chunk) : get_chunk_property(array2d_chunk, k) = Box(cx, cy)
    BY PiecesAreChunk
  <2> QED BY <2>2, <2>3, <2>4 DEF Covers, InPiece
<1>6. ASSUME NEW x \in Columns, NEW y \in Rows,
             NEW j \in ChunkIds(array2d_chunk), NEW k \in ChunkIds(array2d_chunk),
             Covers(j, x, y), Covers(k, x, y)
      PROVE  j = k
  <2>1. x \in Nat /\ y \in Nat BY <1>1, <1>2 DEF Columns, Rows
  <2>2. PICK jx \in 0 .. m - 1, jy \in 0 .. n - 1 :
               j = jy * m + jx /\ get_chunk_property(array2d_chunk, j) = Box(jx, jy) BY <1>3
  <2>3. PICK kx \in 0 .. m - 1, ky \in 0 .. n - 1 :
               k = ky * m + kx /\ get_chunk_property(array2d_chunk, k) = Box(kx, ky) BY <1>3
  <2>4. InPiece(z.width, z.chunk_width, jx, x) /\ InPiece(z.height, z.chunk_height, jy, y)
    BY <1>6, <2>2 DEF Covers, InPiece
  <2>5. InPiece(z.width, z.chunk_width, kx, x) /\ InPiece(z.height, z.chunk_height, ky, y)
    BY <1>6, <2>3 DEF Covers, InPiece
  <2>6. jx = kx BY <1>2, <2>1, <2>4, <2>5, AxisDisjoint
  <2>7. jy = ky BY <1>2, <2>1, <2>4, <2>5, AxisDisjoint
  <2> QED BY <2>2, <2>3, <2>6, <2>7
<1> QED BY <1>4, <1>5, <1>6 DEF Tiling

-----------------------------------------------------------------------------
(* set_chunk() leaves everything but the pixels alone.                     *)
LEMMA SetChunkKeepsSize ==
  ASSUME NEW c, NEW z \in Sizes, Sized(c, z), NEW k, NEW source
  PROVE  Sized(set_chunk(c, k, source), z)
<1> DEFINE p == get_chunk_property(c, k)
           d == set_region(c.array2d, p.x, p.y, source)
<1>1. CASE Fits(c, k, source)
  <2>1. set_chunk(c, k, source) = [c EXCEPT !.array2d = d] BY <1>1 DEF set_chunk
  <2>2. d = [width |-> z.width, height |-> z.height, data |-> d.data]
    <3> DEFINE data == [i \in DOMAIN c.array2d.data |->
                 LET hit == {q \in (0 .. source.width - 1) \X (0 .. source.height - 1) :
                               i = index(c.array2d, p.x + q[1], p.y + q[2])}
                 IN  IF hit = {} THEN c.array2d.data[i]
                     ELSE LET q == CHOOSE q \in hit : TRUE IN get(source, q[1], q[2])]
    <3>1. d = [c.array2d EXCEPT !.data = data] BY DEF set_region
    <3>2. c.array2d = [width |-> z.width, height |-> z.height, data |-> c.array2d.data]
      BY DEF Sized
    <3> HIDE DEF data, d
    <3> QED BY <3>1, <3>2
  <2> HIDE DEF d
  <2> QED BY <2>1, <2>2 DEF Sized
<1>2. CASE ~ Fits(c, k, source)
  BY <1>2 DEF set_chunk
<1> QED BY <1>1, <1>2

(* The sizes of the image never change.                                    *)
THEOREM SizesKept == Spec => []SizesInv
<1>1. Init => SizesInv
  <2> SUFFICES ASSUME Init PROVE SizesInv OBVIOUS
  <2>1. PICK z \in Sizes :
          array2d_chunk = NewArray2DChunk(z.width, z.height, z.chunk_width, z.chunk_height)
    BY DEF Init
  <2>2. Sized(array2d_chunk, z)
    BY <2>1 DEF Sized, NewArray2DChunk, NewArray2D, Rest, Pieces
  <2> QED BY <2>2 DEF SizesInv
<1>2. SizesInv /\ [Next]_vars => SizesInv'
  <2> SUFFICES ASSUME SizesInv, [Next]_vars PROVE SizesInv' OBVIOUS
  <2>1. PICK z \in Sizes : Sized(array2d_chunk, z) BY DEF SizesInv
  <2>2. ASSUME NEW k, NEW y, ComputeRow(k, y) PROVE SizesInv'
    BY <2>1, <2>2 DEF ComputeRow, SizesInv, Sized
  <2>3. ASSUME NEW k, SetChunk(k) PROVE SizesInv'
    BY <2>1, <2>3, SetChunkKeepsSize DEF SetChunk, SizesInv
  <2>4. ASSUME NEW k, NEW j, SetChunkMismatch(k, j) PROVE SizesInv'
    BY <2>1, <2>4, SetChunkKeepsSize DEF SetChunkMismatch, SizesInv
  <2>5. CASE UNCHANGED vars
    BY <2>1, <2>5 DEF vars, SizesInv, Sized
  <2>6. ASSUME NEW k, RenderTile(k) PROVE SizesInv'
    BY <2>1, <2>6 DEF RenderTile, SizesInv, Sized
  <2> QED BY <2>2, <2>3, <2>4, <2>5, <2>6 DEF Next
<1> QED BY <1>1, <1>2, PTL DEF Spec

(* Whatever the size of the image and of its chunks, every pixel belongs   *)
(* to exactly one chunk and no chunk reaches beyond the image.             *)
THEOREM ImageTiled == Spec => []Tiling
<1>1. SizesInv => Tiling BY ChunksTile DEF SizesInv
<1> QED BY <1>1, SizesKept, PTL

-----------------------------------------------------------------------------
(* Arrays and the pixels in them.                                          *)

(* An Array2D of that size.                                                *)
Array(w, h) ==
  [width : {w}, height : {h}, data : [0 .. w * h - 1 -> (Nat \X Nat) \cup {Initial}]]

(* A pixel has a position of its own: its row and column can be read off.  *)
LEMMA IndexInRange ==
  ASSUME NEW w \in Nat \ {0}, NEW h \in Nat \ {0}, NEW a \in Array(w, h),
         NEW x \in 0 .. w - 1, NEW y \in 0 .. h - 1
  PROVE  /\ index(a, x, y) \in 0 .. w * h - 1
         /\ index(a, x, y) \div w = y
         /\ index(a, x, y) % w = x
<1>1. index(a, x, y) = y * w + x
  <2>1. a.width = w BY DEF Array
  <2>2. w * y = y * w BY SMT
  <2> QED BY <2>1, <2>2 DEF index
<1>2. y * w + w <= h * w BY MulMono
<1>3. h * w = w * h /\ y * w \in Nat /\ w * h \in Nat BY SMT
<1>4. (y * w + x) \div w = y /\ (y * w + x) % w = x BY DivUnique, ModUnique
<1> QED BY <1>1, <1>2, <1>3, <1>4

(* And every position in the vector is that of a pixel.                    *)
LEMMA PositionIsPixel ==
  ASSUME NEW w \in Nat \ {0}, NEW h \in Nat \ {0}, NEW a \in Array(w, h),
         NEW i \in 0 .. w * h - 1
  PROVE  \E x \in 0 .. w - 1, y \in 0 .. h - 1 : i = index(a, x, y)
<1> DEFINE y == i \div w
           x == i - y * w
<1>1. w * h \in Nat /\ i \in Nat BY SMT
<1>2. y \in Nat /\ y * w <= i /\ i < y * w + w BY <1>1, DivBounds
<1>3. y * w \in Nat /\ h * w = w * h /\ w * y = y * w BY <1>2, SMT
<1>4. y < h
  <2>1. SUFFICES ASSUME h <= y PROVE FALSE BY <1>2
  <2>2. h * w <= y * w
    <3>1. CASE h = y BY <3>1, <1>3
    <3>2. CASE h < y
      <4>1. h * w + w <= y * w BY <1>2, <3>2, MulMono
      <4> QED BY <1>1, <1>3, <4>1
    <3> QED BY <1>2, <2>1, <3>1, <3>2
  <2> QED BY <1>1, <1>2, <1>3, <2>2
<1>5. x \in 0 .. w - 1 /\ y \in 0 .. h - 1 BY <1>1, <1>2, <1>3, <1>4
<1>6. i = index(a, x, y)
  <2>1. a.width = w BY DEF Array
  <2>2. i = w * y + x BY <1>1, <1>3
  <2> QED BY <2>1, <2>2 DEF index
<1> QED BY <1>5, <1>6

(* What is copied is found where it was put, and nothing else changes.     *)
LEMMA RegionSet ==
  ASSUME NEW w \in Nat \ {0}, NEW h \in Nat \ {0}, NEW a \in Array(w, h),
         NEW sw \in Nat \ {0}, NEW sh \in Nat \ {0}, NEW source \in Array(sw, sh),
         NEW dx \in Nat, NEW dy \in Nat, dx + sw <= w, dy + sh <= h
  PROVE  /\ set_region(a, dx, dy, source) \in Array(w, h)
         /\ \A x \in 0 .. w - 1, y \in 0 .. h - 1 :
              get(set_region(a, dx, dy, source), x, y) =
                IF dx <= x /\ x < dx + sw /\ dy <= y /\ y < dy + sh
                THEN get(source, x - dx, y - dy) ELSE get(a, x, y)
<1> DEFINE Hit(i) == {p \in (0 .. source.width - 1) \X (0 .. source.height - 1) :
                        i = index(a, dx + p[1], dy + p[2])}
           data == [i \in DOMAIN a.data |->
                      IF Hit(i) = {} THEN a.data[i]
                      ELSE LET p == CHOOSE p \in Hit(i) : TRUE IN get(source, p[1], p[2])]
           new == set_region(a, dx, dy, source)
<1>1. /\ a.width = w /\ a.height = h /\ DOMAIN a.data = 0 .. w * h - 1
      /\ source.width = sw /\ source.height = sh
      /\ a = [width |-> w, height |-> h, data |-> a.data]
      /\ a.data \in [0 .. w * h - 1 -> (Nat \X Nat) \cup {Initial}]
      /\ source.data \in [0 .. sw * sh - 1 -> (Nat \X Nat) \cup {Initial}]
  BY DEF Array
<1>2. new = [a EXCEPT !.data = data] BY DEF set_region
<1>3. new = [width |-> w, height |-> h, data |-> data] BY <1>1, <1>2
<1>4. ASSUME NEW p \in (0 .. source.width - 1) \X (0 .. source.height - 1)
      PROVE  /\ p[1] \in 0 .. sw - 1 /\ p[2] \in 0 .. sh - 1
             /\ dx + p[1] \in 0 .. w - 1 /\ dy + p[2] \in 0 .. h - 1
  <2>1. p[1] \in 0 .. sw - 1 /\ p[2] \in 0 .. sh - 1 BY <1>1
  <2> QED BY <2>1
<1>5. ASSUME NEW i \in 0 .. w * h - 1
      PROVE  data[i] \in (Nat \X Nat) \cup {Initial}
  <2>1. CASE Hit(i) = {} BY <1>1, <2>1
  <2>2. CASE Hit(i) # {}
    <3>1. PICK p \in Hit(i) : data[i] = get(source, p[1], p[2]) BY <1>1, <2>2
    <3>2. index(source, p[1], p[2]) \in 0 .. sw * sh - 1 BY <1>4, IndexInRange
    <3> HIDE DEF data
    <3> QED BY <1>1, <3>1, <3>2 DEF get
  <2> QED BY <2>1, <2>2
<1>6. new \in Array(w, h)
  <2>1. data \in [0 .. w * h - 1 -> (Nat \X Nat) \cup {Initial}] BY <1>1, <1>5
  <2> HIDE DEF data
  <2> QED BY <1>3, <2>1 DEF Array
<1>7. ASSUME NEW x \in 0 .. w - 1, NEW y \in 0 .. h - 1
      PROVE  get(new, x, y) =
                IF dx <= x /\ x < dx + sw /\ dy <= y /\ y < dy + sh
                THEN get(source, x - dx, y - dy) ELSE get(a, x, y)
  <2> DEFINE i == index(a, x, y)
  <2>1. i \in 0 .. w * h - 1 /\ i = index(new, x, y) BY <1>1, <1>3, IndexInRange DEF index
  <2>2. get(new, x, y) = data[i]
    <3>1. new.data = data BY <1>3
    <3> HIDE DEF data, new
    <3> QED BY <2>1, <3>1 DEF get
  <2>3. ASSUME NEW p \in (0 .. source.width - 1) \X (0 .. source.height - 1),
               i = index(a, dx + p[1], dy + p[2])
        PROVE  x = dx + p[1] /\ y = dy + p[2]
    <3>1. dx + p[1] \in 0 .. w - 1 /\ dy + p[2] \in 0 .. h - 1 BY <1>4
    <3>2. /\ index(a, x, y) \div w = y /\ index(a, x, y) % w = x BY IndexInRange
    <3>3. /\ index(a, dx + p[1], dy + p[2]) \div w = dy + p[2]
          /\ index(a, dx + p[1], dy + p[2]) % w = dx + p[1] BY <3>1, IndexInRange
    <3> QED BY <2>3, <3>2, <3>3
  <2>4. CASE dx <= x /\ x < dx + sw /\ dy <= y /\ y < dy + sh
    <3> DEFINE q == <<x - dx, y - dy>>
    <3>1. q \in (0 .. source.width - 1) \X (0 .. source.height - 1)
      <4>1. x - dx \in 0 .. sw - 1 /\ y - dy \in 0 .. sh - 1 BY <2>4
      <4> QED BY <1>1, <4>1
    <3>2. dx + q[1] = x /\ dy + q[2] = y OBVIOUS
    <3>3. q \in Hit(i) BY <3>1, <3>2
    <3>4. PICK p \in Hit(i) : data[i] = get(source, p[1], p[2]) BY <1>1, <2>1, <3>3
    <3>5. p[1] \in Nat /\ p[2] \in Nat BY <1>4
    <3>6. p[1] = x - dx /\ p[2] = y - dy
      <4>1. x = dx + p[1] /\ y = dy + p[2] BY <2>3
      <4> QED BY <3>5, <4>1
    <3> QED BY <2>2, <2>4, <3>4, <3>6
  <2>5. CASE ~(dx <= x /\ x < dx + sw /\ dy <= y /\ y < dy + sh)
    <3>1. ASSUME NEW p \in Hit(i) PROVE FALSE
      <4>1. x = dx + p[1] /\ y = dy + p[2] BY <2>3
      <4>2. p[1] \in 0 .. sw - 1 /\ p[2] \in 0 .. sh - 1 BY <1>4
      <4> QED BY <2>5, <4>1, <4>2
    <3>2. data[i] = a.data[i] BY <1>1, <2>1, <3>1
    <3> QED BY <2>2, <2>5, <3>2 DEF get
  <2> QED BY <2>4, <2>5
<1> QED BY <1>6, <1>7

-----------------------------------------------------------------------------
(* What tiles and image hold.                                              *)

(* What is known of chunk k.                                               *)
Box(k) == get_chunk_property(array2d_chunk, k)

(* A tile has the size of its chunk, and the rows that are done have the   *)
(* values of their pixels.                                                 *)
TileInv ==
  /\ tile = [k \in ChunkIds(array2d_chunk) |-> tile[k]]
  /\ rows = [k \in ChunkIds(array2d_chunk) |-> rows[k]]
  /\ \A k \in ChunkIds(array2d_chunk) :
       /\ tile[k] \in Array(Box(k).width, Box(k).height)
       /\ \A x \in 0 .. Box(k).width - 1, y \in 0 .. Box(k).height - 1 :
            y \notin rows[k] => get(tile[k], x, y) = Value(Box(k), x, y)

(* The image has the pixels of the chunks that are accepted.               *)
PixelInv ==
  /\ accepted \subseteq ChunkIds(array2d_chunk)
  /\ array2d_chunk.array2d \in Array(array2d_chunk.array2d.width, array2d_chunk.array2d.height)
  /\ \A x \in Columns, y \in Rows :
       get(array2d_chunk.array2d, x, y) =
         IF \E k \in accepted : Covers(k, x, y) THEN <<x, y>> ELSE Initial

ImageInv == SizesInv /\ TileInv /\ PixelInv

(* The chunks lie in the image.                                            *)
LEMMA BoxTypes ==
  ASSUME SizesInv, NEW k \in ChunkIds(array2d_chunk)
  PROVE  /\ Box(k) \in [x : Nat, y : Nat, width : Nat \ {0}, height : Nat \ {0}]
         /\ Box(k).x + Box(k).width <= array2d_chunk.array2d.width
         /\ Box(k).y + Box(k).height <= array2d_chunk.array2d.height
         /\ array2d_chunk.array2d.width \in Nat \ {0}
         /\ array2d_chunk.array2d.height \in Nat \ {0}
<1>1. PICK z \in Sizes : Sized(array2d_chunk, z) BY DEF SizesInv
<1> DEFINE m == Pieces(z.width, z.chunk_width)
           n == Pieces(z.height, z.chunk_height)
<1>2. /\ array2d_chunk.array2d.width = z.width
      /\ array2d_chunk.array2d.height = z.height BY <1>1 DEF Sized
<1>3. /\ z.width \in Nat /\ z.chunk_width \in Nat \ {0} /\ z.chunk_width < z.width
      /\ z.height \in Nat /\ z.chunk_height \in Nat \ {0} /\ z.chunk_height < z.height
  BY SizeTypes
<1>4. PICK cx \in 0 .. m - 1, cy \in 0 .. n - 1 :
        Box(k) = [x |-> cx * z.chunk_width, y |-> cy * z.chunk_height,
                  width |-> PieceLength(z.width, z.chunk_width, cx),
                  height |-> PieceLength(z.height, z.chunk_height, cy)]
  BY <1>1, ChunkIsPieces DEF Box
<1>5. /\ cx * z.chunk_width \in Nat
      /\ PieceLength(z.width, z.chunk_width, cx) \in 1 .. z.chunk_width
      /\ cx * z.chunk_width + PieceLength(z.width, z.chunk_width, cx) <= z.width
  BY <1>3, AxisInside
<1>6. /\ cy * z.chunk_height \in Nat
      /\ PieceLength(z.height, z.chunk_height, cy) \in 1 .. z.chunk_height
      /\ cy * z.chunk_height + PieceLength(z.height, z.chunk_height, cy) <= z.height
  BY <1>3, AxisInside
<1>7. /\ PieceLength(z.width, z.chunk_width, cx) \in Nat \ {0}
      /\ PieceLength(z.height, z.chunk_height, cy) \in Nat \ {0}
  BY <1>3, <1>5, <1>6
<1>8. Box(k) \in [x : Nat, y : Nat, width : Nat \ {0}, height : Nat \ {0}]
  BY <1>4, <1>5, <1>6, <1>7
<1>9. /\ Box(k).x + Box(k).width <= z.width
      /\ Box(k).y + Box(k).height <= z.height BY <1>4, <1>5, <1>6
<1>10. z.width \in Nat \ {0} /\ z.height \in Nat \ {0} BY <1>3
<1> QED BY <1>2, <1>8, <1>9, <1>10

(* A chunk is where it was as long as the sizes are what they were.        *)
LEMMA BoxesStay ==
  ASSUME NEW z, NEW c, NEW d, Sized(c, z), Sized(d, z)
  PROVE  /\ ChunkIds(c) = ChunkIds(d)
         /\ \A k : get_chunk_property(c, k) = get_chunk_property(d, k)
         /\ c.array2d.width = d.array2d.width
         /\ c.array2d.height = d.array2d.height
<1>1. /\ c.chunks_x = d.chunks_x /\ c.chunks_y = d.chunks_y
      /\ c.rest_width = d.rest_width /\ c.rest_height = d.rest_height
      /\ c.chunk_width = d.chunk_width /\ c.chunk_height = d.chunk_height
      /\ c.array2d.width = d.array2d.width /\ c.array2d.height = d.array2d.height
  BY DEF Sized
<1>2. ChunkIds(c) = ChunkIds(d) BY <1>1 DEF ChunkIds, num_of_chunks
<1>3. \A k : get_chunk_property(c, k) = get_chunk_property(d, k)
  BY <1>1 DEF get_chunk_property
<1> QED BY <1>1, <1>2, <1>3

(* A new array has the initial value everywhere.                           *)
LEMMA NewArrayIsInitial ==
  ASSUME NEW w \in Nat \ {0}, NEW h \in Nat \ {0}
  PROVE  /\ NewArray2D(w, h) \in Array(w, h)
         /\ \A x \in 0 .. w - 1, y \in 0 .. h - 1 : get(NewArray2D(w, h), x, y) = Initial
<1>1. NewArray2D(w, h) \in Array(w, h) BY DEF NewArray2D, Array
<1>2. ASSUME NEW x \in 0 .. w - 1, NEW y \in 0 .. h - 1
      PROVE  get(NewArray2D(w, h), x, y) = Initial
  <2>1. index(NewArray2D(w, h), x, y) \in 0 .. w * h - 1 BY <1>1, IndexInRange
  <2> QED BY <2>1 DEF get, NewArray2D
<1> QED BY <1>1, <1>2

(* Pixels have a value.                                                    *)
LEMMA ValueTyped ==
  ASSUME NEW p, p.x \in Nat, p.y \in Nat, NEW x \in Nat, NEW y \in Nat
  PROVE  Value(p, x, y) \in Nat \X Nat
<1>1. x + p.x \in Nat /\ y + p.y \in Nat OBVIOUS
<1> QED BY <1>1 DEF Value

(* The renderer's image has the value of every pixel of the chunk.         *)
LEMMA RenderedIsValue ==
  ASSUME NEW p \in [x : Nat, y : Nat, width : Nat \ {0}, height : Nat \ {0}]
  PROVE  /\ Rendered(p) \in Array(p.width, p.height)
         /\ \A x \in 0 .. p.width - 1, y \in 0 .. p.height - 1 :
              get(Rendered(p), x, y) = Value(p, x, y)
<1> DEFINE data == [i \in 0 .. p.width * p.height - 1 |->
                      Value(p, i % p.width, i \div p.width)]
<1>1. p.width \in Nat \ {0} /\ p.height \in Nat \ {0} /\ p.x \in Nat /\ p.y \in Nat OBVIOUS
<1>2. Rendered(p) = [width |-> p.width, height |-> p.height, data |-> data] BY DEF Rendered
<1>3. data \in [0 .. p.width * p.height - 1 -> (Nat \X Nat) \cup {Initial}]
  <2>1. ASSUME NEW i \in 0 .. p.width * p.height - 1 PROVE data[i] \in Nat \X Nat
    <3>1. PICK x \in 0 .. p.width - 1, y \in 0 .. p.height - 1 :
            /\ i \div p.width = y /\ i % p.width = x
      <4>1. NewArray2D(p.width, p.height) \in Array(p.width, p.height)
        BY <1>1, NewArrayIsInitial
      <4>2. PICK x \in 0 .. p.width - 1, y \in 0 .. p.height - 1 :
              i = index(NewArray2D(p.width, p.height), x, y)
        BY <1>1, <4>1, PositionIsPixel
      <4>3. i \div p.width = y /\ i % p.width = x BY <1>1, <4>1, <4>2, IndexInRange
      <4> QED BY <4>3
    <3>2. x \in Nat /\ y \in Nat BY <1>1
    <3>3. Value(p, x, y) \in Nat \X Nat BY <1>1, <3>2, ValueTyped
    <3> QED BY <3>1, <3>3
  <2> QED BY <2>1
<1> HIDE DEF data
<1>4. Rendered(p) \in Array(p.width, p.height) BY <1>2, <1>3 DEF Array
<1>5. ASSUME NEW x \in 0 .. p.width - 1, NEW y \in 0 .. p.height - 1
      PROVE  get(Rendered(p), x, y) = Value(p, x, y)
  <2> DEFINE i == index(Rendered(p), x, y)
  <2>1. /\ i \in 0 .. p.width * p.height - 1
        /\ i \div p.width = y /\ i % p.width = x BY <1>1, <1>4, IndexInRange
  <2>2. data[i] = Value(p, x, y) BY <2>1 DEF data
  <2> QED BY <1>2, <2>2 DEF get
<1> QED BY <1>4, <1>5

(* At the start no row is computed and no pixel is set.                    *)
LEMMA ImageInit == Init => ImageInv
<1> SUFFICES ASSUME Init PROVE ImageInv OBVIOUS
<1>1. PICK z \in Sizes :
        array2d_chunk = NewArray2DChunk(z.width, z.height, z.chunk_width, z.chunk_height)
  BY DEF Init
<1>2. Sized(array2d_chunk, z)
  BY <1>1 DEF Sized, NewArray2DChunk, NewArray2D, Rest, Pieces
<1>3. SizesInv BY <1>2 DEF SizesInv
<1>4. TileInv
  <2>1. /\ tile = [k \in ChunkIds(array2d_chunk) |-> NewArray2D(Box(k).width, Box(k).height)]
        /\ rows = [k \in ChunkIds(array2d_chunk) |-> 0 .. Box(k).height - 1]
    BY DEF Init, Box
  <2>2. ASSUME NEW k \in ChunkIds(array2d_chunk)
        PROVE  /\ tile[k] \in Array(Box(k).width, Box(k).height)
               /\ \A x \in 0 .. Box(k).width - 1, y \in 0 .. Box(k).height - 1 :
                    y \notin rows[k] => get(tile[k], x, y) = Value(Box(k), x, y)
    <3>1. Box(k).width \in Nat \ {0} /\ Box(k).height \in Nat \ {0} BY <1>3, BoxTypes
    <3>2. tile[k] = NewArray2D(Box(k).width, Box(k).height) BY <2>1
    <3>3. tile[k] \in Array(Box(k).width, Box(k).height) BY <3>1, <3>2, NewArrayIsInitial
    <3>4. rows[k] = 0 .. Box(k).height - 1 BY <2>1
    <3> QED BY <3>3, <3>4
  <2> QED BY <2>1, <2>2 DEF TileInv
<1>5. PixelInv
  <2>1. accepted = {} BY DEF Init
  <2>2. array2d_chunk.array2d = NewArray2D(z.width, z.height) BY <1>1 DEF NewArray2DChunk
  <2>3. /\ array2d_chunk.array2d.width = z.width
        /\ array2d_chunk.array2d.height = z.height BY <1>2 DEF Sized
  <2>4. z.width \in Nat \ {0} /\ z.height \in Nat \ {0} BY SizeTypes
  <2>5. /\ array2d_chunk.array2d \in Array(z.width, z.height)
        /\ \A x \in 0 .. z.width - 1, y \in 0 .. z.height - 1 :
             get(array2d_chunk.array2d, x, y) = Initial BY <2>2, <2>4, NewArrayIsInitial
  <2> QED BY <2>1, <2>3, <2>5 DEF PixelInv, Columns, Rows
<1> QED BY <1>3, <1>4, <1>5 DEF ImageInv

(* A row of a tile has the values of its pixels once it is computed, and   *)
(* the other rows are left alone.                                          *)
LEMMA ComputeRowKeepsImage ==
  ASSUME ImageInv, NEW k \in ChunkIds(array2d_chunk), NEW r, ComputeRow(k, r)
  PROVE  ImageInv'
<1>1. /\ array2d_chunk' = array2d_chunk /\ accepted' = accepted
      /\ rows' = [rows EXCEPT ![k] = @ \ {r}] BY DEF ComputeRow
<1>2. SizesInv' /\ PixelInv'
  BY <1>1 DEF ImageInv, SizesInv, Sized, PixelInv, Columns, Rows, Covers
<1> DEFINE p == Box(k)
           data == [i \in DOMAIN tile[k].data |->
                      IF RowOf(tile[k], i) = r THEN Value(p, i % tile[k].width, r)
                      ELSE tile[k].data[i]]
           new == [tile[k] EXCEPT !.data = data]
<1>3. /\ p.x \in Nat /\ p.y \in Nat /\ p.width \in Nat \ {0} /\ p.height \in Nat \ {0}
      BY BoxTypes DEF ImageInv
<1>4. /\ tile[k] \in Array(p.width, p.height) BY DEF ImageInv, TileInv
<1>5. /\ tile[k] = [width |-> p.width, height |-> p.height, data |-> tile[k].data]
      /\ DOMAIN tile[k].data = 0 .. p.width * p.height - 1
      /\ tile[k].data \in [0 .. p.width * p.height - 1 -> (Nat \X Nat) \cup {Initial}]
  BY <1>4 DEF Array
<1>6. tile' = [tile EXCEPT ![k] = new] BY DEF ComputeRow, Box
<1>7. ASSUME NEW x \in 0 .. p.width - 1, NEW y \in 0 .. p.height - 1,
             NEW i, i = index(tile[k], x, y)
      PROVE  /\ i \in 0 .. p.width * p.height - 1
             /\ data[i] = IF y = r THEN Value(p, x, y) ELSE get(tile[k], x, y)
  <2>1. i \in 0 .. p.width * p.height - 1 /\ i \div p.width = y /\ i % p.width = x
    BY <1>3, <1>4, <1>7, IndexInRange
  <2>2. RowOf(tile[k], i) = y /\ i % tile[k].width = x BY <1>5, <2>1 DEF RowOf
  <2>3. data[i] = IF y = r THEN Value(p, x, y) ELSE tile[k].data[i] BY <1>5, <2>1, <2>2
  <2> QED BY <1>7, <2>1, <2>3 DEF get
<1>8. data \in [0 .. p.width * p.height - 1 -> (Nat \X Nat) \cup {Initial}]
  <2>1. ASSUME NEW i \in 0 .. p.width * p.height - 1
        PROVE  data[i] \in (Nat \X Nat) \cup {Initial}
    <3>1. PICK x \in 0 .. p.width - 1, y \in 0 .. p.height - 1 : i = index(tile[k], x, y)
      BY <1>3, <1>4, PositionIsPixel
    <3>2. data[i] = IF y = r THEN Value(p, x, y) ELSE tile[k].data[i]
      BY <1>7, <3>1 DEF get
    <3>3. x \in Nat /\ y \in Nat BY <1>3
    <3>4. Value(p, x, y) \in Nat \X Nat BY <1>3, <3>3, ValueTyped
    <3> HIDE DEF data
    <3> QED BY <1>5, <3>2, <3>4
  <2> QED BY <1>5, <2>1
<1> HIDE DEF data
<1>9. new = [width |-> p.width, height |-> p.height, data |-> data] BY <1>5
<1>10. new \in Array(p.width, p.height) BY <1>8, <1>9 DEF Array
<1>11. ASSUME NEW x \in 0 .. p.width - 1, NEW y \in 0 .. p.height - 1
       PROVE  get(new, x, y) = IF y = r THEN Value(p, x, y) ELSE get(tile[k], x, y)
  <2>1. index(new, x, y) = index(tile[k], x, y) BY <1>5, <1>9 DEF index
  <2>2. data[index(tile[k], x, y)] = IF y = r THEN Value(p, x, y) ELSE get(tile[k], x, y)
    BY <1>7
  <2> QED BY <1>9, <2>1, <2>2 DEF get
<1> HIDE DEF new
<1>12. TileInv'
  <2>1. /\ tile' = [j \in ChunkIds(array2d_chunk) |-> IF j = k THEN new ELSE tile[j]]
        /\ rows' = [j \in ChunkIds(array2d_chunk) |-> IF j = k THEN rows[k] \ {r} ELSE rows[j]]
    BY <1>1, <1>6 DEF ImageInv, TileInv
  <2>2. \A j : Box(j)' = Box(j) BY <1>1 DEF Box
  <2>3. ASSUME NEW j \in ChunkIds(array2d_chunk)
        PROVE  /\ tile'[j] \in Array(Box(j).width, Box(j).height)
               /\ \A x \in 0 .. Box(j).width - 1, y \in 0 .. Box(j).height - 1 :
                    y \notin rows'[j] => get(tile'[j], x, y) = Value(Box(j), x, y)
    <3>1. CASE j = k
      <4>1. tile'[j] = new /\ rows'[j] = rows[k] \ {r} BY <2>1, <3>1
      <4>2. ASSUME NEW x \in 0 .. p.width - 1, NEW y \in 0 .. p.height - 1, y \notin rows[k] \ {r}
            PROVE  get(new, x, y) = Value(p, x, y)
        <5>1. CASE y = r BY <1>11, <5>1
        <5>2. CASE y # r
          <6>1. y \notin rows[k] BY <4>2, <5>2
          <6> QED BY <1>11, <5>2, <6>1 DEF ImageInv, TileInv
        <5> QED BY <5>1, <5>2
      <4>3. Box(j) = p BY <3>1
      <4> HIDE DEF p
      <4> QED BY <1>10, <4>1, <4>2, <4>3
    <3>2. CASE j # k
      <4>1. tile'[j] = tile[j] /\ rows'[j] = rows[j] BY <2>1, <3>2
      <4> QED BY <4>1 DEF ImageInv, TileInv
    <3> QED BY <3>1, <3>2
  <2>4. ChunkIds(array2d_chunk)' = ChunkIds(array2d_chunk) BY <1>1
  <2>5. /\ tile' = [j \in ChunkIds(array2d_chunk) |-> tile'[j]]
        /\ rows' = [j \in ChunkIds(array2d_chunk) |-> rows'[j]] BY <2>1
  <2>6. \A j \in ChunkIds(array2d_chunk) :
          /\ tile'[j] \in Array(Box(j)'.width, Box(j)'.height)
          /\ \A x \in 0 .. Box(j)'.width - 1, y \in 0 .. Box(j)'.height - 1 :
               y \notin rows'[j] => get(tile'[j], x, y) = Value(Box(j)', x, y)
    BY <2>2, <2>3
  <2> QED BY <2>4, <2>5, <2>6 DEF TileInv
<1> QED BY <1>2, <1>12 DEF ImageInv

(* The image of the renderer has the values of all pixels of the tile.     *)
LEMMA RenderTileKeepsImage ==
  ASSUME ImageInv, NEW k \in ChunkIds(array2d_chunk), RenderTile(k)
  PROVE  ImageInv'
<1>1. /\ array2d_chunk' = array2d_chunk /\ accepted' = accepted
      /\ tile' = [tile EXCEPT ![k] = set_region(tile[k], 0, 0, Rendered(Box(k)))]
      /\ rows' = [rows EXCEPT ![k] = {}] BY DEF RenderTile, Box, ImageInv, TileInv
<1>2. SizesInv' /\ PixelInv'
  BY <1>1 DEF ImageInv, SizesInv, Sized, PixelInv, Columns, Rows, Covers
<1> DEFINE p == Box(k)
           new == set_region(tile[k], 0, 0, Rendered(p))
<1>3. p \in [x : Nat, y : Nat, width : Nat \ {0}, height : Nat \ {0}]
  BY BoxTypes DEF ImageInv
<1>4. p.width \in Nat \ {0} /\ p.height \in Nat \ {0} BY <1>3
<1>5. tile[k] \in Array(p.width, p.height) BY DEF ImageInv, TileInv
<1>6. /\ Rendered(p) \in Array(p.width, p.height)
      /\ \A x \in 0 .. p.width - 1, y \in 0 .. p.height - 1 :
           get(Rendered(p), x, y) = Value(p, x, y) BY <1>3, RenderedIsValue
<1>7. 0 \in Nat /\ 0 + p.width <= p.width /\ 0 + p.height <= p.height BY <1>4
<1>8. /\ new \in Array(p.width, p.height)
      /\ \A x \in 0 .. p.width - 1, y \in 0 .. p.height - 1 :
           get(new, x, y) =
             IF 0 <= x /\ x < 0 + p.width /\ 0 <= y /\ y < 0 + p.height
             THEN get(Rendered(p), x - 0, y - 0) ELSE get(tile[k], x, y)
  BY <1>4, <1>5, <1>6, <1>7, RegionSet
<1>9. ASSUME NEW x \in 0 .. p.width - 1, NEW y \in 0 .. p.height - 1
      PROVE  get(new, x, y) = Value(p, x, y)
  <2>1. /\ 0 <= x /\ x < 0 + p.width /\ 0 <= y /\ y < 0 + p.height
        /\ x - 0 = x /\ y - 0 = y BY <1>4
  <2>2. get(new, x, y) = get(Rendered(p), x, y) BY <1>8, <2>1
  <2> QED BY <1>6, <2>2
<1> HIDE DEF new
<1>10. TileInv'
  <2>1. /\ tile' = [j \in ChunkIds(array2d_chunk) |-> IF j = k THEN new ELSE tile[j]]
        /\ rows' = [j \in ChunkIds(array2d_chunk) |-> IF j = k THEN {} ELSE rows[j]]
    BY <1>1 DEF ImageInv, TileInv, new
  <2>2. \A j : Box(j)' = Box(j) BY <1>1 DEF Box
  <2>3. ASSUME NEW j \in ChunkIds(array2d_chunk)
        PROVE  /\ tile'[j] \in Array(Box(j).width, Box(j).height)
               /\ \A x \in 0 .. Box(j).width - 1, y \in 0 .. Box(j).height - 1 :
                    y \notin rows'[j] => get(tile'[j], x, y) = Value(Box(j), x, y)
    <3>1. CASE j = k
      <4>1. tile'[j] = new BY <2>1, <3>1
      <4>2. Box(j) = p BY <3>1
      <4> HIDE DEF p
      <4> QED BY <1>8, <1>9, <4>1, <4>2
    <3>2. CASE j # k
      <4>1. tile'[j] = tile[j] /\ rows'[j] = rows[j] BY <2>1, <3>2
      <4> QED BY <4>1 DEF ImageInv, TileInv
    <3> QED BY <3>1, <3>2
  <2>4. ChunkIds(array2d_chunk)' = ChunkIds(array2d_chunk) BY <1>1
  <2>5. /\ tile' = [j \in ChunkIds(array2d_chunk) |-> tile'[j]]
        /\ rows' = [j \in ChunkIds(array2d_chunk) |-> rows'[j]] BY <2>1
  <2>6. \A j \in ChunkIds(array2d_chunk) :
          /\ tile'[j] \in Array(Box(j)'.width, Box(j)'.height)
          /\ \A x \in 0 .. Box(j)'.width - 1, y \in 0 .. Box(j)'.height - 1 :
               y \notin rows'[j] => get(tile'[j], x, y) = Value(Box(j)', x, y)
    BY <2>2, <2>3
  <2> QED BY <2>4, <2>5, <2>6 DEF TileInv
<1> QED BY <1>2, <1>10 DEF ImageInv

(* A complete tile sets the pixels of its chunk, and only these.           *)
LEMMA SetChunkKeepsImage ==
  ASSUME ImageInv, NEW k \in ChunkIds(array2d_chunk), SetChunk(k)
  PROVE  /\ ImageInv'
         /\ \A x \in Columns, y \in Rows :
              get(array2d_chunk'.array2d, x, y) =
                IF Covers(k, x, y) THEN <<x, y>> ELSE get(array2d_chunk.array2d, x, y)
<1> DEFINE p == Box(k)
           image == array2d_chunk.array2d
           new == set_region(image, p.x, p.y, tile[k])
<1>1. /\ array2d_chunk' = set_chunk(array2d_chunk, k, tile[k])
      /\ accepted' = accepted \cup {k} /\ rows[k] = {}
      /\ tile' = tile /\ rows' = rows BY DEF SetChunk
<1>2. PICK z \in Sizes : Sized(array2d_chunk, z) BY DEF ImageInv, SizesInv
<1>3. Sized(array2d_chunk', z) BY <1>1, <1>2, SetChunkKeepsSize
<1>4. SizesInv' BY <1>3 DEF SizesInv
<1>5. /\ ChunkIds(array2d_chunk)' = ChunkIds(array2d_chunk)
      /\ \A j : Box(j)' = Box(j)
      /\ array2d_chunk'.array2d.width = image.width
      /\ array2d_chunk'.array2d.height = image.height
  <2>1. /\ ChunkIds(array2d_chunk') = ChunkIds(array2d_chunk)
        /\ \A j : get_chunk_property(array2d_chunk', j) = get_chunk_property(array2d_chunk, j)
        /\ array2d_chunk'.array2d.width = image.width
        /\ array2d_chunk'.array2d.height = image.height BY <1>2, <1>3, BoxesStay
  <2> QED BY <2>1 DEF Box
<1>6. /\ p.x \in Nat /\ p.y \in Nat /\ p.width \in Nat \ {0} /\ p.height \in Nat \ {0}
      /\ p.x + p.width <= image.width /\ p.y + p.height <= image.height
      /\ image.width \in Nat \ {0} /\ image.height \in Nat \ {0} BY BoxTypes DEF ImageInv
<1>7. /\ tile[k] \in Array(p.width, p.height)
      /\ \A x \in 0 .. p.width - 1, y \in 0 .. p.height - 1 :
           get(tile[k], x, y) = Value(p, x, y) BY <1>1 DEF ImageInv, TileInv
<1>8. image \in Array(image.width, image.height) BY DEF ImageInv, PixelInv
<1>9. /\ new \in Array(image.width, image.height)
      /\ \A x \in 0 .. image.width - 1, y \in 0 .. image.height - 1 :
           get(new, x, y) =
             IF p.x <= x /\ x < p.x + p.width /\ p.y <= y /\ y < p.y + p.height
             THEN get(tile[k], x - p.x, y - p.y) ELSE get(image, x, y)
  <2> DEFINE w == image.width
             h == image.height
             sw == p.width
             sh == p.height
             dx == p.x
             dy == p.y
  <2>1. /\ w \in Nat \ {0} /\ h \in Nat \ {0} /\ sw \in Nat \ {0} /\ sh \in Nat \ {0}
        /\ dx \in Nat /\ dy \in Nat /\ dx + sw <= w /\ dy + sh <= h BY <1>6
  <2>2. image \in Array(w, h) /\ tile[k] \in Array(sw, sh) BY <1>7, <1>8
  <2> HIDE DEF image, w, h, sw, sh, dx, dy
  <2>3. /\ set_region(image, dx, dy, tile[k]) \in Array(w, h)
        /\ \A x \in 0 .. w - 1, y \in 0 .. h - 1 :
             get(set_region(image, dx, dy, tile[k]), x, y) =
               IF dx <= x /\ x < dx + sw /\ dy <= y /\ y < dy + sh
               THEN get(tile[k], x - dx, y - dy) ELSE get(image, x, y)
    BY <2>1, <2>2, RegionSet
  <2> QED BY <2>3 DEF w, h, sw, sh, dx, dy
<1>10. array2d_chunk'.array2d = new
  <2>1. tile[k].width = p.width /\ tile[k].height = p.height BY <1>7 DEF Array
  <2>2. Fits(array2d_chunk, k, tile[k]) BY <2>1 DEF Fits, Box
  <2>3. array2d_chunk' = [array2d_chunk EXCEPT !.array2d = new]
    BY <1>1, <2>2 DEF set_chunk, Box
  <2>4. array2d_chunk = [chunk_width |-> z.chunk_width, chunk_height |-> z.chunk_height,
                         rest_width |-> array2d_chunk.rest_width,
                         rest_height |-> array2d_chunk.rest_height,
                         chunks_x |-> array2d_chunk.chunks_x,
                         chunks_y |-> array2d_chunk.chunks_y,
                         array2d |-> image]
    BY <1>2 DEF Sized
  <2> HIDE DEF new
  <2> QED BY <2>3, <2>4
<1>11. ASSUME NEW x \in Columns, NEW y \in Rows
       PROVE  get(array2d_chunk'.array2d, x, y) =
                IF Covers(k, x, y) THEN <<x, y>> ELSE get(image, x, y)
  <2>1. x \in 0 .. image.width - 1 /\ y \in 0 .. image.height - 1 BY DEF Columns, Rows
  <2>2. CASE Covers(k, x, y)
    <3>1. p.x <= x /\ x < p.x + p.width /\ p.y <= y /\ y < p.y + p.height
      BY <2>2 DEF Covers, Box
    <3>2. x - p.x \in 0 .. p.width - 1 /\ y - p.y \in 0 .. p.height - 1
      BY <1>6, <2>1, <3>1
    <3>3. get(new, x, y) = Value(p, x - p.x, y - p.y) BY <1>7, <1>9, <2>1, <3>1, <3>2
    <3>4. (x - p.x) + p.x = x /\ (y - p.y) + p.y = y BY <1>6, <2>1
    <3>5. Value(p, x - p.x, y - p.y) = <<x, y>> BY <3>4 DEF Value
    <3> QED BY <1>10, <2>2, <3>3, <3>5
  <2>3. CASE ~ Covers(k, x, y)
    <3>1. ~ (p.x <= x /\ x < p.x + p.width /\ p.y <= y /\ y < p.y + p.height)
      BY <2>3 DEF Covers, Box
    <3> QED BY <1>9, <1>10, <2>1, <2>3, <3>1
  <2> QED BY <2>2, <2>3
<1>12. TileInv' BY <1>1, <1>5 DEF ImageInv, TileInv
<1>13. PixelInv'
  <2>1. accepted' \subseteq ChunkIds(array2d_chunk)' BY <1>1, <1>5 DEF ImageInv, PixelInv
  <2>2. array2d_chunk'.array2d \in Array(array2d_chunk'.array2d.width, array2d_chunk'.array2d.height)
    BY <1>5, <1>9, <1>10
  <2>3. \A j, x, y : Covers(j, x, y)' <=> Covers(j, x, y) BY <1>5 DEF Covers, Box
  <2>4. ASSUME NEW x \in Columns, NEW y \in Rows
        PROVE  get(array2d_chunk'.array2d, x, y) =
                 IF \E j \in accepted' : Covers(j, x, y)' THEN <<x, y>> ELSE Initial
    <3>1. get(image, x, y) = IF \E j \in accepted : Covers(j, x, y) THEN <<x, y>> ELSE Initial
      BY DEF ImageInv, PixelInv
    <3>2. (\E j \in accepted' : Covers(j, x, y)')
            <=> Covers(k, x, y) \/ \E j \in accepted : Covers(j, x, y) BY <1>1, <2>3
    <3> QED BY <1>11, <3>1, <3>2
  <2>5. Columns' = Columns /\ Rows' = Rows BY <1>5 DEF Columns, Rows
  <2> QED BY <2>1, <2>2, <2>4, <2>5 DEF PixelInv
<1> QED BY <1>4, <1>11, <1>12, <1>13 DEF ImageInv

(* A tile of another size changes nothing.                                 *)
LEMMA MismatchKeepsImage ==
  ASSUME NEW k, NEW j, SetChunkMismatch(k, j)
  PROVE  UNCHANGED vars
BY DEF SetChunkMismatch, set_chunk, vars

(* And when nothing changes, nothing does.                                 *)
LEMMA StutterKeepsImage ==
  ASSUME ImageInv, UNCHANGED vars
  PROVE  ImageInv'
BY DEF ImageInv, vars, SizesInv, Sized, TileInv, Box, PixelInv, Columns, Rows, Covers

(* The tiles and the image are what the rows and tiles that are there make *)
(* of them, for images and chunks of any size.                             *)
THEOREM ImageInvariant == Spec => []ImageInv
<1>1. Init => ImageInv BY ImageInit
<1>2. ImageInv /\ [Next]_vars => ImageInv'
  <2> SUFFICES ASSUME ImageInv, [Next]_vars PROVE ImageInv' OBVIOUS
  <2>1. CASE UNCHANGED vars BY <2>1, StutterKeepsImage
  <2>2. ASSUME NEW k \in ChunkIds(array2d_chunk), NEW y \in rows[k], ComputeRow(k, y)
        PROVE  ImageInv'
    BY <2>2, ComputeRowKeepsImage
  <2>3. ASSUME NEW k \in ChunkIds(array2d_chunk), RenderTile(k) PROVE ImageInv'
    BY <2>3, RenderTileKeepsImage
  <2>4. ASSUME NEW k \in ChunkIds(array2d_chunk), SetChunk(k) PROVE ImageInv'
    BY <2>4, SetChunkKeepsImage
  <2>5. ASSUME NEW k, NEW j, SetChunkMismatch(k, j) PROVE ImageInv'
    BY <2>5, MismatchKeepsImage, StutterKeepsImage
  <2> QED BY <2>1, <2>2, <2>3, <2>4, <2>5 DEF Next
<1> QED BY <1>1, <1>2, PTL DEF Spec

(* save_image() reads the image a single machine would have computed.      *)
THEOREM ImageIsAssembled == Spec => []ImageAssembled
<1>1. ImageInv => ImageAssembled
  <2> SUFFICES ASSUME ImageInv PROVE ImageAssembled OBVIOUS
  <2>1. Tiling BY ChunksTile DEF ImageInv, SizesInv
  <2>2. ASSUME NEW x \in Columns, NEW y \in Rows, accepted = ChunkIds(array2d_chunk)
        PROVE  \E k \in accepted : Covers(k, x, y) BY <2>1, <2>2 DEF Tiling
  <2> QED BY <2>2 DEF ImageAssembled, ImageInv, PixelInv
<1> QED BY <1>1, ImageInvariant, PTL

(* A tile that is accepted never changes a pixel that is set: its pixels   *)
(* were initial, or it has them already.                                   *)
THEOREM PixelsAreKept == Spec => PixelsKept
<1> DEFINE Kept == \A i \in DOMAIN array2d_chunk.array2d.data :
                     array2d_chunk.array2d.data[i] # Initial =>
                       array2d_chunk'.array2d.data[i] = array2d_chunk.array2d.data[i]
<1>1. ImageInv /\ [Next]_vars => [Kept]_vars
  <2> SUFFICES ASSUME ImageInv, Next PROVE Kept
    OBVIOUS
  <2>1. ASSUME NEW k, NEW y, ComputeRow(k, y) PROVE Kept BY <2>1 DEF ComputeRow
  <2>2. ASSUME NEW k, RenderTile(k) PROVE Kept BY <2>2 DEF RenderTile
  <2>3. ASSUME NEW k, NEW j, SetChunkMismatch(k, j) PROVE Kept
    BY <2>3, MismatchKeepsImage DEF vars
  <2>4. ASSUME NEW k \in ChunkIds(array2d_chunk), SetChunk(k) PROVE Kept
    <3> DEFINE image == array2d_chunk.array2d
    <3>1. /\ image.width \in Nat \ {0} /\ image.height \in Nat \ {0} BY BoxTypes DEF ImageInv
    <3>2. /\ image \in Array(image.width, image.height)
          /\ DOMAIN image.data = 0 .. image.width * image.height - 1
      BY DEF ImageInv, PixelInv, Array
    <3>3. SUFFICES ASSUME NEW i \in 0 .. image.width * image.height - 1, image.data[i] # Initial
                   PROVE  array2d_chunk'.array2d.data[i] = image.data[i] BY <3>2
    <3>4. PICK x \in Columns, y \in Rows : i = index(image, x, y)
      <4> DEFINE w == image.width
                 h == image.height
      <4>1. Columns = 0 .. w - 1 /\ Rows = 0 .. h - 1 BY DEF Columns, Rows
      <4>2. /\ w \in Nat \ {0} /\ h \in Nat \ {0} /\ image \in Array(w, h)
            /\ i \in 0 .. w * h - 1 BY <3>1, <3>2
      <4> HIDE DEF image, w, h
      <4>3. \E x \in 0 .. w - 1, y \in 0 .. h - 1 : i = index(image, x, y)
        BY <4>2, PositionIsPixel
      <4> QED BY <4>1, <4>3
    <3>5. array2d_chunk'.array2d.width = image.width
      BY <2>4, SetChunkKeepsSize DEF SetChunk, ImageInv, SizesInv, Sized
    <3>6. /\ get(image, x, y) = image.data[i]
          /\ get(array2d_chunk'.array2d, x, y) = array2d_chunk'.array2d.data[i]
      BY <3>4, <3>5 DEF get, index
    <3>7. get(image, x, y) = <<x, y>> BY <3>3, <3>6 DEF ImageInv, PixelInv
    <3>8. get(array2d_chunk'.array2d, x, y) = <<x, y>> BY <2>4, <3>7, SetChunkKeepsImage
    <3> QED BY <3>6, <3>7, <3>8
  <2> QED BY <2>1, <2>2, <2>3, <2>4 DEF Next
<1> QED BY <1>1, ImageInvariant, PTL DEF Spec, PixelsKept
=============================================================================
