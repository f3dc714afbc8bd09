------------------------------- MODULE Array2D -------------------------------
(***************************************************************************)
(* The image of array2d.rs: an Array2DChunk is cut into chunks, nodes      *)
(* compute one chunk each, row by row and in any order (mandel2) or at     *)
(* once (ray_tracer), and the server copies what they send into the whole  *)
(* image.                                                                  *)
(*                                                                         *)
(* The value of a pixel is its position in the whole image: that is all it *)
(* depends on, and two pixels that are mixed up have different values.     *)
(* Which node has which chunk is the business of NCServer and NCNode; here *)
(* a chunk is computed until its tile has been accepted.                   *)
(***************************************************************************)
EXTENDS Naturals

CONSTANTS
  Sizes,       \* the arguments of Array2DChunk::new() a behaviour may start with
  Initial      \* the value images are filled with

(* The assert!s of Array2DChunk::new(); no pixel has the initial value.    *)
ASSUME Array2DAssumption ==
  /\ Sizes \subseteq [width : Nat \ {0}, height : Nat \ {0},
                      chunk_width : Nat \ {0}, chunk_height : Nat \ {0}]
  /\ \A z \in Sizes : z.chunk_width < z.width /\ z.chunk_height < z.height
  /\ Initial \notin Nat \X Nat

VARIABLES
  array2d_chunk,   \* the server's image
  tile,            \* tile[k] is the node's array for chunk k
  rows,            \* the rows of tile[k] that are not computed yet
  accepted         \* the chunks the server has accepted a tile for

vars == <<array2d_chunk, tile, rows, accepted>>

-----------------------------------------------------------------------------
(* Array2D: a vector of width * height values, row after row.              *)

NewArray2D(width, height) ==
  [width |-> width, height |-> height, data |-> [i \in 0 .. width * height - 1 |-> Initial]]

index(a, x, y) == a.width * y + x

get(a, x, y) == a.data[index(a, x, y)]

(* split_row_mut() cuts the vector every a.width values.                   *)
RowOf(a, i) == i \div a.width

(* Mutant: the source is placed one row too far down.                      *)
set_region_shifted(a, dest_x, dest_y, source) ==
  [a EXCEPT !.data = [i \in DOMAIN a.data |->
     LET hit == {p \in (0 .. source.width - 1) \X (0 .. source.height - 1) :
                   i = index(a, dest_x + p[1], dest_y + p[2] + 1)}
     IN  IF hit = {} THEN a.data[i]
         ELSE LET p == CHOOSE p \in hit : TRUE IN get(source, p[1], p[2])]]

(* Every pixel of the source goes where its index in a says.               *)
set_region(a, dest_x, dest_y, source) ==
  [a EXCEPT !.data = [i \in DOMAIN a.data |->
     LET hit == {p \in (0 .. source.width - 1) \X (0 .. source.height - 1) :
                   i = index(a, dest_x + p[1], dest_y + p[2])}
     IN  IF hit = {} THEN a.data[i]
         ELSE LET p == CHOOSE p \in hit : TRUE IN get(source, p[1], p[2])]]

-----------------------------------------------------------------------------
(* Array2DChunk.                                                           *)

NewArray2DChunk(width, height, chunk_width, chunk_height) ==
  LET a == width \div chunk_width
      b == height \div chunk_height
      rest_width == width - a * chunk_width
      rest_height == height - b * chunk_height
  IN  [chunk_width |-> chunk_width, chunk_height |-> chunk_height,
       rest_width |-> rest_width, rest_height |-> rest_height,
       chunks_x |-> IF rest_width = 0 THEN a ELSE a + 1,
       chunks_y |-> IF rest_height = 0 THEN b ELSE b + 1,
       array2d |-> NewArray2D(width, height)]

num_of_chunks(c) == c.chunks_x * c.chunks_y

ChunkIds(c) == 0 .. num_of_chunks(c) - 1

(* Mutant: the last column and row of chunks get the full size.            *)
get_chunk_property_full_size(c, chunk_id) ==
  LET cy == chunk_id \div c.chunks_x
      cx == chunk_id - cy * c.chunks_x
  IN  [x |-> cx * c.chunk_width, y |-> cy * c.chunk_height,
       width |-> c.chunk_width, height |-> c.chunk_height]

(* What initialize() stores in the chunk list, and what nodes are told.    *)
get_chunk_property(c, chunk_id) ==
  LET cy == chunk_id \div c.chunks_x
      cx == chunk_id - cy * c.chunks_x
  IN  [x |-> cx * c.chunk_width, y |-> cy * c.chunk_height,
       width |-> IF cx = c.chunks_x - 1 /\ c.rest_width > 0
                 THEN c.rest_width ELSE c.chunk_width,
       height |-> IF cy = c.chunks_y - 1 /\ c.rest_height > 0
                  THEN c.rest_height ELSE c.chunk_height]

Fits(c, chunk_id, source) ==
  LET p == get_chunk_property(c, chunk_id)
  IN  p.width = source.width /\ p.height = source.height

(* Mutant: the sizes are not compared.                                     *)
set_chunk_unchecked(c, chunk_id, source) ==
  LET p == get_chunk_property(c, chunk_id)
  IN  [c EXCEPT !.array2d = set_region(c.array2d, p.x, p.y, source)]

(* A source of another size is refused (Array2DDimensionMismatch).         *)
set_chunk(c, chunk_id, source) ==
  LET p == get_chunk_property(c, chunk_id)
  IN  IF Fits(c, chunk_id, source)
      THEN [c EXCEPT !.array2d = set_region(c.array2d, p.x, p.y, source)]
      ELSE c

-----------------------------------------------------------------------------

(* The chunk list is initialised, and every chunk has a node that starts   *)
(* process_data_from_server() with an empty array.                         *)
Init ==
  /\ \E z \in Sizes :
       array2d_chunk = NewArray2DChunk(z.width, z.height, z.chunk_width, z.chunk_height)
  /\ tile = [k \in ChunkIds(array2d_chunk) |->
               LET p == get_chunk_property(array2d_chunk, k) IN NewArray2D(p.width, p.height)]
  /\ rows = [k \in ChunkIds(array2d_chunk) |-> 0 .. get_chunk_property(array2d_chunk, k).height - 1]
  /\ accepted = {}

(* The value of pixel (x, y) of the chunk that is described by data.       *)
Value(data, x, y) == <<x + data.x, y + data.y>>

(* One row of split_row_mut(), on a thread of its own.                     *)
ComputeRow(k, y) ==
  /\ y \in rows[k]
  /\ tile' = [tile EXCEPT ![k].data = [i \in DOMAIN tile[k].data |->
                IF RowOf(tile[k], i) = y
                THEN Value(get_chunk_property(array2d_chunk, k), i % tile[k].width, y)
                ELSE tile[k].data[i]]]
  /\ rows' = [rows EXCEPT ![k] = @ \ {y}]
  /\ UNCHANGED <<array2d_chunk, accepted>>

(* What the renderer returns for a part of the scene: row after row.       *)
Rendered(data) ==
  [width |-> data.width, height |-> data.height,
   data |-> [i \in 0 .. data.width * data.height - 1 |->
               Value(data, i % data.width, i \div data.width)]]

(* The renderer works on the whole tile, and its image is copied into the  *)
(* array pixel by pixel.                                                   *)
RenderTile(k) ==
  LET data == get_chunk_property(array2d_chunk, k)
  IN  /\ rows[k] = 0 .. data.height - 1
      /\ tile' = [tile EXCEPT ![k] = set_region(@, 0, 0, Rendered(data))]
      /\ rows' = [rows EXCEPT ![k] = {}]
      /\ UNCHANGED <<array2d_chunk, accepted>>

(* process_data_from_node(): a tile is complete when it is sent.           *)
SetChunk(k) ==
  /\ k \notin accepted
  /\ rows[k] = {}
  /\ array2d_chunk' = set_chunk(array2d_chunk, k, tile[k])
  /\ accepted' = accepted \cup {k}
  /\ UNCHANGED <<tile, rows>>

(* A client of the library mixes up its ids: nothing happens if the sizes  *)
(* tell.                                                                   *)
SetChunkMismatch(k, j) ==
  /\ rows[j] = {}
  /\ ~ Fits(array2d_chunk, k, tile[j])
  /\ array2d_chunk' = set_chunk(array2d_chunk, k, tile[j])
  /\ UNCHANGED <<tile, rows, accepted>>

Next ==
  \E k \in ChunkIds(array2d_chunk) :
     \/ \E y \in rows[k] : ComputeRow(k, y)
     \/ RenderTile(k)
     \/ SetChunk(k)
     \/ \E j \in ChunkIds(array2d_chunk) : SetChunkMismatch(k, j)

Spec == Init /\ [][Next]_vars

-----------------------------------------------------------------------------
(* Properties.                                                             *)

Covers(k, x, y) ==
  LET p == get_chunk_property(array2d_chunk, k)
  IN  p.x <= x /\ x < p.x + p.width /\ p.y <= y /\ y < p.y + p.height

Columns == 0 .. array2d_chunk.array2d.width - 1

Rows == 0 .. array2d_chunk.array2d.height - 1

(* Whatever the sizes, the chunks get_chunk_property() describes lie in    *)
(* the image, do not overlap, and leave no pixel out.                      *)
Tiling ==
  /\ \A k \in ChunkIds(array2d_chunk) :
       LET p == get_chunk_property(array2d_chunk, k)
       IN  /\ p.width > 0 /\ p.x + p.width <= array2d_chunk.array2d.width
           /\ p.height > 0 /\ p.y + p.height <= array2d_chunk.array2d.height
  /\ \A x \in Columns, y \in Rows :
       /\ \E k \in ChunkIds(array2d_chunk) : Covers(k, x, y)
       /\ \A j, k \in ChunkIds(array2d_chunk) : Covers(j, x, y) /\ Covers(k, x, y) => j = k

(* The image save_image() reads is the one a single machine would have     *)
(* computed: once all chunks are there every pixel has its own value, and    *)
(* until then just the pixels of the chunks that are there have.           *)
ImageAssembled ==
  \A x \in Columns, y \in Rows :
    get(array2d_chunk.array2d, x, y) =
      IF accepted = ChunkIds(array2d_chunk) \/ \E k \in accepted : Covers(k, x, y)
      THEN <<x, y>> ELSE Initial

(* set_chunk() never touches a pixel that an earlier tile has set.         *)
PixelsKept ==
  [][\A i \in DOMAIN array2d_chunk.array2d.data :
       array2d_chunk.array2d.data[i] # Initial =>
         array2d_chunk'.array2d.data[i] = array2d_chunk.array2d.data[i]]_vars
=============================================================================
