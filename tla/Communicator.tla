----------------------------- MODULE Communicator ----------------------------
(***************************************************************************)
(* nc_communicator.rs: how a request becomes bytes, how the bytes travel   *)
(* and how the server makes a request of them again.  Each process brings  *)
(* its own configuration, and the server shares one communicator among its *)
(* handlers under a mutex.                                                 *)
(*                                                                         *)
(* Bytes are described by what has been done to a request: it is           *)
(* serialised, then perhaps encrypted, then perhaps compressed.  The way   *)
(* back, with the roles swapped, uses the same functions and is left out.  *)
(***************************************************************************)
EXTENDS Naturals

CONSTANTS
  Peers,        \* the processes that send requests
  Keys,         \* the keys in use
  Requests,     \* some of the requests in Bytes
  NonceRange,   \* nonces wrap around here, at 2^64 in the code
  Server,       \* the server, where a peer stands otherwise
  None,         \* no connection, no result yet, not encrypted
  Failed,       \* Err(NCError)
  Panicked      \* no result, the thread has panicked

(* Bytes of a request bincode makes: a variant takes four, an id eight.    *)
Bytes == [Register |-> 4, CheckHeartbeat |-> 4, NeedsData |-> 12, HasData |-> 20]

NCConfiguration == [compress : BOOLEAN, encrypt : BOOLEAN, key : Keys]

Cipher == [key : Keys, nonce : 0 .. NonceRange - 1]
Data == [request : Requests, cipher : Cipher \cup {None}, compressed : BOOLEAN]
Result == Requests \cup {"Register", "CheckHeartbeat"} \cup {Failed, Panicked}

(* A connection: what was to be sent, how much of it is written, whether   *)
(* the peer has not closed it, and how far the handler is.                 *)
Conn == [request : Requests, data : Data, written : {"nothing", "length", "part", "all"},
         open : BOOLEAN, step : {"queued", "length", "data", "done"},
         result : Result \cup {None}]

ASSUME CommunicatorAssumption ==
  /\ Requests \subseteq DOMAIN Bytes
  /\ NonceRange \in Nat \ {0}
  /\ Server \notin Peers
  /\ None \notin Peers \cup Cipher \cup Conn \cup Result
  /\ Failed # Panicked
  /\ {Failed, Panicked} \cap (DOMAIN Bytes \cup Data) = {}

VARIABLES
  config,       \* process -> its NCConfiguration
  nonce,        \* peer -> NCCommunicator.nonce
  conn,         \* peer -> its connection
  locked,       \* who holds the mutex of the server's communicator
  poisoned      \* a handler has panicked with it

vars == <<config, nonce, conn, locked, poisoned>>

AtStep(p, step) == conn[p] # None /\ conn[p].step = step

(* The types, and the mutex: whoever reads holds it, and nobody else does. *)
TypeOK ==
  /\ config \in [Peers \cup {Server} -> NCConfiguration]
  /\ nonce \in [Peers -> 0 .. NonceRange - 1]
  /\ conn \in [Peers -> Conn \cup {None}]
  /\ locked \in Peers \cup {None}
  /\ poisoned \in BOOLEAN
  /\ \A p \in Peers : locked = p <=> AtStep(p, "length") \/ AtStep(p, "data")

Init ==
  /\ config \in [Peers \cup {Server} -> NCConfiguration]
  /\ nonce = [p \in Peers |-> 0]
  /\ conn = [p \in Peers |-> None]
  /\ locked = None
  /\ poisoned = FALSE

-----------------------------------------------------------------------------
(* Encoding and decoding.                                                  *)

nc_encode_data(c, n, request) ==
  [request |-> request,
   cipher |-> IF c.encrypt THEN [key |-> c.key, nonce |-> n] ELSE None,
   compressed |-> c.compress]

(* Twelve bytes of nonce and sixteen of the tag; four of the length and    *)
(* one at least of the block.                                              *)
Length(data) ==
  Bytes[data.request] + (IF data.cipher # None THEN 28 ELSE 0)
                      + (IF data.compressed THEN 5 ELSE 0)

(* A block has no checksum: what is none may look like one that holds      *)
(* anything.                                                               *)
decompress(data) ==
  IF data.compressed THEN {[data EXCEPT !.compressed = FALSE]}
  ELSE {Failed} \cup [request : Requests, cipher : {None}, compressed : {FALSE}]

(* split_at(12) panics when there are less.                                *)
decrypt_data(key, data) ==
  CASE Length(data) < 12 -> Panicked
    [] /\ Length(data) >= 12
       /\ ~data.compressed /\ data.cipher # None
       /\ data.cipher.key = key -> [data EXCEPT !.cipher = None]
    [] OTHER -> Failed

(* The first four bytes select the variant, and what follows the request   *)
(* is ignored.  They are zero in a nonce, which is the index of Register;  *)
(* in a compressed block they are the length of what it holds, and four is *)
(* the index of CheckHeartbeat.                                            *)
deserialize(data) ==
  CASE ~data.compressed /\ data.cipher = None -> data.request
    [] ~data.compressed /\ data.cipher # None -> "Register"
    [] data.compressed ->
         IF Length([data EXCEPT !.compressed = FALSE]) = 4 THEN "CheckHeartbeat" ELSE Failed

Decrypted(c, data) == IF c.encrypt THEN decrypt_data(c.key, data) ELSE data

(* Mutant: the layers are taken off in the order they were put on.         *)
nc_decode_data_same_order(c, data) ==
  LET decrypted == Decrypted(c, data)
  IN  IF decrypted \in {Failed, Panicked} THEN {decrypted}
      ELSE {IF d = Failed THEN Failed ELSE deserialize(d) :
              d \in IF c.compress THEN decompress(decrypted) ELSE {decrypted}}

(* The results a decoder may come to.                                      *)
nc_decode_data(c, data) ==
  LET Decoded(d) ==
        IF d = Failed THEN Failed
        ELSE LET decrypted == Decrypted(c, d)
             IN  IF decrypted \in {Failed, Panicked} THEN decrypted
                 ELSE deserialize(decrypted)
  IN  {Decoded(d) : d \in IF c.compress THEN decompress(data) ELSE {data}}

-----------------------------------------------------------------------------
(* A peer: nc_send_data() writes the length and then the data, and the     *)
(* process may end at any point.                                           *)

Connect(p) ==
  /\ conn[p] = None
  /\ \E request \in Requests :
       conn' = [conn EXCEPT ![p] =
         [request |-> request, data |-> nc_encode_data(config[p], nonce[p], request),
          written |-> "nothing", open |-> TRUE, step |-> "queued", result |-> None]]
  /\ nonce' = [nonce EXCEPT ![p] = IF config[p].encrypt THEN (@ + 1) % NonceRange ELSE @]
  /\ UNCHANGED <<config, locked, poisoned>>

After == [nothing |-> "length", length |-> "part", part |-> "all"]

Write(p) ==
  /\ conn[p] # None
  /\ conn[p].open
  /\ conn[p].written # "all"
  /\ conn' = [conn EXCEPT ![p].written = After[@]]
  /\ UNCHANGED <<config, nonce, locked, poisoned>>

Close(p) ==
  /\ conn[p] # None
  /\ conn[p].open
  /\ conn' = [conn EXCEPT ![p].open = FALSE]
  /\ UNCHANGED <<config, nonce, locked, poisoned>>

-----------------------------------------------------------------------------
(* A handler: lock()?.nc_receive_data()?                                   *)

(* Mutant: a mutex per handler.                                            *)
LockOwn(p) ==
  /\ AtStep(p, "queued")
  /\ ~poisoned
  /\ locked' = p
  /\ conn' = [conn EXCEPT ![p].step = "length"]
  /\ UNCHANGED <<config, nonce, poisoned>>

Lock(p) ==
  /\ AtStep(p, "queued")
  /\ locked = None
  /\ ~poisoned
  /\ locked' = p
  /\ conn' = [conn EXCEPT ![p].step = "length"]
  /\ UNCHANGED <<config, nonce, poisoned>>

Done(p, result) ==
  /\ conn' = [conn EXCEPT ![p].step = "done", ![p].result = result]
  /\ locked' = IF locked = p THEN None ELSE locked
  /\ UNCHANGED <<config, nonce>>

LockFails(p) ==
  AtStep(p, "queued") /\ locked = None /\ poisoned /\ Done(p, Failed) /\ UNCHANGED poisoned

ReadLength(p) ==
  /\ AtStep(p, "length")
  /\ conn[p].written # "nothing"
  /\ conn' = [conn EXCEPT ![p].step = "data"]
  /\ UNCHANGED <<config, nonce, locked, poisoned>>

(* Mutant: read() instead of read_exact(), which takes what there is.      *)
ReadSomeData(p) ==
  /\ AtStep(p, "data")
  /\ conn[p].written \in {"part", "all"}
  /\ \E result \in nc_decode_data(config[Server], conn[p].data) :
       Done(p, result) /\ poisoned' = (poisoned \/ result = Panicked)

ReadData(p) ==
  /\ AtStep(p, "data")
  /\ conn[p].written = "all"
  /\ \E result \in nc_decode_data(config[Server], conn[p].data) :
       Done(p, result) /\ poisoned' = (poisoned \/ result = Panicked)

(* read_exact(): the stream ends before that many bytes.                   *)
ReadFails(p) ==
  /\ ~ AtStep(p, "done")
  /\ \/ AtStep(p, "length") /\ conn[p].written = "nothing"
     \/ AtStep(p, "data") /\ conn[p].written # "all"
  /\ ~conn[p].open
  /\ Done(p, Failed)
  /\ UNCHANGED poisoned

(* The handler drops the stream, once it has done what the request says.   *)
Drop(p) ==
  /\ AtStep(p, "done")
  /\ conn' = [conn EXCEPT ![p] = None]
  /\ UNCHANGED <<config, nonce, locked, poisoned>>

nc_receive_data(p) == ReadLength(p) \/ ReadData(p) \/ ReadFails(p)

Next ==
  \E p \in Peers :
    \/ Connect(p) \/ Write(p) \/ Close(p)
    \/ Lock(p) \/ LockFails(p) \/ nc_receive_data(p) \/ Drop(p)

Spec == Init /\ [][Next]_vars

-----------------------------------------------------------------------------
(* The two processes are configured alike, as far as it matters.           *)
Agree(p) ==
  /\ config[p].compress = config[Server].compress
  /\ config[p].encrypt = config[Server].encrypt
  /\ config[p].encrypt => config[p].key = config[Server].key

(* Whoever is configured like the server is understood, whatever other     *)
(* peers send: the server has its request, or an error because the stream  *)
(* ended early or the mutex was poisoned (nc_encode_data, nc_decode_data). *)
AgreeingUnderstood ==
  \A p \in Peers :
    AtStep(p, "done") /\ Agree(p) =>
      \/ conn[p].result = conn[p].request
      \/ conn[p].result = Failed /\ (conn[p].written # "all" \/ poisoned)

(* Nothing is made of half a request (read_exact), and only a peer with    *)
(* another configuration can make a handler panic.                         *)
OnlyWholeRequests ==
  /\ \A p \in Peers :
       AtStep(p, "done") /\ conn[p].written # "all" => conn[p].result = Failed
  /\ (\A p \in Peers : Agree(p)) => ~poisoned
=============================================================================
