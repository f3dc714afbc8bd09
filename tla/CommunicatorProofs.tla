------------------------- MODULE CommunicatorProofs --------------------------
(***************************************************************************)
(* What the server makes of the bytes it receives, for any number of peers *)
(* and keys, whatever each process is configured like.                     *)
(*                                                                         *)
(* RoundTrip says that decoding undoes encoding for two processes that are *)
(* configured alike.  To use it when a handler reads, the invariant has to *)
(* say that what is in flight is an encoded request still (Encoded), and   *)
(* that whoever failed will not be written to later (ConnInv).  A step is  *)
(* about one connection, and InvAt says it is enough to look at that one.  *)
(***************************************************************************)
EXTENDS Communicator, TLAPS

(* What is in flight is what the peer's configuration makes of a request.  *)
Encoded(p) ==
  \E n \in 0 .. NonceRange - 1 : conn[p].data = nc_encode_data(config[p], n, conn[p].request)

(* How a connection stands, and how a handler that is done got there.      *)
ConnInv(p) ==
  /\ Encoded(p)
  /\ conn[p].step = "done" =>
       /\ conn[p].written # "all" => conn[p].result = Failed
       /\ Agree(p) =>
            \/ conn[p].result = conn[p].request
            \/ /\ conn[p].result = Failed
               /\ (conn[p].written # "all" /\ ~conn[p].open) \/ poisoned

Inv ==
  /\ TypeOK
  /\ \A p \in Peers : conn[p] # None => ConnInv(p)
  /\ (\A p \in Peers : Agree(p)) => ~poisoned

-----------------------------------------------------------------------------
(* What is encrypted is long enough to hold a nonce.                       *)
LEMMA LengthTyped ==
  ASSUME NEW data \in Data
  PROVE  Length(data) \in Nat /\ (data.cipher # None => Length(data) >= 12)
<1>1. Bytes[data.request] \in Nat
  BY CommunicatorAssumption DEF Data, Bytes
<1> QED BY <1>1 DEF Length

(* The encoder makes Data of a request.                                    *)
LEMMA EncodedTyped ==
  ASSUME NEW c \in NCConfiguration, NEW n \in 0 .. NonceRange - 1, NEW request \in Requests
  PROVE  nc_encode_data(c, n, request) \in Data
BY DEF nc_encode_data, Data, Cipher, NCConfiguration

(* A decoder comes to a request, or to one that is none, or to nothing.    *)
LEMMA DeserializeTyped ==
  ASSUME NEW data \in Data
  PROVE  deserialize(data) \in Requests \cup {"Register", "CheckHeartbeat", Failed}
<1>1. data.compressed \in BOOLEAN /\ data.request \in Requests BY DEF Data
<1> QED BY <1>1 DEF deserialize

(* Decrypting takes the cipher off, fails or panics.                       *)
LEMMA DecryptedTyped ==
  ASSUME NEW c \in NCConfiguration, NEW data \in Data
  PROVE  Decrypted(c, data) \in Data \cup {Failed, Panicked}
<1>1. [data EXCEPT !.cipher = None] \in Data BY DEF Data
<1>2. decrypt_data(c.key, data) \in Data \cup {Failed, Panicked}
  BY <1>1, LengthTyped DEF decrypt_data
<1> QED BY <1>2 DEF Decrypted

(* A block is decompressed, to something of the kind, or it is none.       *)
LEMMA DecompressTyped ==
  ASSUME NEW data \in Data
  PROVE  decompress(data) \subseteq Data \cup {Failed}
BY DEF decompress, Data

(* A decoder comes to a result.                                            *)
LEMMA DecodeTyped ==
  ASSUME NEW c \in NCConfiguration, NEW data \in Data
  PROVE  nc_decode_data(c, data) \subseteq Result
<1> DEFINE Decoded(d) ==
             IF d = Failed THEN Failed
             ELSE LET decrypted == Decrypted(c, d)
                  IN  IF decrypted \in {Failed, Panicked} THEN decrypted
                      ELSE deserialize(decrypted)
           blocks == IF c.compress THEN decompress(data) ELSE {data}
<1>1. blocks \subseteq Data \cup {Failed} BY DecompressTyped
<1>2. ASSUME NEW d \in Data \cup {Failed} PROVE Decoded(d) \in Result
  <2>1. CASE d = Failed BY <2>1 DEF Result
  <2>2. CASE d # Failed
    <3>1. Decrypted(c, d) \in Data \cup {Failed, Panicked} BY <2>2, DecryptedTyped
    <3>2. CASE Decrypted(c, d) \in {Failed, Panicked} BY <2>2, <3>2 DEF Result
    <3>3. CASE Decrypted(c, d) \notin {Failed, Panicked}
      <4>1. deserialize(Decrypted(c, d))
              \in Requests \cup {"Register", "CheckHeartbeat", Failed}
        BY <3>1, <3>3, DeserializeTyped
      <4> QED BY <2>2, <3>3, <4>1 DEF Result
    <3> QED BY <3>2, <3>3
  <2> QED BY <2>1, <2>2
<1>3. nc_decode_data(c, data) = {Decoded(d) : d \in blocks} BY DEF nc_decode_data
<1> HIDE DEF Decoded, blocks
<1> QED BY <1>1, <1>2, <1>3

(* Taking one layer off leaves the rest as it is.                          *)
LEMMA LayerOff ==
  ASSUME NEW request, NEW cipher, NEW compressed, NEW data, NEW no,
         data = [request |-> request, cipher |-> cipher, compressed |-> compressed]
  PROVE  /\ [data EXCEPT !.compressed = no] =
              [request |-> request, cipher |-> cipher, compressed |-> no]
         /\ [data EXCEPT !.cipher = None] =
              [request |-> request, cipher |-> None, compressed |-> compressed]
OBVIOUS

(* Decoding undoes encoding, for two processes that are configured alike.  *)
LEMMA RoundTrip ==
  ASSUME NEW c \in NCConfiguration, NEW d \in NCConfiguration,
         c.compress = d.compress, c.encrypt = d.encrypt, c.encrypt => c.key = d.key,
         NEW n \in 0 .. NonceRange - 1, NEW request \in Requests
  PROVE  nc_decode_data(d, nc_encode_data(c, n, request)) = {request}
<1> DEFINE no == FALSE
           cipher == IF c.encrypt THEN [key |-> c.key, nonce |-> n] ELSE None
           block == [request |-> request, cipher |-> cipher, compressed |-> no]
           plain == [request |-> request, cipher |-> None, compressed |-> no]
           data == nc_encode_data(c, n, request)
<1>1. /\ Failed \notin Data /\ Panicked \notin Data /\ None \notin Cipher
      /\ Failed # Panicked BY CommunicatorAssumption
<1>2. data = [request |-> request, cipher |-> cipher, compressed |-> c.compress]
  BY DEF nc_encode_data
<1>3. cipher \in Cipher \cup {None} BY DEF Cipher, NCConfiguration
<1>4. c.encrypt => cipher # None /\ cipher.key = d.key
  <2>1. [key |-> c.key, nonce |-> n] \in Cipher BY DEF Cipher, NCConfiguration
  <2>2. [key |-> c.key, nonce |-> n] # None BY <1>1, <2>1
  <2>3. [key |-> c.key, nonce |-> n].key = c.key OBVIOUS
  <2> QED BY <2>2, <2>3
<1>5. ~c.encrypt => cipher = None OBVIOUS
<1>6. c.compress \in BOOLEAN /\ d.compress = c.compress BY DEF NCConfiguration
<1> HIDE DEF cipher, data
<1>7. block \in Data /\ plain \in Data BY <1>3 DEF Data
<1>8. (IF d.compress THEN decompress(data) ELSE {data}) = {block}
  <2>1. CASE c.compress
    <3>1. data.compressed BY <1>2, <2>1
    <3>2. [data EXCEPT !.compressed = no] = block
      <4> DEFINE compressed == c.compress
      <4>1. data = [request |-> request, cipher |-> cipher, compressed |-> compressed] BY <1>2
      <4> HIDE DEF no, compressed
      <4> QED BY <4>1, LayerOff
    <3> HIDE DEF block
    <3> QED BY <1>6, <2>1, <3>1, <3>2 DEF decompress
  <2>2. CASE ~c.compress
    <3>1. c.compress = FALSE BY <1>6, <2>2
    <3>2. data = block BY <1>2, <3>1
    <3> HIDE DEF block
    <3> QED BY <1>6, <2>2, <3>2
  <2> QED BY <2>1, <2>2
<1>9. Decrypted(d, block) = plain
  <2>1. CASE c.encrypt
    <3>1. cipher # None /\ cipher.key = d.key BY <1>4, <2>1
    <3>2. Length(block) >= 12 /\ Length(block) \in Nat BY <1>7, <3>1, LengthTyped
    <3>3. [block EXCEPT !.cipher = None] = plain
      <4> HIDE DEF no
      <4> QED BY LayerOff
    <3>4. decrypt_data(d.key, block) = [block EXCEPT !.cipher = None]
      BY <3>1, <3>2 DEF decrypt_data
    <3> HIDE DEF block, plain
    <3> QED BY <2>1, <3>3, <3>4 DEF Decrypted
  <2>2. CASE ~c.encrypt
    <3>1. block = plain BY <1>5, <2>2
    <3> HIDE DEF block, plain
    <3> QED BY <2>2, <3>1 DEF Decrypted
  <2> QED BY <2>1, <2>2
<1>10. deserialize(plain) = request BY DEF deserialize
<1> HIDE DEF block, plain
<1> QED BY <1>1, <1>7, <1>8, <1>9, <1>10 DEF nc_decode_data, data

-----------------------------------------------------------------------------
(* The connections.                                                        *)

(* What a step does to one connection is all it does to connections.       *)
OnlyAt(p) ==
  /\ config' = config
  /\ poisoned => poisoned'
  /\ \A q \in Peers \ {p} : conn'[q] = conn[q]

(* The other connections are what they were.                               *)
LEMMA OthersKept ==
  ASSUME Inv, NEW p \in Peers, OnlyAt(p), NEW q \in Peers, q # p, conn'[q] # None
  PROVE  ConnInv(q)'
<1>1. conn'[q] = conn[q] /\ config' = config /\ (poisoned => poisoned') BY DEF OnlyAt
<1>2. ConnInv(q) BY <1>1 DEF Inv
<1> QED BY <1>1, <1>2 DEF ConnInv, Encoded, Agree

(* It is enough to look at the connection a step is about.                 *)
LEMMA InvAt ==
  ASSUME Inv, NEW p \in Peers, OnlyAt(p), TypeOK',
         conn'[p] # None => ConnInv(p)',
         (\A q \in Peers : Agree(q)) => ~poisoned'
  PROVE  Inv'
<1>1. \A q \in Peers : conn'[q] # None => ConnInv(q)'
  <2> SUFFICES ASSUME NEW q \in Peers, conn'[q] # None PROVE ConnInv(q)' OBVIOUS
  <2>1. CASE q = p BY <2>1
  <2>2. CASE q # p BY <2>2, OthersKept
  <2> QED BY <2>1, <2>2
<1>2. (\A q \in Peers : Agree(q)') => ~poisoned' BY DEF OnlyAt, Agree
<1> QED BY <1>1, <1>2 DEF Inv

(* A handler that neither takes nor releases the mutex.                    *)
LEMMA LockKept ==
  ASSUME TypeOK, NEW p \in Peers, locked' = locked,
         \A q \in Peers \ {p} : conn'[q] = conn[q],
         (AtStep(p, "length") \/ AtStep(p, "data")) <=>
           (AtStep(p, "length") \/ AtStep(p, "data"))'
  PROVE  \A q \in Peers : locked' = q <=> (AtStep(q, "length") \/ AtStep(q, "data"))'
<1> SUFFICES ASSUME NEW q \in Peers
             PROVE  locked' = q <=> (AtStep(q, "length") \/ AtStep(q, "data"))' OBVIOUS
<1>1. CASE q = p BY <1>1 DEF TypeOK
<1>2. CASE q # p BY <1>2 DEF TypeOK, AtStep
<1> QED BY <1>1, <1>2

(* At the start there is no connection.                                    *)
LEMMA InvInit == Init => Inv
<1> SUFFICES ASSUME Init PROVE Inv OBVIOUS
<1>1. \A p \in Peers : conn[p] = None BY DEF Init
<1>2. TypeOK
  <2>1. nonce \in [Peers -> 0 .. NonceRange - 1] BY CommunicatorAssumption DEF Init
  <2>2. \A p \in Peers : locked = p <=> AtStep(p, "length") \/ AtStep(p, "data")
    BY <1>1, CommunicatorAssumption DEF Init, AtStep
  <2> QED BY <2>1, <2>2 DEF Init, TypeOK
<1> QED BY <1>1, <1>2 DEF Init, Inv

(* A new connection holds an encoded request.                              *)
LEMMA ConnectKeeps == ASSUME Inv, NEW p \in Peers, Connect(p) PROVE Inv'
<1>1. PICK request \in Requests :
        conn' = [conn EXCEPT ![p] =
          [request |-> request, data |-> nc_encode_data(config[p], nonce[p], request),
           written |-> "nothing", open |-> TRUE, step |-> "queued", result |-> None]]
  BY DEF Connect
<1>2. /\ conn[p] = None /\ config' = config /\ locked' = locked /\ poisoned' = poisoned
      /\ nonce' = [nonce EXCEPT ![p] = IF config[p].encrypt THEN (@ + 1) % NonceRange ELSE @]
  BY DEF Connect
<1>3. /\ config[p] \in NCConfiguration /\ nonce[p] \in 0 .. NonceRange - 1
      /\ NonceRange \in Nat \ {0} BY CommunicatorAssumption DEF Inv, TypeOK
<1> DEFINE data == nc_encode_data(config[p], nonce[p], request)
           new == [request |-> request, data |-> data, written |-> "nothing",
                   open |-> TRUE, step |-> "queued", result |-> None]
<1>4. data \in Data BY <1>3, EncodedTyped
<1> HIDE DEF data
<1>5. new \in Conn BY <1>4 DEF Conn
<1>6. conn' = [conn EXCEPT ![p] = new] BY <1>1 DEF data
<1>7. conn \in [Peers -> Conn \cup {None}] BY DEF Inv, TypeOK
<1>8. conn'[p] = new /\ conn' \in [Peers -> Conn \cup {None}]
  <2> HIDE DEF new
  <2> QED BY <1>5, <1>6, <1>7
<1>9. \A q \in Peers \ {p} : conn'[q] = conn[q] BY <1>6, <1>7
<1>10. nonce' \in [Peers -> 0 .. NonceRange - 1]
  <2>1. (nonce[p] + 1) % NonceRange \in 0 .. NonceRange - 1 BY <1>3
  <2> QED BY <1>2, <2>1 DEF Inv, TypeOK
<1>11. TypeOK'
  <2>1. ~ AtStep(p, "length") /\ ~ AtStep(p, "data") BY <1>2 DEF AtStep
  <2>2. ~ AtStep(p, "length")' /\ ~ AtStep(p, "data")' BY <1>8 DEF AtStep
  <2>3. \A q \in Peers : locked' = q <=> (AtStep(q, "length") \/ AtStep(q, "data"))'
    BY <1>2, <1>9, <2>1, <2>2, LockKept DEF Inv
  <2> QED BY <1>2, <1>8, <1>10, <2>3 DEF Inv, TypeOK
<1>12. ConnInv(p)'
  <2>1. Encoded(p)' BY <1>2, <1>3, <1>8 DEF Encoded, data
  <2> QED BY <1>8, <2>1 DEF ConnInv
<1> QED BY <1>2, <1>9, <1>11, <1>12, InvAt DEF OnlyAt, Inv

(* Fields of a connection that a step replaces.                            *)
LEMMA ConnFields ==
  ASSUME NEW c \in Conn
  PROVE  /\ \A w \in {"nothing", "length", "part", "all"} : [c EXCEPT !.written = w] \in Conn
         /\ \A o \in BOOLEAN : [c EXCEPT !.open = o] \in Conn
         /\ \A s \in {"queued", "length", "data", "done"} : [c EXCEPT !.step = s] \in Conn
         /\ \A r \in Result : [c EXCEPT !.step = "done", !.result = r] \in Conn
<1>1. ASSUME NEW w \in {"nothing", "length", "part", "all"}
      PROVE  [c EXCEPT !.written = w] \in Conn BY DEF Conn
<1>2. ASSUME NEW o \in BOOLEAN PROVE [c EXCEPT !.open = o] \in Conn BY DEF Conn
<1>3. ASSUME NEW s \in {"queued", "length", "data", "done"}
      PROVE  [c EXCEPT !.step = s] \in Conn BY DEF Conn
<1>4. ASSUME NEW r \in Result PROVE [c EXCEPT !.step = "done", !.result = r] \in Conn
  BY DEF Conn
<1> QED BY <1>1, <1>2, <1>3, <1>4

(* More bytes are written while the peer has not closed the connection.    *)
LEMMA WriteKeeps == ASSUME Inv, NEW p \in Peers, Write(p) PROVE Inv'
<1> DEFINE c == conn[p]
           new == [c EXCEPT !.written = After[c.written]]
<1>1. /\ c # None /\ c.open /\ c.written # "all" /\ conn' = [conn EXCEPT ![p] = new]
      /\ config' = config /\ nonce' = nonce /\ locked' = locked /\ poisoned' = poisoned
  BY DEF Write
<1>2. conn \in [Peers -> Conn \cup {None}] /\ c \in Conn BY <1>1 DEF Inv, TypeOK
<1>3. After[c.written] \in {"nothing", "length", "part", "all"} BY <1>1, <1>2 DEF Conn, After
<1>4. new \in Conn BY <1>2, <1>3, ConnFields
<1>5. /\ new.request = c.request /\ new.data = c.data /\ new.open = c.open
      /\ new.step = c.step /\ new.result = c.result BY <1>2 DEF Conn
<1>6. conn'[p] = new /\ conn' \in [Peers -> Conn \cup {None}] /\ new # None
  <2> HIDE DEF new
  <2> QED BY <1>1, <1>2, <1>4, CommunicatorAssumption
<1>7. \A q \in Peers \ {p} : conn'[q] = conn[q] BY <1>1, <1>2
<1> HIDE DEF new
<1>8. TypeOK'
  <2>1. \A q \in Peers : locked' = q <=> (AtStep(q, "length") \/ AtStep(q, "data"))'
    BY <1>1, <1>5, <1>6, <1>7, LockKept DEF Inv, AtStep
  <2> QED BY <1>1, <1>6, <2>1 DEF Inv, TypeOK
<1>9. ConnInv(p)'
  <2>1. ConnInv(p) BY <1>1 DEF Inv
  <2>2. Encoded(p)' BY <1>1, <1>5, <1>6, <2>1 DEF ConnInv, Encoded
  <2>3. Agree(p)' <=> Agree(p) BY <1>1 DEF Agree
  <2> QED BY <1>1, <1>5, <1>6, <2>1, <2>2, <2>3 DEF ConnInv
<1> QED BY <1>1, <1>7, <1>8, <1>9, InvAt DEF OnlyAt, Inv

(* A peer that closes does not change what it has written.                 *)
LEMMA CloseKeeps == ASSUME Inv, NEW p \in Peers, Close(p) PROVE Inv'
<1> DEFINE c == conn[p]
           closed == FALSE
           new == [c EXCEPT !.open = closed]
<1>1. /\ c # None /\ conn' = [conn EXCEPT ![p] = new]
      /\ config' = config /\ nonce' = nonce /\ locked' = locked /\ poisoned' = poisoned
  BY DEF Close
<1>2. conn \in [Peers -> Conn \cup {None}] /\ c \in Conn BY <1>1 DEF Inv, TypeOK
<1>3. closed \in BOOLEAN /\ ~closed OBVIOUS
<1> HIDE DEF closed
<1>4. new \in Conn BY <1>2, <1>3, ConnFields
<1>5. /\ new.request = c.request /\ new.data = c.data /\ new.open = closed
      /\ new.step = c.step /\ new.result = c.result /\ new.written = c.written
  BY <1>2 DEF Conn
<1>6. conn'[p] = new /\ conn' \in [Peers -> Conn \cup {None}] /\ new # None
  <2> HIDE DEF new
  <2> QED BY <1>1, <1>2, <1>4, CommunicatorAssumption
<1>7. \A q \in Peers \ {p} : conn'[q] = conn[q] BY <1>1, <1>2
<1> HIDE DEF new
<1>8. TypeOK'
  <2>1. \A q \in Peers : locked' = q <=> (AtStep(q, "length") \/ AtStep(q, "data"))'
    BY <1>1, <1>5, <1>6, <1>7, LockKept DEF Inv, AtStep
  <2> QED BY <1>1, <1>6, <2>1 DEF Inv, TypeOK
<1>9. ConnInv(p)'
  <2>1. ConnInv(p) BY <1>1 DEF Inv
  <2>2. Encoded(p)' BY <1>1, <1>5, <1>6, <2>1 DEF ConnInv, Encoded
  <2>3. Agree(p)' <=> Agree(p) BY <1>1 DEF Agree
  <2> QED BY <1>1, <1>3, <1>5, <1>6, <2>1, <2>2, <2>3 DEF ConnInv
<1> QED BY <1>1, <1>7, <1>8, <1>9, InvAt DEF OnlyAt, Inv

(* The mutex is taken when nobody has it, so nobody else is reading.       *)
LEMMA LockKeeps == ASSUME Inv, NEW p \in Peers, Lock(p) PROVE Inv'
<1> DEFINE c == conn[p]
           new == [c EXCEPT !.step = "length"]
<1>1. /\ c # None /\ c.step = "queued" /\ locked = None /\ locked' = p
      /\ conn' = [conn EXCEPT ![p] = new]
      /\ config' = config /\ nonce' = nonce /\ poisoned' = poisoned
  BY DEF Lock, AtStep
<1>2. conn \in [Peers -> Conn \cup {None}] /\ c \in Conn BY <1>1 DEF Inv, TypeOK
<1>3. new \in Conn BY <1>2, ConnFields
<1>4. /\ new.request = c.request /\ new.data = c.data /\ new.step = "length"
  BY <1>2 DEF Conn
<1>5. conn'[p] = new /\ conn' \in [Peers -> Conn \cup {None}] /\ new # None
  <2> HIDE DEF new
  <2> QED BY <1>1, <1>2, <1>3, CommunicatorAssumption
<1>6. \A q \in Peers \ {p} : conn'[q] = conn[q] BY <1>1, <1>2
<1> HIDE DEF new
<1>7. TypeOK'
  <2>1. \A q \in Peers : ~ AtStep(q, "length") /\ ~ AtStep(q, "data")
    BY <1>1, CommunicatorAssumption DEF Inv, TypeOK
  <2>2. \A q \in Peers \ {p} : ~ AtStep(q, "length")' /\ ~ AtStep(q, "data")'
    BY <1>6, <2>1 DEF AtStep
  <2>3. AtStep(p, "length")' BY <1>4, <1>5 DEF AtStep
  <2> QED BY <1>1, <1>5, <2>2, <2>3 DEF Inv, TypeOK
<1>8. ConnInv(p)'
  <2>1. ConnInv(p) BY <1>1 DEF Inv
  <2>2. Encoded(p)' BY <1>1, <1>4, <1>5, <2>1 DEF ConnInv, Encoded
  <2> QED BY <1>4, <1>5, <2>2 DEF ConnInv
<1> QED BY <1>1, <1>6, <1>7, <1>8, InvAt DEF OnlyAt, Inv

(* The mutex stays with the handler that reads.                            *)
LEMMA ReadLengthKeeps == ASSUME Inv, NEW p \in Peers, ReadLength(p) PROVE Inv'
<1> DEFINE c == conn[p]
           new == [c EXCEPT !.step = "data"]
<1>1. /\ c # None /\ c.step = "length"
      /\ conn' = [conn EXCEPT ![p] = new]
      /\ config' = config /\ nonce' = nonce /\ locked' = locked /\ poisoned' = poisoned
  BY DEF ReadLength, AtStep
<1>2. conn \in [Peers -> Conn \cup {None}] /\ c \in Conn BY <1>1 DEF Inv, TypeOK
<1>3. new \in Conn BY <1>2, ConnFields
<1>4. /\ new.request = c.request /\ new.data = c.data /\ new.step = "data"
  BY <1>2 DEF Conn
<1>5. conn'[p] = new /\ conn' \in [Peers -> Conn \cup {None}] /\ new # None
  <2> HIDE DEF new
  <2> QED BY <1>1, <1>2, <1>3, CommunicatorAssumption
<1>6. \A q \in Peers \ {p} : conn'[q] = conn[q] BY <1>1, <1>2
<1> HIDE DEF new
<1>7. TypeOK'
  <2>1. AtStep(p, "length") /\ AtStep(p, "data")' BY <1>1, <1>4, <1>5 DEF AtStep
  <2>2. \A q \in Peers : locked' = q <=> (AtStep(q, "length") \/ AtStep(q, "data"))'
    BY <1>1, <1>6, <2>1, LockKept DEF Inv
  <2> QED BY <1>1, <1>5, <2>2 DEF Inv, TypeOK
<1>8. ConnInv(p)'
  <2>1. ConnInv(p) BY <1>1 DEF Inv
  <2>2. Encoded(p)' BY <1>1, <1>4, <1>5, <2>1 DEF ConnInv, Encoded
  <2> QED BY <1>4, <1>5, <2>2 DEF ConnInv
<1> QED BY <1>1, <1>6, <1>7, <1>8, InvAt DEF OnlyAt, Inv

(* A handler that is done has let go of the mutex, if it had it.           *)
LEMMA DoneTyped ==
  ASSUME TypeOK, NEW p \in Peers, conn[p] # None, ~ AtStep(p, "done"),
         NEW r \in Result, Done(p, r), poisoned' \in BOOLEAN
  PROVE  /\ TypeOK'
         /\ \A q \in Peers \ {p} : conn'[q] = conn[q]
         /\ conn'[p] # None /\ conn'[p].step = "done" /\ conn'[p].result = r
         /\ conn'[p].request = conn[p].request /\ conn'[p].data = conn[p].data
         /\ conn'[p].written = conn[p].written /\ conn'[p].open = conn[p].open
<1> DEFINE c == conn[p]
           new == [c EXCEPT !.step = "done", !.result = r]
<1>1. /\ conn' = [conn EXCEPT ![p] = new]
      /\ locked' = IF locked = p THEN None ELSE locked
      /\ config' = config /\ nonce' = nonce
  BY DEF Done, TypeOK
<1>2. conn \in [Peers -> Conn \cup {None}] /\ c \in Conn BY DEF TypeOK
<1>3. new \in Conn BY <1>2, ConnFields
<1>4. /\ new.request = c.request /\ new.data = c.data /\ new.step = "done"
      /\ new.result = r /\ new.written = c.written /\ new.open = c.open
  BY <1>2 DEF Conn
<1>5. conn'[p] = new /\ conn' \in [Peers -> Conn \cup {None}] /\ new # None
  <2> HIDE DEF new
  <2> QED BY <1>1, <1>2, <1>3, CommunicatorAssumption
<1>6. \A q \in Peers \ {p} : conn'[q] = conn[q] BY <1>1, <1>2
<1> HIDE DEF new
<1>7. \A q \in Peers : locked' = q <=> (AtStep(q, "length") \/ AtStep(q, "data"))'
  <2> SUFFICES ASSUME NEW q \in Peers
               PROVE  locked' = q <=> (AtStep(q, "length") \/ AtStep(q, "data"))' OBVIOUS
  <2>1. CASE q = p
    <3>1. ~ AtStep(p, "length")' /\ ~ AtStep(p, "data")' BY <1>4, <1>5 DEF AtStep
    <3>2. locked' # p BY <1>1, CommunicatorAssumption
    <3> QED BY <2>1, <3>1, <3>2
  <2>2. CASE q # p
    <3>1. (AtStep(q, "length") \/ AtStep(q, "data"))' <=> AtStep(q, "length") \/ AtStep(q, "data")
      BY <1>6, <2>2 DEF AtStep
    <3>2. locked' = q <=> locked = q BY <1>1, <2>2, CommunicatorAssumption
    <3> QED BY <3>1, <3>2 DEF TypeOK
  <2> QED BY <2>1, <2>2
<1>8. TypeOK' BY <1>1, <1>5, <1>7 DEF TypeOK
<1> QED BY <1>4, <1>5, <1>6, <1>8

(* A handler that gives up has not seen a whole request, or had no mutex.  *)
LEMMA FailureKeeps ==
  ASSUME Inv, NEW p \in Peers, conn[p] # None, ~ AtStep(p, "done"),
         Done(p, Failed), poisoned' = poisoned,
         poisoned \/ (conn[p].written # "all" /\ ~conn[p].open)
  PROVE  Inv'
<1>1. Failed \in Result BY DEF Result
<1>2. /\ TypeOK'
      /\ \A q \in Peers \ {p} : conn'[q] = conn[q]
      /\ conn'[p] # None /\ conn'[p].step = "done" /\ conn'[p].result = Failed
      /\ conn'[p].request = conn[p].request /\ conn'[p].data = conn[p].data
      /\ conn'[p].written = conn[p].written /\ conn'[p].open = conn[p].open
  BY <1>1, DoneTyped DEF Inv, TypeOK
<1>3. config' = config BY DEF Done
<1>4. Encoded(p)' BY <1>2, <1>3 DEF Inv, ConnInv, Encoded
<1>5. ConnInv(p)' BY <1>2, <1>4 DEF ConnInv
<1> QED BY <1>2, <1>3, <1>5, InvAt DEF OnlyAt, Inv

(* A poisoned mutex fails every handler, and it stays poisoned.            *)
LEMMA LockFailsKeeps == ASSUME Inv, NEW p \in Peers, LockFails(p) PROVE Inv'
BY FailureKeeps DEF LockFails, AtStep

(* The stream has ended, so nothing more will be written.                  *)
LEMMA ReadFailsKeeps == ASSUME Inv, NEW p \in Peers, ReadFails(p) PROVE Inv'
BY FailureKeeps DEF ReadFails, AtStep

(* Whoever agrees with the server is decoded to what it sent.              *)
LEMMA ReadDataKeeps == ASSUME Inv, NEW p \in Peers, ReadData(p) PROVE Inv'
<1>1. PICK r \in nc_decode_data(config[Server], conn[p].data) :
        Done(p, r) /\ poisoned' = (poisoned \/ r = Panicked) BY DEF ReadData
<1>2. /\ conn[p] # None /\ conn[p].step = "data" /\ conn[p].written = "all"
      /\ ~ AtStep(p, "done") BY DEF ReadData, AtStep
<1>3. /\ conn[p] \in Conn /\ config[p] \in NCConfiguration /\ config[Server] \in NCConfiguration
      /\ poisoned \in BOOLEAN BY <1>2 DEF Inv, TypeOK
<1>4. conn[p].data \in Data /\ conn[p].request \in Requests BY <1>3 DEF Conn
<1>5. r \in Result BY <1>3, <1>4, DecodeTyped
<1>6. poisoned' \in BOOLEAN BY <1>1, <1>3
<1>7. /\ TypeOK'
      /\ \A q \in Peers \ {p} : conn'[q] = conn[q]
      /\ conn'[p] # None /\ conn'[p].step = "done" /\ conn'[p].result = r
      /\ conn'[p].request = conn[p].request /\ conn'[p].data = conn[p].data
      /\ conn'[p].written = conn[p].written /\ conn'[p].open = conn[p].open
  BY <1>1, <1>2, <1>5, <1>6, DoneTyped DEF Inv
<1>8. config' = config BY <1>1 DEF Done
<1>9. Agree(p) => r = conn[p].request /\ r # Panicked
  <2>1. SUFFICES ASSUME Agree(p) PROVE r = conn[p].request /\ r # Panicked OBVIOUS
  <2>2. PICK n \in 0 .. NonceRange - 1 :
          conn[p].data = nc_encode_data(config[p], n, conn[p].request)
    BY <1>2 DEF Inv, ConnInv, Encoded
  <2>3. nc_decode_data(config[Server], conn[p].data) = {conn[p].request}
    BY <1>3, <1>4, <2>1, <2>2, RoundTrip DEF Agree
  <2> QED BY <1>4, <2>3, CommunicatorAssumption
<1>10. Encoded(p)' BY <1>2, <1>7, <1>8 DEF Inv, ConnInv, Encoded
<1>11. Agree(p)' <=> Agree(p) BY <1>8 DEF Agree
<1>12. ConnInv(p)' BY <1>2, <1>7, <1>9, <1>10, <1>11 DEF ConnInv
<1>13. (\A q \in Peers : Agree(q)) => ~poisoned' BY <1>1, <1>9 DEF Inv
<1>14. OnlyAt(p) BY <1>1, <1>7, <1>8 DEF OnlyAt
<1> QED BY <1>7, <1>12, <1>13, <1>14, InvAt

(* A connection that is dropped is gone.                                   *)
LEMMA DropKeeps == ASSUME Inv, NEW p \in Peers, Drop(p) PROVE Inv'
<1>1. /\ AtStep(p, "done") /\ conn' = [conn EXCEPT ![p] = None]
      /\ config' = config /\ nonce' = nonce /\ locked' = locked /\ poisoned' = poisoned
  BY DEF Drop
<1>2. conn \in [Peers -> Conn \cup {None}] BY DEF Inv, TypeOK
<1>3. conn'[p] = None /\ conn' \in [Peers -> Conn \cup {None}] BY <1>1, <1>2
<1>4. \A q \in Peers \ {p} : conn'[q] = conn[q] BY <1>1, <1>2
<1>5. ~ AtStep(p, "length") /\ ~ AtStep(p, "data") BY <1>1 DEF AtStep
<1>6. ~ AtStep(p, "length")' /\ ~ AtStep(p, "data")' BY <1>3 DEF AtStep
<1>7. \A q \in Peers : locked' = q <=> (AtStep(q, "length") \/ AtStep(q, "data"))'
  BY <1>1, <1>4, <1>5, <1>6, LockKept DEF Inv
<1>8. TypeOK' BY <1>1, <1>3, <1>7 DEF Inv, TypeOK
<1> QED BY <1>1, <1>3, <1>4, <1>8, InvAt DEF OnlyAt, Inv

-----------------------------------------------------------------------------
(* What is said of connections, mutex and configurations in Inv holds in   *)
(* every state of nc_receive_data()'s handlers.                            *)
THEOREM Invariant == Spec => []Inv
<1>1. Init => Inv BY InvInit
<1>2. Inv /\ [Next]_vars => Inv'
  <2> SUFFICES ASSUME Inv, [Next]_vars PROVE Inv' OBVIOUS
  <2>1. CASE UNCHANGED vars
    BY <2>1 DEF vars, Inv, TypeOK, AtStep, ConnInv, Encoded, Agree
  <2>2. CASE Next
    <3>1. PICK p \in Peers :
            \/ Connect(p) \/ Write(p) \/ Close(p)
            \/ Lock(p) \/ LockFails(p) \/ nc_receive_data(p) \/ Drop(p)
      BY <2>2 DEF Next
    <3> QED
      BY <3>1, ConnectKeeps, WriteKeeps, CloseKeeps, LockKeeps, LockFailsKeeps,
         ReadLengthKeeps, ReadDataKeeps, ReadFailsKeeps, DropKeeps DEF nc_receive_data
  <2> QED BY <2>1, <2>2
<1> QED BY <1>1, <1>2, PTL DEF Spec

(* The types, and the mutex of the server's communicator: whoever reads    *)
(* from a stream holds it.                                                 *)
THEOREM TypeCorrect == Spec => []TypeOK
<1>1. Inv => TypeOK BY DEF Inv
<1> QED BY <1>1, Invariant, PTL

(* Whoever is configured like the server is understood or gets an error,   *)
(* whatever others send (nc_encode_data, nc_decode_data).                  *)
THEOREM AgreeingAreUnderstood == Spec => []AgreeingUnderstood
<1>1. Inv => AgreeingUnderstood
  BY DEF Inv, ConnInv, AgreeingUnderstood, AtStep
<1> QED BY <1>1, Invariant, PTL

(* Nothing is made of half a request, and handlers panic only when some    *)
(* peer is configured differently (read_exact, decrypt_data).              *)
THEOREM RequestsAreWhole == Spec => []OnlyWholeRequests
<1>1. Inv => OnlyWholeRequests BY DEF Inv, ConnInv, OnlyWholeRequests, AtStep
<1> QED BY <1>1, Invariant, PTL
====
