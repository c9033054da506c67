--------------------------- MODULE ConnectionProofs ---------------------------
(***************************************************************************)
(* Packets arrive whole, in order and decrypted in the right state, for    *)
(* packets, buffers and portions of any length.                            *)
(*                                                                         *)
(* What one end has encoded and its peer has not yet cut into packets is   *)
(* one sequence of bytes, spread over two buffers and the socket.  The     *)
(* invariant says where in it each packet begins, and in which state of    *)
(* the cipher it was encrypted.                                            *)
(***************************************************************************)
EXTENDS Connection, SequenceTheorems, TLAPS

(* The bytes on their way from e's send_packet to its peer's parser.       *)
Transit(e) == (conn[Peer(e)].received \o wire[e]) \o conn[e].send_buffer

(* Only the key is sent in plain.                                          *)
InPlain(e, n) == e = "server" /\ n = 1

(* Byte k of e's n-th packet, encrypted after count other bytes.           *)
ByteOf(e, n, k, count) ==
    [pkt |-> n, at |-> k,
     as |-> IF ~InPlain(e, n) /\ k > Header THEN count + k - Header ELSE 0]

(* count[n] bytes are encrypted before e's n-th packet is.                 *)
Counts(e, packets, count) ==
    /\ count[1] = 0
    /\ \A n \in 1..Len(packets) :
         count[n + 1] = count[n] + IF InPlain(e, n) THEN 0 ELSE packets[n].len - Header

(* start[n] bytes are sent before e's n-th packet is.  Those in transit    *)
(* begin with the first packet that its peer has not returned.             *)
Layout(e, packets, returned, bytes, start, count) ==
    /\ \A n \in 1..Len(packets) : start[n + 1] = start[n] + packets[n].len
    /\ \A m, n \in 1..Len(packets) + 1 : m <= n => start[m] <= start[n]
    /\ start[Len(packets) + 1] = start[returned + 1] + Len(bytes)
    /\ \A n \in returned + 1 .. Len(packets) : \A k \in 1 .. packets[n].len :
         bytes[start[n] - start[returned + 1] + k] = ByteOf(e, n, k, count[n])

(* The sender has encrypted all of them, the receiver decrypted those it   *)
(* has returned.                                                           *)
Stream(e) ==
    \E start, count \in [1..Len(sent[e]) + 1 -> Nat] :
        /\ Counts(e, sent[e], count)
        /\ count[Len(sent[e]) + 1] = conn[e].cipher.encrypted
        /\ ~conn[Peer(e)].disconnected =>
             count[Len(got[Peer(e)]) + 1] = conn[Peer(e)].cipher.decrypted
        /\ Layout(e, sent[e], Len(got[Peer(e)]), Transit(e), start, count)

(* The server is ready once it has sent the key, the client once it got it.*)
Handshake ==
    /\ \A e \in Ends :
         /\ conn[e].cipher.xor <=> conn[e].ready
         /\ ~conn[e].ready => /\ conn[e].cipher.encrypted = 0
                              /\ conn[e].cipher.decrypted = 0
                              /\ sent[e] = <<>>
    /\ conn["server"].ready <=> sent["server"] # <<>>
    /\ conn["client"].ready <=> got["client"] # <<>>

(* There is room to read into, and only a live connection is polled.       *)
Buffers ==
    \A e \in Ends :
        /\ \A n \in 1..Len(sent[e]) : sent[e][n].len >= Header
        /\ conn[e].poll \in {"parse", "read"} => conn[e].size >= Chunk
        /\ conn[e].poll = "read" => Len(conn[e].received) < conn[e].size
        /\ conn[e].disconnected => conn[e].poll = "idle"
        /\ e = "server" /\ conn[e].poll # "idle" => conn[e].ready

Inv ==
    /\ TypeOK
    /\ PacketsInOrder
    /\ NoFalseEnd
    /\ Handshake
    /\ Buffers
    /\ \A e \in Ends : Stream(e)

-----------------------------------------------------------------------------
(* There are two ends.                                                     *)
LEMMA PeerFact ==
    \A e \in Ends : /\ Peer(e) \in Ends /\ Peer(Peer(e)) = e /\ Peer(e) # e
                    /\ \A f \in Ends : f = e \/ f = Peer(e)
  BY DEF Ends, Peer

(* Nobody is sending before the first step.                                *)
LEMMA InitInv == Init => Inv
  <1> SUFFICES ASSUME Init PROVE Inv
    OBVIOUS
  <1> USE ConnectionAssumption
  <1>1. \A e \in Ends : /\ conn[e] = [ ready |-> FALSE, cipher |-> Plain, send_buffer |-> <<>>,
                                       received |-> <<>>, size |-> 0, disconnected |-> FALSE,
                                       poll |-> "idle" ]
                        /\ wire[e] = <<>> /\ ~closed[e] /\ sent[e] = <<>> /\ got[e] = <<>>
    BY DEF Init
  <1>2. TypeOK
    <2>1. Plain \in Cipher
      BY DEF Plain, Cipher
    <2>2. <<>> \in Seq(Byte) /\ <<>> \in Seq(Packet) /\ Len(<<>>) = 0
      OBVIOUS
    <2>3. conn \in [Ends -> ConnectionRecord]
      BY <2>1, <2>2 DEF Init, ConnectionRecord
    <2>4. \A e \in Ends : Len(conn[e].received) <= conn[e].size
      BY <1>1, <2>2
    <2> QED BY <2>2, <2>3, <2>4 DEF TypeOK, Init
  <1>3. ASSUME NEW e \in Ends PROVE Stream(e)
    <2> DEFINE one == [n \in 1..Len(sent[e]) + 1 |-> 0]
    <2>1. one \in [1..Len(sent[e]) + 1 -> Nat] /\ Len(sent[e]) = 0 /\ one[1] = 0
      BY <1>1
    <2>a. conn[Peer(e)].received = <<>> /\ wire[e] = <<>> /\ conn[e].send_buffer = <<>>
      BY <1>1, PeerFact
    <2>b. <<>> \o <<>> = <<>>
      BY ConcatEmptySeq, EmptySeq
    <2>2. Transit(e) = <<>> /\ Len(Transit(e)) = 0
      BY <2>a, <2>b DEF Transit
    <2>3. /\ Counts(e, sent[e], one)
          /\ one[Len(sent[e]) + 1] = conn[e].cipher.encrypted
          /\ one[Len(got[Peer(e)]) + 1] = conn[Peer(e)].cipher.decrypted
      BY <1>1, <2>1, PeerFact DEF Counts, Plain
    <2>4. Layout(e, sent[e], Len(got[Peer(e)]), Transit(e), one, one)
      BY <1>1, <2>1, <2>2, PeerFact DEF Layout
    <2> QED BY <2>1, <2>3, <2>4 DEF Stream
  <1>4. PacketsInOrder /\ NoFalseEnd /\ Handshake /\ Buffers
    BY <1>1, PeerFact DEF PacketsInOrder, NoFalseEnd, Handshake, Buffers, Plain, Ends
  <1> QED BY <1>2, <1>3, <1>4 DEF Inv

-----------------------------------------------------------------------------
(* The bytes in transit.                                                   *)

(* A record of a Connection has the types of its fields.                   *)
LEMMA FieldTypes ==
    ASSUME TypeOK, NEW e \in Ends
    PROVE  /\ conn[e] \in ConnectionRecord
           /\ conn[e].ready \in BOOLEAN /\ conn[e].disconnected \in BOOLEAN
           /\ conn[e].cipher \in Cipher
           /\ conn[e].cipher.xor \in BOOLEAN
           /\ conn[e].cipher.encrypted \in Nat /\ conn[e].cipher.decrypted \in Nat
           /\ conn[e].received \in Seq(Byte) /\ conn[e].send_buffer \in Seq(Byte)
           /\ wire[e] \in Seq(Byte)
           /\ conn[e].size \in Nat /\ Len(conn[e].received) <= conn[e].size
           /\ conn[e].poll \in {"idle", "write", "parse", "read"}
           /\ closed[e] \in BOOLEAN
           /\ sent[e] \in Seq(Packet) /\ got[e] \in Seq(Packet)
  <1>1. conn[e] \in ConnectionRecord /\ Len(conn[e].received) <= conn[e].size
    BY DEF TypeOK
  <1>2. conn[e].cipher \in Cipher
    BY <1>1 DEF ConnectionRecord
  <1> QED BY <1>1, <1>2 DEF TypeOK, ConnectionRecord, Cipher

LEMMA Regroup == \A x, y, z \in Seq(Byte) : x \o (y \o z) = (x \o y) \o z
  BY ConcatAssociative

(* What has been received comes first.                                     *)
LEMMA TransitFact ==
    ASSUME TypeOK, NEW e \in Ends
    PROVE  /\ Transit(e) \in Seq(Byte)
           /\ Len(Transit(e)) \in Nat
           /\ Len(conn[Peer(e)].received) \in Nat
           /\ Len(conn[Peer(e)].received) <= Len(Transit(e))
           /\ \A i \in 1..Len(conn[Peer(e)].received) :
                Transit(e)[i] = conn[Peer(e)].received[i]
  <1> DEFINE r == conn[Peer(e)].received
             w == wire[e]
             b == conn[e].send_buffer
  <1>1. r \in Seq(Byte) /\ w \in Seq(Byte) /\ b \in Seq(Byte)
    BY FieldTypes, PeerFact
  <1>2. Transit(e) = (r \o w) \o b
    BY DEF Transit
  <1> HIDE DEF r, w, b
  <1>3. Len(r) \in Nat /\ Len(w) \in Nat /\ Len(b) \in Nat
    BY <1>1, LenProperties
  <1>4. /\ r \o w \in Seq(Byte) /\ Len(r \o w) = Len(r) + Len(w)
        /\ \A i \in 1..Len(r) + Len(w) : (r \o w)[i] = IF i <= Len(r) THEN r[i] ELSE w[i - Len(r)]
    BY <1>1, ConcatProperties
  <1> DEFINE rw == r \o w
  <1> HIDE DEF rw
  <1>5. /\ rw \o b \in Seq(Byte) /\ Len(rw \o b) = Len(rw) + Len(b)
        /\ \A i \in 1..Len(rw) + Len(b) : (rw \o b)[i] = IF i <= Len(rw) THEN rw[i] ELSE b[i - Len(rw)]
    BY <1>1, <1>4, ConcatProperties DEF rw
  <1>6. \A i \in 1..Len(r) : (rw \o b)[i] = r[i]
    BY <1>3, <1>4, <1>5 DEF rw
  <1> QED BY <1>2, <1>3, <1>4, <1>5, <1>6 DEF rw, r

(* A step that moves no packet keeps where the packets are.                *)
LEMMA StreamStays ==
    ASSUME NEW e \in Ends, Stream(e),
           sent'[e] = sent[e], got'[Peer(e)] = got[Peer(e)],
           Transit(e)' = Transit(e),
           conn'[e].cipher.encrypted = conn[e].cipher.encrypted,
           ~conn'[Peer(e)].disconnected =>
             /\ ~conn[Peer(e)].disconnected
             /\ conn'[Peer(e)].cipher.decrypted = conn[Peer(e)].cipher.decrypted
    PROVE  Stream(e)'
  BY DEF Stream

(* Cutting a sequence anywhere and joining the parts.                      *)
LEMMA CutAnywhere ==
    ASSUME NEW S, NEW s \in Seq(S), NEW n \in 0..Len(s)
    PROVE  /\ SubSeq(s, 1, n) \in Seq(S) /\ SubSeq(s, n + 1, Len(s)) \in Seq(S)
           /\ SubSeq(s, 1, n) \o SubSeq(s, n + 1, Len(s)) = s
           /\ Len(SubSeq(s, 1, n)) = n /\ Len(SubSeq(s, n + 1, Len(s))) = Len(s) - n
  <1>1. Len(s) \in Nat /\ \A i \in 1..Len(s) : s[i] \in S
    BY LenProperties, ElementOfSeq
  <1>2. /\ SubSeq(s, 1, n) \in Seq(S)
        /\ Len(SubSeq(s, 1, n)) = n
    BY <1>1, SubSeqProperties
  <1>3. /\ SubSeq(s, n + 1, Len(s)) \in Seq(S)
        /\ Len(SubSeq(s, n + 1, Len(s))) = Len(s) - n
    BY <1>1, SubSeqProperties
  <1>4. SubSeq(s, 1, n) \o SubSeq(s, n + 1, Len(s)) = SubSeq(s, 1, Len(s))
    <2>1. 1 \in 1..Len(s) + 1 /\ n \in (1 - 1)..Len(s) /\ Len(s) \in n..Len(s)
      BY <1>1
    <2> QED BY <2>1, ConcatAdjacentSubSeq
  <1>5. SubSeq(s, 1, Len(s)) = s
    BY SubSeqFull
  <1> QED BY <1>2, <1>3, <1>4, <1>5

-----------------------------------------------------------------------------
(* Sending.                                                                *)

(* A function on 1..n is a sequence of that length.                        *)
LEMMA FunctionIsSeq ==
    ASSUME NEW S, NEW n \in Nat, NEW f \in [1..n -> S]
    PROVE  f \in Seq(S) /\ Len(f) = n
  <1>1. f \in Seq(S)
    BY SeqDef
  <1>2. Len(f) \in Nat /\ DOMAIN f = 1..Len(f) /\ DOMAIN f = 1..n
    BY <1>1, LenProperties
  <1>3. Len(f) = n
    <2>1. ASSUME NEW a \in Nat, NEW b \in Nat, 1..a = 1..b PROVE a = b
      <3>1. a \in 1..a \/ a = 0
        BY SMT
      <3>2. b \in 1..b \/ b = 0
        BY SMT
      <3> QED BY <2>1, <3>1, <3>2
    <2> QED BY <1>2, <2>1
  <1> QED BY <1>1, <1>3

(* What send_packet adds to the send buffer.                               *)
LEMMA EncodedFact ==
    ASSUME NEW n \in Nat, NEW packet \in Packet, NEW cipher \in Cipher
    PROVE  /\ Encoded(n, packet, cipher) \in Seq(Byte)
           /\ Len(Encoded(n, packet, cipher)) = packet.len
           /\ \A k \in 1..packet.len :
                Encoded(n, packet, cipher)[k] =
                  [pkt |-> n, at |-> k,
                   as |-> IF cipher.xor /\ k > Header THEN cipher.encrypted + k - Header ELSE 0]
  <1> DEFINE byte(k) == [pkt |-> n, at |-> k,
                         as |-> IF cipher.xor /\ k > Header THEN cipher.encrypted + k - Header ELSE 0]
  <1>1. packet.len \in Nat /\ Header \in Nat /\ cipher.encrypted \in Nat
    BY ConnectionAssumption DEF Packet, Cipher
  <1>2. \A k \in 1..packet.len : byte(k) \in Byte
    BY <1>1 DEF Byte
  <1>3. Encoded(n, packet, cipher) = [k \in 1..packet.len |-> byte(k)]
    BY DEF Encoded
  <1>4. \A k \in 1..packet.len : Encoded(n, packet, cipher)[k] = byte(k)
    BY <1>3
  <1>5. Encoded(n, packet, cipher) \in [1..packet.len -> Byte]
    <2> HIDE DEF byte
    <2> QED BY <1>2, <1>3
  <1>6. Encoded(n, packet, cipher) \in Seq(Byte) /\ Len(Encoded(n, packet, cipher)) = packet.len
    BY <1>1, <1>5, FunctionIsSeq
  <1> QED BY <1>4, <1>6

(* A step in which e sends packet, as its peer sees it.                    *)
Sends(e, packet) ==
    /\ packet.len >= Header
    /\ conn[e].cipher.xor <=> ~InPlain(e, Len(sent[e]) + 1)
    /\ sent'[e] = Append(sent[e], packet)
    /\ conn'[e].send_buffer = conn[e].send_buffer
                                \o Encoded(Len(sent[e]) + 1, packet, conn[e].cipher)
    /\ conn'[e].cipher.encrypted =
         conn[e].cipher.encrypted
           + IF InPlain(e, Len(sent[e]) + 1) THEN 0 ELSE packet.len - Header
    /\ wire'[e] = wire[e]
    /\ conn'[Peer(e)] = conn[Peer(e)]
    /\ got'[Peer(e)] = got[Peer(e)]

(* A function on 1..N + 1 with one more value.                             *)
Extended(f, N, x) == [n \in 1..(N + 1) + 1 |-> IF n \in 1..N + 1 THEN f[n] ELSE x]

LEMMA ExtendedFact ==
    ASSUME NEW N \in Nat, NEW f \in [1..N + 1 -> Nat], NEW x \in Nat
    PROVE  /\ Extended(f, N, x) \in [1..(N + 1) + 1 -> Nat]
           /\ Extended(f, N, x)[(N + 1) + 1] = x
           /\ \A n \in 1..N + 1 : Extended(f, N, x)[n] = f[n]
  BY DEF Extended

(* The bytes of e's n-th packet, encrypted after count other bytes.        *)
IsEncoding(enc, e, n, packet, count) ==
    /\ Len(enc) = packet.len
    /\ \A k \in 1..packet.len : enc[k] = ByteOf(e, n, k, count)

LEMMA PacketFact ==
    ASSUME NEW packets \in Seq(Packet), NEW n \in 1..Len(packets)
    PROVE  packets[n] \in Packet /\ packets[n].len \in Nat
  <1>1. packets[n] \in Packet
    BY ElementOfSeq
  <1> QED BY <1>1 DEF Packet

(* A packet that is sent is laid at the end.                               *)
LEMMA LayoutGrows ==
    ASSUME NEW e, NEW packets \in Seq(Packet), NEW returned \in 0..Len(packets),
           NEW bytes \in Seq(Byte),
           NEW start \in [1..Len(packets) + 1 -> Nat], NEW count \in [1..Len(packets) + 1 -> Nat],
           Counts(e, packets, count), Layout(e, packets, returned, bytes, start, count),
           NEW packet \in Packet, packet.len >= Header,
           NEW enc \in Seq(Byte),
           IsEncoding(enc, e, Len(packets) + 1, packet, count[Len(packets) + 1])
    PROVE  \E s2, c2 \in [1..Len(Append(packets, packet)) + 1 -> Nat] :
             /\ Counts(e, Append(packets, packet), c2)
             /\ c2[Len(Append(packets, packet)) + 1] =
                  count[Len(packets) + 1]
                    + IF InPlain(e, Len(packets) + 1) THEN 0 ELSE packet.len - Header
             /\ c2[returned + 1] = count[returned + 1]
             /\ Layout(e, Append(packets, packet), returned, bytes \o enc, s2, c2)
  <1> DEFINE N == Len(packets)
             more == Append(packets, packet)
             all == bytes \o enc
             pay == IF InPlain(e, N + 1) THEN 0 ELSE packet.len - Header
  <1>1. /\ N \in Nat /\ returned \in Nat /\ returned <= N
        /\ packet.len \in Nat /\ Header \in Nat /\ pay \in Nat
        /\ Len(bytes) \in Nat /\ Len(enc) \in Nat
    BY ConnectionAssumption, LenProperties DEF Packet
  <1>11. Len(enc) = packet.len
    BY DEF IsEncoding
  <1>2. Len(more) = N + 1 /\ more[N + 1] = packet /\ \A n \in 1..N : more[n] = packets[n]
    BY AppendProperties
  <1>3. \A n \in 1..N : packets[n] \in Packet /\ packets[n].len \in Nat
    BY PacketFact
  <1>4. /\ Len(all) = Len(bytes) + packet.len
        /\ \A i \in 1..Len(bytes) : all[i] = bytes[i]
        /\ \A k \in 1..packet.len : all[Len(bytes) + k] = enc[k]
    <2>1. /\ Len(all) = Len(bytes) + Len(enc)
          /\ \A i \in 1..Len(bytes) + Len(enc) :
               all[i] = IF i <= Len(bytes) THEN bytes[i] ELSE enc[i - Len(bytes)]
      BY ConcatProperties
    <2>2. ASSUME NEW k \in 1..packet.len
          PROVE  /\ Len(bytes) + k \in 1..Len(bytes) + Len(enc)
                 /\ ~(Len(bytes) + k <= Len(bytes))
                 /\ (Len(bytes) + k) - Len(bytes) = k
      BY <1>1, <1>11
    <2> HIDE DEF all, pay, N, more
    <2>3. Len(all) = Len(bytes) + packet.len
      BY <2>1, <1>11
    <2>4. \A i \in 1..Len(bytes) : i \in 1..Len(bytes) + Len(enc) /\ i <= Len(bytes)
      BY <1>1
    <2>5. ASSUME NEW k \in 1..packet.len PROVE all[Len(bytes) + k] = enc[k]
      BY ONLY <2>1, <2>2
    <2> QED BY ONLY <2>1, <2>3, <2>4, <2>5
  <1>12. \A n \in 1..N + 1 : start[n] \in Nat /\ count[n] \in Nat
    OBVIOUS
  <1>13. N + 1 \in 1..N + 1 /\ returned + 1 \in 1..N + 1 /\ 1 \in 1..N + 1
    BY <1>1
  <1>14. /\ count[1] = 0
         /\ \A n \in 1..N :
              count[n + 1] = count[n] + IF InPlain(e, n) THEN 0 ELSE packets[n].len - Header
    BY DEF Counts
  <1>15. \A n \in 1..N : start[n + 1] = start[n] + packets[n].len
    BY DEF Layout
  <1>16. \A m, n \in 1..N + 1 : m <= n => start[m] <= start[n]
    BY DEF Layout
  <1>17. start[N + 1] = start[returned + 1] + Len(bytes)
    BY DEF Layout
  <1>18. \A n \in returned + 1 .. N : \A k \in 1 .. packets[n].len :
           bytes[start[n] - start[returned + 1] + k] = ByteOf(e, n, k, count[n])
    BY DEF Layout
  <1>5. /\ start[N + 1] \in Nat /\ start[returned + 1] \in Nat
        /\ start[N + 1] = start[returned + 1] + Len(bytes)
        /\ start[N + 1] + packet.len \in Nat /\ count[N + 1] + pay \in Nat
    <2>1. start[N + 1] \in Nat /\ start[returned + 1] \in Nat /\ count[N + 1] \in Nat
      BY <1>12, <1>13
    <2>2. start[N + 1] + packet.len \in Nat /\ count[N + 1] + pay \in Nat
      <3>1. \A a, b \in Nat : a + b \in Nat
        OBVIOUS
      <3> HIDE DEF pay, N
      <3> QED BY ONLY <3>1, <2>1, <1>1, Zenon
    <2> QED BY <2>1, <2>2, <1>17
  <1> DEFINE s2 == Extended(start, N, start[N + 1] + packet.len)
             c2 == Extended(count, N, count[N + 1] + pay)
  <1>6. /\ s2 \in [1..(N + 1) + 1 -> Nat] /\ s2[(N + 1) + 1] = start[N + 1] + packet.len
        /\ \A n \in 1..N + 1 : s2[n] = start[n]
    <2>1. ASSUME NEW x \in Nat
          PROVE  /\ Extended(start, N, x) \in [1..(N + 1) + 1 -> Nat]
                 /\ Extended(start, N, x)[(N + 1) + 1] = x
                 /\ \A n \in 1..N + 1 : Extended(start, N, x)[n] = start[n]
      <3>1. N \in Nat /\ start \in [1..N + 1 -> Nat]
        BY <1>1
      <3> HIDE DEF N
      <3> QED BY <3>1, ExtendedFact
    <2> QED BY <2>1, <1>5
  <1>7. /\ c2 \in [1..(N + 1) + 1 -> Nat] /\ c2[(N + 1) + 1] = count[N + 1] + pay
        /\ \A n \in 1..N + 1 : c2[n] = count[n]
    <2>1. ASSUME NEW x \in Nat
          PROVE  /\ Extended(count, N, x) \in [1..(N + 1) + 1 -> Nat]
                 /\ Extended(count, N, x)[(N + 1) + 1] = x
                 /\ \A n \in 1..N + 1 : Extended(count, N, x)[n] = count[n]
      <3>1. N \in Nat /\ count \in [1..N + 1 -> Nat]
        BY <1>1
      <3> HIDE DEF N
      <3> QED BY <3>1, ExtendedFact
    <2> HIDE DEF pay
    <2> QED BY <2>1, <1>5
  <1> HIDE DEF more, all, pay, N, s2, c2
  <1>19. ASSUME NEW n \in 1..N
         PROVE  /\ n \in Nat /\ n \in 1..N + 1 /\ n + 1 \in 1..N + 1 /\ n + 1 <= N + 1
                /\ s2[n] = start[n] /\ s2[n + 1] = start[n + 1]
                /\ c2[n] = count[n] /\ c2[n + 1] = count[n + 1]
                /\ more[n] = packets[n]
    <2>1. n \in Nat /\ n \in 1..N + 1 /\ n + 1 \in 1..N + 1 /\ n + 1 <= N + 1
      BY <1>1
    <2> QED BY <2>1, <1>2, <1>6, <1>7
  <1>20. \A n \in 1..N + 1 : n = N + 1 \/ n \in 1..N
    BY <1>1
  <1>8. Counts(e, more, c2)
    <2>1. ASSUME NEW n \in 1..N + 1
          PROVE  c2[n + 1] = c2[n] + IF InPlain(e, n) THEN 0 ELSE more[n].len - Header
      <3>1. CASE n = N + 1
        BY <3>1, <1>13, <1>2, <1>7 DEF pay
      <3>2. CASE n \in 1..N
        BY <3>2, <1>14, <1>19
      <3> QED BY <3>1, <3>2, <1>20
    <2>2. c2[1] = 0
      BY <1>13, <1>7, <1>14
    <2> QED BY <1>2, <2>1, <2>2 DEF Counts
  <1>9. Layout(e, more, returned, all, s2, c2)
    <2>1. ASSUME NEW n \in 1..N + 1 PROVE s2[n + 1] = s2[n] + more[n].len
      <3>1. CASE n = N + 1
        BY <3>1, <1>13, <1>2, <1>6
      <3>2. CASE n \in 1..N
        BY <3>2, <1>15, <1>19
      <3> QED BY <3>1, <3>2, <1>20
    <2>2. ASSUME NEW m \in 1..(N + 1) + 1, NEW n \in 1..(N + 1) + 1, m <= n PROVE s2[m] <= s2[n]
      <3>1. CASE n \in 1..N + 1
        <4>1. m \in 1..N + 1
          BY <3>1, <2>2, <1>1
        <4>2. start[m] <= start[n]
          BY <3>1, <4>1, <2>2, <1>16
        <4>3. s2[m] = start[m] /\ s2[n] = start[n]
          <5> HIDE DEF s2, N
          <5> QED BY ONLY <3>1, <4>1, <1>6
        <4> HIDE DEF s2
        <4> QED BY ONLY <4>2, <4>3
      <3>2. CASE n = (N + 1) + 1 /\ m \in 1..N + 1
        <4>1. start[m] \in Nat /\ s2[m] = start[m] /\ m <= N + 1
          BY <3>2, <1>1, <1>6, <1>12
        <4>2. start[m] <= start[N + 1]
          BY <3>2, <4>1, <1>13, <1>16
        <4>3. s2[n] = start[N + 1] + packet.len
          BY <3>2, <1>6
        <4>4. \A a, b, c \in Nat : a <= b => a <= b + c
          OBVIOUS
        <4>5. start[m] <= start[N + 1] + packet.len
          BY <4>1, <4>2, <4>4, <1>1, <1>5
        <4> QED BY <4>1, <4>3, <4>5
      <3>3. CASE n = (N + 1) + 1 /\ m = (N + 1) + 1
        <4>1. s2[n] \in Nat /\ m = n
          BY <3>3, <1>6
        <4> QED BY <4>1
      <3> QED BY <3>1, <3>2, <3>3, <1>1
    <2>3. s2[returned + 1] = start[returned + 1] /\ s2[N + 1] = start[N + 1] /\ c2[N + 1] = count[N + 1]
      BY <1>13, <1>6, <1>7
    <2>4. s2[(N + 1) + 1] = s2[returned + 1] + Len(all)
      <3>1. s2[(N + 1) + 1] = start[N + 1] + packet.len /\ Len(all) = Len(bytes) + packet.len
        BY <1>4, <1>6
      <3>2. \A a, b, c \in Nat : (a + b) + c = a + (b + c)
        OBVIOUS
      <3>3. (start[returned + 1] + Len(bytes)) + packet.len = start[returned + 1] + (Len(bytes) + packet.len)
        <4> HIDE DEF pay, N
        <4> QED BY ONLY <3>2, <1>1, <1>5
      <3> QED BY <3>1, <3>3, <2>3, <1>5
    <2>5. ASSUME NEW n \in returned + 1 .. N + 1, NEW k \in 1 .. more[n].len
          PROVE  all[s2[n] - s2[returned + 1] + k] = ByteOf(e, n, k, c2[n])
      <3>1. CASE n = N + 1
        <4>1. k \in 1..packet.len
          BY <3>1, <1>2
        <4>2. s2[n] - s2[returned + 1] + k = Len(bytes) + k
          BY <3>1, <4>1, <1>1, <1>5, <2>3
        <4>3. all[Len(bytes) + k] = enc[k]
          BY <4>1, <1>4
        <4>4. enc[k] = ByteOf(e, N + 1, k, count[N + 1])
          BY <4>1 DEF IsEncoding, N
        <4> QED BY <3>1, <4>2, <4>3, <4>4, <2>3
      <3>2. CASE n \in returned + 1 .. N
        <4>0. n \in 1..N /\ n \in 1..N + 1 /\ n + 1 \in 1..N + 1 /\ returned + 1 <= n
          BY <3>2, <1>1
        <4>1. more[n] = packets[n] /\ k \in 1..packets[n].len /\ packets[n].len \in Nat
          BY <4>0, <1>19, <1>3
        <4>2. /\ start[n] \in Nat /\ start[returned + 1] <= start[n]
              /\ start[n + 1] = start[n] + packets[n].len
          BY <4>0, <1>12, <1>13, <1>15, <1>16
        <4>7. start[n + 1] <= start[N + 1]
          BY <4>0, <1>19, <1>13, <1>16
        <4>3. start[n] - start[returned + 1] + k \in 1..Len(bytes)
          <5>1. \A a, b, c, l, j \in Nat : a <= b /\ b + l <= a + c /\ j \in 1..l => b - a + j \in 1..c
            OBVIOUS
          <5>2. k \in Nat /\ start[n] + packets[n].len <= start[returned + 1] + Len(bytes)
            BY <4>1, <4>2, <4>7, <1>5
          <5> QED BY <5>1, <5>2, <4>1, <4>2, <1>1, <1>5
        <4>4. bytes[start[n] - start[returned + 1] + k] = ByteOf(e, n, k, count[n])
          BY <3>2, <4>1, <1>18
        <4>5. s2[n] = start[n] /\ c2[n] = count[n]
          BY <4>0, <1>19
        <4>6. all[start[n] - start[returned + 1] + k] = bytes[start[n] - start[returned + 1] + k]
          BY <4>3, <1>4
        <4> QED BY <4>4, <4>5, <4>6, <2>3
      <3>3. n = N + 1 \/ n \in returned + 1 .. N
        BY <1>1
      <3> QED BY <3>1, <3>2, <3>3
    <2> QED BY <1>2, <2>1, <2>2, <2>4, <2>5 DEF Layout
  <1>10. c2[(N + 1) + 1] = count[N + 1] + pay /\ c2[returned + 1] = count[returned + 1]
    BY <1>13, <1>7
  <1> QED BY <1>2, <1>6, <1>7, <1>8, <1>9, <1>10 DEF more, all, pay, N

(* A packet that is sent goes to the end of the stream.                    *)
LEMMA StreamGrows ==
    ASSUME TypeOK, PacketsInOrder, NEW e \in Ends, Stream(e),
           NEW packet \in Packet, Sends(e, packet)
    PROVE  Stream(e)'
  <1> DEFINE N == Len(sent[e])
             enc == Encoded(N + 1, packet, conn[e].cipher)
             T == Transit(e)
  <1>1. /\ sent[e] \in Seq(Packet) /\ N \in Nat /\ Len(got[Peer(e)]) \in 0..N
        /\ conn[e].cipher \in Cipher
    <2>1. sent[e] \in Seq(Packet) /\ got[Peer(e)] \in Seq(Packet) /\ conn[e].cipher \in Cipher
      BY FieldTypes, PeerFact
    <2>2. Len(got[Peer(e)]) <= Len(sent[e])
      BY PeerFact DEF PacketsInOrder
    <2> QED BY <2>1, <2>2, LenProperties
  <1>2. PICK start \in [1..N + 1 -> Nat], count \in [1..N + 1 -> Nat] :
          /\ Counts(e, sent[e], count)
          /\ count[N + 1] = conn[e].cipher.encrypted
          /\ ~conn[Peer(e)].disconnected =>
               count[Len(got[Peer(e)]) + 1] = conn[Peer(e)].cipher.decrypted
          /\ Layout(e, sent[e], Len(got[Peer(e)]), T, start, count)
    BY DEF Stream
  <1>3. enc \in Seq(Byte) /\ IsEncoding(enc, e, N + 1, packet, count[N + 1])
    <2>1. /\ enc \in Seq(Byte) /\ Len(enc) = packet.len
          /\ \A k \in 1..packet.len :
               enc[k] = [pkt |-> N + 1, at |-> k,
                         as |-> IF conn[e].cipher.xor /\ k > Header
                                THEN conn[e].cipher.encrypted + k - Header ELSE 0]
      <3>1. N + 1 \in Nat
        BY <1>1
      <3> QED BY <1>1, <3>1, EncodedFact
    <2>2. conn[e].cipher.xor <=> ~InPlain(e, N + 1)
      BY DEF Sends
    <2> HIDE DEF enc
    <2> QED BY <1>2, <2>1, <2>2 DEF ByteOf, IsEncoding
  <1>4. Transit(e)' = T \o enc /\ T \in Seq(Byte)
    <2> DEFINE a == conn[Peer(e)].received \o wire[e]
               b == conn[e].send_buffer
    <2>1. a \in Seq(Byte) /\ b \in Seq(Byte)
      BY FieldTypes, PeerFact, ConcatProperties
    <2>2. Transit(e)' = a \o (b \o enc) /\ T = a \o b
      BY DEF Transit, Sends
    <2> HIDE DEF a, b, enc, T
    <2>3. a \o (b \o enc) = (a \o b) \o enc
      BY ONLY <2>1, <1>3, Regroup
    <2> QED BY <2>1, <2>2, <2>3, TransitFact DEF T
  <1>5. packet.len >= Header
    BY DEF Sends
  <1> HIDE DEF enc, T
  <1>6. PICK s2 \in [1..Len(Append(sent[e], packet)) + 1 -> Nat],
             c2 \in [1..Len(Append(sent[e], packet)) + 1 -> Nat] :
          /\ Counts(e, Append(sent[e], packet), c2)
          /\ c2[Len(Append(sent[e], packet)) + 1] =
               count[N + 1] + IF InPlain(e, N + 1) THEN 0 ELSE packet.len - Header
          /\ c2[Len(got[Peer(e)]) + 1] = count[Len(got[Peer(e)]) + 1]
          /\ Layout(e, Append(sent[e], packet), Len(got[Peer(e)]), T \o enc, s2, c2)
    <2> DEFINE P == sent[e]
               R == Len(got[Peer(e)])
    <2>1. /\ P \in Seq(Packet) /\ R \in 0..Len(P) /\ T \in Seq(Byte) /\ enc \in Seq(Byte)
          /\ start \in [1..Len(P) + 1 -> Nat] /\ count \in [1..Len(P) + 1 -> Nat]
          /\ Counts(e, P, count) /\ Layout(e, P, R, T, start, count)
          /\ packet.len >= Header
          /\ IsEncoding(enc, e, Len(P) + 1, packet, count[Len(P) + 1])
      BY <1>1, <1>2, <1>3, <1>4, <1>5
    <2> HIDE DEF P, R
    <2>2. \E s2, c2 \in [1..Len(Append(P, packet)) + 1 -> Nat] :
            /\ Counts(e, Append(P, packet), c2)
            /\ c2[Len(Append(P, packet)) + 1] =
                 count[Len(P) + 1] + IF InPlain(e, Len(P) + 1) THEN 0 ELSE packet.len - Header
            /\ c2[R + 1] = count[R + 1]
            /\ Layout(e, Append(P, packet), R, T \o enc, s2, c2)
      BY ONLY <2>1, LayoutGrows, packet \in Packet
    <2> QED BY <2>2 DEF P, R
  <1>7. /\ sent'[e] = Append(sent[e], packet)
        /\ got'[Peer(e)] = got[Peer(e)] /\ conn'[Peer(e)] = conn[Peer(e)]
        /\ conn'[e].cipher.encrypted =
             count[N + 1] + IF InPlain(e, N + 1) THEN 0 ELSE packet.len - Header
    BY <1>2 DEF Sends
  <1> QED BY <1>2, <1>4, <1>6, <1>7 DEF Stream

-----------------------------------------------------------------------------
(* Returning a packet.                                                     *)

(* A packet that has not been returned is on its way.                      *)
LEMMA LayoutFirst ==
    ASSUME NEW e, NEW packets \in Seq(Packet), NEW returned \in 0..Len(packets),
           NEW bytes \in Seq(Byte),
           NEW start \in [1..Len(packets) + 1 -> Nat], NEW count \in [1..Len(packets) + 1 -> Nat],
           Layout(e, packets, returned, bytes, start, count)
    PROVE  /\ returned = Len(packets) => Len(bytes) = 0
           /\ returned < Len(packets) =>
                /\ packets[returned + 1].len <= Len(bytes)
                /\ \A k \in 1..packets[returned + 1].len :
                     bytes[k] = ByteOf(e, returned + 1, k, count[returned + 1])
  <1> DEFINE N == Len(packets)
             L == packets[returned + 1].len
  <1>1. N \in Nat /\ returned \in Nat /\ Len(bytes) \in Nat /\ returned + 1 \in 1..N + 1
        /\ N + 1 \in 1..N + 1
    BY LenProperties
  <1>2. start[N + 1] = start[returned + 1] + Len(bytes)
    BY DEF Layout
  <1>3. start[N + 1] \in Nat /\ start[returned + 1] \in Nat
    BY <1>1
  <1>4. returned = N => Len(bytes) = 0
    BY <1>1, <1>2, <1>3
  <1>5. ASSUME returned < N
        PROVE  L <= Len(bytes) /\ \A k \in 1..L : bytes[k] = ByteOf(e, returned + 1, k, count[returned + 1])
    <2>1. returned + 1 \in 1..N /\ returned + 1 \in returned + 1 .. N
          /\ (returned + 1) + 1 \in 1..N + 1 /\ (returned + 1) + 1 <= N + 1
      BY <1>1, <1>5
    <2>2. L \in Nat
      BY <2>1, PacketFact
    <2>3. start[(returned + 1) + 1] = start[returned + 1] + L
      BY <2>1 DEF Layout
    <2>4. start[(returned + 1) + 1] <= start[N + 1]
      BY <2>1, <1>1 DEF Layout
    <2>5. \A k \in 1..L :
            bytes[start[returned + 1] - start[returned + 1] + k] = ByteOf(e, returned + 1, k, count[returned + 1])
      BY <2>1 DEF Layout
    <2> HIDE DEF L, N
    <2>6. \A a, b, c \in Nat : a + b <= a + c => b <= c
      OBVIOUS
    <2>7. L <= Len(bytes)
      <3>1. start[returned + 1] + L <= start[returned + 1] + Len(bytes)
        BY <2>3, <2>4, <1>2
      <3> QED BY <3>1, <2>2, <2>6, <1>1, <1>3
    <2>8. \A k \in 1..L : start[returned + 1] - start[returned + 1] + k = k
      BY <1>3, <2>2
    <2> QED BY <2>5, <2>7, <2>8
  <1> QED BY <1>4, <1>5

(* Without its first packet the rest is laid as before.                    *)
LEMMA LayoutShrinks ==
    ASSUME NEW e, NEW packets \in Seq(Packet), NEW returned \in 0..Len(packets),
           returned < Len(packets),
           NEW bytes \in Seq(Byte),
           NEW start \in [1..Len(packets) + 1 -> Nat], NEW count \in [1..Len(packets) + 1 -> Nat],
           Layout(e, packets, returned, bytes, start, count)
    PROVE  Layout(e, packets, returned + 1,
                  SubSeq(bytes, packets[returned + 1].len + 1, Len(bytes)), start, count)
  <1> DEFINE N == Len(packets)
             L == packets[returned + 1].len
             rest == SubSeq(bytes, L + 1, Len(bytes))
             here == start[returned + 1]
             there == start[(returned + 1) + 1]
  <1>1. /\ N \in Nat /\ returned \in Nat /\ Len(bytes) \in Nat /\ returned + 1 \in 1..N + 1
        /\ N + 1 \in 1..N + 1 /\ returned + 1 \in 1..N /\ (returned + 1) + 1 \in 1..N + 1
    BY LenProperties
  <1>2. L \in Nat /\ L <= Len(bytes)
    BY <1>1, PacketFact, LayoutFirst
  <1>3. here \in Nat /\ there \in Nat /\ start[N + 1] \in Nat
    BY <1>1
  <1>4. there = here + L /\ start[N + 1] = here + Len(bytes)
    BY <1>1 DEF Layout
  <1>5. rest \in Seq(Byte) /\ Len(rest) = Len(bytes) - L
    <2>1. L \in 0..Len(bytes)
      BY <1>1, <1>2
    <2> HIDE DEF L
    <2> QED BY <2>1, CutAnywhere
  <1>6. \A i \in 1..Len(bytes) - L : rest[i] = bytes[L + i]
    <2>1. \A i \in L + 1 .. Len(bytes) : bytes[i] \in Byte
      BY <1>1, <1>2, ElementOfSeq
    <2>a. L + 1 \in Int /\ Len(bytes) \in Int
      BY <1>1, <1>2
    <2>2. \A i \in 1..Len(bytes) - (L + 1) + 1 : rest[i] = bytes[(L + 1) + i - 1]
      <3> HIDE DEF L
      <3> QED BY ONLY <2>1, <2>a, SubSeqProperties DEF rest
    <2> HIDE DEF rest, L
    <2>3. \A i \in 1..Len(bytes) - L : i \in 1..Len(bytes) - (L + 1) + 1 /\ (L + 1) + i - 1 = L + i
      BY <1>1, <1>2
    <2> QED BY <2>2, <2>3
  <1>7. /\ \A n \in 1..N : start[n + 1] = start[n] + packets[n].len
        /\ \A m, n \in 1..N + 1 : m <= n => start[m] <= start[n]
        /\ \A n \in returned + 1 .. N : \A k \in 1..packets[n].len :
             bytes[start[n] - here + k] = ByteOf(e, n, k, count[n])
    BY DEF Layout
  <1> HIDE DEF N, L, rest, here, there
  <1>8. start[N + 1] = there + Len(rest)
    BY <1>1, <1>2, <1>3, <1>4, <1>5
  <1>9. ASSUME NEW n \in (returned + 1) + 1 .. N, NEW k \in 1..packets[n].len
        PROVE  rest[start[n] - there + k] = ByteOf(e, n, k, count[n])
    <2>1. n \in 1..N /\ n \in 1..N + 1 /\ n + 1 \in 1..N + 1 /\ n \in returned + 1 .. N
          /\ (returned + 1) + 1 <= n /\ n + 1 <= N + 1
      BY <1>1
    <2>2. packets[n].len \in Nat /\ k \in Nat /\ start[n] \in Nat
      BY <2>1, PacketFact DEF N
    <2>3. there <= start[n] /\ start[n] + packets[n].len <= start[N + 1]
      <3>1. there <= start[n]
        BY <2>1, <1>1, <1>7 DEF there
      <3>2. start[n + 1] <= start[N + 1] /\ start[n + 1] = start[n] + packets[n].len
        BY <2>1, <1>1, <1>7
      <3> QED BY <3>1, <3>2
    <2>4. start[n] - there + k \in 1..Len(bytes) - L /\ L + (start[n] - there + k) = start[n] - here + k
      <3>1. PICK s \in Nat : s = start[n]
        BY <2>2
      <3>2. PICK h \in Nat, l \in Nat, b \in Nat : h = here /\ l = L /\ b = Len(bytes)
        BY <1>1, <1>2, <1>3
      <3>4. PICK p \in Nat : p = packets[n].len
        BY <2>2
      <3>5. h + l <= s /\ s + p <= h + b /\ k \in 1..p
        BY <2>3, <1>4, <3>1, <3>2, <3>4
      <3>6. s - (h + l) + k \in 1..b - l /\ l + (s - (h + l) + k) = s - h + k
        BY ONLY <3>5, s \in Nat, h \in Nat, l \in Nat, b \in Nat, p \in Nat
      <3>3. /\ start[n] - (here + L) + k \in 1..Len(bytes) - L
            /\ L + (start[n] - (here + L) + k) = start[n] - here + k
        BY <3>1, <3>2, <3>6
      <3> QED BY <3>3, <1>4
    <2>5. bytes[start[n] - here + k] = ByteOf(e, n, k, count[n])
      BY <2>1, <1>7
    <2> QED BY <2>4, <2>5, <1>6
  <1> QED BY <1>7, <1>8, <1>9 DEF Layout, N, L, rest, there

(* Dropping a part of the first sequence drops it from the whole.          *)
LEMMA DropOfConcat ==
    ASSUME NEW S, NEW s \in Seq(S), NEW t \in Seq(S), NEW n \in 0..Len(s)
    PROVE  SubSeq(s \o t, n + 1, Len(s \o t)) = SubSeq(s, n + 1, Len(s)) \o t
  <1> DEFINE a == SubSeq(s, 1, n)
             b == SubSeq(s, n + 1, Len(s))
             w == s \o t
             rest == SubSeq(w, n + 1, Len(w))
  <1>1. /\ a \in Seq(S) /\ b \in Seq(S) /\ a \o b = s /\ Len(a) = n /\ Len(b) = Len(s) - n
    BY CutAnywhere
  <1>2. /\ w \in Seq(S) /\ Len(w) = Len(s) + Len(t) /\ Len(s) \in Nat /\ Len(t) \in Nat
        /\ \A i \in 1..Len(s) + Len(t) : w[i] = IF i <= Len(s) THEN s[i] ELSE t[i - Len(s)]
    BY ConcatProperties, LenProperties
  <1>3. /\ SubSeq(w, 1, n) \in Seq(S) /\ rest \in Seq(S) /\ SubSeq(w, 1, n) \o rest = w
        /\ Len(SubSeq(w, 1, n)) = n
    <2>1. n \in 0..Len(w)
      BY <1>2
    <2> HIDE DEF w
    <2> QED BY <2>1, <1>2, CutAnywhere
  <1>4. SubSeq(w, 1, n) = a
    <2>1. n \in Nat /\ n <= Len(s)
      BY <1>2
    <2>2. CASE n = 0
      BY <2>2, <1>1, <1>3, EmptySeq
    <2>3. CASE n > 0
      <3>1. n \in 1..Len(s) /\ 1 \in 1..Len(s)
        BY <2>1, <2>3, <1>2
      <3> QED BY <3>1, SubSeqOfConcat1
    <2> QED BY <2>1, <2>2, <2>3
  <1>5. a \o (b \o t) = w
    <2> HIDE DEF a, b
    <2>1. (a \o b) \o t = a \o (b \o t)
      <3>1. a \in Seq(S) /\ b \in Seq(S)
        BY <1>1
      <3> QED BY ONLY <3>1, t \in Seq(S), ConcatAssociative
    <2> QED BY <2>1, <1>1
  <1>6. b \o t \in Seq(S)
    BY <1>1, ConcatProperties
  <1>7. a \o rest = a \o (b \o t)
    BY <1>3, <1>4, <1>5
  <1> HIDE DEF a, b, w, rest
  <1>8. rest = b \o t
    <2>1. \A x, y, v \in Seq(S) : x \o y = x \o v => y = v
      BY ConcatSimplifications
    <2> QED BY <2>1, <1>1, <1>3, <1>6, <1>7
  <1> QED BY <1>8 DEF rest, b, w

(* A step in which e's peer returns the first packet in transit.           *)
Returns(e) ==
    LET f == Peer(e)
        n == Len(got[f]) + 1
        packet == sent[e][n]
    IN  /\ n <= Len(sent[e])
        /\ packet.len <= Len(conn[f].received)
        /\ conn'[f].received = SubSeq(conn[f].received, packet.len + 1, Len(conn[f].received))
        /\ ~conn[f].disconnected
        /\ conn'[f].cipher.decrypted =
             conn[f].cipher.decrypted + IF InPlain(e, n) THEN 0 ELSE packet.len - Header
        /\ Len(got'[f]) = n
        /\ conn'[e] = conn[e]
        /\ wire'[e] = wire[e]
        /\ sent'[e] = sent[e]

(* A packet that is returned leaves the stream at its beginning.           *)
LEMMA StreamShrinks ==
    ASSUME TypeOK, NEW e \in Ends, Stream(e), Returns(e)
    PROVE  Stream(e)'
  <1> DEFINE f == Peer(e)
             P == sent[e]
             R == Len(got[f])
             L == P[R + 1].len
             T == Transit(e)
             r == conn[f].received
  <1>1. /\ P \in Seq(Packet) /\ Len(P) \in Nat /\ R \in Nat /\ r \in Seq(Byte)
        /\ wire[e] \in Seq(Byte) /\ conn[e].send_buffer \in Seq(Byte)
    BY FieldTypes, PeerFact, LenProperties
  <1>2. PICK start \in [1..Len(P) + 1 -> Nat], count \in [1..Len(P) + 1 -> Nat] :
          /\ Counts(e, P, count)
          /\ count[Len(P) + 1] = conn[e].cipher.encrypted
          /\ ~conn[f].disconnected => count[R + 1] = conn[f].cipher.decrypted
          /\ Layout(e, P, R, T, start, count)
    BY DEF Stream
  <1>3. /\ R + 1 <= Len(P) /\ L <= Len(r)
        /\ conn'[f].received = SubSeq(r, L + 1, Len(r))
        /\ ~conn[f].disconnected
        /\ conn'[f].cipher.decrypted =
             conn[f].cipher.decrypted + IF InPlain(e, R + 1) THEN 0 ELSE L - Header
        /\ Len(got'[f]) = R + 1
        /\ conn'[e] = conn[e] /\ wire'[e] = wire[e] /\ sent'[e] = sent[e]
    BY DEF Returns
  <1>4. R + 1 \in 1..Len(P) /\ R \in 0..Len(P) /\ R < Len(P)
    <2>1. R \in Nat /\ Len(P) \in Nat /\ R + 1 <= Len(P)
      BY <1>1, <1>3
    <2> HIDE DEF P, R
    <2> QED BY ONLY <2>1
  <1>5. L \in Nat /\ L \in 0..Len(r)
    <2>1. L \in Nat
      BY <1>1, <1>4, PacketFact
    <2> HIDE DEF L, r
    <2> QED BY <2>1, <1>1, <1>3, LenProperties
  <1>6. Transit(e)' = SubSeq(T, L + 1, Len(T))
    <2> DEFINE w == wire[e]
               b == conn[e].send_buffer
    <2>1. Transit(e)' = (SubSeq(r, L + 1, Len(r)) \o w) \o b /\ T = (r \o w) \o b
      BY <1>3 DEF Transit
    <2>2. w \in Seq(Byte) /\ b \in Seq(Byte)
      BY <1>1
    <2> HIDE DEF L, r, w, b, T
    <2>3. SubSeq(r \o w, L + 1, Len(r \o w)) = SubSeq(r, L + 1, Len(r)) \o w
      BY <1>1, <1>5, <2>2, DropOfConcat
    <2>4. r \o w \in Seq(Byte) /\ L \in 0..Len(r \o w)
      <3>1. r \o w \in Seq(Byte) /\ Len(r \o w) = Len(r) + Len(w)
        BY <1>1, <2>2, ConcatProperties
      <3>2. Len(r) \in Nat /\ Len(w) \in Nat
        BY <1>1, <2>2, LenProperties
      <3> QED BY <3>1, <3>2, <1>5
    <2>5. SubSeq((r \o w) \o b, L + 1, Len((r \o w) \o b)) = SubSeq(r \o w, L + 1, Len(r \o w)) \o b
      BY <2>2, <2>4, DropOfConcat
    <2> QED BY <2>1, <2>3, <2>5
  <1>7. Layout(e, P, R + 1, SubSeq(T, L + 1, Len(T)), start, count)
    <2>1. T \in Seq(Byte)
      BY TransitFact
    <2> HIDE DEF T, P, R
    <2> QED BY <1>1, <1>2, <1>4, <2>1, LayoutShrinks DEF L
  <1>8. count[(R + 1) + 1] = conn'[f].cipher.decrypted
    <2>1. count[(R + 1) + 1] = count[R + 1] + IF InPlain(e, R + 1) THEN 0 ELSE L - Header
      BY <1>2, <1>4 DEF Counts
    <2> QED BY <2>1, <1>2, <1>3
  <1> HIDE DEF T, L
  <1> QED BY <1>2, <1>3, <1>6, <1>7, <1>8 DEF Stream

-----------------------------------------------------------------------------
(* The first packet in transit.                                            *)

(* An end decrypts with XOR exactly what its peer encrypted.               *)
LEMMA CiphersAgree ==
    ASSUME Inv, NEW f \in Ends, conn[f].poll # "idle"
    PROVE  conn[f].cipher.xor <=> ~InPlain(Peer(f), Len(got[f]) + 1)
  <1>1. conn[f].cipher.xor <=> conn[f].ready
    BY DEF Inv, Handshake
  <1>2. CASE f = "server"
    <2>1. conn[f].ready
      BY <1>2 DEF Inv, Buffers
    <2> QED BY <1>1, <1>2, <2>1 DEF InPlain, Peer
  <1>3. CASE f = "client"
    <2>1. conn[f].ready <=> got[f] # <<>>
      BY <1>3 DEF Inv, Handshake
    <2>2. got[f] \in Seq(Packet)
      BY FieldTypes DEF Inv
    <2>3. Len(got[f]) \in Nat /\ (got[f] = <<>> <=> Len(got[f]) = 0)
      BY <2>2, LenProperties, EmptySeq
    <2>4. InPlain(Peer(f), Len(got[f]) + 1) <=> Len(got[f]) = 0
      BY <1>3, <2>3 DEF InPlain, Peer
    <2> QED BY <1>1, <2>1, <2>3, <2>4
  <1> QED BY <1>2, <1>3 DEF Ends

(* The header that try_parse_read_buffer reads is that of the first packet *)
(* not returned yet.                                                       *)
LEMMA FirstPacket ==
    ASSUME Inv, NEW f \in Ends, HeaderRead(f)
    PROVE  /\ Len(got[f]) \in Nat /\ Len(got[f]) + 1 \in 1..Len(sent[Peer(f)])
           /\ Len(got[f]) < Len(sent[Peer(f)])
           /\ Parsed(f) = sent[Peer(f)][Len(got[f]) + 1]
           /\ Parsed(f) \in Packet /\ Parsed(f).len \in Nat /\ Parsed(f).len >= Header
           /\ conn[f].received[1].at = 1
           /\ conn[f].received[1].pkt = Len(got[f]) + 1
           /\ Complete(f) /\ conn[f].poll # "idle" => Decrypts(f)
  <1> DEFINE e == Peer(f)
             P == sent[e]
             R == Len(got[f])
             T == Transit(e)
             r == conn[f].received
             L == P[R + 1].len
  <1>1. e \in Ends /\ Peer(e) = f
    BY PeerFact
  <1>2. PICK start \in [1..Len(P) + 1 -> Nat], count \in [1..Len(P) + 1 -> Nat] :
          /\ ~conn[f].disconnected => count[R + 1] = conn[f].cipher.decrypted
          /\ Layout(e, P, R, T, start, count)
    <2>1. Stream(e)
      BY <1>1 DEF Inv
    <2> HIDE DEF e
    <2> QED BY <2>1, <1>1 DEF Stream
  <1>3. /\ P \in Seq(Packet) /\ Len(P) \in Nat /\ R \in Nat /\ R \in 0..Len(P)
    <2>1. P \in Seq(Packet) /\ got[f] \in Seq(Packet)
      BY <1>1, FieldTypes DEF Inv
    <2>2. R <= Len(P)
      BY DEF Inv, PacketsInOrder
    <2> QED BY <2>1, <2>2, LenProperties
  <1>4. /\ T \in Seq(Byte) /\ Len(T) \in Nat /\ Len(r) \in Nat /\ Len(r) <= Len(T)
        /\ \A i \in 1..Len(r) : T[i] = r[i]
    <2>1. TypeOK
      BY DEF Inv
    <2> HIDE DEF e
    <2> QED BY <1>1, <2>1, TransitFact
  <1>5. Header \in Nat /\ Header >= 1 /\ Len(r) >= Header
    BY ConnectionAssumption DEF HeaderRead
  <1>6. /\ R = Len(P) => Len(T) = 0
        /\ R < Len(P) => /\ L <= Len(T)
                         /\ \A k \in 1..L : T[k] = ByteOf(e, R + 1, k, count[R + 1])
    <2> HIDE DEF e, P, R, T
    <2> QED BY <1>2, <1>3, <1>4, LayoutFirst DEF L
  <1>7. R < Len(P) /\ R + 1 \in 1..Len(P)
    <2>1. Len(T) # 0
      BY <1>4, <1>5
    <2> HIDE DEF T, P, R
    <2> QED BY <2>1, <1>3, <1>6
  <1>8. P[R + 1] \in Packet /\ L \in Nat /\ L >= Header
    <2>1. P[R + 1] \in Packet /\ L \in Nat
      BY <1>3, <1>7, PacketFact
    <2>2. L >= Header
      BY <1>1, <1>7 DEF Inv, Buffers
    <2> QED BY <2>1, <2>2
  <1> HIDE DEF e, P, R, T, r, L
  <1>9. /\ r[1] = ByteOf(e, R + 1, 1, count[R + 1])
        /\ \A k \in 1..L : T[k] = ByteOf(e, R + 1, k, count[R + 1])
    <2>1. 1 \in 1..Len(r) /\ 1 \in 1..L
      BY <1>4, <1>5, <1>8
    <2> QED BY <2>1, <1>4, <1>6, <1>7
  <1>10. r[1].at = 1 /\ r[1].pkt = R + 1
    <2>1. \A n, k, c : ByteOf(e, n, k, c).at = k /\ ByteOf(e, n, k, c).pkt = n
      BY DEF ByteOf
    <2> QED BY <1>9, <2>1
  <1>11. Parsed(f) = P[R + 1]
    BY <1>10 DEF Parsed, P, e, r
  <1>12. ASSUME Complete(f), conn[f].poll # "idle" PROVE Decrypts(f)
    <2>1. ~conn[f].disconnected
      BY <1>12 DEF Inv, Buffers
    <2>2. count[R + 1] = conn[f].cipher.decrypted
      BY <1>2, <2>1
    <2>3. conn[f].cipher.xor <=> ~InPlain(e, R + 1)
      BY <1>12, CiphersAgree DEF e, R
    <2>4. L <= Len(r)
      BY <1>12, <1>11 DEF Complete, L, r
    <2>5. ASSUME NEW i \in 1..L
          PROVE  r[i] = [pkt |-> R + 1, at |-> i,
                         as |-> IF conn[f].cipher.xor /\ i > Header
                                THEN conn[f].cipher.decrypted + i - Header ELSE 0]
      <3>1. i \in 1..Len(r)
        BY <2>4, <1>4, <1>8
      <3>2. r[i] = ByteOf(e, R + 1, i, count[R + 1])
        BY <3>1, <1>4, <1>9
      <3> QED BY <3>2, <2>2, <2>3 DEF ByteOf
    <2> QED BY <2>5, <1>10, <1>11 DEF Decrypts, L, r
  <1> QED BY <1>3, <1>7, <1>8, <1>10, <1>11, <1>12 DEF e, P, R, L, r

-----------------------------------------------------------------------------
(* Steps that send and return nothing.                                     *)

(* e's Connection becomes r; the bytes in transit stay what they are.      *)
Quiet(e, r) ==
    /\ conn' = [conn EXCEPT ![e] = r]
    /\ r \in ConnectionRecord /\ Len(r.received) <= r.size
    /\ wire' \in [Ends -> Seq(Byte)]
    /\ \A x \in Ends : Transit(x)' = Transit(x)
    /\ r.ready = conn[e].ready
    /\ r.cipher.xor = conn[e].cipher.xor
    /\ r.cipher.encrypted = conn[e].cipher.encrypted
    /\ r.cipher.decrypted # conn[e].cipher.decrypted => conn[e].ready /\ r.disconnected
    /\ conn[e].disconnected => r.disconnected
    /\ r.disconnected =>
         /\ r.poll = "idle"
         /\ \/ conn[e].disconnected
            \/ closed[Peer(e)]
            \/ /\ Len(got[e]) < Len(sent[Peer(e)])
               /\ sent[Peer(e)][Len(got[e]) + 1].kind \in {"unknown", "malformed"}
    /\ r.poll \in {"parse", "read"} => r.size >= Chunk
    /\ r.poll = "read" => Len(r.received) < r.size
    /\ e = "server" /\ r.poll # "idle" => r.ready
    /\ closed' \in [Ends -> BOOLEAN] /\ \A x \in Ends : closed[x] => closed'[x]
    /\ sent' = sent /\ got' = got

(* They keep the invariant.                                                *)
LEMMA QuietStep ==
    ASSUME Inv, NEW e \in Ends, NEW r, Quiet(e, r)
    PROVE  Inv'
  <1>1. conn \in [Ends -> ConnectionRecord] /\ TypeOK
    BY DEF Inv, TypeOK
  <1>2. /\ conn'[e] = r /\ \A x \in Ends : x # e => conn'[x] = conn[x]
        /\ conn' \in [Ends -> ConnectionRecord]
        /\ sent' = sent /\ got' = got
    BY <1>1 DEF Quiet
  <1>3. TypeOK'
    <2>1. \A x \in Ends : Len(conn'[x].received) <= conn'[x].size
      BY <1>1, <1>2 DEF TypeOK, Quiet
    <2> QED BY <1>1, <1>2, <2>1 DEF TypeOK, Quiet
  <1>4. PacketsInOrder'
    BY <1>2 DEF Inv, PacketsInOrder
  <1>5. NoFalseEnd'
    <2>1. ASSUME NEW x \in Ends, conn'[x].disconnected
          PROVE  \/ closed'[Peer(x)]
                 \/ /\ Len(got[x]) < Len(sent[Peer(x)])
                    /\ sent[Peer(x)][Len(got[x]) + 1].kind \in {"unknown", "malformed"}
      <3>1. \A y \in Ends : closed[y] => closed'[y]
        BY DEF Quiet
      <3>2. conn[x].disconnected \/ closed[Peer(x)]
              \/ /\ Len(got[x]) < Len(sent[Peer(x)])
                 /\ sent[Peer(x)][Len(got[x]) + 1].kind \in {"unknown", "malformed"}
        <4>1. CASE x = e
          BY <4>1, <2>1, <1>2 DEF Quiet
        <4>2. CASE x # e
          BY <4>2, <2>1, <1>2
        <4> QED BY <4>1, <4>2
      <3>3. conn[x].disconnected =>
              \/ closed[Peer(x)]
              \/ /\ Len(got[x]) < Len(sent[Peer(x)])
                 /\ sent[Peer(x)][Len(got[x]) + 1].kind \in {"unknown", "malformed"}
        BY DEF Inv, NoFalseEnd
      <3> QED BY <3>1, <3>2, <3>3, PeerFact
    <2> QED BY <2>1, <1>2 DEF NoFalseEnd
  <1>6. Handshake'
    <2>1. ASSUME NEW x \in Ends
          PROVE  /\ conn'[x].ready = conn[x].ready
                 /\ conn'[x].cipher.xor = conn[x].cipher.xor
                 /\ conn'[x].cipher.encrypted = conn[x].cipher.encrypted
                 /\ ~conn[x].ready => conn'[x].cipher.decrypted = conn[x].cipher.decrypted
      <3>1. CASE x = e
        BY <3>1, <1>2 DEF Quiet
      <3>2. CASE x # e
        BY <3>2, <1>2
      <3> QED BY <3>1, <3>2
    <2>2. "server" \in Ends /\ "client" \in Ends
      BY DEF Ends
    <2> QED BY <1>2, <2>1, <2>2 DEF Inv, Handshake
  <1>7. Buffers'
    <2>1. ASSUME NEW x \in Ends
          PROVE  /\ \A n \in 1..Len(sent'[x]) : sent'[x][n].len >= Header
                 /\ conn'[x].poll \in {"parse", "read"} => conn'[x].size >= Chunk
                 /\ conn'[x].poll = "read" => Len(conn'[x].received) < conn'[x].size
                 /\ conn'[x].disconnected => conn'[x].poll = "idle"
                 /\ x = "server" /\ conn'[x].poll # "idle" => conn'[x].ready
      <3>1. CASE x = e
        BY <3>1, <1>2 DEF Quiet, Inv, Buffers
      <3>2. CASE x # e
        BY <3>2, <1>2 DEF Inv, Buffers
      <3> QED BY <3>1, <3>2
    <2> QED BY <2>1 DEF Buffers
  <1>8. ASSUME NEW x \in Ends PROVE Stream(x)'
    <2>1. Transit(x)' = Transit(x)
      BY DEF Quiet
    <2>2. conn'[x].cipher.encrypted = conn[x].cipher.encrypted
      BY <1>2 DEF Quiet
    <2>3. ~conn'[Peer(x)].disconnected =>
            /\ ~conn[Peer(x)].disconnected
            /\ conn'[Peer(x)].cipher.decrypted = conn[Peer(x)].cipher.decrypted
      <3>1. CASE Peer(x) = e
        BY <3>1, <1>2 DEF Quiet
      <3>2. CASE Peer(x) # e
        BY <3>2, <1>2, PeerFact
      <3> QED BY <3>1, <3>2
    <2>4. Stream(x)
      BY DEF Inv
    <2> QED BY <2>1, <2>2, <2>3, <2>4, <1>2, StreamStays
  <1> QED BY <1>3, <1>4, <1>5, <1>6, <1>7, <1>8 DEF Inv

(* Nothing moves when no buffer changes.                                   *)
LEMMA BytesStay ==
    ASSUME TypeOK, NEW e \in Ends, NEW r \in ConnectionRecord,
           conn' = [conn EXCEPT ![e] = r], wire' = wire,
           r.received = conn[e].received, r.send_buffer = conn[e].send_buffer
    PROVE  \A x \in Ends : Transit(x)' = Transit(x)
  <1> TAKE x \in Ends
  <1>1. \A y \in Ends : conn'[y].received = conn[y].received
                        /\ conn'[y].send_buffer = conn[y].send_buffer
    BY DEF TypeOK
  <1> QED BY <1>1, PeerFact DEF Transit

LEMMA PollNextStep == ASSUME Inv, NEW e \in Ends, PollNext(e) PROVE Inv'
  <1> DEFINE r == [conn[e] EXCEPT !.poll = "write"]
  <1>1. TypeOK
    BY DEF Inv
  <1>2. /\ r \in ConnectionRecord
        /\ r.received = conn[e].received /\ r.send_buffer = conn[e].send_buffer
        /\ r.ready = conn[e].ready /\ r.cipher = conn[e].cipher /\ r.size = conn[e].size
        /\ r.disconnected = conn[e].disconnected /\ r.poll = "write"
    BY <1>1, FieldTypes DEF ConnectionRecord
  <1>3. /\ conn' = [conn EXCEPT ![e] = r]
        /\ wire' = wire /\ closed' = closed /\ sent' = sent /\ got' = got
    BY DEF PollNext, SetConn
  <1>5. ~conn[e].disconnected /\ (e = "server" => conn[e].ready)
    BY DEF PollNext
  <1> HIDE DEF r
  <1>4. \A x \in Ends : Transit(x)' = Transit(x)
    BY <1>1, <1>2, <1>3, BytesStay
  <1>6. Len(r.received) <= r.size
    BY <1>1, <1>2, FieldTypes
  <1>7. Quiet(e, r)
    BY <1>1, <1>2, <1>3, <1>4, <1>5, <1>6 DEF Quiet, TypeOK
  <1> QED BY <1>7, QuietStep

LEMMA WriteDoneStep == ASSUME Inv, NEW e \in Ends, WriteDone(e) PROVE Inv'
  <1> DEFINE r == [conn[e] EXCEPT !.size = Grown(conn[e]), !.poll = "parse"]
  <1>1. TypeOK
    BY DEF Inv
  <1>0. /\ Grown(conn[e]) \in Nat /\ Grown(conn[e]) >= conn[e].size /\ Grown(conn[e]) >= Chunk
        /\ Len(conn[e].received) \in Nat
    <2>1. /\ Len(conn[e].received) \in Nat /\ conn[e].size \in Nat
          /\ Len(conn[e].received) <= conn[e].size
      BY <1>1, FieldTypes, LenProperties
    <2>2. PICK l \in Nat, z \in Nat : l = Len(conn[e].received) /\ z = conn[e].size
      BY <2>1
    <2>3. Grown(conn[e]) = IF z - l < Chunk THEN z + Chunk ELSE z
      BY <2>2 DEF Grown
    <2> QED BY <2>1, <2>2, <2>3, ConnectionAssumption
  <1>2. /\ r \in ConnectionRecord
        /\ r.received = conn[e].received /\ r.send_buffer = conn[e].send_buffer
        /\ r.ready = conn[e].ready /\ r.cipher = conn[e].cipher /\ r.size = Grown(conn[e])
        /\ r.disconnected = conn[e].disconnected /\ r.poll = "parse"
    BY <1>0, <1>1, FieldTypes DEF ConnectionRecord
  <1>3. /\ conn' = [conn EXCEPT ![e] = r] /\ conn[e].poll = "write"
        /\ wire' = wire /\ closed' = closed /\ sent' = sent /\ got' = got
    BY DEF WriteDone, SetConn, At
  <1> HIDE DEF r
  <1>4. \A x \in Ends : Transit(x)' = Transit(x)
    BY <1>1, <1>2, <1>3, BytesStay
  <1>5. ~conn[e].disconnected /\ (e = "server" => conn[e].ready)
    BY <1>3 DEF Inv, Buffers
  <1>6. Len(r.received) <= r.size /\ r.size >= Chunk
    <2>1. Len(conn[e].received) <= conn[e].size /\ conn[e].size \in Nat
      BY <1>1, FieldTypes
    <2> QED BY <2>1, <1>0, <1>2
  <1>7. Quiet(e, r)
    BY <1>1, <1>2, <1>3, <1>4, <1>5, <1>6 DEF Quiet, TypeOK
  <1> QED BY <1>7, QuietStep

(* A connection that fails only stops.                                     *)
LEMMA FailStep ==
    ASSUME Inv, NEW e \in Ends, NEW cipher \in Cipher,
           SetConn(e, Fail([conn[e] EXCEPT !.cipher = cipher])),
           cipher.xor = conn[e].cipher.xor, cipher.encrypted = conn[e].cipher.encrypted,
           cipher.decrypted # conn[e].cipher.decrypted => conn[e].ready,
           \/ closed[Peer(e)]
           \/ /\ Len(got[e]) < Len(sent[Peer(e)])
              /\ sent[Peer(e)][Len(got[e]) + 1].kind \in {"unknown", "malformed"},
           UNCHANGED <<wire, closed, sent, got>>
    PROVE  Inv'
  <1> DEFINE r == Fail([conn[e] EXCEPT !.cipher = cipher])
  <1>1. TypeOK
    BY DEF Inv
  <1>2. /\ r \in ConnectionRecord
        /\ r.received = conn[e].received /\ r.send_buffer = conn[e].send_buffer
        /\ r.ready = conn[e].ready /\ r.cipher = cipher /\ r.size = conn[e].size
        /\ r.disconnected /\ r.poll = "idle"
    BY <1>1, FieldTypes DEF ConnectionRecord, Fail
  <1>3. conn' = [conn EXCEPT ![e] = r]
    BY DEF SetConn
  <1> HIDE DEF r
  <1>4. \A x \in Ends : Transit(x)' = Transit(x)
    BY <1>1, <1>2, <1>3, BytesStay
  <1>5. Len(r.received) <= r.size /\ closed \in [Ends -> BOOLEAN] /\ wire \in [Ends -> Seq(Byte)]
    BY <1>1, <1>2, FieldTypes DEF TypeOK
  <1>6. Quiet(e, r)
    BY <1>2, <1>3, <1>4, <1>5 DEF Quiet
  <1> QED BY <1>6, QuietStep

(* With the cipher it has.                                                 *)
LEMMA SameCipher ==
    ASSUME TypeOK, NEW e \in Ends, SetConn(e, Fail(conn[e]))
    PROVE  /\ conn[e].cipher \in Cipher
           /\ SetConn(e, Fail([conn[e] EXCEPT !.cipher = conn[e].cipher]))
  <1>1. conn[e] \in ConnectionRecord /\ conn[e].cipher \in Cipher
    BY FieldTypes
  <1>2. [conn[e] EXCEPT !.cipher = conn[e].cipher] = conn[e]
    BY <1>1 DEF ConnectionRecord
  <1> QED BY <1>1, <1>2

LEMMA WriteErrorStep == ASSUME Inv, NEW e \in Ends, WriteError(e) PROVE Inv'
  <1>1. TypeOK
    BY DEF Inv
  <1>2. SetConn(e, Fail(conn[e])) /\ closed[Peer(e)] /\ UNCHANGED <<wire, closed, sent, got>>
    BY DEF WriteError
  <1> QED BY <1>1, <1>2, SameCipher, FailStep

LEMMA ParseMalformedStep == ASSUME Inv, NEW e \in Ends, ParseMalformed(e) PROVE Inv'
  <1>1. TypeOK
    BY DEF Inv
  <1>2. /\ SetConn(e, Fail(conn[e])) /\ HeaderRead(e) /\ ~WellFormed(e)
        /\ UNCHANGED <<wire, closed, sent, got>>
    BY DEF ParseMalformed
  <1>3. /\ Len(got[e]) < Len(sent[Peer(e)])
        /\ sent[Peer(e)][Len(got[e]) + 1].kind = "malformed"
    BY <1>2, FirstPacket DEF WellFormed
  <1> QED BY <1>1, <1>2, <1>3, SameCipher, FailStep

LEMMA ParseUnknownStep == ASSUME Inv, NEW e \in Ends, ParseUnknown(e) PROVE Inv'
  <1> DEFINE cipher == Decrypted(e)
  <1>1. TypeOK
    BY DEF Inv
  <1>2. /\ SetConn(e, Fail([conn[e] EXCEPT !.cipher = cipher]))
        /\ HeaderRead(e) /\ Parsed(e).kind = "unknown"
        /\ UNCHANGED <<wire, closed, sent, got>>
    BY DEF ParseUnknown, CanParse
  <1>3. /\ Len(got[e]) < Len(sent[Peer(e)])
        /\ sent[Peer(e)][Len(got[e]) + 1].kind = "unknown"
        /\ Parsed(e).len \in Nat /\ Parsed(e).len >= Header
    BY <1>2, FirstPacket
  <1>4. /\ cipher \in Cipher /\ cipher.xor = conn[e].cipher.xor
        /\ cipher.encrypted = conn[e].cipher.encrypted
        /\ ~conn[e].cipher.xor => cipher = conn[e].cipher
    <2>1. /\ conn[e].cipher \in Cipher /\ conn[e].cipher.decrypted \in Nat
      BY <1>1, FieldTypes
    <2>2. conn[e].cipher.decrypted + Parsed(e).len - Header \in Nat
      <3>1. PICK d \in Nat, l \in Nat : d = conn[e].cipher.decrypted /\ l = Parsed(e).len
        BY <1>3, <2>1
      <3> QED BY <3>1, <1>3, ConnectionAssumption
    <2> QED BY <2>1, <2>2 DEF Decrypted, Cipher
  <1>5. conn[e].cipher.xor <=> conn[e].ready
    BY DEF Inv, Handshake
  <1> HIDE DEF cipher
  <1>6. cipher.decrypted # conn[e].cipher.decrypted => conn[e].ready
    BY <1>4, <1>5
  <1> QED BY <1>2, <1>3, <1>4, <1>6, FailStep

(* A packet larger than the buffer makes room for itself.                  *)
LEMMA ParseIncompleteStep == ASSUME Inv, NEW e \in Ends, ParseIncomplete(e) PROVE Inv'
  <1> DEFINE size == IF HeaderRead(e) THEN Greatest(conn[e].size, Parsed(e).len) ELSE conn[e].size
             r == [conn[e] EXCEPT !.size = size, !.poll = "read"]
  <1>1. TypeOK
    BY DEF Inv
  <1>2. conn[e].poll = "parse" /\ Incomplete(e)
    BY DEF ParseIncomplete, At
  <1>3. ~conn[e].disconnected /\ (e = "server" => conn[e].ready) /\ conn[e].size >= Chunk
    BY <1>2 DEF Inv, Buffers
  <1>4. /\ Len(conn[e].received) \in Nat /\ conn[e].size \in Nat
        /\ Len(conn[e].received) <= conn[e].size
    BY <1>1, FieldTypes, LenProperties
  <1>5. size \in Nat /\ size >= Chunk /\ Len(conn[e].received) < size
    <2>1. CASE HeaderRead(e)
      <3>1. Parsed(e).len \in Nat
        BY <2>1, FirstPacket
      <3>2. ~(Len(conn[e].received) >= Parsed(e).len)
        BY <1>2, <2>1 DEF Incomplete, Complete
      <3>3. PICK l \in Nat, z \in Nat, p \in Nat :
              l = Len(conn[e].received) /\ z = conn[e].size /\ p = Parsed(e).len
        BY <3>1, <1>4
      <3>4. size = IF z < p THEN p ELSE z
        BY <2>1, <3>3 DEF Greatest
      <3> HIDE DEF size
      <3> QED BY <3>2, <3>3, <3>4, <1>3, <1>4, ConnectionAssumption
    <2>2. CASE ~HeaderRead(e)
      <3>1. Len(conn[e].received) < Header
        BY <2>2, <1>4, ConnectionAssumption DEF HeaderRead
      <3>2. PICK l \in Nat, z \in Nat : l = Len(conn[e].received) /\ z = conn[e].size
        BY <1>4
      <3>3. size = z
        BY <2>2, <3>2
      <3> HIDE DEF size
      <3> QED BY <3>1, <3>2, <3>3, <1>3, ConnectionAssumption
    <2> QED BY <2>1, <2>2
  <1>6. r.size = size /\ conn' = [conn EXCEPT ![e] = r]
        /\ wire' = wire /\ closed' = closed /\ sent' = sent /\ got' = got
    <2>1. r.size = size
      BY <1>1, FieldTypes DEF ConnectionRecord
    <2> QED BY <2>1 DEF ParseIncomplete, SetConn
  <1> HIDE DEF size
  <1>7. /\ r \in ConnectionRecord
        /\ r.received = conn[e].received /\ r.send_buffer = conn[e].send_buffer
        /\ r.ready = conn[e].ready /\ r.cipher = conn[e].cipher
        /\ r.disconnected = conn[e].disconnected /\ r.poll = "read"
    BY <1>1, <1>5, FieldTypes DEF ConnectionRecord
  <1> HIDE DEF r
  <1>8. \A x \in Ends : Transit(x)' = Transit(x)
    BY <1>1, <1>6, <1>7, BytesStay
  <1>9. Len(r.received) < r.size /\ r.size >= Chunk /\ Len(r.received) <= r.size
    BY <1>4, <1>5, <1>6, <1>7
  <1>10. Quiet(e, r)
    BY <1>1, <1>3, <1>6, <1>7, <1>8, <1>9 DEF Quiet, TypeOK
  <1> QED BY <1>10, QuietStep

LEMMA ReadPendingStep == ASSUME Inv, NEW e \in Ends, ReadPending(e) PROVE Inv'
  <1> DEFINE r == [conn[e] EXCEPT !.poll = "idle"]
  <1>1. TypeOK
    BY DEF Inv
  <1>2. /\ r \in ConnectionRecord
        /\ r.received = conn[e].received /\ r.send_buffer = conn[e].send_buffer
        /\ r.ready = conn[e].ready /\ r.cipher = conn[e].cipher /\ r.size = conn[e].size
        /\ r.disconnected = conn[e].disconnected /\ r.poll = "idle"
    BY <1>1, FieldTypes DEF ConnectionRecord
  <1>3. /\ conn' = [conn EXCEPT ![e] = r]
        /\ wire' = wire /\ closed' = closed /\ sent' = sent /\ got' = got
    BY DEF ReadPending, SetConn
  <1> HIDE DEF r
  <1>4. \A x \in Ends : Transit(x)' = Transit(x)
    BY <1>1, <1>2, <1>3, BytesStay
  <1>5. Len(r.received) <= r.size
    BY <1>1, <1>2, FieldTypes
  <1>6. Quiet(e, r)
    BY <1>1, <1>2, <1>3, <1>4, <1>5 DEF Quiet, TypeOK
  <1> QED BY <1>6, QuietStep

(* There is room to read into, so the end of the stream is one.            *)
LEMMA ReadEndStep == ASSUME Inv, NEW e \in Ends, ReadEnd(e) PROVE Inv'
  <1>1. TypeOK
    BY DEF Inv
  <1>2. /\ SetConn(e, Fail(conn[e])) /\ conn[e].poll = "read"
        /\ closed[Peer(e)] \/ Room(e) = 0
        /\ UNCHANGED <<wire, closed, sent, got>>
    BY DEF ReadEnd, At
  <1>3. Room(e) # 0
    <2>1. /\ Len(conn[e].received) \in Nat /\ conn[e].size \in Nat
          /\ Len(conn[e].received) < conn[e].size
      BY <1>1, <1>2, FieldTypes, LenProperties DEF Inv, Buffers
    <2> QED BY <2>1 DEF Room
  <1> QED BY <1>1, <1>2, <1>3, SameCipher, FailStep

LEMMA CloseStep == ASSUME Inv, NEW e \in Ends, Close(e) PROVE Inv'
  <1>1. TypeOK
    BY DEF Inv
  <1>2. /\ conn' = conn /\ wire' = wire /\ sent' = sent /\ got' = got
        /\ closed' = [closed EXCEPT ![e] = TRUE]
    BY DEF Close
  <1>3. conn = [conn EXCEPT ![e] = conn[e]] /\ conn[e] \in ConnectionRecord
    BY <1>1 DEF TypeOK
  <1>4. \A x \in Ends : Transit(x)' = Transit(x)
    BY <1>2 DEF Transit
  <1>5. closed' \in [Ends -> BOOLEAN] /\ \A x \in Ends : closed[x] => closed'[x]
    BY <1>1, <1>2 DEF TypeOK
  <1>6. wire' \in [Ends -> Seq(Byte)] /\ Len(conn[e].received) <= conn[e].size
    BY <1>1, <1>2 DEF TypeOK
  <1>7. Quiet(e, conn[e])
    BY <1>2, <1>3, <1>4, <1>5, <1>6 DEF Quiet, Inv, Buffers
  <1> QED BY <1>7, QuietStep

LEMMA WriteStep == ASSUME Inv, NEW e \in Ends, Write(e) PROVE Inv'
  <1>1. TypeOK
    BY DEF Inv
  <1>2. PICK count \in 1..Least(Len(conn[e].send_buffer), Capacity - Len(wire[e])) :
          /\ wire' = [wire EXCEPT ![e] = @ \o SubSeq(conn[e].send_buffer, 1, count)]
          /\ SetConn(e, [conn[e] EXCEPT !.send_buffer = SubSeq(@, count + 1, Len(@))])
    BY DEF Write
  <1> DEFINE b == conn[e].send_buffer
             r == [conn[e] EXCEPT !.send_buffer = SubSeq(b, count + 1, Len(b))]
  <1>3. conn[e] \in ConnectionRecord /\ b \in Seq(Byte) /\ wire[e] \in Seq(Byte)
    BY <1>1, FieldTypes
  <1>4. count \in 0..Len(b)
    <2>1. Len(b) \in Nat /\ Len(wire[e]) \in Nat /\ Capacity \in Nat
      BY <1>3, LenProperties, ConnectionAssumption
    <2> HIDE DEF b
    <2>0. PICK l \in Nat, m \in Nat, z \in Nat : l = Len(b) /\ m = Len(wire[e]) /\ z = Capacity
      BY <2>1
    <2>3. count \in 1..(IF l < z - m THEN l ELSE z - m)
      BY <2>0 DEF b, Least
    <2> QED BY <2>0, <2>3
  <1>5. SubSeq(b, 1, count) \in Seq(Byte) /\ SubSeq(b, count + 1, Len(b)) \in Seq(Byte)
    <2> HIDE DEF b
    <2> QED BY <1>3, <1>4, CutAnywhere
  <1>6. /\ conn' = [conn EXCEPT ![e] = r] /\ closed' = closed /\ sent' = sent /\ got' = got
    BY <1>2 DEF SetConn, Write
  <1>7. /\ r \in ConnectionRecord
        /\ r.received = conn[e].received /\ r.send_buffer = SubSeq(b, count + 1, Len(b))
        /\ r.ready = conn[e].ready /\ r.cipher = conn[e].cipher /\ r.size = conn[e].size
        /\ r.disconnected = conn[e].disconnected /\ r.poll = conn[e].poll
    BY <1>3, <1>5 DEF ConnectionRecord
  <1>8. /\ wire' \in [Ends -> Seq(Byte)] /\ wire'[e] = wire[e] \o SubSeq(b, 1, count)
        /\ \A x \in Ends : x # e => wire'[x] = wire[x]
    <2>1. wire[e] \o SubSeq(b, 1, count) \in Seq(Byte)
      BY <1>3, <1>5, ConcatProperties
    <2> QED BY <2>1, <1>1, <1>2 DEF TypeOK
  <1> HIDE DEF r
  <1>9. conn'[e] = r /\ \A x \in Ends : x # e => conn'[x] = conn[x]
    BY <1>1, <1>6 DEF TypeOK
  <1>10. ASSUME NEW x \in Ends PROVE Transit(x)' = Transit(x)
    <2>1. CASE x = e
      <3>1. conn'[Peer(e)].received = conn[Peer(e)].received /\ conn[Peer(e)].received \in Seq(Byte)
        BY <1>1, <1>9, PeerFact, FieldTypes
      <3>2. (conn[Peer(e)].received \o (wire[e] \o SubSeq(b, 1, count))) \o SubSeq(b, count + 1, Len(b))
              = (conn[Peer(e)].received \o wire[e]) \o b
        <4> HIDE DEF b
        <4> DEFINE a == conn[Peer(e)].received
                   m == wire[e]
                   h == SubSeq(b, 1, count)
                   t == SubSeq(b, count + 1, Len(b))
        <4>1. /\ a \in Seq(Byte) /\ m \in Seq(Byte) /\ h \in Seq(Byte) /\ t \in Seq(Byte)
          BY <1>3, <1>5, <3>1
        <4>2. h \o t = b
          BY <1>3, <1>4, CutAnywhere
        <4> HIDE DEF a, m, h, t
        <4>3. (a \o (m \o h)) \o t = (a \o m) \o (h \o t)
          <5>1. a \o m \in Seq(Byte)
            BY <4>1, ConcatProperties
          <5>2. (a \o m) \o h = a \o (m \o h)
            BY <4>1, ConcatAssociative
          <5>3. ((a \o m) \o h) \o t = (a \o m) \o (h \o t)
            <6> DEFINE am == a \o m
            <6>1. am \in Seq(Byte) /\ h \in Seq(Byte) /\ t \in Seq(Byte)
              BY <4>1, <5>1
            <6> HIDE DEF am
            <6>2. (am \o h) \o t = am \o (h \o t)
              BY <6>1, ConcatAssociative
            <6> QED BY <6>2 DEF am
          <5> QED BY <5>2, <5>3
        <4> QED BY <4>2, <4>3 DEF a, m, h, t
      <3> QED BY <2>1, <3>1, <3>2, <1>7, <1>8, <1>9 DEF Transit
    <2>2. CASE x # e
      <3>1. Peer(x) = e
        BY <2>2, PeerFact
      <3> QED BY <3>1, <2>2, <1>7, <1>8, <1>9 DEF Transit
    <2> QED BY <2>1, <2>2
  <1>11. Len(r.received) <= r.size /\ closed \in [Ends -> BOOLEAN]
    BY <1>1, <1>7, FieldTypes DEF TypeOK
  <1> HIDE DEF b
  <1>12. Quiet(e, r)
    BY <1>6, <1>7, <1>8, <1>10, <1>11 DEF Quiet, Inv, Buffers
  <1> QED BY <1>12, QuietStep

LEMMA ReadStep == ASSUME Inv, NEW e \in Ends, Read(e) PROVE Inv'
  <1> DEFINE w == wire[Peer(e)]
             v == conn[e].received
  <1>1. TypeOK
    BY DEF Inv
  <1>2. PICK count \in 1..Least(Room(e), Len(wire[Peer(e)])) :
          /\ SetConn(e, [conn[e] EXCEPT !.received = @ \o SubSeq(wire[Peer(e)], 1, count),
                                        !.poll = "parse"])
          /\ wire' = [wire EXCEPT ![Peer(e)] = SubSeq(@, count + 1, Len(@))]
    BY DEF Read
  <1> DEFINE r == [conn[e] EXCEPT !.received = v \o SubSeq(w, 1, count), !.poll = "parse"]
  <1>3. /\ conn[e] \in ConnectionRecord /\ v \in Seq(Byte) /\ w \in Seq(Byte)
        /\ Len(v) <= conn[e].size /\ conn[e].size \in Nat
    BY <1>1, FieldTypes, PeerFact
  <1>4. count \in 0..Len(w) /\ Len(v) + count <= conn[e].size
    <2>1. Len(v) \in Nat /\ Len(w) \in Nat
      BY <1>3, LenProperties
    <2>2. PICK l \in Nat, m \in Nat, z \in Nat : l = Len(v) /\ m = Len(w) /\ z = conn[e].size
      BY <2>1, <1>3
    <2>3. count \in 1..(IF z - l < m THEN z - l ELSE m)
      BY <2>2 DEF Least, Room
    <2>4. count \in 0..m /\ l + count <= z
      BY <2>3, <2>2, <1>3
    <2> HIDE DEF v, w
    <2> QED BY <2>2, <2>4
  <1>5. /\ SubSeq(w, 1, count) \in Seq(Byte) /\ SubSeq(w, count + 1, Len(w)) \in Seq(Byte)
        /\ SubSeq(w, 1, count) \o SubSeq(w, count + 1, Len(w)) = w
        /\ Len(SubSeq(w, 1, count)) = count
    <2> HIDE DEF w
    <2> QED BY <1>3, <1>4, CutAnywhere
  <1>6. /\ v \o SubSeq(w, 1, count) \in Seq(Byte)
        /\ Len(v \o SubSeq(w, 1, count)) <= conn[e].size
    <2> HIDE DEF v, w
    <2>1. /\ v \o SubSeq(w, 1, count) \in Seq(Byte)
          /\ Len(v \o SubSeq(w, 1, count)) = Len(v) + Len(SubSeq(w, 1, count))
      BY <1>3, <1>5, ConcatProperties
    <2> QED BY <2>1, <1>4, <1>5
  <1>7. /\ conn' = [conn EXCEPT ![e] = r] /\ closed' = closed /\ sent' = sent /\ got' = got
        /\ conn[e].poll = "read"
    BY <1>2 DEF SetConn, Read, At
  <1>8. /\ r \in ConnectionRecord
        /\ r.received = v \o SubSeq(w, 1, count) /\ r.send_buffer = conn[e].send_buffer
        /\ r.ready = conn[e].ready /\ r.cipher = conn[e].cipher /\ r.size = conn[e].size
        /\ r.disconnected = conn[e].disconnected /\ r.poll = "parse"
    BY <1>3, <1>6 DEF ConnectionRecord
  <1>9. /\ wire' \in [Ends -> Seq(Byte)] /\ wire'[Peer(e)] = SubSeq(w, count + 1, Len(w))
        /\ \A x \in Ends : x # Peer(e) => wire'[x] = wire[x]
    BY <1>1, <1>2, <1>5, PeerFact DEF TypeOK
  <1> HIDE DEF r
  <1>10. conn'[e] = r /\ \A x \in Ends : x # e => conn'[x] = conn[x]
    BY <1>1, <1>7 DEF TypeOK
  <1>11. ASSUME NEW x \in Ends PROVE Transit(x)' = Transit(x)
    <2>1. CASE x = e
      BY <2>1, <1>8, <1>9, <1>10, PeerFact DEF Transit
    <2>2. CASE x # e
      <3>1. x = Peer(e) /\ Peer(x) = e
        BY <2>2, PeerFact
      <3>2. (v \o SubSeq(w, 1, count)) \o SubSeq(w, count + 1, Len(w)) = v \o w
        <4> HIDE DEF v, w
        <4> DEFINE h == SubSeq(w, 1, count)
                   t == SubSeq(w, count + 1, Len(w))
        <4>1. v \in Seq(Byte) /\ h \in Seq(Byte) /\ t \in Seq(Byte)
          BY <1>3, <1>5
        <4>2. h \o t = w
          BY <1>5
        <4> HIDE DEF h, t
        <4>3. (v \o h) \o t = v \o (h \o t)
          BY <4>1, ConcatAssociative
        <4> QED BY <4>2, <4>3 DEF h, t
      <3>3. conn'[x].send_buffer = conn[x].send_buffer
        BY <2>2, <1>10
      <3> QED BY <3>1, <3>2, <3>3, <1>8, <1>9, <1>10 DEF Transit
    <2> QED BY <2>1, <2>2
  <1>12. /\ ~conn[e].disconnected /\ (e = "server" => conn[e].ready) /\ conn[e].size >= Chunk
    BY <1>7 DEF Inv, Buffers
  <1>13. Len(r.received) <= r.size /\ closed \in [Ends -> BOOLEAN]
    BY <1>1, <1>6, <1>8 DEF TypeOK
  <1> HIDE DEF v, w
  <1>14. Quiet(e, r)
    BY <1>7, <1>8, <1>9, <1>11, <1>12, <1>13 DEF Quiet
  <1> QED BY <1>14, QuietStep

-----------------------------------------------------------------------------
(* Steps that send.                                                        *)

(* e sends packet, and its Connection becomes r.                           *)
Sending(e, packet, r) ==
    /\ conn' = [conn EXCEPT ![e] = r]
    /\ r \in ConnectionRecord
    /\ r.received = conn[e].received /\ r.size = conn[e].size
    /\ r.disconnected = conn[e].disconnected /\ r.poll = conn[e].poll
    /\ r.ready /\ r.cipher.xor
    /\ r.cipher.decrypted = conn[e].cipher.decrypted
    /\ e = "client" => conn[e].ready
    /\ sent' = [sent EXCEPT ![e] = Append(@, packet)]
    /\ wire' = wire /\ closed' = closed /\ got' = got

LEMMA SendingStep ==
    ASSUME Inv, NEW e \in Ends, NEW packet \in Packet, NEW r,
           Sending(e, packet, r), Sends(e, packet)
    PROVE  Inv'
  <1> DEFINE N == Len(sent[e])
  <1>1. /\ TypeOK /\ conn \in [Ends -> ConnectionRecord] /\ sent \in [Ends -> Seq(Packet)]
        /\ sent[e] \in Seq(Packet)
    BY DEF Inv, TypeOK
  <1>2. /\ conn'[e] = r /\ \A x \in Ends : x # e => conn'[x] = conn[x]
        /\ conn' \in [Ends -> ConnectionRecord]
        /\ wire' = wire /\ closed' = closed /\ got' = got
    BY <1>1 DEF Sending
  <1>3. /\ sent'[e] = Append(sent[e], packet) /\ \A x \in Ends : x # e => sent'[x] = sent[x]
    BY <1>1 DEF Sending
  <1>4. /\ sent'[e] \in Seq(Packet) /\ N \in Nat /\ Len(sent'[e]) = N + 1
        /\ sent'[e] # <<>> /\ sent'[e][N + 1] = packet
        /\ \A n \in 1..N : sent'[e][n] = sent[e][n]
    BY <1>1, <1>3, AppendProperties, LenProperties
  <1>5. ASSUME NEW x \in Ends
        PROVE  /\ Len(sent[x]) <= Len(sent'[x])
               /\ \A n \in 1..Len(sent[x]) : sent'[x][n] = sent[x][n]
    <2>1. CASE x = e
      BY <2>1, <1>4
    <2>2. CASE x # e
      <3>1. Len(sent[x]) \in Nat
        BY <1>1, LenProperties
      <3> QED BY <3>1, <2>2, <1>3
    <2> QED BY <2>1, <2>2
  <1>6. TypeOK'
    <2>1. \A x \in Ends : Len(conn'[x].received) <= conn'[x].size
      BY <1>1, <1>2 DEF TypeOK, Sending
    <2>2. sent' \in [Ends -> Seq(Packet)]
      BY <1>1, <1>3, <1>4 DEF Sending
    <2> QED BY <1>1, <1>2, <2>1, <2>2 DEF TypeOK
  <1>7. \A x \in Ends : /\ Peer(x) \in Ends
                        /\ Len(got[x]) \in Nat /\ Len(sent[Peer(x)]) \in Nat /\ Len(sent'[Peer(x)]) \in Nat
                        /\ DOMAIN got[x] = 1..Len(got[x])
    BY <1>6, <1>1, PeerFact, LenProperties DEF TypeOK
  <1>8. PacketsInOrder'
    <2>1. ASSUME NEW x \in Ends
          PROVE  /\ Len(got[x]) <= Len(sent'[Peer(x)])
                 /\ \A n \in DOMAIN got[x] : got[x][n] = sent'[Peer(x)][n]
      <3>1. /\ Len(got[x]) <= Len(sent[Peer(x)])
            /\ \A n \in DOMAIN got[x] : got[x][n] = sent[Peer(x)][n]
        BY DEF Inv, PacketsInOrder
      <3>2. \A n \in DOMAIN got[x] : n \in 1..Len(sent[Peer(x)])
        BY <3>1, <1>7
      <3> QED BY <3>1, <3>2, <1>5, <1>7
    <2> QED BY <2>1, <1>2 DEF PacketsInOrder
  <1>9. NoFalseEnd'
    <2>1. ASSUME NEW x \in Ends, conn'[x].disconnected
          PROVE  \/ closed[Peer(x)]
                 \/ /\ Len(got[x]) < Len(sent'[Peer(x)])
                    /\ sent'[Peer(x)][Len(got[x]) + 1].kind \in {"unknown", "malformed"}
      <3>1. conn[x].disconnected
        BY <2>1, <1>2 DEF Sending
      <3>2. \/ closed[Peer(x)]
            \/ /\ Len(got[x]) < Len(sent[Peer(x)])
               /\ sent[Peer(x)][Len(got[x]) + 1].kind \in {"unknown", "malformed"}
        BY <3>1 DEF Inv, NoFalseEnd
      <3>3. Len(got[x]) < Len(sent[Peer(x)]) =>
              /\ Len(got[x]) < Len(sent'[Peer(x)])
              /\ sent'[Peer(x)][Len(got[x]) + 1] = sent[Peer(x)][Len(got[x]) + 1]
        <4>1. Len(got[x]) < Len(sent[Peer(x)]) => Len(got[x]) + 1 \in 1..Len(sent[Peer(x)])
          BY <1>7
        <4> QED BY <4>1, <1>5, <1>7
      <3> QED BY <3>2, <3>3
    <2> QED BY <2>1, <1>2 DEF NoFalseEnd
  <1>10. Handshake'
    <2>1. ASSUME NEW x \in Ends
          PROVE  /\ conn'[x].cipher.xor <=> conn'[x].ready
                 /\ ~conn'[x].ready => /\ conn'[x].cipher.encrypted = 0
                                       /\ conn'[x].cipher.decrypted = 0
                                       /\ sent'[x] = <<>>
      <3>1. CASE x = e
        BY <3>1, <1>2 DEF Sending
      <3>2. CASE x # e
        BY <3>2, <1>2, <1>3 DEF Inv, Handshake
      <3> QED BY <3>1, <3>2
    <2>2. conn'["server"].ready <=> sent'["server"] # <<>>
      <3>1. CASE e = "server"
        BY <3>1, <1>2, <1>4 DEF Sending
      <3>2. CASE e # "server"
        BY <3>2, <1>2, <1>3 DEF Inv, Handshake, Ends
      <3> QED BY <3>1, <3>2
    <2>3. conn'["client"].ready <=> got'["client"] # <<>>
      <3>1. CASE e = "client"
        BY <3>1, <1>2 DEF Sending, Inv, Handshake
      <3>2. CASE e # "client"
        BY <3>2, <1>2 DEF Inv, Handshake, Ends
      <3> QED BY <3>1, <3>2
    <2> QED BY <2>1, <2>2, <2>3 DEF Handshake
  <1>11. Buffers'
    <2>1. ASSUME NEW x \in Ends
          PROVE  /\ \A n \in 1..Len(sent'[x]) : sent'[x][n].len >= Header
                 /\ conn'[x].poll \in {"parse", "read"} => conn'[x].size >= Chunk
                 /\ conn'[x].poll = "read" => Len(conn'[x].received) < conn'[x].size
                 /\ conn'[x].disconnected => conn'[x].poll = "idle"
                 /\ x = "server" /\ conn'[x].poll # "idle" => conn'[x].ready
      <3>1. CASE x = e
        <4>1. \A n \in 1..N + 1 : sent'[e][n].len >= Header
          <5>1. packet.len >= Header
            BY DEF Sends
          <5>2. \A n \in 1..N : sent[e][n].len >= Header
            BY DEF Inv, Buffers
          <5>3. \A n \in 1..N + 1 : n = N + 1 \/ n \in 1..N
            BY <1>4
          <5> HIDE DEF N
          <5> QED BY <5>1, <5>2, <5>3, <1>4
        <4> QED BY <3>1, <4>1, <1>2, <1>4 DEF Sending, Inv, Buffers
      <3>2. CASE x # e
        BY <3>2, <1>2, <1>3 DEF Inv, Buffers
      <3> QED BY <3>1, <3>2
    <2> QED BY <2>1 DEF Buffers
  <1>12. ASSUME NEW x \in Ends PROVE Stream(x)'
    <2>1. CASE x = e
      BY <2>1, <1>1, StreamGrows DEF Inv
    <2>2. CASE x # e
      <3>1. Peer(x) = e /\ Peer(e) = x
        BY <2>2, PeerFact
      <3>2. Transit(x)' = Transit(x)
        BY <3>1, <2>2, <1>2 DEF Transit, Sending
      <3>3. /\ conn'[x].cipher.encrypted = conn[x].cipher.encrypted
            /\ sent'[x] = sent[x] /\ got'[Peer(x)] = got[Peer(x)]
        BY <2>2, <1>2, <1>3
      <3>4. /\ conn'[Peer(x)].disconnected = conn[Peer(x)].disconnected
            /\ conn'[Peer(x)].cipher.decrypted = conn[Peer(x)].cipher.decrypted
        BY <3>1, <1>2 DEF Sending
      <3>5. Stream(x)
        BY DEF Inv
      <3> QED BY <3>2, <3>3, <3>4, <3>5, StreamStays
    <2> QED BY <2>1, <2>2
  <1> QED BY <1>6, <1>8, <1>9, <1>10, <1>11, <1>12 DEF Inv

LEMMA InitEncryptionStep == ASSUME Inv, InitEncryption PROVE Inv'
  <1> DEFINE c == conn["server"]
             enc == Encoded(1, Key, c.cipher)
             r == [SendPacket(c, 1, Key) EXCEPT !.cipher = Xor, !.ready = TRUE]
  <1>1. TypeOK /\ "server" \in Ends
    BY DEF Inv, Ends
  <1>2. /\ conn' = [conn EXCEPT !["server"] = r]
        /\ sent' = [sent EXCEPT !["server"] = Append(@, Key)]
        /\ wire' = wire /\ closed' = closed /\ got' = got /\ ~c.ready
    BY DEF InitEncryption, SetConn
  <1>3. Key \in Packet /\ Key.len >= Header
    BY ConnectionAssumption DEF Key, Packet, Kinds
  <1>4. /\ ~c.cipher.xor /\ c.cipher.encrypted = 0 /\ c.cipher.decrypted = 0
        /\ sent["server"] = <<>> /\ Len(sent["server"]) = 0
    BY <1>1, <1>2 DEF Inv, Handshake
  <1>5. c \in ConnectionRecord /\ c.cipher \in Cipher /\ c.send_buffer \in Seq(Byte)
    BY <1>1, FieldTypes
  <1>6. c.send_buffer \o enc \in Seq(Byte)
    <2>1. enc \in Seq(Byte)
      BY <1>3, <1>5, EncodedFact
    <2> HIDE DEF enc, c
    <2> QED BY <2>1, <1>5, ConcatProperties
  <1> HIDE DEF enc
  <1>7. Xor \in Cipher /\ Xor.xor /\ Xor.encrypted = 0 /\ Xor.decrypted = 0
    BY DEF Xor, Cipher
  <1>8. /\ r \in ConnectionRecord
        /\ r.received = c.received /\ r.size = c.size /\ r.disconnected = c.disconnected
        /\ r.poll = c.poll /\ r.ready /\ r.cipher = Xor
        /\ r.send_buffer = c.send_buffer \o enc
    BY <1>5, <1>6, <1>7 DEF ConnectionRecord, SendPacket, enc
  <1> HIDE DEF r
  <1>9. Sending("server", Key, r)
    BY <1>2, <1>4, <1>7, <1>8 DEF Sending
  <1>10. Sends("server", Key)
    <2>1. conn'["server"] = r /\ conn'[Peer("server")] = conn[Peer("server")]
      BY <1>1, <1>2, PeerFact DEF TypeOK
    <2>2. sent'["server"] = Append(sent["server"], Key)
      BY <1>1, <1>2 DEF TypeOK
    <2>3. InPlain("server", Len(sent["server"]) + 1)
      BY <1>4 DEF InPlain
    <2>4. conn'["server"].cipher.encrypted = c.cipher.encrypted + 0
      BY <2>1, <1>4, <1>7, <1>8
    <2>5. conn'["server"].send_buffer =
            c.send_buffer \o Encoded(Len(sent["server"]) + 1, Key, c.cipher)
      <3>1. Len(sent["server"]) + 1 = 1
        BY <1>4
      <3>2. conn'["server"].send_buffer = c.send_buffer \o enc
        BY <2>1, <1>8
      <3> HIDE DEF c
      <3> QED BY <3>1, <3>2 DEF enc
    <2> QED BY <2>1, <2>2, <2>3, <2>4, <2>5, <1>2, <1>3, <1>4 DEF Sends
  <1> QED BY <1>1, <1>3, <1>9, <1>10, SendingStep

LEMMA SendStep == ASSUME Inv, NEW e \in Ends, Send(e) PROVE Inv'
  <1>1. TypeOK
    BY DEF Inv
  <1>2. PICK packet \in Offers[e] :
          /\ SetConn(e, SendPacket(conn[e], Len(sent[e]) + 1, packet))
          /\ sent' = [sent EXCEPT ![e] = Append(@, packet)]
    BY DEF Send
  <1> DEFINE c == conn[e]
             enc == Encoded(Len(sent[e]) + 1, packet, c.cipher)
             r == SendPacket(c, Len(sent[e]) + 1, packet)
  <1>3. /\ conn' = [conn EXCEPT ![e] = r] /\ conn[e].ready
        /\ wire' = wire /\ closed' = closed /\ got' = got
    BY <1>2 DEF Send, SetConn
  <1>4. packet \in Packet /\ packet.len \in Nat /\ packet.len >= Header
    BY ConnectionAssumption DEF Packet
  <1>5. /\ c \in ConnectionRecord /\ c.cipher \in Cipher /\ c.send_buffer \in Seq(Byte)
        /\ sent[e] \in Seq(Packet) /\ Len(sent[e]) \in Nat /\ Len(sent[e]) + 1 \in Nat
        /\ c.cipher.encrypted \in Nat
    BY <1>1, FieldTypes, LenProperties
  <1>6. c.cipher.xor
    BY <1>3 DEF Inv, Handshake
  <1>7. ~InPlain(e, Len(sent[e]) + 1)
    <2>1. CASE e = "server"
      <3>1. sent[e] # <<>>
        BY <2>1, <1>3 DEF Inv, Handshake
      <3>2. Len(sent[e]) # 0
        BY <3>1, <1>5, EmptySeq
      <3> QED BY <3>2, <1>5 DEF InPlain
    <2>2. CASE e # "server"
      BY <2>2 DEF InPlain
    <2> QED BY <2>1, <2>2
  <1>8. c.send_buffer \o enc \in Seq(Byte)
    <2>1. enc \in Seq(Byte)
      BY <1>4, <1>5, EncodedFact
    <2> HIDE DEF enc, c
    <2> QED BY <2>1, <1>5, ConcatProperties
  <1> HIDE DEF enc
  <1> DEFINE cipher == Encrypting(c.cipher, packet.len - Header)
  <1>9. /\ cipher \in Cipher /\ cipher.xor /\ cipher.decrypted = c.cipher.decrypted
        /\ cipher.encrypted = c.cipher.encrypted + (packet.len - Header)
    <2>1. packet.len - Header \in Nat
      <3>1. PICK l \in Nat : l = packet.len
        BY <1>4
      <3> QED BY <3>1, <1>4, ConnectionAssumption
    <2>2. PICK m \in Nat : m = packet.len - Header
      BY <2>1
    <2>3. c.cipher.encrypted + m \in Nat
      BY <1>5
    <2> QED BY <2>2, <2>3, <1>5, <1>6 DEF Encrypting, Cipher
  <1> HIDE DEF cipher
  <1>10. /\ r \in ConnectionRecord
         /\ r.received = c.received /\ r.size = c.size /\ r.disconnected = c.disconnected
         /\ r.poll = c.poll /\ r.ready = c.ready /\ r.cipher = cipher
         /\ r.send_buffer = c.send_buffer \o enc
    BY <1>5, <1>8, <1>9 DEF ConnectionRecord, SendPacket, enc, cipher
  <1> HIDE DEF r
  <1>11. Sending(e, packet, r)
    BY <1>2, <1>3, <1>9, <1>10 DEF Sending
  <1>12. Sends(e, packet)
    <2>1. conn'[e] = r /\ conn'[Peer(e)] = conn[Peer(e)]
      BY <1>1, <1>3, PeerFact DEF TypeOK
    <2>2. sent'[e] = Append(sent[e], packet)
      BY <1>1, <1>2 DEF TypeOK
    <2> QED BY <2>1, <2>2, <1>3, <1>4, <1>6, <1>7, <1>9, <1>10 DEF Sends, enc
  <1> QED BY <1>4, <1>11, <1>12, SendingStep

-----------------------------------------------------------------------------
(* The step that returns a packet.                                         *)
LEMMA ParsePacketStep == ASSUME Inv, NEW e \in Ends, ParsePacket(e) PROVE Inv'
  <1> DEFINE s == Peer(e)
             c == conn[e]
             P == Parsed(e)
             R == Len(got[e])
             rest == SubSeq(c.received, P.len + 1, Len(c.received))
             cipher == IF c.ready THEN Decrypted(e) ELSE Xor
             r == [c EXCEPT !.received = rest, !.cipher = cipher, !.ready = TRUE, !.poll = "idle"]
  <1>1. /\ TypeOK /\ s \in Ends /\ Peer(s) = e /\ s # e
        /\ c \in ConnectionRecord /\ c.cipher \in Cipher /\ c.cipher.decrypted \in Nat
        /\ c.received \in Seq(Byte) /\ Len(c.received) \in Nat /\ c.size \in Nat
        /\ Len(c.received) <= c.size
        /\ got[e] \in Seq(Packet)
    BY PeerFact, FieldTypes, LenProperties DEF Inv
  <1>2. /\ c.poll = "parse" /\ HeaderRead(e) /\ Complete(e) /\ Decrypts(e)
        /\ conn' = [conn EXCEPT ![e] = r]
        /\ got' = [got EXCEPT ![e] = Append(@, P)]
        /\ wire' = wire /\ closed' = closed /\ sent' = sent
    <2>1. c.poll = "parse" /\ HeaderRead(e) /\ Complete(e)
      BY DEF ParsePacket, CanParse, At
    <2>2. Decrypts(e)
      BY <2>1, FirstPacket
    <2> QED BY <2>1, <2>2 DEF ParsePacket, SetConn
  <1>3. /\ R \in Nat /\ R + 1 \in 1..Len(sent[s]) /\ R < Len(sent[s])
        /\ P = sent[s][R + 1]
        /\ P \in Packet /\ P.len \in Nat /\ P.len >= Header
    BY <1>2, FirstPacket
  <1>4. /\ c.cipher.xor <=> c.ready
        /\ ~c.ready => c.cipher.encrypted = 0 /\ c.cipher.decrypted = 0
        /\ c.ready <=> ~InPlain(s, R + 1)
        /\ ~c.disconnected
    BY <1>2, CiphersAgree DEF Inv, Handshake, Buffers
  <1>5. P.len <= Len(c.received) /\ P.len \in 0..Len(c.received)
    <2>1. P.len <= Len(c.received)
      BY <1>2, <1>1, <1>3 DEF Complete
    <2> HIDE DEF P, c
    <2> QED BY <2>1, <1>1, <1>3
  <1>6. rest \in Seq(Byte) /\ Len(rest) = Len(c.received) - P.len
    <2> DEFINE n == P.len
    <2>1. n \in 0..Len(c.received) /\ c.received \in Seq(Byte)
      BY <1>1, <1>5
    <2> HIDE DEF n, c
    <2>2. /\ SubSeq(c.received, n + 1, Len(c.received)) \in Seq(Byte)
          /\ Len(SubSeq(c.received, n + 1, Len(c.received))) = Len(c.received) - n
      BY <2>1, CutAnywhere
    <2> QED BY <2>2 DEF n
  <1>7. /\ cipher \in Cipher /\ cipher.xor /\ cipher.encrypted = c.cipher.encrypted
        /\ cipher.decrypted = c.cipher.decrypted + IF InPlain(s, R + 1) THEN 0 ELSE P.len - Header
    <2>1. CASE c.ready
      <3>1. PICK d \in Nat, l \in Nat : d = c.cipher.decrypted /\ l = P.len
        BY <1>1, <1>3
      <3>2. d + (l - Header) \in Nat
        <4>1. l >= Header
          BY <3>1, <1>3
        <4> HIDE DEF c, P
        <4> QED BY <4>1, ConnectionAssumption
      <3>3. cipher = [c.cipher EXCEPT !.decrypted = d + (l - Header)]
        <4>1. cipher = Decrypted(e) /\ c.cipher.xor
          BY <2>1, <1>4
        <4>2. Decrypted(e) = [c.cipher EXCEPT !.decrypted = c.cipher.decrypted + (P.len - Header)]
          BY <4>1 DEF Decrypted
        <4> HIDE DEF cipher, c, P
        <4> QED BY <4>1, <4>2, <3>1
      <3> HIDE DEF cipher, c, P
      <3>4. /\ cipher \in Cipher /\ cipher.xor = c.cipher.xor /\ cipher.encrypted = c.cipher.encrypted
            /\ cipher.decrypted = d + (l - Header)
        BY <3>2, <3>3, <1>1 DEF Cipher
      <3>5. cipher.decrypted = c.cipher.decrypted + (P.len - Header)
        BY <3>1, <3>4
      <3> QED BY <2>1, <3>4, <3>5, <1>4
    <2>2. CASE ~c.ready
      <3>1. cipher = Xor /\ c.cipher.encrypted = 0 /\ c.cipher.decrypted = 0 /\ InPlain(s, R + 1)
        BY <2>2, <1>4
      <3>2. Xor \in Cipher /\ Xor.xor /\ Xor.encrypted = 0 /\ Xor.decrypted = 0
        BY DEF Xor, Cipher
      <3> HIDE DEF cipher
      <3> QED BY <3>1, <3>2
    <2> QED BY <2>1, <2>2
  <1> HIDE DEF cipher, rest
  <1>8. /\ r \in ConnectionRecord
        /\ r.received = rest /\ r.send_buffer = c.send_buffer /\ r.size = c.size
        /\ r.disconnected = c.disconnected /\ r.poll = "idle" /\ r.ready /\ r.cipher = cipher
    BY <1>1, <1>6, <1>7 DEF ConnectionRecord
  <1> HIDE DEF r
  <1>9. /\ conn'[e] = r /\ \A x \in Ends : x # e => conn'[x] = conn[x]
        /\ conn' \in [Ends -> ConnectionRecord]
    BY <1>1, <1>2, <1>8 DEF TypeOK
  <1>10. /\ got'[e] = Append(got[e], P) /\ \A x \in Ends : x # e => got'[x] = got[x]
         /\ got' \in [Ends -> Seq(Packet)]
    <2>1. Append(got[e], P) \in Seq(Packet)
      <3> HIDE DEF P
      <3> QED BY <1>1, <1>3, AppendProperties
    <2> QED BY <2>1, <1>1, <1>2 DEF TypeOK
  <1>11. /\ Len(got'[e]) = R + 1 /\ got'[e] # <<>> /\ got'[e][R + 1] = P
         /\ \A n \in 1..R : got'[e][n] = got[e][n]
         /\ DOMAIN got'[e] = 1..R + 1 /\ DOMAIN got[e] = 1..R
    <2> HIDE DEF P
    <2>1. got'[e] \in Seq(Packet)
      BY <1>10
    <2> QED BY <2>1, <1>1, <1>3, <1>10, AppendProperties, LenProperties
  <1>12. TypeOK'
    <2>1. Len(rest) <= c.size
      <3>1. PICK l \in Nat, p \in Nat, z \in Nat : l = Len(c.received) /\ p = P.len /\ z = c.size
        BY <1>1, <1>3
      <3> QED BY <3>1, <1>1, <1>6
    <2>2. \A x \in Ends : Len(conn'[x].received) <= conn'[x].size
      BY <2>1, <1>1, <1>8, <1>9 DEF TypeOK
    <2> QED BY <2>2, <1>1, <1>2, <1>9, <1>10 DEF TypeOK
  <1>13. PacketsInOrder'
    <2>1. ASSUME NEW x \in Ends
          PROVE  /\ Len(got'[x]) <= Len(sent[Peer(x)])
                 /\ \A n \in DOMAIN got'[x] : got'[x][n] = sent[Peer(x)][n]
      <3>1. CASE x = e
        <4>1. \A n \in 1..R : got[e][n] = sent[s][n]
          BY <1>11 DEF Inv, PacketsInOrder
        <4>2. ASSUME NEW n \in 1..R + 1 PROVE got'[e][n] = sent[s][n]
          <5>1. n \in 1..R \/ n = R + 1
            BY <1>3
          <5> HIDE DEF P
          <5> QED BY <5>1, <4>1, <1>3, <1>11
        <4>3. Len(got'[e]) <= Len(sent[s])
          BY <1>3, <1>11
        <4> QED BY <3>1, <4>2, <4>3, <1>11
      <3>2. CASE x # e
        BY <3>2, <1>10 DEF Inv, PacketsInOrder
      <3> QED BY <3>1, <3>2
    <2> QED BY <2>1, <1>2 DEF PacketsInOrder
  <1>14. NoFalseEnd'
    <2>1. ASSUME NEW x \in Ends, conn'[x].disconnected
          PROVE  \/ closed[Peer(x)]
                 \/ /\ Len(got'[x]) < Len(sent[Peer(x)])
                    /\ sent[Peer(x)][Len(got'[x]) + 1].kind \in {"unknown", "malformed"}
      <3>1. x # e
        BY <2>1, <1>4, <1>8, <1>9
      <3> QED BY <2>1, <3>1, <1>9, <1>10 DEF Inv, NoFalseEnd
    <2> QED BY <2>1, <1>2 DEF NoFalseEnd
  <1>15. Handshake'
    <2>1. ASSUME NEW x \in Ends
          PROVE  /\ conn'[x].cipher.xor <=> conn'[x].ready
                 /\ ~conn'[x].ready => /\ conn'[x].cipher.encrypted = 0
                                       /\ conn'[x].cipher.decrypted = 0
                                       /\ sent[x] = <<>>
      <3>1. CASE x = e
        BY <3>1, <1>7, <1>8, <1>9
      <3>2. CASE x # e
        BY <3>2, <1>9 DEF Inv, Handshake
      <3> QED BY <3>1, <3>2
    <2>2. conn'["server"].ready <=> sent["server"] # <<>>
      <3>1. CASE e = "server"
        <4>1. c.ready
          BY <3>1, <1>2 DEF Inv, Buffers
        <4> QED BY <3>1, <4>1, <1>8, <1>9 DEF Inv, Handshake
      <3>2. CASE e # "server"
        BY <3>2, <1>9 DEF Inv, Handshake, Ends
      <3> QED BY <3>1, <3>2
    <2>3. conn'["client"].ready <=> got'["client"] # <<>>
      <3>1. CASE e = "client"
        BY <3>1, <1>8, <1>9, <1>11
      <3>2. CASE e # "client"
        BY <3>2, <1>9, <1>10 DEF Inv, Handshake, Ends
      <3> QED BY <3>1, <3>2
    <2> QED BY <2>1, <2>2, <2>3, <1>2 DEF Handshake
  <1>16. Buffers'
    <2>1. ASSUME NEW x \in Ends
          PROVE  /\ conn'[x].poll \in {"parse", "read"} => conn'[x].size >= Chunk
                 /\ conn'[x].poll = "read" => Len(conn'[x].received) < conn'[x].size
                 /\ conn'[x].disconnected => conn'[x].poll = "idle"
                 /\ x = "server" /\ conn'[x].poll # "idle" => conn'[x].ready
      <3>1. CASE x = e
        BY <3>1, <1>8, <1>9
      <3>2. CASE x # e
        BY <3>2, <1>9 DEF Inv, Buffers
      <3> QED BY <3>1, <3>2
    <2> QED BY <2>1, <1>2 DEF Inv, Buffers
  <1>17. Stream(s)'
    <2>1. conn'[s] = conn[s] /\ wire'[s] = wire[s] /\ sent'[s] = sent[s]
      BY <1>1, <1>2, <1>9
    <2>2. Returns(s)
      <3>1. Len(got[Peer(s)]) + 1 = R + 1 /\ sent[s][R + 1] = P /\ conn[Peer(s)] = c /\ conn'[Peer(s)] = r
            /\ Len(got'[Peer(s)]) = R + 1
        BY <1>1, <1>3, <1>9, <1>11
      <3>2. R + 1 <= Len(sent[s]) /\ P.len <= Len(c.received) /\ ~c.disconnected
        BY <1>3, <1>4, <1>5
      <3>3. /\ r.received = SubSeq(c.received, P.len + 1, Len(c.received))
            /\ r.cipher.decrypted = c.cipher.decrypted + IF InPlain(s, R + 1) THEN 0 ELSE P.len - Header
        BY <1>7, <1>8 DEF rest
      <3> HIDE DEF s, P, R, c
      <3> QED BY <2>1, <3>1, <3>2, <3>3 DEF Returns, R
    <2>3. Stream(s)
      BY <1>1 DEF Inv
    <2> HIDE DEF s
    <2> QED BY <2>2, <2>3, <1>1, StreamShrinks
  <1>18. Stream(e)'
    <2>1. Transit(e)' = Transit(e)
      BY <1>1, <1>2, <1>8, <1>9 DEF Transit
    <2>2. /\ conn'[e].cipher.encrypted = conn[e].cipher.encrypted
          /\ sent'[e] = sent[e] /\ got'[s] = got[s] /\ conn'[s] = conn[s]
      BY <1>1, <1>2, <1>7, <1>8, <1>9, <1>10
    <2>3. Stream(e)
      BY DEF Inv
    <2> QED BY <2>1, <2>2, <2>3, StreamStays
  <1>19. \A x \in Ends : Stream(x)'
    BY <1>17, <1>18, PeerFact
  <1> QED BY <1>12, <1>13, <1>14, <1>15, <1>16, <1>19 DEF Inv

-----------------------------------------------------------------------------
LEMMA NextInv == Inv /\ [Next]_vars => Inv'
  <1> SUFFICES ASSUME Inv, [Next]_vars PROVE Inv'
    OBVIOUS
  <1>1. CASE InitEncryption
    BY <1>1, InitEncryptionStep
  <1>2. ASSUME NEW e \in Ends, Send(e) PROVE Inv'
    BY <1>2, SendStep
  <1>3. ASSUME NEW e \in Ends, PollStep(e) PROVE Inv'
    BY <1>3, PollNextStep, WriteStep, WriteDoneStep, WriteErrorStep, ParseIncompleteStep,
       ParsePacketStep, ParseUnknownStep, ParseMalformedStep, ReadStep, ReadPendingStep,
       ReadEndStep DEF PollStep
  <1>4. ASSUME NEW e \in Ends, Close(e) PROVE Inv'
    BY <1>4, CloseStep
  <1>5. CASE UNCHANGED vars
    <2>1. conn' = conn /\ wire' = wire /\ closed' = closed /\ sent' = sent /\ got' = got
      BY <1>5 DEF vars
    <2>2. \A e \in Ends : Stream(e)'
      BY <2>1 DEF Inv, Stream, Transit
    <2> QED BY <2>1, <2>2 DEF Inv, TypeOK, PacketsInOrder, NoFalseEnd, Handshake, Buffers
  <1> QED BY <1>1, <1>2, <1>3, <1>4, <1>5 DEF Next, Dropped

LEMMA InvHolds == Spec => []Inv
  <1> QED BY InitInv, NextInv, PTL DEF Spec

(* No index of the receive buffer, recv_buffer_index among them, is beyond *)
(* it, whatever the sizes of the packets and the portions of the socket.   *)
THEOREM ConnectionTypes == Spec => []TypeOK
  <1>1. Inv => TypeOK
    BY DEF Inv
  <1> QED BY <1>1, InvHolds, PTL

(* What poll_next returns is what the peer gave to send_packet: packet by  *)
(* packet, in order, none cut wrong or decrypted in the wrong state of the *)
(* cipher, for any number of packets of any length, any buffers and any    *)
(* portions in which the socket takes and gives the bytes.                 *)
THEOREM PacketsStayInOrder == Spec => []PacketsInOrder
  <1>1. Inv => PacketsInOrder
    BY DEF Inv
  <1> QED BY <1>1, InvHolds, PTL

(* poll_recv is never asked to read into an empty slice, so a connection   *)
(* fails only when its peer is gone or at a packet that cannot be read.    *)
THEOREM EndsAreTrue == Spec => []NoFalseEnd
  <1>1. Inv => NoFalseEnd
    BY DEF Inv
  <1> QED BY <1>1, InvHolds, PTL

-----------------------------------------------------------------------------
(* Seen from the two programs, a Connection is a Channel.                  *)

(* A step that leaves the flag of its end leaves all of them.              *)
LEMMA NoneFails ==
    ASSUME TypeOK, NEW e \in Ends, NEW r, SetConn(e, r), r.disconnected = conn[e].disconnected
    PROVE  Failed' = Failed
  <1>1. \A x \in Ends : conn'[x].disconnected = conn[x].disconnected
    BY DEF TypeOK, SetConn
  <1> QED BY <1>1 DEF Failed

LEMMA OneFails ==
    ASSUME TypeOK, NEW e \in Ends, NEW cipher,
           SetConn(e, Fail([conn[e] EXCEPT !.cipher = cipher]))
    PROVE  Failed' = Failed \union {e}
  <1>1. conn[e] \in ConnectionRecord
    BY DEF TypeOK
  <1>2. Fail([conn[e] EXCEPT !.cipher = cipher]).disconnected = TRUE
    BY <1>1 DEF Fail, ConnectionRecord
  <1>3. /\ conn'[e].disconnected = TRUE
        /\ \A x \in Ends : x # e => conn'[x].disconnected = conn[x].disconnected
    BY <1>2 DEF TypeOK, SetConn
  <1> QED BY <1>3 DEF Failed

LEMMA SendKeepsFlag ==
    ASSUME NEW r \in ConnectionRecord, NEW n, NEW packet
    PROVE  /\ SendPacket(r, n, packet).disconnected = r.disconnected
           /\ [SendPacket(r, n, packet) EXCEPT !.cipher = Xor, !.ready = TRUE].disconnected
                = r.disconnected
  <1> DEFINE b == r.send_buffer \o Encoded(n, packet, r.cipher)
             cipher == Encrypting(r.cipher, packet.len - Header)
  <1>1. SendPacket(r, n, packet) = [r EXCEPT !.send_buffer = b, !.cipher = cipher]
    BY DEF SendPacket
  <1> HIDE DEF b, cipher
  <1> QED BY <1>1 DEF ConnectionRecord

(* poll_next finds bytes to write or to read, or none: nothing is seen.    *)
LEMMA PollUnseen ==
    ASSUME Inv, NEW e \in Ends,
           \/ PollNext(e) \/ Write(e) \/ WriteDone(e)
           \/ ParseIncomplete(e) \/ Read(e) \/ ReadPending(e)
    PROVE  UNCHANGED C!vars
  <1>1. TypeOK /\ conn[e] \in ConnectionRecord
    BY DEF Inv, TypeOK
  <1>2. UNCHANGED <<closed, sent, got>>
    <2>1. CASE PollNext(e) \/ WriteDone(e) \/ ParseIncomplete(e) \/ ReadPending(e)
      BY <2>1 DEF PollNext, WriteDone, ParseIncomplete, ReadPending
    <2>2. CASE Write(e)
      BY ONLY <2>2 DEF Write
    <2>3. CASE Read(e)
      BY ONLY <2>3 DEF Read
    <2> QED BY <2>1, <2>2, <2>3
  <1>3. \E r : SetConn(e, r) /\ r.disconnected = conn[e].disconnected
    <2>1. CASE PollNext(e)
      <3>1. SetConn(e, [conn[e] EXCEPT !.poll = "write"])
        BY <2>1 DEF PollNext
      <3>2. [conn[e] EXCEPT !.poll = "write"].disconnected = conn[e].disconnected
        BY <1>1 DEF ConnectionRecord
      <3> QED BY <3>1, <3>2
    <2>2. CASE Write(e)
      <3>1. PICK count \in 1..Least(Len(conn[e].send_buffer), Capacity - Len(wire[e])) :
              SetConn(e, [conn[e] EXCEPT !.send_buffer = SubSeq(@, count + 1, Len(@))])
        BY ONLY <2>2, Zenon DEF Write
      <3> DEFINE b == SubSeq(conn[e].send_buffer, count + 1, Len(conn[e].send_buffer))
      <3>2. SetConn(e, [conn[e] EXCEPT !.send_buffer = b])
        BY <3>1
      <3> HIDE DEF b
      <3>3. [conn[e] EXCEPT !.send_buffer = b].disconnected = conn[e].disconnected
        BY <1>1 DEF ConnectionRecord
      <3> QED BY <3>2, <3>3
    <2>3. CASE WriteDone(e)
      <3> DEFINE n == Grown(conn[e])
      <3>1. SetConn(e, [conn[e] EXCEPT !.size = n, !.poll = "parse"])
        BY <2>3 DEF WriteDone
      <3> HIDE DEF n
      <3>2. [conn[e] EXCEPT !.size = n, !.poll = "parse"].disconnected = conn[e].disconnected
        BY <1>1 DEF ConnectionRecord
      <3> QED BY <3>1, <3>2
    <2>4. CASE ParseIncomplete(e)
      <3> DEFINE n == IF HeaderRead(e) THEN Greatest(conn[e].size, Parsed(e).len) ELSE conn[e].size
      <3>1. SetConn(e, [conn[e] EXCEPT !.size = n, !.poll = "read"])
        BY <2>4 DEF ParseIncomplete
      <3> HIDE DEF n
      <3>2. [conn[e] EXCEPT !.size = n, !.poll = "read"].disconnected = conn[e].disconnected
        BY <1>1 DEF ConnectionRecord
      <3> QED BY <3>1, <3>2
    <2>5. CASE Read(e)
      <3>1. PICK count \in 1..Least(Room(e), Len(wire[Peer(e)])) :
              SetConn(e, [conn[e] EXCEPT !.received = @ \o SubSeq(wire[Peer(e)], 1, count),
                                         !.poll = "parse"])
        BY ONLY <2>5, Zenon DEF Read
      <3> DEFINE b == conn[e].received \o SubSeq(wire[Peer(e)], 1, count)
      <3>2. SetConn(e, [conn[e] EXCEPT !.received = b, !.poll = "parse"])
        BY <3>1
      <3> HIDE DEF b
      <3>3. [conn[e] EXCEPT !.received = b, !.poll = "parse"].disconnected = conn[e].disconnected
        BY <1>1 DEF ConnectionRecord
      <3> QED BY <3>2, <3>3
    <2>6. CASE ReadPending(e)
      <3>1. SetConn(e, [conn[e] EXCEPT !.poll = "idle"])
        BY <2>6 DEF ReadPending
      <3>2. [conn[e] EXCEPT !.poll = "idle"].disconnected = conn[e].disconnected
        BY <1>1 DEF ConnectionRecord
      <3> QED BY <3>1, <3>2
    <2> QED BY <2>1, <2>2, <2>3, <2>4, <2>5, <2>6
  <1>4. Failed' = Failed
    BY <1>1, <1>3, NoneFails
  <1>5. Gone' = Gone
    BY <1>2 DEF Gone
  <1> QED BY <1>2, <1>4, <1>5 DEF C!vars

(* The packet after those that were read.                                  *)
LEMMA UpcomingFact ==
    ASSUME Inv, NEW e \in Ends, Len(got[e]) < Len(sent[Peer(e)])
    PROVE  C!Waiting(e) /\ C!Upcoming(e) = sent[Peer(e)][Len(got[e]) + 1]
  <1>1. sent[Peer(e)] \in Seq(Packet) /\ got[e] \in Seq(Packet)
    BY FieldTypes, PeerFact DEF Inv
  <1>2. Len(got[e]) \in Nat /\ Len(sent[Peer(e)]) \in Nat
    BY <1>1, LenProperties
  <1> QED BY <1>2 DEF C!Waiting, C!Upcoming, C!Index

(* An error ends the stream; NoFalseEnd gives the reason.                  *)
LEMMA ErrorEnds ==
    ASSUME Inv, Inv', NEW e \in Ends, WriteError(e) \/ ParseUnknown(e) \/ ParseMalformed(e) \/ ReadEnd(e)
    PROVE  C!End(e)
  <1>1. TypeOK
    BY DEF Inv
  <1>2. ~closed[e] /\ conn[e].poll # "idle" /\ UNCHANGED <<wire, closed, sent, got>>
    BY DEF WriteError, ParseUnknown, ParseMalformed, ReadEnd, CanParse, At
  <1>3. ~conn[e].disconnected
    BY <1>2 DEF Inv, Buffers
  <1>4. Failed' = Failed \union {e}
    <2>1. CASE WriteError(e) \/ ParseMalformed(e) \/ ReadEnd(e)
      <3>1. SetConn(e, Fail(conn[e]))
        BY <2>1 DEF WriteError, ParseMalformed, ReadEnd
      <3> QED BY <1>1, <3>1, SameCipher, OneFails
    <2>2. CASE ParseUnknown(e)
      <3>1. SetConn(e, Fail([conn[e] EXCEPT !.cipher = Decrypted(e)]))
        BY <2>2 DEF ParseUnknown
      <3> QED BY <1>1, <3>1, OneFails
    <2> QED BY <2>1, <2>2
  <1>5. conn'[e].disconnected
    BY <1>4 DEF Failed
  <1>6. \/ closed[Peer(e)]
        \/ /\ Len(got[e]) < Len(sent[Peer(e)])
           /\ sent[Peer(e)][Len(got[e]) + 1].kind \in {"unknown", "malformed"}
    BY <1>2, <1>5 DEF Inv, NoFalseEnd
  <1>7. Gone' = Gone /\ e \notin Failed \union Gone
    BY <1>2, <1>3 DEF Gone, Failed
  <1>8. CASE closed[Peer(e)]
    <2>1. Peer(e) \in Gone
      BY <1>8, PeerFact DEF Gone
    <2> QED BY <1>2, <1>4, <1>7, <2>1 DEF C!End
  <1>9. CASE ~closed[Peer(e)]
    <2>1. C!Waiting(e) /\ C!Upcoming(e).kind \in {"unknown", "malformed"}
      BY <1>6, <1>9, UpcomingFact
    <2> QED BY <1>2, <1>4, <1>7, <2>1 DEF C!End
  <1> QED BY <1>8, <1>9

(* What is sent is one of the packets that the program may send, or the key*)
LEMMA SendSeen ==
    ASSUME Inv, NEW e \in Ends, Send(e) \/ (InitEncryption /\ e = "server")
    PROVE  C!Send(e)
  <1>1. TypeOK /\ conn[e] \in ConnectionRecord
    BY DEF Inv, TypeOK
  <1>2. ~closed[e] /\ UNCHANGED <<closed, got>>
    BY DEF Send, InitEncryption
  <1>3. /\ \E packet \in Offered : sent' = [sent EXCEPT ![e] = Append(@, packet)]
        /\ \E r : SetConn(e, r) /\ r.disconnected = conn[e].disconnected
    <2>1. CASE Send(e)
      <3>1. PICK packet \in Offers[e] :
              /\ SetConn(e, SendPacket(conn[e], Len(sent[e]) + 1, packet))
              /\ sent' = [sent EXCEPT ![e] = Append(@, packet)]
        BY <2>1 DEF Send
      <3>2. packet \in Offered
        BY DEF Offered
      <3>3. SendPacket(conn[e], Len(sent[e]) + 1, packet).disconnected = conn[e].disconnected
        BY <1>1, SendKeepsFlag
      <3> QED BY <3>1, <3>2, <3>3
    <2>2. CASE InitEncryption /\ e = "server"
      <3> DEFINE p == SendPacket(conn[e], 1, Key)
      <3>1. /\ SetConn(e, [p EXCEPT !.cipher = Xor, !.ready = TRUE])
            /\ sent' = [sent EXCEPT ![e] = Append(@, Key)]
        BY <2>2 DEF InitEncryption
      <3>2. Key \in Offered
        BY DEF Offered
      <3>3. [p EXCEPT !.cipher = Xor, !.ready = TRUE].disconnected = conn[e].disconnected
        BY <1>1, SendKeepsFlag
      <3> QED BY <3>1, <3>2, <3>3
    <2> QED BY <2>1, <2>2
  <1>4. Failed' = Failed
    BY <1>1, <1>3, NoneFails
  <1>5. Gone' = Gone /\ e \notin Gone
    BY <1>2 DEF Gone
  <1> QED BY <1>2, <1>3, <1>4, <1>5 DEF C!Send

(* A packet that is returned is the next one, and it is readable.          *)
LEMMA PacketSeen ==
    ASSUME Inv, Inv', NEW e \in Ends, ParsePacket(e)
    PROVE  C!Receive(e)
  <1>1. TypeOK /\ conn[e] \in ConnectionRecord /\ got[e] \in Seq(Packet)
    BY DEF Inv, TypeOK
  <1>2. /\ ~closed[e] /\ conn[e].poll = "parse" /\ HeaderRead(e) /\ WellFormed(e)
        /\ Parsed(e).kind # "unknown"
        /\ UNCHANGED <<closed, sent>>
    BY DEF ParsePacket, CanParse, At
  <1>3. e \notin Failed \union Gone
    <2>1. ~conn[e].disconnected
      BY <1>2 DEF Inv, Buffers
    <2> QED BY <1>2, <2>1 DEF Failed, Gone
  <1>4. /\ Len(got[e]) \in Nat /\ Len(got[e]) < Len(sent[Peer(e)])
        /\ Parsed(e) = sent[Peer(e)][Len(got[e]) + 1] /\ Parsed(e) \in Packet
    BY <1>2, FirstPacket
  <1>5. C!Waiting(e) /\ C!Upcoming(e) = Parsed(e)
    BY <1>4, UpcomingFact
  <1>6. Parsed(e) \in {packet \in Packet : packet.kind \in {"key", "data"}}
    BY <1>2, <1>4 DEF WellFormed, Packet, Kinds
  <1>7. got' = [got EXCEPT ![e] = Append(@, Parsed(e))]
    <2>1. PICK p \in {Parsed(e), Garbage} : got' = [got EXCEPT ![e] = Append(@, p)]
      BY DEF ParsePacket
    <2>2. got'[e] = Append(got[e], p) /\ got \in [Ends -> Seq(Packet)]
      BY <1>1, <2>1 DEF TypeOK
    <2>3. Len(got'[e]) = Len(got[e]) + 1 /\ got'[e][Len(got[e]) + 1] = p
      <3> HIDE DEF Inv
      <3> QED BY <1>1, <2>2
    <2>4. Len(got[e]) + 1 \in DOMAIN got'[e]
      BY <1>1, <1>4, <2>2
    <2>5. got'[e][Len(got[e]) + 1] = sent[Peer(e)][Len(got[e]) + 1]
      BY <1>2, <2>4, PeerFact DEF Inv, PacketsInOrder
    <2> QED BY <1>4, <2>1, <2>3, <2>5
  <1>8. Failed' = Failed
    <2> DEFINE c == conn[e]
               rest == SubSeq(c.received, Parsed(e).len + 1, Len(c.received))
               cipher == IF c.ready THEN Decrypted(e) ELSE Xor
               r == [c EXCEPT !.received = rest, !.cipher = cipher, !.ready = TRUE, !.poll = "idle"]
    <2>1. SetConn(e, r)
      BY DEF ParsePacket
    <2> HIDE DEF rest, cipher
    <2>2. r.disconnected = c.disconnected
      BY <1>1 DEF ConnectionRecord
    <2> HIDE DEF r
    <2> QED BY <1>1, <2>1, <2>2, NoneFails
  <1>9. Gone' = Gone
    BY <1>2 DEF Gone
  <1> QED BY <1>2, <1>3, <1>5, <1>6, <1>7, <1>8, <1>9 DEF C!Receive

LEMMA CloseSeen ==
    ASSUME Inv, NEW e \in Ends, Close(e)
    PROVE  C!Drop(e)
  <1>1. closed' = [closed EXCEPT ![e] = TRUE] /\ UNCHANGED <<conn, sent, got>>
    BY DEF Close
  <1>2. Gone' = Gone \union {e}
    BY <1>1 DEF Gone, Inv, TypeOK
  <1>3. Failed' = Failed
    BY <1>1 DEF Failed
  <1> QED BY <1>1, <1>2, <1>3 DEF C!Drop

LEMMA StepSeen ==
    ASSUME Inv, Inv', [Next]_vars
    PROVE  [C!Next]_(C!vars)
  <1>1. CASE InitEncryption
    <2>1. "server" \in Ends
      BY DEF Ends
    <2> QED BY <1>1, <2>1, SendSeen DEF C!Next
  <1>2. ASSUME NEW e \in Ends, Send(e) PROVE C!Next
    BY <1>2, SendSeen DEF C!Next
  <1>3. ASSUME NEW e \in Ends, PollStep(e) PROVE [C!Next]_(C!vars)
    <2>1. CASE ParsePacket(e)
      BY <2>1, PacketSeen DEF C!Next
    <2>2. CASE WriteError(e) \/ ParseUnknown(e) \/ ParseMalformed(e) \/ ReadEnd(e)
      BY <2>2, ErrorEnds DEF C!Next
    <2>3. CASE \/ PollNext(e) \/ Write(e) \/ WriteDone(e)
               \/ ParseIncomplete(e) \/ Read(e) \/ ReadPending(e)
      BY <2>3, PollUnseen
    <2> QED BY <1>3, <2>1, <2>2, <2>3 DEF PollStep
  <1>4. ASSUME NEW e \in Ends, Close(e) PROVE C!Next
    BY <1>4, CloseSeen DEF C!Next
  <1>5. CASE UNCHANGED vars
    BY <1>5 DEF vars, C!vars, Failed, Gone
  <1> QED BY <1>1, <1>2, <1>3, <1>4, <1>5 DEF Next, Dropped

(* To the two programs a Connection is a Channel: each poll_next that      *)
(* returns a packet hands over the next one, the stream ends only with its *)
(* peer or at a packet that cannot be read, and nothing comes after that.  *)
THEOREM Implementation == Spec => ImplementsChannel
  <1>1. Init => C!Init
    BY DEF Init, C!Init, Failed, Gone
  <1>2. Inv /\ Inv' /\ [Next]_vars => [C!Next]_(C!vars)
    BY StepSeen
  <1> QED BY <1>1, <1>2, InvHolds, PTL DEF Spec, ImplementsChannel, C!Spec

-----------------------------------------------------------------------------
(* What Channel promises, from Channel alone.                              *)

CTypes == sent \in [Ends -> Seq(Offered)] /\ got \in [Ends -> Seq(Offered)]

CInv == CTypes /\ C!ReadInOrder /\ C!EndedForAReason

LEMMA OfferedLen ==
    ASSUME NEW s \in [Ends -> Seq(Offered)], NEW e \in Ends
    PROVE  Len(s[e]) \in Nat /\ DOMAIN s[e] = 1..Len(s[e])
  OBVIOUS

LEMMA OfferedFact ==
    ASSUME NEW s \in [Ends -> Seq(Offered)], NEW e \in Ends, NEW p \in Offered
    PROVE  /\ Len(s[e]) \in Nat
           /\ [s EXCEPT ![e] = Append(@, p)] \in [Ends -> Seq(Offered)]
           /\ \A x \in Ends : x # e => [s EXCEPT ![e] = Append(@, p)][x] = s[x]
           /\ Len([s EXCEPT ![e] = Append(@, p)][e]) = Len(s[e]) + 1
           /\ [s EXCEPT ![e] = Append(@, p)][e][Len(s[e]) + 1] = p
           /\ \A n \in 1..Len(s[e]) : [s EXCEPT ![e] = Append(@, p)][e][n] = s[e][n]
           /\ DOMAIN [s EXCEPT ![e] = Append(@, p)][e] = 1..Len(s[e]) + 1
           /\ DOMAIN s[e] = 1..Len(s[e])
  <1> DEFINE q == s[e]
             more == Append(q, p)
  <1>1. q \in Seq(Offered)
    OBVIOUS
  <1>2. [s EXCEPT ![e] = Append(@, p)] = [s EXCEPT ![e] = more]
    OBVIOUS
  <1>3. more \in Seq(Offered)
    BY <1>1
  <1>4. /\ Len(more) = Len(q) + 1 /\ more[Len(q) + 1] = p
        /\ \A n \in 1..Len(q) : more[n] = q[n]
    BY <1>1, AppendProperties
  <1>5. Len(q) \in Nat /\ DOMAIN q = 1..Len(q) /\ DOMAIN more = 1..Len(q) + 1
    BY <1>1, <1>3, <1>4
  <1> HIDE DEF more
  <1> QED BY <1>2, <1>3, <1>4, <1>5

LEMMA ChannelStep ==
    ASSUME CInv, C!Next
    PROVE  CInv'
  <1>1. PICK e \in Ends : C!Send(e) \/ C!Receive(e) \/ C!End(e) \/ C!Drop(e)
    BY DEF C!Next
  <1>2. \A x \in Ends : Len(sent[x]) \in Nat /\ Len(got[x]) \in Nat /\ Peer(x) \in Ends
    BY PeerFact, OfferedLen DEF CInv, CTypes
  <1>3. CASE C!Send(e)
    <2>1. PICK p \in Offered : sent' = [sent EXCEPT ![e] = Append(@, p)]
      BY <1>3 DEF C!Send
    <2>2. got' = got /\ Failed' = Failed /\ Gone' = Gone
      BY <1>3 DEF C!Send
    <2>3. /\ sent' \in [Ends -> Seq(Offered)]
          /\ \A x \in Ends : Len(sent[x]) <= Len(sent'[x])
          /\ \A x \in Ends : \A n \in 1..Len(sent[x]) : sent'[x][n] = sent[x][n]
      BY <1>2, <2>1, OfferedFact DEF CInv, CTypes
    <2>4. \A x \in Ends : Len(sent'[x]) \in Nat
      BY <2>3, OfferedLen
    <2>5. C!ReadInOrder'
      <3> SUFFICES ASSUME NEW x \in Ends
                   PROVE  /\ Len(got[x]) <= Len(sent'[Peer(x)])
                          /\ \A n \in DOMAIN got[x] :
                               got[x][n] = sent'[Peer(x)][n]
                               /\ got[x][n] \in {packet \in Packet : packet.kind \in {"key", "data"}}
        BY <2>2 DEF C!ReadInOrder
      <3>1. DOMAIN got[x] = 1..Len(got[x])
        BY OfferedLen DEF CInv, CTypes
      <3>2. Len(got[x]) <= Len(sent[Peer(x)])
        BY DEF CInv, C!ReadInOrder
      <3>3. Len(got[x]) <= Len(sent'[Peer(x)])
        BY <1>2, <2>3, <2>4, <3>2
      <3>4. \A n \in DOMAIN got[x] : n \in 1..Len(sent[Peer(x)])
        BY <1>2, <3>1, <3>2
      <3>5. \A n \in DOMAIN got[x] :
              got[x][n] = sent[Peer(x)][n]
              /\ got[x][n] \in {packet \in Packet : packet.kind \in {"key", "data"}}
        BY Zenon DEF CInv, C!ReadInOrder
      <3>6. \A n \in 1..Len(sent[Peer(x)]) : sent'[Peer(x)][n] = sent[Peer(x)][n]
        BY <1>2, <2>3, Zenon
      <3> QED BY ONLY <3>3, <3>4, <3>5, <3>6, Zenon
    <2>6. C!EndedForAReason'
      <3> SUFFICES ASSUME NEW x \in Failed, Peer(x) \notin Gone
                   PROVE  C!Waiting(x)' /\ C!Upcoming(x)' \notin {packet \in Packet : packet.kind \in {"key", "data"}}
        BY <2>2 DEF C!EndedForAReason
      <3>1. x \in Ends
        BY DEF Failed
      <3>2. C!Waiting(x) /\ C!Upcoming(x) \notin {packet \in Packet : packet.kind \in {"key", "data"}}
        BY DEF CInv, C!EndedForAReason
      <3>3. Len(got[x]) + 1 \in 1..Len(sent[Peer(x)])
        BY <1>2, <3>1, <3>2 DEF C!Waiting, C!Index
      <3>4. C!Upcoming(x)' = C!Upcoming(x)
        BY <1>2, <2>2, <2>3, <3>1, <3>3 DEF C!Upcoming, C!Index
      <3>5. C!Waiting(x)'
        BY <1>2, <2>2, <2>3, <2>4, <3>1, <3>3 DEF C!Waiting, C!Index
      <3> QED BY <3>2, <3>4, <3>5
    <2> QED BY <2>2, <2>3, <2>5, <2>6 DEF CInv, CTypes
  <1>4. CASE C!Receive(e)
    <2> DEFINE p == C!Upcoming(e)
    <2>1. /\ e \notin Failed /\ C!Waiting(e)
          /\ p \in {packet \in Packet : packet.kind \in {"key", "data"}}
          /\ got' = [got EXCEPT ![e] = Append(@, p)]
          /\ sent' = sent /\ Failed' = Failed /\ Gone' = Gone
      BY <1>4 DEF C!Receive
    <2>2. Len(got[e]) + 1 \in 1..Len(sent[Peer(e)]) /\ p = sent[Peer(e)][Len(got[e]) + 1]
      BY <1>2, <2>1 DEF C!Waiting, C!Upcoming, C!Index
    <2>3. p \in Offered
      <3>1. sent[Peer(e)] \in Seq(Offered)
        BY <1>2 DEF CInv, CTypes
      <3> QED BY <2>2, <3>1, ElementOfSeq
    <2> HIDE DEF p
    <2>4. /\ got' \in [Ends -> Seq(Offered)]
          /\ \A x \in Ends : x # e => got'[x] = got[x]
          /\ Len(got'[e]) = Len(got[e]) + 1 /\ got'[e][Len(got[e]) + 1] = p
          /\ DOMAIN got'[e] = 1..Len(got[e]) + 1
          /\ DOMAIN got[e] = 1..Len(got[e])
          /\ \A n \in 1..Len(got[e]) : got'[e][n] = got[e][n]
      BY <2>1, <2>3, OfferedFact DEF CInv, CTypes
    <2>5. C!ReadInOrder'
      <3> SUFFICES ASSUME NEW x \in Ends
                   PROVE  /\ Len(got'[x]) <= Len(sent[Peer(x)])
                          /\ \A n \in DOMAIN got'[x] :
                               got'[x][n] = sent[Peer(x)][n]
                               /\ got'[x][n] \in {packet \in Packet : packet.kind \in {"key", "data"}}
        BY <2>1 DEF C!ReadInOrder
      <3>1. CASE x # e
        BY <2>4, <3>1 DEF CInv, C!ReadInOrder
      <3>2. CASE x = e
        <4>1. Len(got'[e]) <= Len(sent[Peer(e)])
          BY <1>2, <2>2, <2>4
        <4>2. \A n \in DOMAIN got'[e] : n \in DOMAIN got[e] \/ n = Len(got[e]) + 1
          BY <1>2, <2>4
        <4>3. \A n \in DOMAIN got[e] :
                /\ got'[e][n] = got[e][n] /\ got[e][n] = sent[Peer(e)][n]
                /\ got[e][n] \in {packet \in Packet : packet.kind \in {"key", "data"}}
          BY <2>4 DEF CInv, C!ReadInOrder
        <4> QED BY <2>1, <2>2, <2>4, <3>2, <4>1, <4>2, <4>3
      <3> QED BY <3>1, <3>2
    <2>6. C!EndedForAReason'
      <3>1. \A x \in Failed : x \in Ends /\ x # e
        BY <2>1 DEF Failed
      <3>2. \A x \in Failed : C!Waiting(x)' = C!Waiting(x) /\ C!Upcoming(x)' = C!Upcoming(x)
        BY <2>1, <2>4, <3>1 DEF C!Waiting, C!Upcoming, C!Index
      <3> QED BY <2>1, <3>2 DEF CInv, C!EndedForAReason
    <2> QED BY <2>1, <2>4, <2>5, <2>6 DEF CInv, CTypes
  <1>5. CASE C!End(e)
    <2>1. /\ UNCHANGED <<sent, got>> /\ Failed' = Failed \union {e} /\ Gone' = Gone
          /\ \/ Peer(e) \in Gone
             \/ C!Waiting(e) /\ C!Upcoming(e) \notin {packet \in Packet : packet.kind \in {"key", "data"}}
      BY <1>5 DEF C!End
    <2> QED BY <2>1
         DEF CInv, CTypes, C!ReadInOrder, C!EndedForAReason, C!Waiting, C!Upcoming, C!Index
  <1>6. CASE C!Drop(e)
    <2>1. UNCHANGED <<sent, got>> /\ Failed' = Failed /\ Gone' = Gone \union {e}
      BY <1>6 DEF C!Drop
    <2> QED BY <2>1
         DEF CInv, CTypes, C!ReadInOrder, C!EndedForAReason, C!Waiting, C!Upcoming, C!Index
  <1> QED BY <1>1, <1>3, <1>4, <1>5, <1>6

(* Whatever implements Channel hands over a beginning of what was sent,    *)
(* readable packet by readable packet, and its streams end for a reason:   *)
(* the proof looks into no buffer and no cipher.                           *)
THEOREM ChannelSafe == C!Spec => [](C!ReadInOrder /\ C!EndedForAReason)
  <1>1. C!Init => CInv
    <2> SUFFICES ASSUME C!Init PROVE CInv
      OBVIOUS
    <2>1. /\ sent = [e \in Ends |-> <<>>] /\ got = [e \in Ends |-> <<>>] /\ Failed = {}
      BY DEF C!Init
    <2>2. CTypes
      BY <2>1 DEF CTypes
    <2>3. C!ReadInOrder
      BY <2>1, PeerFact DEF C!ReadInOrder
    <2> QED BY <2>1, <2>2, <2>3 DEF CInv, C!EndedForAReason
  <1>2. CInv /\ [C!Next]_(C!vars) => CInv'
    <2> SUFFICES ASSUME CInv, UNCHANGED C!vars PROVE CInv'
      BY ChannelStep
    <2> QED BY DEF C!vars, CInv, CTypes, C!ReadInOrder, C!EndedForAReason, C!Waiting, C!Upcoming, C!Index
  <1>3. CInv => C!ReadInOrder /\ C!EndedForAReason
    BY DEF CInv
  <1> QED BY <1>1, <1>2, <1>3, PTL DEF C!Spec

=============================================================================
