------------------------------ MODULE Connection ------------------------------
(***************************************************************************)
(* Two Connections over one socket (protocol/src/connection.rs): packets   *)
(* become bytes, the bytes are written and read in whatever portions the   *)
(* socket takes and gives, and are cut into packets again; meanwhile the   *)
(* handshake switches both ends from the plain to the XOR cipher.          *)
(*                                                                         *)
(* A byte is known by the packet it belongs to, its place in it, and the   *)
(* state of the cipher that encrypted it.  The XOR cipher's state is a     *)
(* function of the bytes it has processed (module XorCipher shows that two *)
(* ends in the same state stay in it), so the count of those bytes stands  *)
(* for it, and 0 for a byte in plain.  Headers are never encrypted.        *)
(***************************************************************************)
EXTENDS Naturals, Sequences

CONSTANTS
    Header,    \* length and packet id: 8 bytes
    Chunk,     \* the least room a poll starts to read with: 1024 bytes
    KeyLength, \* the length of the packet that carries the key
    Offers,    \* Offers[e]: the packets that end e may send after the handshake
    MaxSent,   \* bound: how many packets each end sends
    Capacity   \* bound: how many bytes the socket holds in each direction

Ends == {"server", "client"}
Peer(e) == IF e = "server" THEN "client" ELSE "server"

(***************************************************************************)
(* unknown packets have an id or a content that does not decode; malformed *)
(* ones a length field below 8 or above 64 MiB, which a peer of another    *)
(* make may send.                                                          *)
(***************************************************************************)
Kinds == {"key", "data", "unknown", "malformed"}
Packet == [kind: Kinds, len: Nat]

ASSUME ConnectionAssumption ==
    /\ Header \in Nat \ {0} /\ Chunk \in Nat /\ Chunk >= Header
    /\ KeyLength \in Nat /\ KeyLength >= Header
    /\ Offers \in [Ends -> SUBSET {p \in Packet : p.len >= Header}]
    /\ MaxSent \in [Ends -> Nat]
    /\ Capacity \in Nat \ {0}

VARIABLES
    conn,   \* conn[e]: the Connection at this end
    wire,   \* wire[e]: the bytes e's socket took and its peer has not read
    closed, \* closed[e]: e dropped its Connection
    sent,   \* sent[e]: the packets e has encoded
    got     \* got[e]: the packets poll_next of e has returned

vars == <<conn, wire, closed, sent, got>>

Byte == [pkt: Nat, at: Nat, as: Nat]
Cipher == [xor: BOOLEAN, encrypted: Nat, decrypted: Nat]

ConnectionRecord ==
    [ ready: BOOLEAN,          \* init_encryption has returned
      cipher: Cipher,          \* crypt_context
      send_buffer: Seq(Byte),
      received: Seq(Byte),     \* recv_buffer[0..recv_buffer_index]
      size: Nat,               \* recv_buffer.len()
      disconnected: BOOLEAN,
      poll: {"idle", "write", "parse", "read"} ]

(* No index is beyond its buffer.                                          *)
TypeOK ==
    /\ conn \in [Ends -> ConnectionRecord]
    /\ \A e \in Ends : Len(conn[e].received) <= conn[e].size
    /\ wire \in [Ends -> Seq(Byte)]
    /\ closed \in [Ends -> BOOLEAN]
    /\ sent \in [Ends -> Seq(Packet)]
    /\ got \in [Ends -> Seq(Packet)]

Plain == [xor |-> FALSE, encrypted |-> 0, decrypted |-> 0]
Xor   == [xor |-> TRUE,  encrypted |-> 0, decrypted |-> 0]

Init ==
    /\ conn = [e \in Ends |->
                 [ ready |-> FALSE, cipher |-> Plain, send_buffer |-> <<>>,
                   received |-> <<>>, size |-> 0, disconnected |-> FALSE,
                   poll |-> "idle" ]]
    /\ wire = [e \in Ends |-> <<>>]
    /\ closed = [e \in Ends |-> FALSE]
    /\ sent = [e \in Ends |-> <<>>]
    /\ got = [e \in Ends |-> <<>>]

Least(m, n) == IF m < n THEN m ELSE n
Greatest(m, n) == IF m < n THEN n ELSE m

SetConn(e, r) == conn' = [conn EXCEPT ![e] = r]

-----------------------------------------------------------------------------
(* Sending.                                                                *)

(* The bytes of the n-th packet, encrypted from position 8 on.             *)
Encoded(n, packet, cipher) ==
    [i \in 1..packet.len |->
       [pkt |-> n, at |-> i,
        as |-> IF cipher.xor /\ i > Header THEN cipher.encrypted + i - Header ELSE 0]]

Encrypting(cipher, count) ==
    IF cipher.xor THEN [cipher EXCEPT !.encrypted = @ + count] ELSE cipher

(* send_packet, whether or not the connection has failed.  A packet that   *)
(* cannot be encoded is refused before the cipher sees it.                 *)
SendPacket(r, n, packet) ==
    [r EXCEPT !.send_buffer = @ \o Encoded(n, packet, r.cipher),
              !.cipher = Encrypting(@, packet.len - Header)]

Key == [kind |-> "key", len |-> KeyLength]

(* Mutant of InitEncryption: the cipher is switched before the key is sent.*)
InitEncryptionEarly ==
    /\ ~conn["server"].ready /\ ~closed["server"]
    /\ SetConn("server", [SendPacket([conn["server"] EXCEPT !.cipher = Xor], 1, Key)
                            EXCEPT !.ready = TRUE])
    /\ sent' = [sent EXCEPT !["server"] = Append(@, Key)]
    /\ UNCHANGED <<wire, closed, got>>

(* init_encryption of the server: the key is sent in plain.                *)
InitEncryption ==
    /\ ~conn["server"].ready /\ ~closed["server"]
    /\ SetConn("server", [SendPacket(conn["server"], 1, Key)
                            EXCEPT !.cipher = Xor, !.ready = TRUE])
    /\ sent' = [sent EXCEPT !["server"] = Append(@, Key)]
    /\ UNCHANGED <<wire, closed, got>>

Send(e) ==
    /\ conn[e].ready
    /\ ~closed[e]
    /\ conn[e].poll = "idle"
    /\ Len(sent[e]) < MaxSent[e]
    /\ \E packet \in Offers[e] :
         /\ SetConn(e, SendPacket(conn[e], Len(sent[e]) + 1, packet))
         /\ sent' = [sent EXCEPT ![e] = Append(@, packet)]
    /\ UNCHANGED <<wire, closed, got>>

-----------------------------------------------------------------------------
(* poll_next: first poll_outgoing, then poll_incoming.                     *)

At(e, phase) == ~closed[e] /\ conn[e].poll = phase

(* An error ends the stream: every later poll_next returns None.           *)
Fail(r) == [r EXCEPT !.disconnected = TRUE, !.poll = "idle"]

(* Mutant of PollNext: a connection that has failed is polled again.       *)
PollAgain(e) ==
    /\ At(e, "idle")
    /\ e = "server" => conn[e].ready
    /\ SetConn(e, [conn[e] EXCEPT !.poll = "write"])
    /\ UNCHANGED <<wire, closed, sent, got>>

PollNext(e) ==
    /\ At(e, "idle")
    /\ e = "server" => conn[e].ready
    /\ ~conn[e].disconnected
    /\ SetConn(e, [conn[e] EXCEPT !.poll = "write"])
    /\ UNCHANGED <<wire, closed, sent, got>>

(* Mutant of Write: a partial write empties the buffer.                    *)
WriteOnce(e) ==
    /\ At(e, "write")
    /\ \E count \in 1..Least(Len(conn[e].send_buffer), Capacity - Len(wire[e])) :
         /\ wire' = [wire EXCEPT ![e] = @ \o SubSeq(conn[e].send_buffer, 1, count)]
         /\ SetConn(e, [conn[e] EXCEPT !.send_buffer = <<>>])
    /\ UNCHANGED <<closed, sent, got>>

(* poll_send takes what there is room for, or less.                        *)
Write(e) ==
    /\ At(e, "write")
    /\ \E count \in 1..Least(Len(conn[e].send_buffer), Capacity - Len(wire[e])) :
         /\ wire' = [wire EXCEPT ![e] = @ \o SubSeq(conn[e].send_buffer, 1, count)]
         /\ SetConn(e, [conn[e] EXCEPT !.send_buffer = SubSeq(@, count + 1, Len(@))])
    /\ UNCHANGED <<closed, sent, got>>

(* poll_incoming begins with room for a chunk.                             *)
Grown(r) == IF r.size - Len(r.received) < Chunk THEN r.size + Chunk ELSE r.size

(* Everything is written, or the socket is full.                           *)
WriteDone(e) ==
    /\ At(e, "write")
    /\ conn[e].send_buffer = <<>> \/ Len(wire[e]) = Capacity
    /\ SetConn(e, [conn[e] EXCEPT !.size = Grown(conn[e]), !.poll = "parse"])
    /\ UNCHANGED <<wire, closed, sent, got>>

WriteError(e) ==
    /\ At(e, "write")
    /\ closed[Peer(e)]
    /\ conn[e].send_buffer # <<>>
    /\ SetConn(e, Fail(conn[e]))
    /\ UNCHANGED <<wire, closed, sent, got>>

(* try_parse_read_buffer reads a header, which is one if the bytes before  *)
(* it were cut into packets right.                                         *)
HeaderRead(e) == Len(conn[e].received) >= Header
Parsed(e) == sent[Peer(e)][conn[e].received[1].pkt]
WellFormed(e) == conn[e].received[1].at = 1 /\ Parsed(e).kind # "malformed"
Complete(e) == Len(conn[e].received) >= Parsed(e).len
Incomplete(e) == IF HeaderRead(e) THEN WellFormed(e) /\ ~Complete(e) ELSE TRUE

(* Mutant of ParseIncomplete: the buffer is not resized.                   *)
ParseInPlace(e) ==
    /\ At(e, "parse")
    /\ Incomplete(e)
    /\ SetConn(e, [conn[e] EXCEPT !.poll = "read"])
    /\ UNCHANGED <<wire, closed, sent, got>>

(* Not yet enough data; a packet larger than the buffer makes it grow.     *)
ParseIncomplete(e) ==
    /\ At(e, "parse")
    /\ Incomplete(e)
    /\ SetConn(e, [conn[e] EXCEPT !.size = IF HeaderRead(e) THEN Greatest(@, Parsed(e).len) ELSE @,
                                  !.poll = "read"])
    /\ UNCHANGED <<wire, closed, sent, got>>

(* The payload is that of the packet if each of its bytes was encrypted in *)
(* the state in which it is decrypted.                                     *)
Decrypts(e) ==
    LET r == conn[e]
    IN  \A i \in 1..Parsed(e).len :
          r.received[i] = [pkt |-> r.received[1].pkt, at |-> i,
                           as |-> IF r.cipher.xor /\ i > Header
                                  THEN r.cipher.decrypted + i - Header ELSE 0]

Decrypted(e) ==
    LET cipher == conn[e].cipher
    IN  IF cipher.xor THEN [cipher EXCEPT !.decrypted = @ + Parsed(e).len - Header] ELSE cipher

Garbage == [kind |-> "data", len |-> 0]

CanParse(e) == At(e, "parse") /\ HeaderRead(e) /\ WellFormed(e) /\ Complete(e)

(* poll_next returns a packet.  The first one the client gets is the key,  *)
(* with which its init_encryption switches to the XOR cipher.              *)
ParsePacket(e) ==
    /\ CanParse(e)
    /\ Parsed(e).kind # "unknown"
    /\ SetConn(e, [conn[e] EXCEPT
                     !.received = SubSeq(@, Parsed(e).len + 1, Len(@)),
                     !.cipher = IF conn[e].ready THEN Decrypted(e) ELSE Xor,
                     !.ready = TRUE,
                     !.poll = "idle"])
    /\ got' = [got EXCEPT ![e] = Append(@, IF Decrypts(e) THEN Parsed(e) ELSE Garbage)]
    /\ UNCHANGED <<wire, closed, sent>>

(* The packet cannot be decoded: by then it is decrypted, but not removed. *)
ParseUnknown(e) ==
    /\ CanParse(e)
    /\ Parsed(e).kind = "unknown"
    /\ SetConn(e, Fail([conn[e] EXCEPT !.cipher = Decrypted(e)]))
    /\ UNCHANGED <<wire, closed, sent, got>>

ParseMalformed(e) ==
    /\ At(e, "parse")
    /\ HeaderRead(e)
    /\ ~WellFormed(e)
    /\ SetConn(e, Fail(conn[e]))
    /\ UNCHANGED <<wire, closed, sent, got>>

(* Mutant of Room: a chunk is read, whatever the room.                     *)
RoomForChunk(e) == Chunk

(* poll_recv into recv_buffer[recv_buffer_index..].                        *)
Room(e) == conn[e].size - Len(conn[e].received)

Read(e) ==
    /\ At(e, "read")
    /\ \E count \in 1..Least(Room(e), Len(wire[Peer(e)])) :
         /\ SetConn(e, [conn[e] EXCEPT !.received = @ \o SubSeq(wire[Peer(e)], 1, count),
                                       !.poll = "parse"])
         /\ wire' = [wire EXCEPT ![Peer(e)] = SubSeq(@, count + 1, Len(@))]
    /\ UNCHANGED <<closed, sent, got>>

ReadPending(e) ==
    /\ At(e, "read")
    /\ Room(e) > 0
    /\ wire[Peer(e)] = <<>>
    /\ ~closed[Peer(e)]
    /\ SetConn(e, [conn[e] EXCEPT !.poll = "idle"])
    /\ UNCHANGED <<wire, closed, sent, got>>

(* The end of the stream, an error, or no room: reading into an empty      *)
(* slice gives 0 bytes as the end of the stream does.                      *)
ReadEnd(e) ==
    /\ At(e, "read")
    /\ closed[Peer(e)] \/ Room(e) = 0
    /\ SetConn(e, Fail(conn[e]))
    /\ UNCHANGED <<wire, closed, sent, got>>

(* The owner of a Connection drops it between two polls.                   *)
Close(e) ==
    /\ At(e, "idle")
    /\ closed' = [closed EXCEPT ![e] = TRUE]
    /\ UNCHANGED <<conn, wire, sent, got>>

PollStep(e) ==
    \/ PollNext(e)
    \/ Write(e) \/ WriteDone(e) \/ WriteError(e)
    \/ ParseIncomplete(e) \/ ParsePacket(e) \/ ParseUnknown(e) \/ ParseMalformed(e)
    \/ Read(e) \/ ReadPending(e) \/ ReadEnd(e)

Dropped == (\A e \in Ends : closed[e]) /\ UNCHANGED vars

Next ==
    \/ InitEncryption
    \/ \E e \in Ends : Send(e) \/ PollStep(e) \/ Close(e)
    \/ Dropped

Spec == Init /\ [][Next]_vars

(* The wakers make each end poll again while there is something to do.     *)
FairSpec == Spec /\ WF_vars(InitEncryption) /\ \A e \in Ends : WF_vars(PollStep(e))

-----------------------------------------------------------------------------
(* Every packet that arrives is the next one the peer sent: none is lost,  *)
(* doubled, reordered, cut wrong or decrypted in the wrong state, however  *)
(* the socket splits the bytes.                                            *)
PacketsInOrder ==
    \A e \in Ends :
        /\ Len(got[e]) <= Len(sent[Peer(e)])
        /\ \A n \in DOMAIN got[e] : got[e][n] = sent[Peer(e)][n]

(* A connection fails only when its peer is gone, or at a packet that      *)
(* cannot be read: a full receive buffer is never taken for the end.       *)
NoFalseEnd ==
    \A e \in Ends : conn[e].disconnected =>
        \/ closed[Peer(e)]
        \/ /\ Len(got[e]) < Len(sent[Peer(e)])
           /\ sent[Peer(e)][Len(got[e]) + 1].kind \in {"unknown", "malformed"}

(* The channel between the two programs, which see packets, not bytes.     *)
Failed == {e \in Ends : conn[e].disconnected}
Gone   == {e \in Ends : closed[e]}

Offered == {Key} \union UNION {Offers[e] : e \in Ends}

C == INSTANCE Channel WITH
       Packets  <- Offered,
       Readable <- {packet \in Packet : packet.kind \in {"key", "data"}},
       ended    <- Failed,
       gone     <- Gone

(* Whatever the socket does with the bytes, both programs see a channel    *)
(* that hands over whole packets, the next one each time, that does not    *)
(* end for any reason of its own, and that yields nothing once it has.     *)
ImplementsChannel == C!Spec

(* What was sent arrives, unless an end fails or is dropped.               *)
PacketsArrive ==
    \A e \in Ends : \A n \in 1..MaxSent[e] :
        n <= Len(sent[e]) ~> \/ n <= Len(got[Peer(e)])
                             \/ \E f \in Ends : closed[f] \/ conn[f].disconnected

=============================================================================
