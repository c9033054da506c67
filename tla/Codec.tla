--------------------------------- MODULE Codec ---------------------------------
(***************************************************************************)
(* What becomes of the fields of a packet on their way through the codec   *)
(* (protocol/src/codec) and the packet registry (packets/registry.rs).     *)
(* Nothing in a payload says where a field ends: a field that is decoded   *)
(* to one byte less or more shifts all that follow.                        *)
(*                                                                         *)
(* A byte is a number below 256, and so is the character of a string; an   *)
(* option is the sequence of at most its value, a structure the tuple of   *)
(* its fields.  Floats are moved as the integers of their size are.        *)
(***************************************************************************)
EXTENDS CodecTypes, Integers, Sequences, SequencesExt

CONSTANTS
    Packets,    \* Packets[p]: the types of the fields of packet p
    Registered, \* the packets in the registry of the receiver
    Integer,    \* Integer[n]: values of a signed field of n bytes
    Lengths,    \* values of a Length
    Strings     \* values of a String

VARIABLES
    packet,   \* the packet under way
    fields,   \* the values of its fields
    payload,  \* its bytes
    arrival,  \* how they reached the receiver
    decoded   \* what the receiver made of them

vars == <<packet, fields, payload, arrival, decoded>>

-----------------------------------------------------------------------------
(* Values of the types.                                                    *)

(* The variant of an enum that has no code, and is its default.            *)
Unknown == -1

(* Bound: vectors have two entries at most.                                *)
RECURSIVE ValuesOf(_)
Tuples(types) ==
    FoldLeft(LAMBDA acc, t : {Append(v, x) : v \in acc, x \in ValuesOf(t)}, {<<>>}, types)
ValuesOf(t) ==
    CASE t.is = "bool"   -> BOOLEAN
      [] t.is = "int"    -> Integer[t.bytes]
      [] t.is = "enum"   -> t.ordinals \union {Unknown}
      [] t.is = "string" -> Strings
      [] t.is = "length" -> Lengths
      [] t.is = "option" -> SeqOf(ValuesOf(t.of), 1)
      [] t.is = "vec"    -> SeqOf(ValuesOf(t.of), 2)
      [] t.is = "struct" -> Tuples(t.of)

-----------------------------------------------------------------------------
(* Codeable::encode.                                                       *)

BigEndian(value, n) == [i \in 1..n |-> (value \div 256^(n - i)) % 256]

(* The two upper bits of the first byte say how many bytes there are.      *)
EncodeLength(length) ==
    IF length < 128 THEN BigEndian(length, 1)
    ELSE IF length < 16384 THEN BigEndian(length + 32768, 2)
    ELSE BigEndian(length + 12582912, 3)

(* EnumUnknown and CodecVarIntTooLarge.                                    *)
RECURSIVE Encodes(_, _)
Encodes(t, value) ==
    CASE t.is = "enum"            -> value # Unknown
      [] t.is = "length"          -> value < 4194304
      [] t.is \in {"option", "vec"} -> \A i \in DOMAIN value : Encodes(t.of, value[i])
      [] t.is = "struct"          -> \A i \in DOMAIN value : Encodes(t.of[i], value[i])
      [] OTHER                    -> TRUE

RECURSIVE Encode(_, _)
EncodeEach(t, values) == FlattenSeq([i \in DOMAIN values |-> Encode(t, values[i])])
EncodeAll(types, values) == FlattenSeq([i \in DOMAIN types |-> Encode(types[i], values[i])])
Encode(t, value) ==
    CASE t.is = "bool"   -> <<IF value THEN 1 ELSE 0>>
      [] t.is = "int"    -> BigEndian(value, t.bytes)
      [] t.is = "enum"   -> BigEndian(value, 4)
      [] t.is = "length" -> EncodeLength(value)
      [] t.is = "string" -> IF value = <<>> THEN Encode(Bool, TRUE)
                            ELSE Encode(Bool, FALSE) \o BigEndian(Len(value), 4) \o value
      [] t.is = "option" -> IF value = <<>> THEN Encode(Bool, TRUE)
                            ELSE Encode(Bool, FALSE) \o EncodeEach(t.of, value)
      [] t.is = "vec"    -> BigEndian(Len(value), 4) \o EncodeEach(t.of, value)
      [] t.is = "struct" -> EncodeAll(t.of, value)

-----------------------------------------------------------------------------
(* Codeable::decode: the value read and the bytes left, or an error.       *)

Ok(value, rest) == [ok |-> TRUE, value |-> value, rest |-> rest]
Err == [ok |-> FALSE, value |-> <<>>, rest |-> <<>>]

(* Mutant of ReadExact: a buffer of zeros is filled as far as it goes.     *)
ReadSome(n, bytes) ==
    Ok([i \in 1..n |-> IF i <= Len(bytes) THEN bytes[i] ELSE 0],
       SubSeq(bytes, n + 1, Len(bytes)))

(* read_exact fails if there are less bytes.                               *)
ReadExact(n, bytes) ==
    IF Len(bytes) < n THEN Err
    ELSE Ok(SubSeq(bytes, 1, n), SubSeq(bytes, n + 1, Len(bytes)))

Number(lead, bytes) == FoldLeft(LAMBDA n, byte : 256 * n + byte, lead, bytes)

(* Mutant of SignedNumber: the sign bit is taken for a digit.              *)
UnsignedNumber(bytes) == Number(0, bytes)

SignedNumber(bytes) ==
    Number(IF bytes[1] < 128 THEN bytes[1] ELSE bytes[1] - 256, Tail(bytes))

(* The value read is passed through Convert.                               *)
Convert(Conversion(_), read) == IF read.ok THEN Ok(Conversion(read.value), read.rest) ELSE Err

ReadUnsigned(n, bytes) == Convert(LAMBDA b : Number(0, b), ReadExact(n, bytes))
ReadSigned(n, bytes)   == Convert(SignedNumber, ReadExact(n, bytes))
ReadBool(bytes)        == Convert(LAMBDA n : n > 0, ReadUnsigned(1, bytes))

(* Bit 6 is asked of the second byte, and no bit is taken off again.       *)
DecodeLength(bytes) ==
    LET one   == ReadUnsigned(1, bytes)
        two   == ReadUnsigned(2, bytes)
        three == ReadUnsigned(3, bytes)
    IN  IF ~one.ok \/ one.value < 128 THEN one
        ELSE IF ~two.ok \/ (two.value \div 64) % 2 = 0 THEN two
        ELSE three

DecodeString(bytes) ==
    LET size == ReadUnsigned(4, bytes)
        text == ReadExact(size.value, size.rest)
    IN  IF ~size.ok THEN Err ELSE text

RECURSIVE Decode(_, _)
DecodeAll(types, bytes) ==
    FoldLeft(LAMBDA acc, t :
                 LET field == Decode(t, acc.rest)
                 IN  IF acc.ok /\ field.ok THEN Ok(Append(acc.value, field.value), field.rest)
                     ELSE Err,
             Ok(<<>>, bytes), types)
Decode(t, bytes) ==
    LET empty == ReadBool(bytes)
        size  == ReadUnsigned(4, bytes)
        code  == ReadSigned(4, bytes)
    IN  CASE t.is = "bool"   -> empty
          [] t.is = "int"    -> ReadSigned(t.bytes, bytes)
          [] t.is = "enum"   -> IF code.ok /\ code.value \in t.ordinals THEN code ELSE Err
          [] t.is = "length" -> DecodeLength(bytes)
          [] t.is \in {"string", "option"} ->
                CASE ~empty.ok         -> Err
                  [] empty.value       -> Ok(<<>>, empty.rest)
                  [] t.is = "string"   -> DecodeString(empty.rest)
                  [] OTHER             -> DecodeAll(<<t.of>>, empty.rest)
          [] t.is = "vec"    -> IF size.ok THEN DecodeAll([i \in 1..size.value |-> t.of], size.rest)
                                ELSE Err
          [] t.is = "struct" -> DecodeAll(t.of, bytes)

-----------------------------------------------------------------------------
(* One packet after the other, from Packet::encode to PacketRegistry.      *)

None == [packet |-> "none", ok |-> FALSE]

Init ==
    /\ packet = "none"
    /\ fields = <<>>
    /\ payload = <<>>
    /\ arrival = "none"
    /\ decoded = None

(* The packet of the sender; one that does not encode is not sent.         *)
EncodePacket ==
    /\ arrival = "none"
    /\ \E p \in DOMAIN Packets : \E values \in Tuples(Packets[p]) :
         /\ Encodes(Struct(Packets[p]), values)
         /\ packet' = p
         /\ fields' = values
         /\ payload' = EncodeAll(Packets[p], values)
    /\ arrival' = "whole"
    /\ UNCHANGED decoded

(* A peer of another make sends less or more than the receiver expects.    *)
Differ ==
    /\ arrival = "whole"
    /\ decoded = None
    /\ \/ /\ \E n \in 0..(Len(payload) - 1) : payload' = SubSeq(payload, 1, n)
          /\ arrival' = "cut"
       \/ /\ \E byte \in {0, 1, 255} : payload' = Append(payload, byte)
          /\ arrival' = "longer"
    /\ UNCHANGED <<packet, fields, decoded>>

(* PacketRegistry::decode without decode_as_unknown, then Packet::decode.  *)
(* What is left of the payload is dropped.                                 *)
DecodePacket ==
    /\ arrival # "none"
    /\ decoded = None
    /\ decoded' =
         LET read == DecodeAll(Packets[packet], payload)
         IN  IF packet \in Registered
             THEN [packet |-> packet, ok |-> read.ok, fields |-> read.value]
             ELSE [packet |-> packet, ok |-> FALSE, fields |-> <<>>]
    /\ UNCHANGED <<packet, fields, payload, arrival>>

(* A connection whose decoder failed is never read again.                  *)
NextPacket ==
    /\ decoded # None
    /\ decoded.ok
    /\ packet' = "none"
    /\ fields' = <<>>
    /\ payload' = <<>>
    /\ arrival' = "none"
    /\ decoded' = None

Next == EncodePacket \/ Differ \/ DecodePacket \/ NextPacket

Spec == Init /\ [][Next]_vars

-----------------------------------------------------------------------------
(* A registered packet is decoded to the values it was made of, each field *)
(* where the one before it ends, also if its peer appends more to it.      *)
FieldsArrive ==
    decoded # None /\ packet \in Registered /\ arrival \in {"whole", "longer"}
        => decoded.ok /\ decoded.fields = fields

(* A payload that is too short is never taken for a packet: each field's   *)
(* decoder needs all the bytes its encoder has made.                       *)
CutNoticed ==
    decoded # None /\ arrival = "cut" => ~decoded.ok

=============================================================================
