------------------------------ MODULE MCProtocol ------------------------------
(***************************************************************************)
(* What goes over a client's connection, on small instances: the cipher,   *)
(* the codec, and the requests and acknowledgements of resource loading.   *)
(* They share nothing, so a behaviour is one of a single part.             *)
(*                                                                         *)
(* The bytes of the cipher differ in their low bits (which move the        *)
(* offset) and in their high ones; {0, ..., 7} collides with the mask.     *)
(***************************************************************************)
EXTENDS XorCipher, ClientResources, Integers

CONSTANTS Packets, Registered, Integer, Lengths, Strings

VARIABLES part, packet, fields, payload, arrival, decoded

K == INSTANCE Codec
T == INSTANCE CodecTypes

SomeSeeds  == {{}, {0, 1, 2, 3, 4, 5, 6, 7}, {0, 3, 7}}
SomeValues == {{}, {0}, {1, 5}, {0, 1, 2, 4, 6}}

(* Every type, each before another one; options in vectors and the other   *)
(* way round.                                                              *)
SomePackets ==
    [ scalars |-> <<T!Length, T!Signed(2), T!Bool>>,
      nested  |-> <<T!Option(T!String), T!Vec(T!Enum({0, 1})), T!String>>,
      deep    |-> <<T!Vec(T!Struct(<<T!Option(T!Bool), T!Signed(1)>>)), T!Option(T!Vec(T!Bool))>>,
      vector  |-> <<T!Option(T!Vector3(T!Signed(4)))>>,
      other   |-> <<T!Bool>> ]

SomeIntegers ==
    [ n \in {1, 2, 4} |-> CASE n = 1 -> {-1, 1}
                            [] n = 2 -> {-32768, -256, 0, 255, 32767}
                            [] n = 4 -> {-65536, 1} ]

(* No character, one, and two of which one looks like a flag.              *)
SomeStrings == {<<>>, <<97>>, <<1, 97>>}

(* The calls the server makes: Connect by registration, Auth by            *)
(* LoginKickoff, Lobby by three authentications.                           *)
SomeStages ==
    [w \in Waiters |-> CASE w = "connect" -> "Connect"
                         [] w = "kickoff" -> "Auth"
                         [] OTHER         -> "Lobby"]

ConnectFirst ==
    [w \in Waiters |-> IF w = "connect" THEN {} ELSE {"connect"}]

ProtocolInit ==
    /\ part \in {"cipher", "codec", "resources"}
    /\ CipherInit /\ K!Init /\ Init

codecVars == <<packet, fields, payload, arrival, decoded>>

OnlyCipher    == part = "cipher" /\ UNCHANGED <<part, codecVars, vars>>
OnlyCodec     == part = "codec" /\ UNCHANGED <<part, cipherVars, vars>>
OnlyResources == part = "resources" /\ UNCHANGED <<part, cipherVars, codecVars>>

ProtocolNext ==
    \/ OnlyCipher /\ CipherNext
    \/ OnlyCodec /\ K!Next
    \/ OnlyResources /\ Next

ProtocolSpec ==
    /\ ProtocolInit /\ [][ProtocolNext]_<<part, cipherVars, codecVars, vars>>
    /\ WF_vars(OnlyResources /\ \E i \in asked : ResourcesRegistered(i))

(* The properties of the cipher and of resource loading are those of       *)
(* XorCipher and ClientResources; these are the codec's, explained there.  *)

(* Fields are decoded to what they were encoded from (module Codec).       *)
FieldsArrive == K!FieldsArrive

(* Payloads that are too short are noticed (module Codec).                 *)
CutNoticed == K!CutNoticed

=============================================================================
