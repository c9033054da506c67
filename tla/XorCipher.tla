------------------------------- MODULE XorCipher -------------------------------
(***************************************************************************)
(* The XOR stream cipher at the two ends of a connection                   *)
(* (protocol/src/crypto/xor.rs).  Each end has a key of eight bytes and an *)
(* offset into it for what it encrypts and another for what it decrypts;   *)
(* both move with every byte, as a function of the plain byte.  So an end  *)
(* decrypts right only as long as it has followed every byte its peer has  *)
(* encrypted, and nothing would bring it back in step.                     *)
(*                                                                         *)
(* A byte is the set of its bits that are 1; an offset, which is a byte    *)
(* below 8, a set of bits below 3.                                         *)
(***************************************************************************)
EXTENDS Naturals, Sequences

CONSTANTS
    Seeds,    \* what the bytes of a generated key may XOR to
    Values,   \* the bytes that are sent
    MaxBytes  \* bound: how many bytes each end sends

Byte == SUBSET (0..7)
OffsetBits == 0..2
Offset == SUBSET OffsetBits

ASSUME CipherAssumption ==
    /\ Seeds \subseteq Byte
    /\ Values \subseteq Byte
    /\ MaxBytes \in Nat

Ends == {"Server", "Client"}
Peer(e) == IF e = "Server" THEN "Client" ELSE "Server"

VARIABLES
    encrypt,  \* encrypt[e]: encrypt_key and encrypt_key_offset of this end
    decrypt,  \* decrypt[e]: decrypt_key and decrypt_key_offset
    pipe,     \* pipe[e]: the bytes e has encrypted and its peer not decrypted
    plain,    \* plain[e]: the bytes e has sent
    read      \* read[e]: the bytes e has decrypted

cipherVars == <<encrypt, decrypt, pipe, plain, read>>

State == [key: [Offset -> Byte], offset: Offset]

(* What is in flight; state and from are of use to the properties only.    *)
Sent == [value: Byte, state: State, from: Byte]

CipherTypeOK ==
    /\ encrypt \in [Ends -> State]
    /\ decrypt \in [Ends -> State]
    /\ pipe \in [Ends -> Seq(Sent)]
    /\ plain \in [Ends -> Seq(Byte)]
    /\ read \in [Ends -> Seq(Byte)]

-----------------------------------------------------------------------------
Xor(a, b) == (a \ b) \union (b \ a)

ShiftLeft3(index) == {i + 3 : i \in index}

Mask87 == {0, 1, 2, 4, 6}

(* Both keys of XOrCipher::new; the two modes have them the other way      *)
(* round, and both offsets start at 0.                                     *)
Fresh(seed)  == [key |-> [i \in Offset |-> Xor(seed, ShiftLeft3(i))], offset |-> {}]
Masked(seed) ==
    [key |-> [i \in Offset |-> Xor(Xor(seed, ShiftLeft3(i)), Mask87)], offset |-> {}]

NewEncrypt(mode, seed) == IF mode = "Server" THEN Fresh(seed) ELSE Masked(seed)
NewDecrypt(mode, seed) == IF mode = "Server" THEN Masked(seed) ELSE Fresh(seed)

(* Mutant of Advance: the whole byte moves the offset.                     *)
AdvanceUnmasked(state, byte) ==
    [key    |-> [state.key EXCEPT ![state.offset] = byte],
     offset |-> Xor(state.offset, byte)]

(* The plain byte takes the place of the key byte that was used, and its   *)
(* low bits move the offset.                                               *)
Advance(state, byte) ==
    [key    |-> [state.key EXCEPT ![state.offset] = byte],
     offset |-> Xor(state.offset, byte \intersect OffsetBits)]

(* Mutant of DecryptAdvance: the encrypted byte moves the offset.          *)
DecryptAdvanceByValue(state, value) ==
    [key    |-> [state.key EXCEPT ![state.offset] = Xor(value, @)],
     offset |-> Xor(state.offset, value \intersect OffsetBits)]

Output(state, value) == Xor(value, state.key[state.offset])

(* encrypt advances by the byte it is given, decrypt by the one it makes.  *)
EncryptAdvance(state, value) == Advance(state, value)
DecryptAdvance(state, value) == Advance(state, Output(state, value))

CipherInit ==
    /\ \E seed \in Seeds :
         /\ encrypt = [e \in Ends |-> NewEncrypt(e, seed)]
         /\ decrypt = [e \in Ends |-> NewDecrypt(e, seed)]
    /\ pipe = [e \in Ends |-> <<>>]
    /\ plain = [e \in Ends |-> <<>>]
    /\ read = [e \in Ends |-> <<>>]

Encrypt(e) ==
    /\ Len(plain[e]) < MaxBytes
    /\ \E value \in Values :
         /\ pipe' = [pipe EXCEPT ![e] = Append(@, [value |-> Output(encrypt[e], value),
                                                   state |-> encrypt[e], from |-> value])]
         /\ encrypt' = [encrypt EXCEPT ![e] = EncryptAdvance(@, value)]
         /\ plain' = [plain EXCEPT ![e] = Append(@, value)]
    /\ UNCHANGED <<decrypt, read>>

Decrypt(e) ==
    /\ pipe[Peer(e)] # <<>>
    /\ LET value == Head(pipe[Peer(e)]).value
       IN  /\ read' = [read EXCEPT ![e] = Append(@, Output(decrypt[e], value))]
           /\ decrypt' = [decrypt EXCEPT ![e] = DecryptAdvance(@, value)]
    /\ pipe' = [pipe EXCEPT ![Peer(e)] = Tail(@)]
    /\ UNCHANGED <<encrypt, plain>>

CipherNext == \E e \in Ends : Encrypt(e) \/ Decrypt(e)

CipherSpec == CipherInit /\ [][CipherNext]_cipherVars

-----------------------------------------------------------------------------
(* What one end reads is what the other has sent, byte for byte.           *)
RoundTrip ==
    \A e \in Ends :
        /\ Len(read[e]) + Len(pipe[Peer(e)]) = Len(plain[Peer(e)])
        /\ \A i \in DOMAIN read[e] : read[e][i] = plain[Peer(e)][i]

(* An end decrypts the next byte in the very state in which it was         *)
(* encrypted, and is in its peer's state when nothing is in flight.  This  *)
(* lets module Connection know a cipher's state by a count of bytes.       *)
InStep ==
    \A e \in Ends :
        decrypt[e] = IF pipe[Peer(e)] = <<>> THEN encrypt[Peer(e)]
                     ELSE Head(pipe[Peer(e)]).state

=============================================================================
