---------------------------- MODULE XorCipherProofs ----------------------------
(***************************************************************************)
(* For every key and every sequence of bytes, the two ends of the cipher   *)
(* stay in step and the bytes come through.  InStep is not inductive: with *)
(* several bytes in flight the receiver goes through the states of the     *)
(* sender one after the other, which Trail says; and what the bytes in     *)
(* flight will be read as is the end of what was sent, which Flight says.  *)
(***************************************************************************)
EXTENDS XorCipher, TLAPS

Trail ==
    \A e \in Ends : \A i \in DOMAIN pipe[e] :
        /\ pipe[e][i].value = Output(pipe[e][i].state, pipe[e][i].from)
        /\ Advance(pipe[e][i].state, pipe[e][i].from) =
             IF i = Len(pipe[e]) THEN encrypt[e] ELSE pipe[e][i + 1].state

Flight ==
    \A e \in Ends : \A i \in DOMAIN pipe[e] :
        pipe[e][i].from = plain[e][Len(read[Peer(e)]) + i]

IInv == CipherTypeOK /\ RoundTrip /\ InStep /\ Trail /\ Flight

-----------------------------------------------------------------------------
(* XOR with the same byte twice is the identity.                           *)
LEMMA XorTwice == ASSUME NEW a, NEW b PROVE Xor(Xor(a, b), b) = a
  BY DEF Xor

(* Xor stays among the bytes, and among the offsets with low bits.         *)
LEMMA XorType ==
    /\ \A a, b \in Byte : Xor(a, b) \in Byte
    /\ \A a \in Offset : \A b \in Byte : Xor(a, b \intersect OffsetBits) \in Offset
  BY DEF Xor, Byte, Offset, OffsetBits

(* What comes out of the cipher is a byte.                                 *)
LEMMA OutputType ==
    ASSUME NEW s \in State, NEW b \in Byte
    PROVE  Output(s, b) \in Byte
<1>1. s.key[s.offset] \in Byte
  BY DEF State
<1> QED
  BY <1>1, XorType DEF Output

(* A state of the cipher stays one.                                        *)
LEMMA AdvanceType ==
    ASSUME NEW s \in State, NEW b \in Byte
    PROVE  Advance(s, b) \in State
<1>1. s.key \in [Offset -> Byte] /\ s.offset \in Offset
  BY DEF State
<1>2. [s.key EXCEPT ![s.offset] = b] \in [Offset -> Byte]
  BY <1>1
<1>3. Xor(s.offset, b \intersect OffsetBits) \in Offset
  BY <1>1, XorType
<1> QED
  BY <1>2, <1>3 DEF Advance, State

(* A byte encrypted and decrypted in the same state is the same byte, and  *)
(* both ends go on in the same state.                                      *)
LEMMA Inverse ==
    ASSUME NEW s, NEW b
    PROVE  /\ Output(s, Output(s, b)) = b
           /\ DecryptAdvance(s, Output(s, b)) = EncryptAdvance(s, b)
<1>1. Output(s, Output(s, b)) = b
  BY XorTwice DEF Output
<1> QED
  BY <1>1 DEF DecryptAdvance, EncryptAdvance

(* The keys of XOrCipher::new: what one mode encrypts with is what the     *)
(* other decrypts with.                                                    *)
LEMMA Keys ==
    ASSUME NEW seed \in Byte, NEW e \in Ends
    PROVE  /\ NewEncrypt(e, seed) \in State
           /\ NewDecrypt(e, seed) \in State
           /\ NewDecrypt(e, seed) = NewEncrypt(Peer(e), seed)
<1>1. \A i \in Offset : ShiftLeft3(i) \in Byte
  BY DEF ShiftLeft3, Offset, OffsetBits, Byte
<1>2. {} \in Offset /\ Mask87 \in Byte
  BY DEF Offset, Mask87, Byte
<1>3. \A i \in Offset : /\ Xor(seed, ShiftLeft3(i)) \in Byte
                        /\ Xor(Xor(seed, ShiftLeft3(i)), Mask87) \in Byte
  BY <1>1, <1>2, XorType
<1>4. Fresh(seed) \in State /\ Masked(seed) \in State
  BY <1>2, <1>3 DEF Fresh, Masked, State
<1> QED
  BY <1>4 DEF NewEncrypt, NewDecrypt, Peer, Ends

-----------------------------------------------------------------------------
(* Places in a sequence of which r elements were read and p are in flight. *)
LEMMA Places ==
    ASSUME NEW r \in Nat, NEW p \in Nat, NEW q \in Nat, r + p = q
    PROVE  /\ \A i \in 1..p : r + i \in 1..q
           /\ \A i \in 1..r : i \in 1..q
           /\ r + (p + 1) = q + 1
           /\ p > 0 => /\ (r + 1) + (p - 1) = q
                       /\ 1 \in 1..p
                       /\ \A i \in 1..(p - 1) : /\ i + 1 \in 1..p
                                               /\ r + (i + 1) = (r + 1) + i
  OBVIOUS

(* Both ends start from the same key with nothing in flight.               *)
LEMMA InitIInv == CipherInit => IInv
<1> SUFFICES ASSUME CipherInit PROVE IInv
  OBVIOUS
<1> USE CipherAssumption
<1>1. PICK seed \in Seeds : /\ encrypt = [e \in Ends |-> NewEncrypt(e, seed)]
                            /\ decrypt = [e \in Ends |-> NewDecrypt(e, seed)]
  BY DEF CipherInit
<1>2. \A e \in Ends : Peer(e) \in Ends
  BY DEF Peer, Ends
<1>3. \A e \in Ends : /\ encrypt[e] \in State /\ decrypt[e] \in State
                      /\ decrypt[e] = encrypt[Peer(e)]
  BY <1>1, <1>2, Keys
<1>4. \A e \in Ends : pipe[e] = <<>> /\ plain[e] = <<>> /\ read[e] = <<>>
  BY DEF CipherInit
<1>5. /\ pipe \in [Ends -> Seq(Sent)] /\ plain \in [Ends -> Seq(Byte)]
      /\ read \in [Ends -> Seq(Byte)]
  BY DEF CipherInit
<1>6. CipherTypeOK
  BY <1>1, <1>3, <1>5 DEF CipherTypeOK
<1>7. RoundTrip /\ InStep
  <2>1. InStep
    BY <1>2, <1>3, <1>4 DEF InStep
  <2>2. \A e \in Ends : Len(read[e]) = 0 /\ Len(pipe[e]) = 0 /\ Len(plain[e]) = 0
    BY <1>4
  <2>3. \A e \in Ends : DOMAIN read[e] = {}
    BY <1>4
  <2>4. RoundTrip
    <3>1. 0 + 0 = 0
      OBVIOUS
    <3>2. \A e \in Ends : Len(read[e]) + Len(pipe[Peer(e)]) = Len(plain[Peer(e)])
      BY <1>2, <2>2, <3>1
    <3> QED
      BY <2>3, <3>2 DEF RoundTrip
  <2> QED
    BY <2>1, <2>4
<1>8. Trail /\ Flight
  <2>1. \A e \in Ends : DOMAIN pipe[e] = {}
    BY <1>4
  <2> QED
    BY <2>1 DEF Trail, Flight
<1> QED
  BY <1>6, <1>7, <1>8 DEF IInv

(* Encrypting a byte keeps the pipe a chain of states.                     *)
LEMMA EncryptIInv ==
    ASSUME IInv, NEW s \in Ends, Encrypt(s)
    PROVE  IInv'
<1> USE CipherAssumption
<1>1. PICK value \in Values :
         /\ pipe' = [pipe EXCEPT ![s] = Append(@, [value |-> Output(encrypt[s], value),
                                                   state |-> encrypt[s], from |-> value])]
         /\ encrypt' = [encrypt EXCEPT ![s] = EncryptAdvance(@, value)]
         /\ plain' = [plain EXCEPT ![s] = Append(@, value)]
         /\ decrypt' = decrypt /\ read' = read
  BY DEF Encrypt
<1> DEFINE new == [value |-> Output(encrypt[s], value), state |-> encrypt[s], from |-> value]
<1>2. /\ encrypt[s] \in State /\ value \in Byte
      /\ pipe[s] \in Seq(Sent) /\ plain[s] \in Seq(Byte)
  BY DEF IInv, CipherTypeOK
<1>3. /\ new \in Sent /\ new.value = Output(encrypt[s], value)
      /\ new.state = encrypt[s] /\ new.from = value
  BY <1>2, OutputType DEF Sent
<1> HIDE DEF new
<1>4. /\ pipe'[s] = Append(pipe[s], new) /\ plain'[s] = Append(plain[s], value)
      /\ encrypt'[s] = Advance(encrypt[s], value)
      /\ \A e \in Ends : e # s => /\ pipe'[e] = pipe[e] /\ plain'[e] = plain[e]
                                  /\ encrypt'[e] = encrypt[e]
  BY <1>1 DEF IInv, CipherTypeOK, EncryptAdvance, new
<1>5. /\ Len(pipe'[s]) = Len(pipe[s]) + 1 /\ DOMAIN pipe'[s] = 1..(Len(pipe[s]) + 1)
      /\ pipe'[s][Len(pipe[s]) + 1] = new
      /\ \A i \in 1..Len(pipe[s]) : pipe'[s][i] = pipe[s][i]
      /\ Len(pipe[s]) \in Nat /\ DOMAIN pipe[s] = 1..Len(pipe[s])
      /\ Len(plain'[s]) = Len(plain[s]) + 1 /\ Len(plain[s]) \in Nat
      /\ plain'[s][Len(plain[s]) + 1] = value
      /\ \A i \in 1..Len(plain[s]) : plain'[s][i] = plain[s][i]
  BY <1>2, <1>3, <1>4
<1>6. /\ Peer(s) \in Ends /\ Peer(Peer(s)) = s /\ Peer(s) # s
      /\ \A e \in Ends : e = s \/ e = Peer(s)
  BY DEF Peer, Ends
<1>7. CipherTypeOK'
  <2>1. Advance(encrypt[s], value) \in State
    BY <1>2, AdvanceType
  <2>2. Append(pipe[s], new) \in Seq(Sent) /\ Append(plain[s], value) \in Seq(Byte)
    BY <1>2, <1>3
  <2>3. pipe' = [pipe EXCEPT ![s] = Append(pipe[s], new)]
    BY <1>1 DEF new
  <2> QED
    BY <1>1, <2>1, <2>2, <2>3 DEF IInv, CipherTypeOK, EncryptAdvance
<1>8. /\ read[Peer(s)] \in Seq(Byte) /\ Len(read[Peer(s)]) \in Nat
      /\ DOMAIN read[Peer(s)] = 1..Len(read[Peer(s)])
      /\ Len(read[Peer(s)]) + Len(pipe[s]) = Len(plain[s])
  BY <1>6 DEF IInv, CipherTypeOK, RoundTrip
<1>8a. /\ \A i \in 1..Len(pipe[s]) : Len(read[Peer(s)]) + i \in 1..Len(plain[s])
       /\ \A i \in 1..Len(read[Peer(s)]) : i \in 1..Len(plain[s])
       /\ Len(read[Peer(s)]) + (Len(pipe[s]) + 1) = Len(plain[s]) + 1
  <2> DEFINE r == Len(read[Peer(s)])
             p == Len(pipe[s])
             q == Len(plain[s])
  <2>1. r \in Nat /\ p \in Nat /\ q \in Nat /\ r + p = q
    BY <1>5, <1>8
  <2> HIDE DEF r, p, q
  <2>2. /\ \A i \in 1..p : r + i \in 1..q
        /\ \A i \in 1..r : i \in 1..q
        /\ r + (p + 1) = q + 1
    BY <2>1, Places
  <2> QED
    BY <2>2 DEF r, p, q
<1>9. RoundTrip'
  <2> SUFFICES ASSUME NEW e \in Ends
               PROVE  /\ Len(read[e]) + Len(pipe'[Peer(e)]) = Len(plain'[Peer(e)])
                      /\ \A i \in DOMAIN read[e] : read[e][i] = plain'[Peer(e)][i]
    BY <1>1 DEF RoundTrip
  <2>1. CASE e = s
    BY <1>4, <1>6, <2>1 DEF IInv, RoundTrip
  <2>2. CASE e = Peer(s)
    <3>1. \A i \in DOMAIN read[e] : read[e][i] = plain[s][i]
      BY <1>6, <2>2 DEF IInv, RoundTrip
    <3>2. \A i \in DOMAIN read[e] : i \in 1..Len(plain[s])
      BY <1>8a, <1>8, <2>2
    <3>3. Len(read[e]) + Len(pipe'[s]) = Len(plain'[s])
      BY <1>5, <1>8a, <2>2
    <3>4. \A i \in DOMAIN read[e] : read[e][i] = plain'[s][i]
      BY <1>5, <3>1, <3>2
    <3> QED
      BY <1>6, <2>2, <3>3, <3>4
  <2> QED
    BY <1>6, <2>1, <2>2
<1>10. InStep'
  <2> SUFFICES ASSUME NEW e \in Ends
               PROVE  decrypt[e] = IF pipe'[Peer(e)] = <<>> THEN encrypt'[Peer(e)]
                                   ELSE Head(pipe'[Peer(e)]).state
    BY <1>1 DEF InStep
  <2>1. CASE e = s
    BY <1>4, <1>6, <2>1 DEF IInv, InStep
  <2>2. CASE e = Peer(s)
    <3>1. pipe'[s] # <<>> /\ Head(pipe'[s]) = IF pipe[s] = <<>> THEN new ELSE Head(pipe[s])
      <4>1. ASSUME NEW q \in Seq(Sent), NEW x \in Sent
            PROVE  /\ Append(q, x) # <<>>
                   /\ q = <<>> => Head(Append(q, x)) = x
                   /\ q # <<>> => Head(Append(q, x)) = Head(q)
        OBVIOUS
      <4> QED
        BY <1>2, <1>3, <1>4, <4>1
    <3>2. decrypt[e] = IF pipe[s] = <<>> THEN encrypt[s] ELSE Head(pipe[s]).state
      BY <1>6, <2>2 DEF IInv, InStep
    <3> QED
      BY <1>3, <1>6, <2>2, <3>1, <3>2
  <2> QED
    BY <1>6, <2>1, <2>2
<1>11. Trail'
  <2> SUFFICES ASSUME NEW e \in Ends, NEW i \in DOMAIN pipe'[e]
               PROVE  /\ pipe'[e][i].value = Output(pipe'[e][i].state, pipe'[e][i].from)
                      /\ Advance(pipe'[e][i].state, pipe'[e][i].from) =
                           IF i = Len(pipe'[e]) THEN encrypt'[e] ELSE pipe'[e][i + 1].state
    BY DEF Trail
  <2>1. CASE e # s
    BY <1>4, <2>1 DEF IInv, Trail
  <2>2. CASE e = s /\ i = Len(pipe[s]) + 1
    BY <1>3, <1>4, <1>5, <2>2
  <2>3. CASE e = s /\ i # Len(pipe[s]) + 1
    <3>1. i \in DOMAIN pipe[s] /\ i \in Nat
      BY <1>5, <2>3
    <3>2. /\ pipe[s][i].value = Output(pipe[s][i].state, pipe[s][i].from)
          /\ Advance(pipe[s][i].state, pipe[s][i].from) =
               IF i = Len(pipe[s]) THEN encrypt[s] ELSE pipe[s][i + 1].state
      BY <3>1 DEF IInv, Trail
    <3>3. pipe'[s][i] = pipe[s][i] /\ i # Len(pipe'[s])
      BY <1>5, <2>3, <3>1
    <3>4. CASE i = Len(pipe[s])
      BY <1>3, <1>5, <2>3, <3>2, <3>3, <3>4
    <3>5. CASE i # Len(pipe[s])
      <4>1. i + 1 \in 1..Len(pipe[s])
        BY <1>5, <3>1, <3>5
      <4> QED
        BY <1>5, <2>3, <3>2, <3>3, <3>5, <4>1
    <3> QED
      BY <3>4, <3>5
  <2> QED
    BY <2>1, <2>2, <2>3
<1>12. Flight'
  <2> SUFFICES ASSUME NEW e \in Ends, NEW i \in DOMAIN pipe'[e]
               PROVE  pipe'[e][i].from = plain'[e][Len(read[Peer(e)]) + i]
    BY <1>1 DEF Flight
  <2>1. CASE e # s
    BY <1>4, <2>1 DEF IInv, Flight
  <2>2. CASE e = s /\ i = Len(pipe[s]) + 1
    <3>1. Len(read[Peer(s)]) + i = Len(plain[s]) + 1
      BY <1>8a, <2>2
    <3> QED
      BY <1>3, <1>5, <2>2, <3>1
  <2>3. CASE e = s /\ i # Len(pipe[s]) + 1
    <3>1. i \in 1..Len(pipe[s])
      BY <1>5, <2>3
    <3>2. Len(read[Peer(s)]) + i \in 1..Len(plain[s])
      BY <1>8a, <3>1
    <3>3. pipe[s][i].from = plain[s][Len(read[Peer(s)]) + i]
      BY <1>5, <3>1 DEF IInv, Flight
    <3> QED
      BY <1>5, <2>3, <3>1, <3>2, <3>3
  <2> QED
    BY <2>1, <2>2, <2>3
<1> QED
  BY <1>7, <1>9, <1>10, <1>11, <1>12 DEF IInv

(* Decrypting the first byte in flight moves to the next state of the      *)
(* chain.                                                                  *)
LEMMA DecryptIInv ==
    ASSUME IInv, NEW t \in Ends, Decrypt(t)
    PROVE  IInv'
<1> DEFINE s == Peer(t)
           first == pipe[s][1]
<1>1. /\ s \in Ends /\ Peer(s) = t /\ s # t
      /\ \A e \in Ends : e = s \/ e = t
  BY DEF Peer, Ends
<1> HIDE DEF s
<1>2. pipe[s] # <<>> /\ pipe[s] \in Seq(Sent)
  BY <1>1 DEF Decrypt, IInv, CipherTypeOK, s
<1>3. /\ Len(pipe[s]) \in Nat /\ 1 \in DOMAIN pipe[s]
      /\ DOMAIN pipe[s] = 1..Len(pipe[s]) /\ Head(pipe[s]) = first /\ first \in Sent
  BY <1>2
<1>4. /\ first.from \in Byte /\ first.state \in State
  BY <1>3 DEF Sent
<1>5. /\ decrypt[t] = first.state /\ first.value = Output(first.state, first.from)
      /\ Advance(first.state, first.from) =
           IF Len(pipe[s]) = 1 THEN encrypt[s] ELSE pipe[s][2].state
  <2>1. decrypt[t] = first.state
    BY <1>2, <1>3 DEF IInv, InStep, s
  <2>2. /\ first.value = Output(first.state, first.from)
        /\ Advance(first.state, first.from) =
             IF 1 = Len(pipe[s]) THEN encrypt[s] ELSE pipe[s][1 + 1].state
    BY <1>1, <1>3 DEF IInv, Trail
  <2>3. 1 + 1 = 2
    OBVIOUS
  <2> HIDE DEF first
  <2> QED
    BY <2>1, <2>2, <2>3
<1>6. /\ Output(decrypt[t], first.value) = first.from
      /\ DecryptAdvance(decrypt[t], first.value) = Advance(first.state, first.from)
  BY <1>5, Inverse DEF EncryptAdvance
<1>7. /\ read' = [read EXCEPT ![t] = Append(@, first.from)]
      /\ decrypt' = [decrypt EXCEPT ![t] = Advance(first.state, first.from)]
      /\ pipe' = [pipe EXCEPT ![s] = Tail(@)]
      /\ encrypt' = encrypt /\ plain' = plain
  <2>1. /\ read' = [read EXCEPT ![t] = Append(@, Output(decrypt[t], first.value))]
        /\ decrypt' = [decrypt EXCEPT ![t] = DecryptAdvance(decrypt[t], first.value)]
        /\ pipe' = [pipe EXCEPT ![s] = Tail(@)]
        /\ encrypt' = encrypt /\ plain' = plain
    BY <1>3 DEF Decrypt, s
  <2> QED
    BY <1>6, <2>1
<1> HIDE DEF first
<1>8. /\ read'[t] = Append(read[t], first.from) /\ pipe'[s] = Tail(pipe[s])
      /\ decrypt'[t] = Advance(first.state, first.from)
      /\ read'[s] = read[s] /\ decrypt'[s] = decrypt[s] /\ pipe'[t] = pipe[t]
  BY <1>1, <1>7 DEF IInv, CipherTypeOK
<1>9. /\ Len(pipe'[s]) = Len(pipe[s]) - 1 /\ DOMAIN pipe'[s] = 1..(Len(pipe[s]) - 1)
      /\ \A i \in 1..(Len(pipe[s]) - 1) : pipe'[s][i] = pipe[s][i + 1]
      /\ pipe'[s] \in Seq(Sent)
  BY <1>2, <1>3, <1>8
<1>10. /\ read[t] \in Seq(Byte) /\ Len(read[t]) \in Nat /\ DOMAIN read[t] = 1..Len(read[t])
       /\ read'[t] \in Seq(Byte) /\ Len(read'[t]) = Len(read[t]) + 1
       /\ DOMAIN read'[t] = 1..(Len(read[t]) + 1)
       /\ read'[t][Len(read[t]) + 1] = first.from
       /\ \A i \in 1..Len(read[t]) : read'[t][i] = read[t][i]
  BY <1>4, <1>8 DEF IInv, CipherTypeOK
<1>11. CipherTypeOK'
  <2>1. Advance(first.state, first.from) \in State
    BY <1>4, AdvanceType
  <2>2. /\ pipe' = [pipe EXCEPT ![s] = pipe'[s]]
        /\ read' = [read EXCEPT ![t] = read'[t]]
    BY <1>1, <1>7 DEF IInv, CipherTypeOK
  <2> QED
    BY <1>1, <1>7, <1>9, <1>10, <2>1, <2>2 DEF IInv, CipherTypeOK
<1>12. /\ Len(read[t]) + Len(pipe[s]) = Len(plain[s])
       /\ \A i \in DOMAIN read[t] : read[t][i] = plain[s][i]
  BY <1>1 DEF IInv, RoundTrip, s
<1>12a. /\ (Len(read[t]) + 1) + (Len(pipe[s]) - 1) = Len(plain[s])
        /\ 1 \in 1..Len(pipe[s])
        /\ \A i \in 1..(Len(pipe[s]) - 1) : /\ i + 1 \in 1..Len(pipe[s])
                                             /\ Len(read[t]) + (i + 1) = (Len(read[t]) + 1) + i
  <2>1. Len(plain[s]) \in Nat
    BY <1>1 DEF IInv, CipherTypeOK
  <2>2. Len(pipe[s]) > 0
    BY <1>3
  <2> QED
    BY <1>3, <1>10, <1>12, <2>1, <2>2, Places
<1>13. RoundTrip'
  <2> SUFFICES ASSUME NEW e \in Ends
               PROVE  /\ Len(read'[e]) + Len(pipe'[Peer(e)]) = Len(plain[Peer(e)])
                      /\ \A i \in DOMAIN read'[e] : read'[e][i] = plain[Peer(e)][i]
    BY <1>7 DEF RoundTrip
  <2>1. CASE e = s
    <3>1. read'[e] = read[e] /\ pipe'[Peer(e)] = pipe[Peer(e)]
      BY <1>1, <1>8, <2>1
    <3>2. RoundTrip
      BY DEF IInv
    <3> QED
      BY <3>1, <3>2 DEF RoundTrip
  <2>2. CASE e = t
    <3>1. first.from = plain[s][Len(read[t]) + 1]
      BY <1>1, <1>3 DEF IInv, Flight, first
    <3>2. Len(read'[t]) + Len(pipe'[s]) = Len(plain[s])
      BY <1>9, <1>10, <1>12a
    <3>3. \A i \in DOMAIN read'[t] : read'[t][i] = plain[s][i]
      BY <1>10, <1>12, <3>1
    <3> QED
      BY <2>2, <3>2, <3>3 DEF s
  <2> QED
    BY <1>1, <2>1, <2>2
<1>14. InStep'
  <2> SUFFICES ASSUME NEW e \in Ends
               PROVE  decrypt'[e] = IF pipe'[Peer(e)] = <<>> THEN encrypt[Peer(e)]
                                    ELSE Head(pipe'[Peer(e)]).state
    BY <1>7 DEF InStep
  <2>1. CASE e = s
    BY <1>1, <1>8, <2>1 DEF IInv, InStep
  <2>2. CASE e = t
    <3>1. CASE Len(pipe[s]) = 1
      <4>1. pipe'[s] = <<>>
        BY <1>9, <3>1
      <4> QED
        BY <1>5, <1>8, <2>2, <3>1, <4>1 DEF s
    <3>2. CASE Len(pipe[s]) # 1
      <4>1. Len(pipe[s]) - 1 \in Nat \ {0} /\ 1 \in 1..(Len(pipe[s]) - 1)
        <5>1. Len(pipe[s]) \in Nat /\ Len(pipe[s]) >= 1
          BY <1>3
        <5> DEFINE n == Len(pipe[s])
        <5>2. n \in Nat /\ n >= 1 /\ n # 1
          BY <3>2, <5>1
        <5> HIDE DEF n
        <5>3. n - 1 \in Nat \ {0} /\ 1 \in 1..(n - 1)
          BY <5>2
        <5> QED
          BY <5>3 DEF n
      <4>2. pipe'[s] # <<>> /\ Head(pipe'[s]) = pipe[s][2]
        <5>1. pipe'[s] # <<>> /\ Head(pipe'[s]) = pipe'[s][1]
          BY <1>9, <4>1
        <5>2. pipe'[s][1] = pipe[s][1 + 1] /\ 1 + 1 = 2
          BY <1>9, <4>1
        <5> QED
          BY <5>1, <5>2
      <4> QED
        BY <1>5, <1>8, <2>2, <3>2, <4>2 DEF s
    <3> QED
      BY <3>1, <3>2
  <2> QED
    BY <1>1, <2>1, <2>2
<1>15. Trail'
  <2> SUFFICES ASSUME NEW e \in Ends, NEW i \in DOMAIN pipe'[e]
               PROVE  /\ pipe'[e][i].value = Output(pipe'[e][i].state, pipe'[e][i].from)
                      /\ Advance(pipe'[e][i].state, pipe'[e][i].from) =
                           IF i = Len(pipe'[e]) THEN encrypt[e] ELSE pipe'[e][i + 1].state
    BY <1>7 DEF Trail
  <2>1. CASE e = t
    <3>1. pipe'[e] = pipe[e] /\ i \in DOMAIN pipe[e]
      BY <1>8, <2>1
    <3>2. Trail
      BY DEF IInv
    <3> QED
      BY <3>1, <3>2 DEF Trail
  <2>2. CASE e = s
    <3>1. /\ i \in 1..(Len(pipe[s]) - 1) /\ i + 1 \in DOMAIN pipe[s]
          /\ pipe'[s][i] = pipe[s][i + 1]
      BY <1>3, <1>9, <2>2
    <3>2. /\ pipe[s][i + 1].value = Output(pipe[s][i + 1].state, pipe[s][i + 1].from)
          /\ Advance(pipe[s][i + 1].state, pipe[s][i + 1].from) =
               IF i + 1 = Len(pipe[s]) THEN encrypt[s] ELSE pipe[s][(i + 1) + 1].state
      BY <1>1, <3>1 DEF IInv, Trail
    <3>3. CASE i = Len(pipe'[s])
      <4>1. i + 1 = Len(pipe[s])
        BY <1>3, <1>9, <3>1, <3>3
      <4> QED
        BY <2>2, <3>1, <3>2, <3>3, <4>1
    <3>4. CASE i # Len(pipe'[s])
      <4>1. i + 1 \in 1..(Len(pipe[s]) - 1) /\ i + 1 # Len(pipe[s])
        BY <1>3, <1>9, <3>1, <3>4
      <4>2. pipe'[s][i + 1] = pipe[s][(i + 1) + 1]
        BY <1>9, <4>1
      <4> QED
        BY <2>2, <3>1, <3>2, <3>4, <4>1, <4>2
    <3> QED
      BY <3>3, <3>4
  <2> QED
    BY <1>1, <2>1, <2>2
<1>16. Flight'
  <2> SUFFICES ASSUME NEW e \in Ends, NEW i \in DOMAIN pipe'[e]
               PROVE  pipe'[e][i].from = plain[e][Len(read'[Peer(e)]) + i]
    BY <1>7 DEF Flight
  <2>1. CASE e = t
    <3>1. pipe'[e] = pipe[e] /\ i \in DOMAIN pipe[e] /\ read'[Peer(e)] = read[Peer(e)]
      BY <1>8, <2>1 DEF s
    <3>2. Flight
      BY DEF IInv
    <3> QED
      BY <3>1, <3>2 DEF Flight
  <2>2. CASE e = s
    <3>1. /\ i \in 1..(Len(pipe[s]) - 1) /\ i + 1 \in DOMAIN pipe[s]
          /\ pipe'[s][i] = pipe[s][i + 1]
      BY <1>3, <1>9, <2>2
    <3>2. pipe[s][i + 1].from = plain[s][Len(read[t]) + (i + 1)]
      BY <1>1, <3>1 DEF IInv, Flight
    <3>3. Len(read[t]) + (i + 1) = Len(read'[t]) + i
      BY <1>10, <1>12a, <3>1
    <3> QED
      BY <1>1, <2>2, <3>1, <3>2, <3>3
  <2> QED
    BY <1>1, <2>1, <2>2
<1> QED
  BY <1>11, <1>13, <1>14, <1>15, <1>16 DEF IInv

(* The inductive step, one case per action.                                *)
LEMMA NextIInv == IInv /\ [CipherNext]_cipherVars => IInv'
<1> SUFFICES ASSUME IInv, [CipherNext]_cipherVars PROVE IInv'
  OBVIOUS
<1>1. ASSUME NEW e \in Ends, Encrypt(e) PROVE IInv'
  BY <1>1, EncryptIInv
<1>2. ASSUME NEW e \in Ends, Decrypt(e) PROVE IInv'
  BY <1>2, DecryptIInv
<1>3. CASE UNCHANGED cipherVars
  BY <1>3 DEF cipherVars, IInv, CipherTypeOK, RoundTrip, InStep, Trail, Flight
<1> QED
  BY <1>1, <1>2, <1>3 DEF CipherNext

(* Whatever the key and the bytes, what the peer reads is what was sent:   *)
(* encrypt and decrypt of xor.rs keep the two ends in step.                *)
THEOREM CipherInStep == CipherSpec => [](CipherTypeOK /\ RoundTrip /\ InStep)
<1>1. IInv => CipherTypeOK /\ RoundTrip /\ InStep
  BY DEF IInv
<1> QED
  BY <1>1, InitIInv, NextIInv, PTL DEF CipherSpec

(* Keys, offsets and bytes keep their widths, however they are shifted.    *)
THEOREM TypeCorrect == CipherSpec => []CipherTypeOK
  BY CipherInStep, PTL

=============================================================================
