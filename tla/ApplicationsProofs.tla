-------------------------- MODULE ApplicationsProofs --------------------------
(***************************************************************************)
(* The safety of the three applications: for any number of packets,        *)
(* workers, names, sessions and kills.                                     *)
(***************************************************************************)
EXTENDS MCApplications, SequenceTheorems, TLAPS

(* A step of one application is none of the others.                        *)
LEMMA StepOfOne ==
    ASSUME [Next]_vars
    PROVE  /\ C!Next \/ UNCHANGED crystalBotVars
           /\ R!Next \/ UNCHANGED registerBotVars
           /\ P!Next \/ UNCHANGED proxyServerVars
  BY DEF Next, vars, OnlyCrystalBot, OnlyRegisterBot, OnlyProxyServer

-----------------------------------------------------------------------------
(* The proxy.                                                              *)

Packets == [number: Nat, readable: BOOLEAN]

Readable(packets) == \A i \in DOMAIN packets : packets[i].readable

(* What the proxy has passed on of what the peer of s has sent.            *)
Passed(s) == received[s] \o unsent[s]

RelayTypes ==
    /\ latched \in [P!Sides -> BOOLEAN]
    /\ sent \in [P!Sides -> Seq(Packets)] /\ arriving \in [P!Sides -> Seq(Packets)]
    /\ unsent \in [P!Sides -> Seq(Packets)] /\ received \in [P!Sides -> Seq(Packets)]

(* The rest of it is still to be read, as long as anyone reads.            *)
Relays(s) ==
    /\ Readable(received[s]) /\ Readable(unsent[s])
    /\ \E rest \in Seq(Packets) : sent[P!Other(s)] = Passed(s) \o rest
    /\ stage # "over" /\ ~latched[P!Other(s)] => sent[P!Other(s)] = Passed(s) \o arriving[P!Other(s)]

RelayInv == RelayTypes /\ \A s \in P!Sides : Relays(s)

LEMMA SidesFact ==
    \A s \in P!Sides : /\ P!Other(s) \in P!Sides /\ P!Other(P!Other(s)) = s
                       /\ \A t \in P!Sides : t = s \/ t = P!Other(s)
                       /\ P!Other(s) # s
  BY DEF P!Sides, P!Other

(* Appending, and taking the first one, as concatenations.                 *)
LEMMA PacketsFact ==
    ASSUME NEW q \in Seq(Packets)
    PROVE  /\ \A p \in Packets : Append(q, p) = q \o <<p>> /\ <<p>> \in Seq(Packets)
           /\ q # <<>> => /\ Head(q) \in Packets /\ Tail(q) \in Seq(Packets)
                          /\ q = <<Head(q)>> \o Tail(q)
  <1>1. ASSUME NEW p \in Packets PROVE Append(q, p) = q \o <<p>> /\ <<p>> \in Seq(Packets)
    OBVIOUS
  <1>2. ASSUME q # <<>>
        PROVE  Head(q) \in Packets /\ Tail(q) \in Seq(Packets) /\ q = <<Head(q)>> \o Tail(q)
    BY <1>2
  <1> QED BY <1>1, <1>2

LEMMA ReadableFact ==
    ASSUME NEW q \in Seq(Packets), Readable(q)
    PROVE  /\ \A p \in Packets : p.readable => Readable(Append(q, p))
           /\ q # <<>> => Head(q).readable /\ Readable(Tail(q))
  BY DEF Readable

(* Joining sequences is associative; hidden, it is applied where it says.  *)
Regroups(x, y, z) == x \o (y \o z) = (x \o y) \o z

LEMMA Regroup == \A x, y, z \in Seq(Packets) : x \o (y \o z) = (x \o y) \o z
  <1> TAKE x, y, z \in Seq(Packets)
  <1> QED BY ONLY ConcatAssociative, x \in Seq(Packets), y \in Seq(Packets), z \in Seq(Packets)

LEMMA RegroupThese == \A x, y, z \in Seq(Packets) : Regroups(x, y, z)
  BY Regroup DEF Regroups

(* A packet read goes to the end of what is passed on.                     *)
LEMMA PassOn ==
    ASSUME NEW r \in Seq(Packets), NEW u \in Seq(Packets), NEW a \in Seq(Packets), a # <<>>
    PROVE  (r \o u) \o a = (r \o Append(u, Head(a))) \o Tail(a)
  <1> DEFINE p == Head(a)
             t == Tail(a)
             b == <<p>>
             ru == r \o u
             ub == u \o b
  <1>1. p \in Packets /\ t \in Seq(Packets) /\ a = b \o t /\ b \in Seq(Packets)
    BY PacketsFact
  <1>2. Append(u, p) = ub /\ ru \in Seq(Packets) /\ ub \in Seq(Packets)
    BY <1>1, PacketsFact
  <1>3. ru \o b = r \o ub
    BY <1>1, ConcatAssociative
  <1> HIDE DEF ru, ub, b, t
  <1>4. ru \o (b \o t) = (ru \o b) \o t
    <2>1. ru \in Seq(Packets) /\ b \in Seq(Packets) /\ t \in Seq(Packets)
      BY <1>1, <1>2
    <2>2. Regroups(ru, b, t)
      BY ONLY <2>1, RegroupThese, Zenon
    <2> QED BY ONLY <2>2 DEF Regroups
  <1>5. ru \o a = (r \o ub) \o t
    BY <1>1, <1>3, <1>4
  <1> QED BY <1>2, <1>5 DEF ru, t

(* A packet written leaves the buffer for the peer.                        *)
LEMMA WriteOut ==
    ASSUME NEW r \in Seq(Packets), NEW u \in Seq(Packets), u # <<>>
    PROVE  r \o u = Append(r, Head(u)) \o Tail(u)
  <1> DEFINE p == Head(u)
             t == Tail(u)
             b == <<p>>
  <1>1. p \in Packets /\ t \in Seq(Packets) /\ u = b \o t /\ b \in Seq(Packets)
    BY PacketsFact
  <1>2. Append(r, p) = r \o b
    BY <1>1, PacketsFact
  <1> HIDE DEF p, b, t
  <1>3. r \o (b \o t) = (r \o b) \o t
    <2>1. Regroups(r, b, t)
      BY ONLY <1>1, RegroupThese
    <2> QED BY ONLY <2>1 DEF Regroups
  <1> QED BY <1>1, <1>2, <1>3 DEF p, t

(* A packet sent comes after all before it.                                *)
LEMMA SendMore ==
    \A w, a \in Seq(Packets) : \A p \in Packets : Append(w \o a, p) = w \o Append(a, p)
  OBVIOUS

(* A buffer that is dropped joins what is lost.                            *)
LEMMA DropRest ==
    ASSUME NEW r \in Seq(Packets), NEW u \in Seq(Packets), NEW v \in Seq(Packets)
    PROVE  /\ u \o v \in Seq(Packets)
           /\ (r \o u) \o v = (r \o <<>>) \o (u \o v)
  <1>1. r \o <<>> = r
    BY ConcatEmptySeq
  <1>2. (r \o u) \o v = r \o (u \o v)
    BY Regroup
  <1> QED BY <1>1, <1>2

(* The beginning of a sequence is a prefix of it.                          *)
LEMMA BeginningIsPrefix ==
    ASSUME NEW w \in Seq(Packets), NEW v \in Seq(Packets)
    PROVE  P!IsPrefix(w, w \o v)
  <1>1. /\ Len(w) \in Nat /\ Len(v) \in Nat
        /\ Len(w \o v) = Len(w) + Len(v)
        /\ \A i \in 1..Len(w) : (w \o v)[i] = w[i]
    BY ConcatProperties, LenProperties
  <1>2. SubSeq(w, 1, Len(w)) = SubSeq(w \o v, 1, Len(w))
    BY <1>1
  <1> QED BY <1>1, <1>2 DEF P!IsPrefix

LEMMA RelaySuffices == RelayInv => RelayedInOrder
  <1> SUFFICES ASSUME RelayInv, NEW s \in P!Sides
               PROVE  /\ P!IsPrefix(received[s] \o unsent[s], sent[P!Other(s)])
                      /\ \A i \in DOMAIN received[s] : received[s][i].readable
                      /\ stage # "over" /\ ~latched[P!Other(s)] =>
                           received[s] \o unsent[s] \o arriving[P!Other(s)] = sent[P!Other(s)]
    BY DEF RelayedInOrder, P!RelayedInOrder
  <1>1. PICK rest \in Seq(Packets) : sent[P!Other(s)] = Passed(s) \o rest
    BY DEF RelayInv, Relays
  <1>2. Passed(s) \in Seq(Packets)
    BY ConcatProperties DEF RelayInv, RelayTypes, Passed
  <1>3. P!IsPrefix(Passed(s), sent[P!Other(s)])
    BY <1>1, <1>2, BeginningIsPrefix
  <1> QED BY <1>3 DEF RelayInv, Relays, Passed, Readable

(* One step of the proxy, as one side of it sees it.                       *)
LEMMA RelayNextInv == RelayInv /\ [P!Next]_proxyServerVars => RelayInv'
  <1> SUFFICES ASSUME RelayInv, [P!Next]_proxyServerVars PROVE RelayInv'
    OBVIOUS
  <1>0. RelayTypes /\ \A s \in P!Sides : Relays(s)
    BY DEF RelayInv
  <1>a. \A s \in P!Sides : Passed(s) \in Seq(Packets)
    BY <1>0, ConcatProperties DEF RelayTypes, Passed
  <1>1. ASSUME NEW o \in P!Sides, P!PeerSends(o) PROVE RelayInv'
    <2>a. PICK readable \in BOOLEAN :
            LET packet == [number |-> Len(sent[o]) + 1, readable |-> readable] IN
              /\ sent' = [sent EXCEPT ![o] = Append(@, packet)]
              /\ arriving' = [arriving EXCEPT ![o] = Append(@, packet)]
      BY <1>1 DEF P!PeerSends
    <2>b. [number |-> Len(sent[o]) + 1, readable |-> readable] \in Packets
      BY <1>0 DEF Packets, RelayTypes
    <2>1. PICK p \in Packets : /\ sent' = [sent EXCEPT ![o] = Append(@, p)]
                              /\ arriving' = [arriving EXCEPT ![o] = Append(@, p)]
      BY <2>a, <2>b, Zenon
    <2>2. UNCHANGED <<stage, latched, unsent, received>>
      BY <1>1 DEF P!PeerSends
    <2>3. RelayTypes'
      BY <1>0, <2>1, <2>2 DEF RelayTypes
    <2>4. ASSUME NEW s \in P!Sides PROVE Relays(s)'
      <3> DEFINE d == P!Other(s)
      <3>0. d \in P!Sides /\ sent[d] \in Seq(Packets) /\ arriving[d] \in Seq(Packets)
        BY <1>0, SidesFact DEF RelayTypes
      <3>1. CASE d = o
        <4>1. PICK rest \in Seq(Packets) : sent[d] = Passed(s) \o rest
          BY <1>0 DEF Relays
        <4>2. sent'[d] = Append(sent[d], p) /\ arriving'[d] = Append(arriving[d], p)
          BY <1>0, <2>1, <3>1 DEF RelayTypes
        <4> DEFINE w == Passed(s)
                   a == arriving[d]
        <4>a. w \in Seq(Packets) /\ a \in Seq(Packets)
          BY <1>a, <3>0
        <4> HIDE DEF w, a
        <4>b. Append(w \o rest, p) = w \o Append(rest, p) /\ Append(rest, p) \in Seq(Packets)
          <5>1. Append(rest, p) \in Seq(Packets)
            OBVIOUS
          <5> QED BY <4>a, <5>1, SendMore, Zenon
        <4>c. Append(w \o a, p) = w \o Append(a, p)
          BY <4>a, SendMore, Zenon
        <4>3. sent'[d] = Passed(s) \o Append(rest, p) /\ Append(rest, p) \in Seq(Packets)
          BY <4>1, <4>2, <4>b DEF w
        <4>4. sent[d] = Passed(s) \o arriving[d] => sent'[d] = Passed(s) \o arriving'[d]
          BY <4>2, <4>c DEF w, a
        <4>5. Passed(s)' = Passed(s)
          BY <2>2 DEF Passed
        <4>6. d' = d
          BY DEF P!Other
        <4> HIDE DEF d
        <4> QED BY <1>0, <2>2, <4>3, <4>4, <4>5, <4>6 DEF Relays, d
      <3>2. CASE d # o
        <4>1. sent'[d] = sent[d] /\ arriving'[d] = arriving[d]
          BY <1>0, <2>1, <3>0, <3>2 DEF RelayTypes
        <4> QED BY <1>0, <2>2, <4>1 DEF Relays, Passed, P!Other
      <3> QED BY <3>1, <3>2
    <2> QED BY <2>3, <2>4 DEF RelayInv
  <1>2. ASSUME NEW o \in P!Sides, P!PeerCloses(o) \/ P!InitEncryption(o) PROVE RelayInv'
    BY <1>0, <1>2 DEF P!PeerCloses, P!InitEncryption, P!peers, RelayInv, RelayTypes, Relays, Passed
  <1>3. ASSUME NEW o \in P!Sides, P!RelayNext(o) PROVE RelayInv'
    <2> DEFINE s == P!Other(o)
               p == Head(arriving[o])
    <2>1. s \in P!Sides /\ P!Other(s) = o /\ s # o /\ \A t \in P!Sides : t = o \/ t = s
      BY SidesFact
    <2>2. /\ stage = "relaying" /\ ~latched[o] /\ arriving[o] # <<>>
          /\ arriving' = [arriving EXCEPT ![o] = Tail(@)]
          /\ UNCHANGED <<stage, sent, received>>
      BY <1>3 DEF P!RelayNext, P!peers
    <2>3. arriving[o] \in Seq(Packets) /\ p \in Packets /\ Tail(arriving[o]) \in Seq(Packets)
      BY <1>0, <2>2, PacketsFact DEF RelayTypes
    <2>4. received[s] \in Seq(Packets) /\ unsent[s] \in Seq(Packets)
      BY <1>0, <2>1 DEF RelayTypes
    <2>5. sent[o] = Passed(s) \o arriving[o] /\ Readable(received[s]) /\ Readable(unsent[s])
      BY <1>0, <2>1, <2>2 DEF Relays
    <2>6. CASE p.readable
      <3>1. unsent' = [unsent EXCEPT ![s] = Append(@, p)] /\ UNCHANGED latched
        BY <1>3, <2>6 DEF P!RelayNext, P!SendPacket
      <3>2. RelayTypes'
        <4>1. Append(unsent[s], p) \in Seq(Packets)
          BY <2>3, <2>4
        <4> HIDE DEF s, p
        <4> QED BY <1>0, <2>1, <2>2, <2>3, <3>1, <4>1 DEF RelayTypes
      <3>3. sent[o] = (received[s] \o Append(unsent[s], p)) \o Tail(arriving[o])
        BY <2>2, <2>3, <2>4, <2>5, PassOn DEF Passed
      <3>4. Readable(Append(unsent[s], p))
        BY <2>3, <2>4, <2>5, <2>6, ReadableFact
      <3>5. /\ unsent'[s] = Append(unsent[s], p) /\ unsent'[o] = unsent[o]
            /\ arriving'[o] = Tail(arriving[o]) /\ arriving'[s] = arriving[s]
        BY <1>0, <2>1, <2>2, <3>1 DEF RelayTypes
      <3> HIDE DEF s, p
      <3>6. Relays(s)'
        BY <2>1, <2>2, <2>3, <2>5, <3>3, <3>4, <3>5 DEF Relays, Passed, P!Other
      <3>7. Relays(o)'
        BY <1>0, <2>2, <3>1, <3>5 DEF Relays, Passed, P!Other, s
      <3> QED BY <2>1, <3>2, <3>6, <3>7 DEF RelayInv
    <2>7. CASE ~p.readable
      <3>1. latched' = [latched EXCEPT ![o] = TRUE] /\ UNCHANGED unsent
        BY <1>3, <2>7 DEF P!RelayNext
      <3>2. RelayTypes'
        BY <1>0, <2>2, <2>3, <3>1 DEF RelayTypes
      <3>3. latched'[o] /\ latched'[s] = latched[s] /\ arriving'[s] = arriving[s]
        BY <1>0, <2>1, <2>2, <3>1 DEF RelayTypes
      <3>4. Relays(s)'
        BY <1>0, <2>1, <2>2, <3>1, <3>3 DEF Relays, Passed, P!Other
      <3>5. Relays(o)'
        BY <1>0, <2>2, <3>1, <3>3 DEF Relays, Passed, P!Other
      <3> QED BY <2>1, <3>2, <3>4, <3>5 DEF RelayInv
    <2> QED BY <2>6, <2>7
  <1>4. ASSUME NEW o \in P!Sides, P!Disconnect(o) \/ P!MainReturns PROVE RelayInv'
    <2>1. /\ stage' = "over" /\ unsent' = [t \in P!Sides |-> <<>>]
          /\ UNCHANGED <<latched, sent, arriving, received>>
      BY <1>4 DEF P!Disconnect, P!MainReturns, P!peers
    <2>2. RelayTypes'
      BY <1>0, <2>1 DEF RelayTypes
    <2>a. \A s \in P!Sides : received[s] \in Seq(Packets) /\ unsent[s] \in Seq(Packets)
      BY <1>0 DEF RelayTypes
    <2>3. ASSUME NEW s \in P!Sides PROVE Relays(s)'
      <3>1. PICK rest \in Seq(Packets) : sent[P!Other(s)] = Passed(s) \o rest
        BY <1>0 DEF Relays
      <3>2. /\ unsent[s] \o rest \in Seq(Packets)
            /\ sent[P!Other(s)] = (received[s] \o <<>>) \o (unsent[s] \o rest)
        <4>1. received[s] \in Seq(Packets) /\ unsent[s] \in Seq(Packets)
          BY <2>a
        <4>2. sent[P!Other(s)] = (received[s] \o unsent[s]) \o rest
          BY <3>1 DEF Passed
        <4> QED BY ONLY <4>1, <4>2, DropRest
      <3>3. unsent'[s] = <<>>
        BY <2>1
      <3>4. Readable(<<>>)
        BY DEF Readable
      <3> QED BY <1>0, <2>1, <3>2, <3>3, <3>4 DEF Relays, Passed, P!Other
    <2> QED BY <2>2, <2>3 DEF RelayInv
  <1>5. ASSUME NEW s \in P!Sides, P!Flush(s) PROVE RelayInv'
    <2>1. /\ unsent[s] # <<>>
          /\ received' = [received EXCEPT ![s] = Append(@, Head(unsent[s]))]
          /\ unsent' = [unsent EXCEPT ![s] = Tail(@)]
          /\ UNCHANGED <<stage, latched, sent, arriving>>
      BY <1>5 DEF P!Flush, P!peers
    <2>2. received[s] \in Seq(Packets) /\ unsent[s] \in Seq(Packets)
      BY <1>0 DEF RelayTypes
    <2>3. Head(unsent[s]) \in Packets /\ Tail(unsent[s]) \in Seq(Packets)
      BY <2>1, <2>2, PacketsFact
    <2>4. Readable(Append(received[s], Head(unsent[s]))) /\ Readable(Tail(unsent[s]))
      BY <1>0, <2>1, <2>2, <2>3, ReadableFact DEF Relays
    <2>5. RelayTypes'
      BY <1>0, <2>1, <2>2, <2>3 DEF RelayTypes
    <2>6. \A t \in P!Sides : t # s => received'[t] = received[t] /\ unsent'[t] = unsent[t]
      BY <1>0, <2>1 DEF RelayTypes
    <2>7. received'[s] = Append(received[s], Head(unsent[s])) /\ unsent'[s] = Tail(unsent[s])
      BY <1>0, <2>1 DEF RelayTypes
    <2>8. Passed(s)' = Passed(s)
      BY <2>1, <2>2, <2>7, WriteOut DEF Passed
    <2>9. \A t \in P!Sides : Passed(t)' = Passed(t) /\ Readable(received'[t]) /\ Readable(unsent'[t])
      BY <1>0, <2>4, <2>6, <2>7, <2>8 DEF Passed, Relays
    <2>10. \A t \in P!Sides : Relays(t)'
      BY <1>0, <2>1, <2>9 DEF Relays, P!Other
    <2> QED BY <2>5, <2>10 DEF RelayInv
  <1>6. ASSUME NEW o \in P!Sides, P!FlushFails(o) PROVE RelayInv'
    <2>1. /\ latched' = [latched EXCEPT ![o] = TRUE]
          /\ UNCHANGED <<stage, sent, arriving, unsent, received>>
      BY <1>6 DEF P!FlushFails, P!peers
    <2>2. RelayTypes' /\ \A t \in P!Sides : ~latched'[t] => ~latched[t]
      BY <1>0, <2>1 DEF RelayTypes
    <2>3. \A s \in P!Sides : Relays(s)'
      <3> SUFFICES ASSUME NEW s \in P!Sides PROVE Relays(s)'
        OBVIOUS
      <3>1. P!Other(s) \in P!Sides /\ P!Other(s)' = P!Other(s) /\ Relays(s)
        BY <1>0, SidesFact DEF P!Other
      <3>2. Passed(s)' = Passed(s)
        BY <2>1 DEF Passed
      <3>3. ~latched'[P!Other(s)] => ~latched[P!Other(s)]
        BY <2>2, <3>1
      <3> QED BY <2>1, <3>1, <3>2, <3>3 DEF Relays
    <2> QED BY <2>2, <2>3 DEF RelayInv
  <1>7. CASE P!Joined
    BY <1>0, <1>7 DEF P!Joined, P!peers, RelayInv, RelayTypes, Relays, Passed
  <1>8. CASE UNCHANGED proxyServerVars
    BY <1>0, <1>8 DEF proxyServerVars, RelayInv, RelayTypes, Relays, Passed
  <1>9. \E s \in P!Sides : TRUE
    BY DEF P!Sides
  <1> QED BY <1>1, <1>2, <1>3, <1>4, <1>5, <1>6, <1>7, <1>8, <1>9 DEF P!Next

LEMMA RelayInit == P!Init => RelayInv
  <1> SUFFICES ASSUME P!Init PROVE RelayInv
    OBVIOUS
  <1>1. RelayTypes
    BY DEF P!Init, RelayTypes
  <1>2. ASSUME NEW s \in P!Sides PROVE Relays(s)
    <2>1. P!Other(s) \in P!Sides
      BY SidesFact
    <2>2. /\ received[s] = <<>> /\ unsent[s] = <<>>
          /\ sent[P!Other(s)] = <<>> /\ arriving[P!Other(s)] = <<>>
      BY <2>1 DEF P!Init
    <2>3. <<>> \in Seq(Packets) /\ <<>> = (<<>> \o <<>>) \o <<>>
      OBVIOUS
    <2>4. Passed(s) \o <<>> = <<>> /\ Passed(s) \o arriving[P!Other(s)] = <<>>
      BY <2>2, <2>3 DEF Passed
    <2>5. Readable(<<>>)
      BY DEF Readable
    <2> QED BY <2>2, <2>3, <2>4, <2>5 DEF Relays
  <1> QED BY <1>1, <1>2 DEF RelayInv

(* Each peer receives what the other has sent, in order and without a gap, *)
(* up to the first packet that cannot be read; and while both connections  *)
(* are read nothing is lost.                                               *)
THEOREM Relayed == Spec => []RelayedInOrder
  <1>1. Init => RelayInv
    BY RelayInit DEF Init
  <1>2. RelayInv /\ [Next]_vars => RelayInv'
    BY RelayNextInv, StepOfOne
  <1>3. RelayInv => RelayedInOrder
    BY RelaySuffices
  <1> QED BY <1>1, <1>2, <1>3, PTL DEF Spec

(* The proxy: what its variables hold; packets are numbered as sent.       *)
RelayTypeInv ==
    /\ stage \in {"setup", "relaying", "over"}
    /\ setup \in [P!Sides -> {"pending", "ok", "failed"}]
    /\ latched \in [P!Sides -> BOOLEAN] /\ closed \in [P!Sides -> BOOLEAN]
    /\ sent \in [P!Sides -> Seq(P!Packet)] /\ arriving \in [P!Sides -> Seq(P!Packet)]
    /\ unsent \in [P!Sides -> Seq(P!Packet)] /\ received \in [P!Sides -> Seq(P!Packet)]

(* A queue that gets a packet at its end, or loses the one at its front.   *)
LEMMA QueueUpdated ==
    ASSUME NEW q \in [P!Sides -> Seq(P!Packet)], NEW s \in P!Sides
    PROVE  /\ q[s] # <<>> => /\ Head(q[s]) \in P!Packet
                             /\ [q EXCEPT ![s] = Tail(@)] \in [P!Sides -> Seq(P!Packet)]
           /\ \A p \in P!Packet : [q EXCEPT ![s] = Append(@, p)] \in [P!Sides -> Seq(P!Packet)]
  <1>1. q[s] \in Seq(P!Packet)
    OBVIOUS
  <1>2. q[s] # <<>> => Head(q[s]) \in P!Packet /\ Tail(q[s]) \in Seq(P!Packet)
    BY <1>1
  <1>3. \A p \in P!Packet : Append(q[s], p) \in Seq(P!Packet)
    BY <1>1
  <1>4. \A u \in Seq(P!Packet) : [q EXCEPT ![s] = u] \in [P!Sides -> Seq(P!Packet)]
    OBVIOUS
  <1> QED BY <1>2, <1>3, <1>4

LEMMA RelayTypeStep == RelayTypeInv /\ [P!Next]_proxyServerVars => RelayTypeInv'
  <1> SUFFICES ASSUME RelayTypeInv, [P!Next]_proxyServerVars PROVE RelayTypeInv'
    OBVIOUS
  <1> USE DEF RelayTypeInv
  <1>1. ASSUME NEW s \in P!Sides, P!PeerSends(s) PROVE RelayTypeInv'
    <2>1. PICK r \in BOOLEAN :
            LET packet == [number |-> Len(sent[s]) + 1, readable |-> r] IN
              /\ sent' = [sent EXCEPT ![s] = Append(@, packet)]
              /\ arriving' = [arriving EXCEPT ![s] = Append(@, packet)]
      BY <1>1 DEF P!PeerSends
    <2>2. Len(sent[s]) \in Nat /\ Len(sent[s]) < MaxSent
      BY <1>1 DEF P!PeerSends
    <2>3. [number |-> Len(sent[s]) + 1, readable |-> r] \in P!Packet
      BY <2>2, ApplicationsAssumption DEF P!Packet
    <2>4. PICK p \in P!Packet : /\ sent' = [sent EXCEPT ![s] = Append(@, p)]
                               /\ arriving' = [arriving EXCEPT ![s] = Append(@, p)]
      BY <2>1, <2>3, Zenon
    <2>5. UNCHANGED <<stage, setup, latched, closed, unsent, received>>
      BY <1>1 DEF P!PeerSends
    <2>6. sent' \in [P!Sides -> Seq(P!Packet)] /\ arriving' \in [P!Sides -> Seq(P!Packet)]
      BY <2>4, QueueUpdated
    <2> QED BY <2>5, <2>6
  <1>2. ASSUME NEW s \in P!Sides, P!PeerCloses(s) \/ P!InitEncryption(s) \/ P!FlushFails(s)
        PROVE  RelayTypeInv'
    BY <1>2 DEF P!PeerCloses, P!InitEncryption, P!FlushFails, P!peers
  <1>3. ASSUME NEW s \in P!Sides, P!RelayNext(s) PROVE RelayTypeInv'
    <2>1. /\ arriving[s] # <<>> /\ arriving' = [arriving EXCEPT ![s] = Tail(@)]
          /\ UNCHANGED <<stage, setup, closed, sent, received>>
      BY <1>3 DEF P!RelayNext, P!peers
    <2>2. Head(arriving[s]) \in P!Packet /\ arriving' \in [P!Sides -> Seq(P!Packet)]
      BY <2>1, QueueUpdated
    <2>3. \/ unsent' = [unsent EXCEPT ![P!Other(s)] = Append(@, Head(arriving[s]))] /\ UNCHANGED latched
          \/ latched' = [latched EXCEPT ![s] = TRUE] /\ UNCHANGED unsent
      BY <1>3 DEF P!RelayNext, P!SendPacket
    <2> DEFINE p == Head(arriving[s])
               d == P!Other(s)
    <2>a. d \in P!Sides
      BY SidesFact
    <2> HIDE DEF p, d
    <2>b. p \in P!Packet
      BY <2>2 DEF p
    <2>c. \A q \in P!Packet : [unsent EXCEPT ![d] = Append(@, q)] \in [P!Sides -> Seq(P!Packet)]
      BY <2>a, QueueUpdated
    <2>d. [unsent EXCEPT ![d] = Append(@, p)] \in [P!Sides -> Seq(P!Packet)]
      BY <2>b, <2>c, Zenon
    <2>4. unsent' \in [P!Sides -> Seq(P!Packet)] /\ latched' \in [P!Sides -> BOOLEAN]
      <3>1. [latched EXCEPT ![s] = TRUE] \in [P!Sides -> BOOLEAN]
        OBVIOUS
      <3> QED BY <2>3, <2>d, <3>1 DEF p, d
    <2> QED BY <2>1, <2>2, <2>4
  <1>4. ASSUME NEW s \in P!Sides, P!Disconnect(s) \/ P!MainReturns PROVE RelayTypeInv'
    <2>1. /\ stage' = "over" /\ unsent' = [t \in P!Sides |-> <<>>]
          /\ UNCHANGED <<setup, latched, closed, sent, arriving, received>>
      BY <1>4 DEF P!Disconnect, P!MainReturns, P!peers
    <2>2. unsent' \in [P!Sides -> Seq(P!Packet)]
      <3>1. <<>> \in Seq(P!Packet)
        OBVIOUS
      <3> QED BY <2>1, <3>1
    <2> QED BY <2>1, <2>2
  <1>5. ASSUME NEW s \in P!Sides, P!Flush(s) PROVE RelayTypeInv'
    <2>1. /\ unsent[s] # <<>> /\ unsent' = [unsent EXCEPT ![s] = Tail(@)]
          /\ received' = [received EXCEPT ![s] = Append(@, Head(unsent[s]))]
          /\ UNCHANGED <<stage, setup, latched, closed, sent, arriving>>
      BY <1>5 DEF P!Flush, P!peers
    <2>2. Head(unsent[s]) \in P!Packet /\ unsent' \in [P!Sides -> Seq(P!Packet)]
      BY <2>1, QueueUpdated
    <2>3. received' \in [P!Sides -> Seq(P!Packet)]
      BY <2>1, <2>2, QueueUpdated
    <2> QED BY <2>1, <2>2, <2>3
  <1>6. CASE P!Joined
    BY <1>6 DEF P!Joined, P!peers
  <1>7. CASE UNCHANGED proxyServerVars
    BY <1>7 DEF proxyServerVars
  <1>8. \E s \in P!Sides : TRUE
    BY DEF P!Sides
  <1> QED BY <1>1, <1>2, <1>3, <1>4, <1>5, <1>6, <1>7, <1>8 DEF P!Next

LEMMA RelayTypesHold == Spec => []P!TypeOK
  <1>1. Init => RelayTypeInv
    BY DEF Init, P!Init, RelayTypeInv
  <1>2. RelayTypeInv /\ [Next]_vars => RelayTypeInv'
    BY RelayTypeStep, StepOfOne
  <1>3. RelayTypeInv => P!TypeOK
    BY DEF RelayTypeInv, P!TypeOK
  <1> QED BY <1>1, <1>2, <1>3, PTL DEF Spec

-----------------------------------------------------------------------------
(* The register bot.                                                       *)

Standing == [step: R!Steps, name: 0..NameCount, attempt: Nat, captchas: Nat, solved: BOOLEAN]

Answers == R!Results \union {"none"}

(* What the server says and has: no line depends on it.                    *)
ServerTypes ==
    /\ reply \in [Workers -> Answers]
    /\ account \in [R!Names -> {"free", "taken"}]

RegisterTypes ==
    /\ user_name_index \in 0..NameCount
    /\ output \in Seq(R!Lines)
    /\ worker \in [Workers -> Standing]
    /\ ServerTypes

(* A worker has a name that was given out while it works on it.            *)
Stands(r) ==
    /\ r.name = 0 <=> r.step \in {"next", "gone"}
    /\ r.name <= user_name_index

(* A name is with one worker, or in one line, or still to be given out.    *)
NamesApart ==
    \A v, w \in Workers : v # w /\ worker[v].name # 0 => worker[v].name # worker[w].name

LinesApart ==
    /\ \A i, j \in DOMAIN output : output[i].name = output[j].name => i = j
    /\ \A i \in DOMAIN output :
         /\ output[i].name <= user_name_index
         /\ \A w \in Workers : worker[w].name # output[i].name

LinesInv ==
    /\ RegisterTypes
    /\ \A w \in Workers : Stands(worker[w])
    /\ NamesApart
    /\ LinesApart

(* The lines are about names of the file.                                  *)
LEMMA LineNames ==
    ASSUME output \in Seq(R!Lines)
    PROVE  \A i \in DOMAIN output : output[i].name \in R!Names
  <1> SUFFICES ASSUME NEW i \in DOMAIN output PROVE output[i].name \in R!Names
    OBVIOUS
  <1>1. output[i] \in R!Lines
    OBVIOUS
  <1> QED BY <1>1 DEF R!Lines

(* A worker moves on, with its name or without one.                        *)
LEMMA WorkerMoves ==
    ASSUME LinesInv, NEW w \in Workers, NEW r \in Standing, r.name \in {worker[w].name, 0},
           R!Move(w, r), Stands(r), ServerTypes', UNCHANGED <<user_name_index, output>>
    PROVE  LinesInv'
  <1>0. RegisterTypes /\ NamesApart /\ LinesApart /\ \A v \in Workers : Stands(worker[v])
    BY DEF LinesInv
  <1>1. /\ worker' \in [Workers -> Standing] /\ worker'[w] = r
        /\ \A v \in Workers : v # w => worker'[v] = worker[v]
    BY <1>0 DEF R!Move, RegisterTypes
  <1>2. RegisterTypes'
    BY <1>0, <1>1 DEF RegisterTypes
  <1>3. \A v \in Workers : Stands(worker[v])'
    BY <1>0, <1>1 DEF Stands
  <1>4. NamesApart'
    BY <1>0, <1>1 DEF NamesApart
  <1>5. LinesApart'
    <2>1. \A i \in DOMAIN output : output[i].name \in R!Names
      BY <1>0, LineNames DEF RegisterTypes
    <2>2. \A i \in DOMAIN output : r.name # output[i].name
      BY <1>0, <2>1, ApplicationsAssumption DEF LinesApart, R!Names
    <2> QED BY <1>0, <1>1, <2>2 DEF LinesApart
  <1> QED BY <1>2, <1>3, <1>4, <1>5 DEF LinesInv

LEMMA NewWorkerFact ==
    \A s \in R!Steps : /\ R!NewWorker(s) \in Standing
                       /\ R!NewWorker(s).step = s
                       /\ R!NewWorker(s).name = 0
  <1>1. 0 \in 0..NameCount /\ 0 \in Nat
    BY ApplicationsAssumption
  <1> QED BY <1>1 DEF R!NewWorker, Standing

(* A line is written, and the worker takes the next name.                  *)
LEMMA LineWritten ==
    ASSUME LinesInv, NEW w \in Workers, worker[w].name # 0,
           NEW outcome \in R!Results \union {"error"},
           R!WriteLine(w, outcome), R!Move(w, R!NewWorker("next")), ServerTypes',
           UNCHANGED user_name_index
    PROVE  LinesInv'
  <1> DEFINE n == worker[w].name
             r == R!NewWorker("next")
             line == [name |-> n, result |-> outcome]
  <1>0. RegisterTypes /\ NamesApart /\ LinesApart /\ \A v \in Workers : Stands(worker[v])
    BY DEF LinesInv
  <1>1. r \in Standing /\ r.step = "next" /\ r.name = 0
    BY NewWorkerFact DEF R!Steps
  <1> HIDE DEF r
  <1>2. /\ worker' \in [Workers -> Standing] /\ worker'[w] = r
        /\ \A v \in Workers : v # w => worker'[v] = worker[v]
    BY <1>0, <1>1 DEF R!Move, RegisterTypes, r
  <1>3. n \in R!Names /\ n <= user_name_index /\ user_name_index \in Nat
    BY <1>0, ApplicationsAssumption DEF RegisterTypes, Standing, Stands, R!Names
  <1>4. line \in R!Lines /\ line.name = n
    BY <1>3 DEF R!Lines
  <1>5. output' = Append(output, line)
    BY DEF R!WriteLine
  <1> HIDE DEF line, n
  <1>6. /\ output' \in Seq(R!Lines)
        /\ DOMAIN output = 1..Len(output) /\ DOMAIN output' = 1..Len(output) + 1
        /\ Len(output) \in Nat
        /\ output'[Len(output) + 1] = line /\ \A i \in DOMAIN output : output'[i] = output[i]
    BY <1>0, <1>4, <1>5 DEF RegisterTypes
  <1>7. RegisterTypes'
    BY <1>0, <1>2, <1>6 DEF RegisterTypes
  <1>8. \A v \in Workers : Stands(worker[v])'
    BY <1>0, <1>1, <1>2, <1>3 DEF Stands
  <1>9. NamesApart'
    BY <1>0, <1>1, <1>2 DEF NamesApart
  <1>10. LinesApart'
    <2>1. \A i \in DOMAIN output : output[i].name \in R!Names
      BY <1>0, LineNames DEF RegisterTypes
    <2>2. \A i \in DOMAIN output : output[i].name # n
      BY <1>0 DEF LinesApart, n
    <2>3. \A i \in DOMAIN output' : \A v \in Workers : worker'[v].name # output'[i].name
      <3>1. \A v \in Workers : worker'[v].name # n
        BY <1>0, <1>1, <1>2, <1>3 DEF NamesApart, n, R!Names
      <3>2. 0 \notin R!Names
        BY ApplicationsAssumption DEF R!Names
      <3>3. \A i \in DOMAIN output : \A v \in Workers : worker'[v].name # output[i].name
        BY <1>0, <1>1, <1>2, <2>1, <3>2 DEF LinesApart
      <3> QED BY <1>4, <1>6, <3>1, <3>3
    <2>4. \A i, j \in DOMAIN output' : output'[i].name = output'[j].name => i = j
      BY <1>0, <1>4, <1>6, <2>2 DEF LinesApart
    <2>5. \A i \in DOMAIN output' : output'[i].name <= user_name_index'
      BY <1>0, <1>3, <1>4, <1>6 DEF LinesApart
    <2> QED BY <2>3, <2>4, <2>5 DEF LinesApart
  <1> QED BY <1>7, <1>8, <1>9, <1>10 DEF LinesInv

(* An attempt that fails, whatever was on its way.                         *)
LEMMA AttemptFails ==
    ASSUME LinesInv, NEW w \in Workers, worker[w].name # 0, R!AttemptFailed(w), ServerTypes',
           UNCHANGED user_name_index
    PROVE  LinesInv'
  <1>0. RegisterTypes /\ Stands(worker[w])
    BY DEF LinesInv
  <1>1. CASE R!WriteLine(w, "error") /\ R!Move(w, R!NewWorker("next"))
    BY <1>1, LineWritten
  <1>2. CASE /\ R!Move(w, [R!NewWorker("proxy") EXCEPT !.name = worker[w].name,
                                                       !.attempt = worker[w].attempt + 1])
             /\ UNCHANGED output
    <2> DEFINE r == [R!NewWorker("proxy") EXCEPT !.name = worker[w].name,
                                                 !.attempt = worker[w].attempt + 1]
    <2>1. worker[w].name \in 0..NameCount /\ worker[w].attempt \in Nat
      BY <1>0 DEF RegisterTypes, Standing
    <2>a. "proxy" \in R!Steps /\ worker[w].attempt + 1 \in Nat /\ 0 \in Nat
      BY <2>1 DEF R!Steps
    <2>2. r \in Standing /\ r.step = "proxy" /\ r.name = worker[w].name
      BY <2>1, <2>a DEF R!NewWorker, Standing
    <2>3. R!Move(w, r) /\ UNCHANGED output
      BY <1>2
    <2> HIDE DEF r
    <2>4. Stands(r)
      BY <1>0, <2>2 DEF Stands
    <2> QED BY <2>2, <2>3, <2>4, WorkerMoves
  <1> QED BY <1>1, <1>2 DEF R!AttemptFailed

(* A worker that goes on to another step with the name it has.             *)
LEMMA GoesTo ==
    ASSUME LinesInv, NEW w \in Workers, NEW s \in R!Steps \ {"next", "gone"}, R!Goto(w, s),
           worker[w].name # 0, ServerTypes', UNCHANGED <<user_name_index, output>>
    PROVE  LinesInv'
  <1> DEFINE r == [worker[w] EXCEPT !.step = s]
  <1>1. worker[w] \in Standing /\ Stands(worker[w])
    BY DEF LinesInv, RegisterTypes
  <1>2. r \in Standing /\ r.step = s /\ r.name = worker[w].name
    BY <1>1 DEF Standing
  <1>3. R!Move(w, r)
    BY DEF R!Goto
  <1> HIDE DEF r
  <1>4. Stands(r)
    BY <1>1, <1>2 DEF Stands
  <1> QED BY <1>2, <1>3, <1>4, WorkerMoves

(* A worker that leaves.                                                   *)
LEMMA GoesAway ==
    ASSUME LinesInv, NEW w \in Workers, R!Move(w, R!NewWorker("gone")), ServerTypes',
           UNCHANGED <<user_name_index, output>>
    PROVE  LinesInv'
  <1> DEFINE r == R!NewWorker("gone")
  <1>1. r \in Standing /\ r.step = "gone" /\ r.name = 0
    BY NewWorkerFact DEF R!Steps
  <1> HIDE DEF r
  <1>2. user_name_index \in Nat
    BY ApplicationsAssumption DEF LinesInv, RegisterTypes
  <1>3. Stands(r)
    BY <1>1, <1>2 DEF Stands
  <1> QED BY <1>1, <1>3, WorkerMoves DEF r

(* The next name is nobody's yet.                                          *)
LEMMA NameTaken ==
    ASSUME LinesInv, NEW w \in Workers, user_name_index < NameCount, R!NextUserName(w),
           ServerTypes', UNCHANGED output
    PROVE  LinesInv'
  <1> DEFINE n == user_name_index + 1
             r == [R!NewWorker("proxy") EXCEPT !.name = n]
  <1>0. RegisterTypes /\ NamesApart /\ LinesApart /\ \A v \in Workers : Stands(worker[v])
    BY DEF LinesInv
  <1>1. n \in 0..NameCount /\ user_name_index \in Nat /\ 0 \in Nat /\ "proxy" \in R!Steps
    BY <1>0, ApplicationsAssumption DEF RegisterTypes, R!Steps
  <1>2. r \in Standing /\ r.step = "proxy" /\ r.name = n
    BY <1>1 DEF R!NewWorker, Standing
  <1>3. R!Move(w, r) /\ user_name_index' = n
    BY DEF R!NextUserName
  <1> HIDE DEF r
  <1>4. /\ worker' \in [Workers -> Standing] /\ worker'[w] = r
        /\ \A v \in Workers : v # w => worker'[v] = worker[v]
    BY <1>0, <1>2, <1>3 DEF R!Move, RegisterTypes
  <1>5. RegisterTypes'
    BY <1>0, <1>1, <1>3, <1>4 DEF RegisterTypes
  <1>6. \A v \in Workers : worker[v].name \in Nat /\ worker[v].name <= user_name_index
    BY <1>0, ApplicationsAssumption DEF RegisterTypes, Standing, Stands
  <1>7. \A v \in Workers : Stands(worker[v])'
    BY <1>0, <1>1, <1>2, <1>3, <1>4, <1>6 DEF Stands
  <1>8. NamesApart'
    BY <1>0, <1>1, <1>2, <1>4, <1>6 DEF NamesApart
  <1>9. LinesApart'
    <2>1. \A i \in DOMAIN output : output[i].name \in R!Names
      BY <1>0, LineNames DEF RegisterTypes
    <2>2. \A i \in DOMAIN output : output[i].name \in Nat /\ output[i].name <= user_name_index
      BY <1>0, <2>1 DEF LinesApart, R!Names
    <2> QED BY <1>0, <1>1, <1>2, <1>3, <1>4, <2>2 DEF LinesApart
  <1> QED BY <1>5, <1>7, <1>8, <1>9 DEF LinesInv

(* The server answers or refuses: no worker moves, and no line is written. *)
LEMMA ServerActs ==
    ASSUME LinesInv, ServerTypes', UNCHANGED <<user_name_index, output, worker>>
    PROVE  LinesInv'
  BY DEF LinesInv, RegisterTypes, Stands, NamesApart, LinesApart

(* What one step does to what the server says and has.                     *)
LEMMA ServerTypesStep ==
    ASSUME LinesInv, NEW w \in Workers, R!Work(w) \/ R!LoseSession(w) \/ R!ServerRefuses(w)
    PROVE  ServerTypes'
  <1>0. ServerTypes
    BY DEF LinesInv, RegisterTypes
  <1>1. CASE UNCHANGED <<reply, account>>
    BY <1>0, <1>1 DEF ServerTypes
  <1>2. CASE R!Connect(w)
    BY <1>0, <1>2 DEF R!Connect, ServerTypes, Answers
  <1>3. CASE R!ServerAnswers(w)
    <2>1. PICK a \in Answers : reply' = [reply EXCEPT ![w] = a]
      BY <1>3 DEF R!ServerAnswers, Answers, R!Results
    <2>2. UNCHANGED account \/ account' = [account EXCEPT ![worker[w].name] = "taken"]
      BY <1>3 DEF R!ServerAnswers
    <2> QED BY <1>0, <2>1, <2>2 DEF ServerTypes
  <1>4. CASE R!ServerRefuses(w)
    BY <1>0, <1>4 DEF R!ServerRefuses, ServerTypes
  <1>5. CASE R!NextName(w) \/ R!NextProxy(w)
    BY <1>1, <1>5 DEF R!NextName, R!NextProxy, R!Shared
  <1>6. CASE R!ShowCaptcha(w) \/ R!SolveCaptcha(w) \/ R!Submit(w)
    BY <1>1, <1>6 DEF R!ShowCaptcha, R!SolveCaptcha, R!Submit, R!Shared
  <1>8. CASE R!ValidateCaptcha(w)
    BY <1>1, <1>8 DEF R!ValidateCaptcha, R!Shared
  <1>7. CASE R!TakeAnswer(w) \/ R!Linger(w) \/ R!Purchase(w) \/ R!LoseSession(w)
    BY <1>1, <1>7 DEF R!TakeAnswer, R!Linger, R!Purchase, R!LoseSession, R!Shared
  <1> QED BY <1>2, <1>3, <1>4, <1>5, <1>6, <1>7, <1>8 DEF R!Work

(* One step of one worker, or of the server about it.                      *)
LEMMA WorkerStep ==
    ASSUME LinesInv, NEW w \in Workers, R!Work(w) \/ R!LoseSession(w) \/ R!ServerRefuses(w)
    PROVE  LinesInv'
  <1> DEFINE r == worker[w]
  <1>0. RegisterTypes /\ Stands(r) /\ r \in Standing /\ reply[w] \in Answers
    BY DEF LinesInv, RegisterTypes, ServerTypes
  <1>a. ServerTypes'
    BY ServerTypesStep
  <1>b. r.step \notin {"next", "gone"} => r.name # 0
    BY <1>0 DEF Stands
  <1>c. {"proxy", "connect", "captcha", "solve", "validate", "submit", "answer", "linger", "purchase"}
          \subseteq R!Steps \ {"next", "gone"}
    BY DEF R!Steps, R!Sessions
  <1>1. CASE R!NextName(w)
    <2>1. CASE user_name_index >= NameCount
      BY <1>1, <1>a, <2>1, GoesAway DEF R!NextName
    <2>2. CASE ~(user_name_index >= NameCount)
      <3>1. user_name_index < NameCount
        BY <1>0, <2>2, ApplicationsAssumption DEF RegisterTypes
      <3> QED BY <1>1, <1>a, <2>2, <3>1, NameTaken DEF R!NextName
    <2> QED BY <2>1, <2>2
  <1>2. CASE R!NextProxy(w)
    <2>1. r.step = "proxy" /\ UNCHANGED <<user_name_index, output>>
      BY <1>2 DEF R!NextProxy, R!At, R!Shared
    <2>2. R!Goto(w, "connect") \/ R!Move(w, R!NewWorker("gone"))
      BY <1>2 DEF R!NextProxy
    <2> QED BY <1>a, <1>b, <1>c, <2>1, <2>2, GoesTo, GoesAway
  <1>3. CASE R!Connect(w) \/ R!SolveCaptcha(w)
    <2>1. r.step \in {"connect", "solve"} /\ UNCHANGED user_name_index
      BY <1>3 DEF R!Connect, R!SolveCaptcha, R!At
    <2>2. \/ (R!Goto(w, "captcha") \/ R!Goto(w, "validate")) /\ UNCHANGED output
          \/ R!AttemptFailed(w)
      BY <1>3 DEF R!Connect, R!SolveCaptcha
    <2> QED BY <1>a, <1>b, <1>c, <2>1, <2>2, GoesTo, AttemptFails
  <1>4. CASE R!ShowCaptcha(w) \/ R!Submit(w) \/ R!Linger(w)
    <2>1. r.step \in {"captcha", "submit", "linger"} /\ UNCHANGED <<user_name_index, output>>
      BY <1>4 DEF R!ShowCaptcha, R!Submit, R!Linger, R!At, R!Shared
    <2>2. R!Goto(w, "solve") \/ R!Goto(w, "answer") \/ R!Goto(w, "purchase")
      BY <1>4 DEF R!ShowCaptcha, R!Submit, R!Linger
    <2> QED BY <1>a, <1>b, <1>c, <2>1, <2>2, GoesTo
  <1>5. CASE R!ValidateCaptcha(w)
    <2>1. r.step = "validate" /\ UNCHANGED <<user_name_index, output>>
      BY <1>5 DEF R!ValidateCaptcha, R!At, R!Shared
    <2>2. PICK solved \in BOOLEAN, s \in {"submit", "captcha"} :
            R!Move(w, [r EXCEPT !.captchas = r.captchas + 1, !.solved = solved, !.step = s])
      BY <1>5 DEF R!ValidateCaptcha
    <2> DEFINE q == [r EXCEPT !.captchas = r.captchas + 1, !.solved = solved, !.step = s]
    <2>a. r.captchas + 1 \in Nat /\ s \in R!Steps
      BY <1>0, <1>c DEF Standing
    <2>3. q \in Standing /\ q.step = s /\ q.name = r.name
      BY <1>0, <2>a DEF Standing
    <2>4. R!Move(w, q)
      BY <2>2
    <2> HIDE DEF q
    <2>5. Stands(q)
      BY <1>0, <2>1, <2>3 DEF Stands
    <2> QED BY <1>a, <2>1, <2>3, <2>4, <2>5, WorkerMoves
  <1>6. CASE R!ServerAnswers(w) \/ R!ServerRefuses(w)
    <2>1. UNCHANGED <<user_name_index, output, worker>>
      BY <1>6 DEF R!ServerAnswers, R!ServerRefuses
    <2> QED BY <1>a, <2>1, ServerActs
  <1>7. CASE R!TakeAnswer(w) \/ R!Purchase(w)
    <2>1. r.step \in {"answer", "purchase"} /\ UNCHANGED user_name_index
      BY <1>7 DEF R!TakeAnswer, R!Purchase, R!At
    <2>2. \/ R!Goto(w, "linger") /\ UNCHANGED output
          \/ \E a \in R!Results : R!WriteLine(w, a) /\ R!Move(w, R!NewWorker("next"))
      <3>1. "Success" \in R!Results /\ (reply[w] # "none" => reply[w] \in R!Results)
        BY <1>0 DEF Answers, R!Results
      <3> QED BY <1>7, <3>1 DEF R!TakeAnswer, R!Purchase, R!Registered
    <2> QED BY <1>a, <1>b, <1>c, <2>1, <2>2, GoesTo, LineWritten
  <1>8. CASE R!LoseSession(w)
    <2>1. /\ r.step \in {"captcha", "validate", "submit", "answer"} /\ R!AttemptFailed(w)
          /\ UNCHANGED user_name_index
      BY <1>8 DEF R!LoseSession
    <2> QED BY <1>a, <1>b, <2>1, AttemptFails
  <1> QED BY <1>1, <1>2, <1>3, <1>4, <1>5, <1>6, <1>7, <1>8 DEF R!Work

LEMMA LinesInit == R!Init => LinesInv
  <1> SUFFICES ASSUME R!Init PROVE LinesInv
    OBVIOUS
  <1>1. /\ R!NewWorker("next") \in Standing
        /\ R!NewWorker("next").step = "next" /\ R!NewWorker("next").name = 0
    BY NewWorkerFact DEF R!Steps
  <1>2. RegisterTypes
    BY <1>1, ApplicationsAssumption DEF R!Init, RegisterTypes, ServerTypes, Answers
  <1>3. \A w \in Workers : worker[w] = R!NewWorker("next")
    BY DEF R!Init
  <1>4. \A w \in Workers : Stands(worker[w])
    BY <1>1, <1>3 DEF R!Init, Stands
  <1>5. NamesApart
    BY <1>1, <1>3 DEF NamesApart
  <1>6. LinesApart
    BY DEF R!Init, LinesApart
  <1> QED BY <1>2, <1>4, <1>5, <1>6 DEF LinesInv

LEMMA LinesHold == Spec => []LinesInv
  <1>1. Init => LinesInv
    BY LinesInit DEF Init
  <1>2. LinesInv /\ [Next]_vars => LinesInv'
    <2> SUFFICES ASSUME LinesInv, [Next]_vars PROVE LinesInv'
      OBVIOUS
    <2>1. CASE R!Next
      BY <2>1, WorkerStep DEF R!Next
    <2>2. CASE UNCHANGED registerBotVars
      BY <2>2 DEF registerBotVars, LinesInv, RegisterTypes, ServerTypes, Stands, NamesApart,
        LinesApart
    <2> QED BY <2>1, <2>2, StepOfOne
  <1> QED BY <1>1, <1>2, PTL DEF Spec

(* The register bot's file has one line for a name at most, and none for a *)
(* name a worker still has: whatever the server answers, and the attempts  *)
(* that fail after the account was made included.                          *)
THEOREM Registration == Spec => []OneLineEach
  <1>1. LinesInv => OneLineEach
    BY DEF LinesInv, LinesApart, OneLineEach, R!OneLineEach
  <1> QED BY <1>1, LinesHold, PTL

(* A worker makes three attempts at a name, and in each three tries at the *)
(* captcha: while it is at one, there is one left to count.                *)
Tries(r) ==
    /\ r.attempt \in 0..R!MaxAttempts - 1 /\ r.captchas \in 0..R!MaxCaptchas
    /\ r.step \notin {"submit", "answer", "linger", "purchase"} => r.captchas < R!MaxCaptchas

TriesInv == worker \in [Workers -> Standing] /\ \A w \in Workers : Tries(worker[w])

(* A worker that moves on keeps to its tries.                              *)
LEMMA TriesMove ==
    ASSUME TriesInv, NEW w \in Workers, NEW r \in Standing, R!Move(w, r), Tries(r)
    PROVE  TriesInv'
  <1>1. worker' \in [Workers -> Standing] /\ worker'[w] = r
        /\ \A v \in Workers : v # w => worker'[v] = worker[v]
    BY DEF R!Move, TriesInv
  <1> QED BY <1>1 DEF TriesInv

(* To another step: neither is counted there.                              *)
LEMMA TriesGoto ==
    ASSUME TriesInv, NEW w \in Workers, NEW s \in R!Steps, R!Goto(w, s),
           \/ s \in {"submit", "answer", "linger", "purchase"}
           \/ worker[w].step \notin {"submit", "answer", "linger", "purchase"}
    PROVE  TriesInv'
  <1> DEFINE r == [worker[w] EXCEPT !.step = s]
  <1>1. worker[w] \in Standing /\ Tries(worker[w])
    BY DEF TriesInv
  <1>2. r \in Standing /\ r.step = s /\ r.attempt = worker[w].attempt /\ r.captchas = worker[w].captchas
    BY <1>1 DEF Standing
  <1>3. R!Move(w, r)
    BY DEF R!Goto
  <1> HIDE DEF r
  <1>4. Tries(r)
    BY <1>1, <1>2 DEF Tries
  <1> QED BY <1>2, <1>3, <1>4, TriesMove

(* A worker without a session has made no try at its captcha.              *)
LEMMA TriesAnew ==
    ASSUME TriesInv, NEW w \in Workers, NEW s \in {"next", "gone"}, R!Move(w, R!NewWorker(s))
    PROVE  TriesInv'
  <1>1. R!NewWorker(s) \in Standing /\ Tries(R!NewWorker(s))
    BY ApplicationsAssumption DEF R!NewWorker, Standing, Tries, R!Steps, R!MaxAttempts, R!MaxCaptchas
  <1> QED BY <1>1, TriesMove

(* The attempt after the last one is that of the next name.                *)
LEMMA TriesFailed ==
    ASSUME TriesInv, NEW w \in Workers, R!AttemptFailed(w)
    PROVE  TriesInv'
  <1> DEFINE next == worker[w].attempt + 1
             r == [R!NewWorker("proxy") EXCEPT !.name = worker[w].name, !.attempt = next]
  <1>1. worker[w].name \in 0..NameCount /\ worker[w].attempt \in 0..2
    BY DEF TriesInv, Tries, Standing, R!MaxAttempts
  <1>2. CASE next >= R!MaxAttempts
    BY <1>2, TriesAnew DEF R!AttemptFailed
  <1>3. CASE ~(next >= R!MaxAttempts)
    <2>1. R!Move(w, r)
      BY <1>3 DEF R!AttemptFailed
    <2>2. next \in 0..2 /\ next \in Nat
      BY <1>1, <1>3 DEF R!MaxAttempts
    <2> HIDE DEF next
    <2>3. r \in Standing /\ r.attempt = next /\ r.captchas = 0 /\ r.step = "proxy"
      BY <1>1, <2>2 DEF R!NewWorker, Standing, R!Steps
    <2> HIDE DEF r
    <2>4. Tries(r)
      BY <2>2, <2>3 DEF Tries, R!MaxAttempts, R!MaxCaptchas
    <2> QED BY <2>1, <2>3, <2>4, TriesMove
  <1> QED BY <1>2, <1>3

LEMMA TriesStep ==
    ASSUME TriesInv, LinesInv, NEW w \in Workers, R!Work(w) \/ R!LoseSession(w) \/ R!ServerRefuses(w)
    PROVE  TriesInv'
  <1> DEFINE r == worker[w]
  <1>0. r \in Standing /\ Tries(r) /\ user_name_index \in 0..NameCount
    BY DEF TriesInv, LinesInv, RegisterTypes
  <1>a. {"proxy", "connect", "captcha", "solve", "validate", "submit", "answer", "linger", "purchase"}
          \subseteq R!Steps
    BY DEF R!Steps, R!Sessions
  <1>1. CASE R!NextName(w)
    <2>1. CASE user_name_index >= NameCount
      BY <1>1, <2>1, TriesAnew DEF R!NextName
    <2>2. CASE ~(user_name_index >= NameCount)
      <3> DEFINE n == user_name_index + 1
                 q == [R!NewWorker("proxy") EXCEPT !.name = n]
      <3>1. R!Move(w, q)
        BY <1>1, <2>2 DEF R!NextName, R!NextUserName
      <3>2. n \in 0..NameCount
        BY <1>0, <2>2, ApplicationsAssumption
      <3> HIDE DEF n
      <3>3. q \in Standing /\ q.attempt = 0 /\ q.captchas = 0 /\ q.step = "proxy"
        BY <1>a, <3>2 DEF R!NewWorker, Standing
      <3> HIDE DEF q
      <3>4. Tries(q)
        BY <3>3 DEF Tries, R!MaxAttempts, R!MaxCaptchas
      <3> QED BY <3>1, <3>3, <3>4, TriesMove
    <2> QED BY <2>1, <2>2
  <1>2. CASE R!NextProxy(w)
    BY <1>2, <1>a, TriesGoto, TriesAnew DEF R!NextProxy, R!At
  <1>3. CASE R!Connect(w)
    <2>1. R!Goto(w, "captcha") \/ R!AttemptFailed(w)
      BY <1>3 DEF R!Connect
    <2> QED BY <1>3, <1>a, <2>1, TriesGoto, TriesFailed DEF R!Connect, R!At
  <1>4. CASE R!ShowCaptcha(w)
    BY <1>4, <1>a, TriesGoto DEF R!ShowCaptcha, R!At
  <1>5. CASE R!SolveCaptcha(w)
    <2>1. R!Goto(w, "validate") \/ R!AttemptFailed(w)
      BY <1>5 DEF R!SolveCaptcha
    <2> QED BY <1>5, <1>a, <2>1, TriesGoto, TriesFailed DEF R!SolveCaptcha, R!At
  <1>6. CASE R!ValidateCaptcha(w)
    <2> DEFINE tries == r.captchas + 1
    <2>1. PICK solved \in BOOLEAN :
            R!Move(w, [r EXCEPT !.captchas = tries, !.solved = solved,
                                !.step = IF solved \/ tries = R!MaxCaptchas
                                         THEN "submit" ELSE "captcha"])
      BY <1>6 DEF R!ValidateCaptcha
    <2> DEFINE s == IF solved \/ tries = R!MaxCaptchas THEN "submit" ELSE "captcha"
               q == [r EXCEPT !.captchas = tries, !.solved = solved, !.step = s]
    <2>2. tries \in 1..3 /\ tries \in Nat /\ r.attempt \in 0..R!MaxAttempts - 1
      BY <1>0, <1>6 DEF R!ValidateCaptcha, R!At, Tries, R!MaxCaptchas
    <2>3. s \in {"submit", "captcha"} /\ (s = "captcha" => tries # 3)
      BY DEF R!MaxCaptchas
    <2>4. R!Move(w, q)
      BY <2>1
    <2> HIDE DEF tries, s
    <2>5. q \in Standing /\ q.step = s /\ q.captchas = tries /\ q.attempt = r.attempt
      BY <1>0, <1>a, <2>2, <2>3 DEF Standing
    <2> HIDE DEF q
    <2>6. Tries(q)
      BY <2>2, <2>3, <2>5 DEF Tries, R!MaxCaptchas
    <2> QED BY <2>4, <2>5, <2>6, TriesMove
  <1>7. CASE R!Submit(w)
    BY <1>7, <1>a, TriesGoto DEF R!Submit
  <1>8. CASE R!ServerAnswers(w) \/ R!ServerRefuses(w)
    BY <1>8 DEF R!ServerAnswers, R!ServerRefuses, TriesInv
  <1>9. CASE R!TakeAnswer(w)
    <2>1. R!Goto(w, "linger") \/ R!Move(w, R!NewWorker("next"))
      BY <1>9 DEF R!TakeAnswer, R!Registered
    <2> QED BY <1>a, <2>1, TriesGoto, TriesAnew
  <1>10. CASE R!Linger(w) \/ R!Purchase(w)
    <2>1. R!Goto(w, "purchase") \/ R!Move(w, R!NewWorker("next"))
      BY <1>10 DEF R!Linger, R!Purchase, R!Registered
    <2> QED BY <1>a, <2>1, TriesGoto, TriesAnew
  <1>11. CASE R!LoseSession(w)
    BY <1>11, TriesFailed DEF R!LoseSession
  <1> QED
    BY <1>1, <1>2, <1>3, <1>4, <1>5, <1>6, <1>7, <1>8, <1>9, <1>10, <1>11 DEF R!Work

RegisterTypeInv == TriesInv /\ proxies \in BOOLEAN

LEMMA RegisterTypeStep == RegisterTypeInv /\ LinesInv /\ [Next]_vars => RegisterTypeInv'
  <1> SUFFICES ASSUME RegisterTypeInv, LinesInv, [Next]_vars PROVE RegisterTypeInv'
    OBVIOUS
  <1>1. CASE R!Next
    <2>1. PICK w \in Workers : R!Work(w) \/ R!LoseSession(w) \/ R!ServerRefuses(w)
      BY <1>1 DEF R!Next
    <2>2. UNCHANGED proxies
      <3>1. CASE R!NextName(w) \/ R!NextProxy(w) \/ R!Connect(w) \/ R!LoseSession(w)
        BY <3>1 DEF R!NextName, R!NextProxy, R!Connect, R!LoseSession, R!Shared
      <3>2. CASE R!ShowCaptcha(w) \/ R!SolveCaptcha(w) \/ R!Submit(w)
        BY <3>2 DEF R!ShowCaptcha, R!SolveCaptcha, R!Submit, R!Shared
      <3>5. CASE R!ValidateCaptcha(w)
        BY <3>5 DEF R!ValidateCaptcha, R!Shared
      <3>3. CASE R!TakeAnswer(w) \/ R!Linger(w) \/ R!Purchase(w)
        BY <3>3 DEF R!TakeAnswer, R!Linger, R!Purchase, R!Shared
      <3>4. CASE R!ServerAnswers(w) \/ R!ServerRefuses(w)
        BY <3>4 DEF R!ServerAnswers, R!ServerRefuses
      <3> QED BY <2>1, <3>1, <3>2, <3>3, <3>4, <3>5 DEF R!Work
    <2> QED BY <2>1, <2>2, TriesStep DEF RegisterTypeInv
  <1>2. CASE UNCHANGED registerBotVars
    BY <1>2 DEF registerBotVars, RegisterTypeInv, TriesInv
  <1> QED BY <1>1, <1>2, StepOfOne

LEMMA RegisterTypesHold == Spec => []R!TypeOK
  <1>1. Init => RegisterTypeInv
    <2> SUFFICES ASSUME Init PROVE RegisterTypeInv
      OBVIOUS
    <2>1. R!NewWorker("next") \in Standing /\ Tries(R!NewWorker("next"))
      BY ApplicationsAssumption DEF R!NewWorker, Standing, Tries, R!Steps, R!MaxAttempts, R!MaxCaptchas
    <2> QED BY <2>1 DEF Init, R!Init, RegisterTypeInv, TriesInv
  <1>2. RegisterTypeInv /\ LinesInv => R!TypeOK
    <2> SUFFICES ASSUME RegisterTypeInv, LinesInv PROVE R!TypeOK
      OBVIOUS
    <2>1. ASSUME NEW w \in Workers PROVE worker[w] \in R!Worker
      <3>1. worker[w] \in Standing /\ Tries(worker[w])
        BY DEF RegisterTypeInv, TriesInv
      <3> QED BY <3>1 DEF Standing, Tries, R!Worker
    <2>2. worker \in [Workers -> R!Worker]
      BY <2>1 DEF RegisterTypeInv, TriesInv
    <2> QED BY <2>2 DEF RegisterTypeInv, LinesInv, RegisterTypes, ServerTypes, Answers,
      R!TypeOK
  <1> QED BY <1>1, <1>2, RegisterTypeStep, LinesHold, PTL DEF Spec

-----------------------------------------------------------------------------
(* The crystal bot.                                                        *)

Msg == C!Replies \union {"other", "kill"}

Gaps(n) == [i \in 1..n |-> "other"]

(* Packets of no interest, then tail; never none while an answer is taken. *)
Coming(tail) ==
    \E n \in Nat : toBot = Gaps(n) \o tail /\ (result # "none" => n + passed >= 1)

Battle == <<"mapInfo">> \o C!Others \o <<"switchEnd">>

(* A request is on its way, or its answer is and what follows by itself.   *)
Requested ==
    \/ toServer = <<step>> /\ toBot = <<>>
    \/ toServer = <<>> /\ toBot \in C!Sends(step)

(* The bot has all that the server has to say, before it asks again.       *)
Silent ==
    \/ step \in {"connect", "banned", "pause", "select"}
    \/ step \in {"resources", "lobby", "switch"} /\ result # "none"
    \/ step = "login" /\ result # "success"

(* What is on its way to the bot once the server has answered.             *)
Following ==
    /\ step = "resources" /\ result = "none" => Coming(<<"finished">>)
    /\ step = "login" /\ result = "success" => Coming(<<"switchEnd">>)
    /\ step = "lobby" /\ result = "none" => Coming(<<"switchEnd">>)
    /\ step = "join" => Coming(Battle)
    /\ step = "map" /\ result = "none" => Coming(Battle)
    /\ step = "map" /\ result # "none" => Coming(<<"switchEnd">>)
    /\ step = "switch" /\ result = "none" => Coming(<<"switchEnd">>)
    /\ Silent => toBot = <<>>

(* Before the battle the bot has no tank, and the conversation stands      *)
(* where its script does.                                                  *)
Talking ==
    /\ spawner = "none" /\ tank = "none"
    /\ step \in C!Requests /\ result = "none" => Requested
    /\ ~(step \in C!Requests /\ result = "none") => toServer = <<>> /\ Following

(* What the server has still to receive, for its tank to be as the spawner *)
(* has it.  A kill leaves an activation on the wire at most: the bot asks  *)
(* for a new place once it has seen the kill, and behind that activation.  *)
Killed == tank \in {"waiting", "dead"}

Spawning ==
    \/ spawner = "Uninit" /\ tank = "none" /\ toServer = <<>> /\ toBot = <<>>
    \/ /\ spawner = "Dead" /\ toBot = <<>>
       /\ \/ tank = "none" /\ toServer = <<"init">>
          \/ Killed /\ toServer \in {<<>>, <<"activate">>}
    \/ /\ spawner = "Placed" /\ toBot = <<>>
       /\ \/ tank = "none" /\ toServer = <<"init", "place">>
          \/ Killed /\ toServer \in {<<"place">>, <<"activate", "place">>}
          \/ tank \in {"placed", "left"} /\ toServer = <<>>
    \/ /\ spawner = "Activated" /\ toBot = <<>>
       /\ \/ tank = "none" /\ toServer = <<"init", "place", "activate">>
          \/ Killed /\ toServer \in {<<"place", "activate">>, <<"activate", "place", "activate">>}
          \/ tank \in {"placed", "left"} /\ toServer = <<"activate">>
          \/ tank \in {"active", "left"} /\ toServer = <<>>
    \/ /\ Killed /\ toBot = <<"kill">>
       /\ \/ spawner = "Placed" /\ toServer = <<>>
          \/ spawner = "Activated" /\ toServer \in {<<>>, <<"activate">>}

CrystalInv ==
    /\ step \in C!Steps
    /\ passed \in Nat /\ (result = "none" => passed = 0)
    /\ result # "none" => step \in C!Calls /\ result \in C!Awaited[step]
    /\ IF step = "battle" THEN Spawning ELSE Talking

(* What each call accepts.                                                 *)
LEMMA AwaitedFact ==
    /\ C!Calls = {"resources", "login", "lobby", "select", "join", "map", "switch"}
    /\ C!Awaited["resources"] = {"finished"}
    /\ C!Awaited["login"] = {"success", "failure", "banTemporary", "banPermanent"}
    /\ C!Awaited["lobby"] = {"switchEnd"}
    /\ C!Awaited["select"] = {"selected", "linkDead"}
    /\ C!Awaited["join"] = {"switchStart"}
    /\ C!Awaited["map"] = {"mapInfo"}
    /\ C!Awaited["switch"] = {"switchEnd"}
  BY DEF C!Calls, C!Awaited

LEMMA OthersAwaited == \A c \in C!Calls : "other" \notin C!Awaited[c] /\ "none" \notin C!Awaited[c]
  BY AwaitedFact

LEMMA MsgFact ==
    /\ {"finished", "success", "failure", "banTemporary", "banPermanent", "switchEnd", "selected",
        "linkDead", "switchStart", "mapInfo", "other", "kill"} \subseteq Msg
    /\ \A m \in Msg : <<m>> \in Seq(Msg)
  <1>1. /\ {"resources", "login", "lobby", "select", "join", "map"} \subseteq C!Calls
        /\ \A c \in C!Calls : C!Awaited[c] \subseteq Msg
    BY AwaitedFact DEF Msg, C!Replies
  <1> QED BY <1>1, AwaitedFact DEF Msg

LEMMA GapsFact ==
    /\ \A n \in Nat : Gaps(n) \in Seq(Msg) /\ Len(Gaps(n)) = n
    /\ \A n \in Nat : \A i \in 1..n : Gaps(n)[i] = "other"
    /\ Gaps(0) = <<>>
    /\ C!Others = Gaps(Gap) /\ Gap \in Nat /\ Gap >= 1
  <1>1. "other" \in Msg
    BY MsgFact
  <1>2. \A n \in Nat : Gaps(n) \in Seq(Msg) /\ Len(Gaps(n)) = n
    BY <1>1 DEF Gaps
  <1>3. \A n \in Nat : \A i \in 1..n : Gaps(n)[i] = "other"
    BY DEF Gaps
  <1>4. Gaps(0) = <<>>
    BY DEF Gaps
  <1>5. C!Others = Gaps(Gap) /\ Gap \in Nat /\ Gap >= 1
    BY ApplicationsAssumption DEF Gaps, C!Others
  <1> QED BY <1>2, <1>3, <1>4, <1>5

LEMMA Joins == \A x, y, z \in Seq(Msg) : (x \o y) \o z = x \o (y \o z)
  <1> TAKE x, y, z \in Seq(Msg)
  <1> QED BY ONLY ConcatAssociative, x \in Seq(Msg), y \in Seq(Msg), z \in Seq(Msg)

LEMMA JoinThese == \A x, y, z \in Seq(Msg) : Regroups(x, y, z)
  BY Joins DEF Regroups

(* A packet in front of others.                                            *)
LEMMA FrontFact ==
    ASSUME NEW x \in Msg, NEW q \in Seq(Msg)
    PROVE  /\ <<x>> \o q \in Seq(Msg) /\ <<x>> \o q # <<>>
           /\ Head(<<x>> \o q) = x /\ Tail(<<x>> \o q) = q
  <1>1. <<x>> \o q \in Seq(Msg) /\ Len(<<x>> \o q) = Len(q) + 1 /\ Len(q) \in Nat
    OBVIOUS
  <1>2. Head(<<x>> \o q) = x
    OBVIOUS
  <1>3. Tail(<<x>> \o q) = q
    OBVIOUS
  <1> QED BY <1>1, <1>2, <1>3

(* The packets that the bot awaits one after the other.                    *)
LEMMA BattleFact ==
    /\ Battle = <<"mapInfo">> \o (Gaps(Gap) \o <<"switchEnd">>)
    /\ Gaps(Gap) \o <<"switchEnd">> \in Seq(Msg)
    /\ Battle \in Seq(Msg) /\ Battle # <<>> /\ Head(Battle) = "mapInfo"
    /\ Tail(Battle) = Gaps(Gap) \o <<"switchEnd">>
  <1> DEFINE g == Gaps(Gap)
             e == <<"switchEnd">>
             m == <<"mapInfo">>
  <1>1. g \in Seq(Msg) /\ e \in Seq(Msg) /\ m \in Seq(Msg) /\ g \o e \in Seq(Msg)
    <2>1. g \in Seq(Msg) /\ e \in Seq(Msg) /\ m \in Seq(Msg)
      BY GapsFact, MsgFact
    <2> HIDE DEF g, e, m
    <2> QED BY <2>1
  <1>2. Battle = (m \o g) \o e
    BY GapsFact DEF Battle
  <1>3. (m \o g) \o e = m \o (g \o e)
    <2> HIDE DEF g, e, m
    <2> QED BY <1>1, Joins
  <1> HIDE DEF g, e
  <1>4. m \o (g \o e) \in Seq(Msg) /\ m \o (g \o e) # <<>>
        /\ Head(m \o (g \o e)) = "mapInfo" /\ Tail(m \o (g \o e)) = g \o e
    BY <1>1, FrontFact
  <1> QED BY <1>1, <1>2, <1>3, <1>4 DEF g, e

(* The server's answer to each request, one packet first.                  *)
LEMMA SendsFact ==
    /\ \A q \in C!Sends("login") :
         \/ \E r \in {"failure", "banTemporary", "banPermanent"} : q = <<r>>
         \/ q = <<"success">> \o (Gaps(Gap) \o <<"switchEnd">>)
    /\ \A q \in C!Sends("select") : \E r \in {"selected", "linkDead"} : q = <<r>>
    /\ \A q \in C!Sends("join") : q = <<"switchStart">> \o (Gaps(Gap) \o Battle)
  <1> DEFINE g == Gaps(Gap)
             e == <<"switchEnd">>
             m == <<"mapInfo">>
             s == <<"success">>
             t == <<"switchStart">>
  <1>1. g \in Seq(Msg) /\ e \in Seq(Msg) /\ m \in Seq(Msg) /\ s \in Seq(Msg)
        /\ t \in Seq(Msg)
    BY GapsFact, MsgFact
  <1>2. (s \o g) \o e = s \o (g \o e)
    <2> HIDE DEF g, e, s
    <2> QED BY <1>1, Joins
  <1>3. (((t \o g) \o m) \o g) \o e = t \o (g \o ((m \o g) \o e))
    <2> HIDE DEF g, e, m, t
    <2>1. t \o g \in Seq(Msg) /\ m \o g \in Seq(Msg)
      BY <1>1
    <2>2. (m \o g) \o e \in Seq(Msg)
      BY <1>1, <2>1
    <2>3. ((t \o g) \o m) \o g = (t \o g) \o (m \o g)
      <3>1. Regroups(t \o g, m, g)
        BY ONLY <1>1, <2>1, JoinThese
      <3> QED BY ONLY <3>1 DEF Regroups
    <2>4. ((t \o g) \o (m \o g)) \o e = (t \o g) \o ((m \o g) \o e)
      <3>1. Regroups(t \o g, m \o g, e)
        BY ONLY <1>1, <2>1, JoinThese
      <3> QED BY ONLY <3>1 DEF Regroups
    <2>5. (t \o g) \o ((m \o g) \o e) = t \o (g \o ((m \o g) \o e))
      <3>1. Regroups(t, g, (m \o g) \o e)
        BY ONLY <1>1, <2>2, JoinThese
      <3> QED BY ONLY <3>1 DEF Regroups
    <2> QED BY <2>3, <2>4, <2>5
  <1>4. C!Sends("join") = {(((t \o g) \o m) \o g) \o e}
    BY GapsFact DEF C!Sends
  <1>5. Battle = (m \o g) \o e
    BY GapsFact DEF Battle
  <1>6. C!Sends("login") = {<<"failure">>, <<"banTemporary">>, <<"banPermanent">>, (s \o g) \o e}
    BY GapsFact DEF C!Sends
  <1>7. C!Sends("select") = {<<"selected">>, <<"linkDead">>}
    BY DEF C!Sends
  <1> HIDE DEF g, e, m
  <1>8. \A q \in C!Sends("join") : q = t \o (g \o Battle)
    BY <1>3, <1>4, <1>5
  <1>9. \A q \in C!Sends("login") :
          \/ \E r \in {"failure", "banTemporary", "banPermanent"} : q = <<r>>
          \/ q = s \o (g \o e)
    BY <1>2, <1>6
  <1> QED BY <1>7, <1>8, <1>9 DEF g, e

(* Each begins with what its call awaits.                                  *)
LEMMA AnswersFact ==
    \A c \in C!Requests : \A q \in C!Sends(c) :
        q \in Seq(Msg) /\ q # <<>> /\ Head(q) \in C!Awaited[c]
  <1> SUFFICES ASSUME NEW c \in C!Requests, NEW q \in C!Sends(c)
               PROVE  q \in Seq(Msg) /\ q # <<>> /\ Head(q) \in C!Awaited[c]
    OBVIOUS
  <1>1. ASSUME NEW r \in Msg, q = <<r>> PROVE q \in Seq(Msg) /\ q # <<>> /\ Head(q) = r
    BY <1>1
  <1>2. ASSUME NEW r \in Msg, NEW t \in Seq(Msg), q = <<r>> \o t
        PROVE  q \in Seq(Msg) /\ q # <<>> /\ Head(q) = r
    BY <1>2, FrontFact
  <1>3. CASE c = "login"
    <2>1. PICK r \in C!Awaited["login"] : q = <<r>> \/ q = <<r>> \o (Gaps(Gap) \o <<"switchEnd">>)
      BY <1>3, SendsFact, AwaitedFact
    <2>2. r \in Msg
      BY MsgFact, AwaitedFact
    <2> QED BY <1>1, <1>2, <1>3, <2>1, <2>2, BattleFact
  <1>4. CASE c = "select"
    <2>1. PICK r \in {"selected", "linkDead"} : q = <<r>>
      BY <1>4, SendsFact
    <2> QED BY <1>1, <1>4, <2>1, MsgFact, AwaitedFact
  <1>5. CASE c = "join"
    <2>1. q = <<"switchStart">> \o (Gaps(Gap) \o Battle)
      BY <1>5, SendsFact
    <2>2. Gaps(Gap) \o Battle \in Seq(Msg)
      BY BattleFact, GapsFact
    <2> QED BY <1>2, <1>5, <2>1, <2>2, MsgFact, AwaitedFact
  <1> QED BY <1>3, <1>4, <1>5 DEF C!Requests

(* The first of what is coming.                                            *)
LEMMA GapsFirst ==
    ASSUME NEW n \in Nat, NEW tail \in Seq(Msg), tail # <<>>
    PROVE  /\ Gaps(n) \o tail # <<>>
           /\ n = 0 => Gaps(n) \o tail = tail
           /\ n # 0 => /\ Head(Gaps(n) \o tail) = "other"
                       /\ Tail(Gaps(n) \o tail) = Gaps(n - 1) \o tail
           /\ \E i \in DOMAIN (Gaps(n) \o tail) : (Gaps(n) \o tail)[i] = Head(tail)
  <1> DEFINE g == Gaps(n)
             q == g \o tail
  <1>1. g \in Seq(Msg) /\ Len(g) = n /\ \A i \in 1..n : g[i] = "other"
    BY GapsFact
  <1>2. Len(tail) \in Nat \ {0} /\ Head(tail) = tail[1]
    OBVIOUS
  <1> HIDE DEF g
  <1>3. /\ q \in Seq(Msg) /\ Len(q) = n + Len(tail)
        /\ DOMAIN q = 1..n + Len(tail)
        /\ \A i \in 1..n + Len(tail) : q[i] = IF i <= n THEN g[i] ELSE tail[i - n]
    <2>1. g \in Seq(Msg)
      BY <1>1
    <2>2. /\ g \o tail \in Seq(Msg) /\ Len(g \o tail) = Len(g) + Len(tail)
          /\ \A i \in 1..Len(g) + Len(tail) :
               (g \o tail)[i] = IF i <= Len(g) THEN g[i] ELSE tail[i - Len(g)]
      BY <2>1, ConcatProperties
    <2>3. DOMAIN (g \o tail) = 1..Len(g \o tail)
      BY <2>2
    <2> QED BY <1>1, <2>2, <2>3
  <1> HIDE DEF q
  <1>4. q # <<>> /\ \E i \in DOMAIN q : q[i] = Head(tail)
    <2>1. n + 1 \in DOMAIN q /\ q[n + 1] = tail[1]
      BY <1>2, <1>3
    <2> QED BY <1>2, <2>1
  <1>5. ASSUME n = 0 PROVE q = tail
    <2>1. g = <<>>
      BY <1>5, GapsFact DEF g
    <2> QED BY <2>1 DEF q
  <1>6. ASSUME n # 0 PROVE Head(q) = "other" /\ Tail(q) = Gaps(n - 1) \o tail
    <2> DEFINE f == Gaps(n - 1)
    <2>1. n - 1 \in Nat
      BY <1>6
    <2>2. f \in Seq(Msg) /\ Len(f) = n - 1 /\ \A i \in 1..n - 1 : f[i] = "other"
      BY <2>1, GapsFact
    <2> HIDE DEF f
    <2>3. /\ f \o tail \in Seq(Msg) /\ Len(f \o tail) = (n - 1) + Len(tail)
          /\ \A i \in 1..(n - 1) + Len(tail) :
               (f \o tail)[i] = IF i <= n - 1 THEN f[i] ELSE tail[i - (n - 1)]
      <3>1. f \in Seq(Msg)
        BY <2>2
      <3>2. /\ f \o tail \in Seq(Msg) /\ Len(f \o tail) = Len(f) + Len(tail)
            /\ \A i \in 1..Len(f) + Len(tail) :
                 (f \o tail)[i] = IF i <= Len(f) THEN f[i] ELSE tail[i - Len(f)]
        BY <3>1, ConcatProperties
      <3> QED BY <2>2, <3>2
    <2>4. /\ Tail(q) \in Seq(Msg) /\ Len(Tail(q)) = Len(q) - 1
          /\ \A i \in 1..Len(q) - 1 : Tail(q)[i] = q[i + 1]
      BY <1>3, <1>4, HeadTailProperties
    <2>5. \A i \in 1..Len(q) - 1 : Tail(q)[i] = (f \o tail)[i]
      <3> SUFFICES ASSUME NEW i \in 1..(n - 1) + Len(tail) PROVE q[i + 1] = (f \o tail)[i]
        <4>1. Len(q) - 1 = (n - 1) + Len(tail)
          BY <1>2, <1>3
        <4> QED BY <2>4, <4>1
      <3>1. CASE i <= n - 1
        BY <1>1, <1>2, <1>3, <2>2, <2>3, <3>1
      <3>2. CASE i > n - 1
        <4>1. (i + 1) - n = i - (n - 1)
          OBVIOUS
        <4> QED BY <1>2, <1>3, <2>3, <3>2, <4>1
      <3>3. i <= n - 1 \/ i > n - 1
        OBVIOUS
      <3> QED BY <3>1, <3>2, <3>3
    <2>6. Tail(q) = f \o tail
      <3>1. Len(Tail(q)) = Len(f \o tail) /\ Len(Tail(q)) = Len(q) - 1
        BY <1>2, <1>3, <2>3, <2>4
      <3>2. \A i \in 1..Len(Tail(q)) : Tail(q)[i] = (f \o tail)[i]
        BY <2>5, <3>1
      <3> QED BY <2>3, <2>4, <3>1, <3>2, SeqEqual
    <2>7. Head(q) = "other"
      BY <1>1, <1>2, <1>3, <1>6
    <2> QED BY <2>6, <2>7 DEF f
  <1> QED BY <1>4, <1>5, <1>6 DEF q, g

(* A packet of no interest is passed over; the one awaited is the first    *)
(* that is not, and is not read before the script is ready for it.         *)
LEMMA NextComing ==
    ASSUME CrystalInv, step \in C!Calls, NEW tail \in Seq(Msg), tail # <<>>, Coming(tail), C!Dispatch,
           Head(tail) \in C!Awaited[step] \/ result # "none"
    PROVE  \/ UNCHANGED result /\ Coming(tail)' /\ passed' \in Nat /\ (result = "none" => passed' = 0)
           \/ /\ result = "none" /\ result' = Head(tail)
              /\ passed' = 0 /\ toBot' = Tail(tail)
  <1>1. PICK n \in Nat : toBot = Gaps(n) \o tail /\ (result # "none" => n + passed >= 1)
    BY DEF Coming
  <1>2. passed \in Nat /\ (result = "none" => passed = 0)
    BY DEF CrystalInv
  <1>3. /\ toBot' = Tail(toBot)
        /\ IF step \in C!Calls /\ result = "none" /\ Head(toBot) \in C!Awaited[step]
           THEN result' = Head(toBot) /\ UNCHANGED passed
           ELSE /\ passed' = IF result = "none" THEN 0 ELSE passed + 1
                /\ UNCHANGED result
        /\ result = "none" \/ passed = 0
    BY DEF C!Dispatch, C!CanDispatch
  <1>4. CASE n = 0
    <2>1. toBot = tail
      BY <1>1, <1>4, GapsFirst
    <2>2. result = "none"
      BY <1>1, <1>2, <1>3, <1>4
    <2> QED BY <1>2, <1>3, <2>1, <2>2
  <1>5. CASE n # 0
    <2>1. Head(toBot) = "other" /\ toBot' = Gaps(n - 1) \o tail /\ n - 1 \in Nat
      <3>1. toBot' = Tail(toBot) /\ n - 1 \in Nat
        BY <1>3, <1>5
      <3> QED BY <1>1, <1>5, <3>1, GapsFirst
    <2>2. UNCHANGED result /\ passed' = IF result = "none" THEN 0 ELSE passed + 1
      BY <1>3, <2>1, OthersAwaited
    <2>3. Coming(tail)'
      <3>1. result' # "none" => (n - 1) + passed' >= 1
        BY <1>2, <2>1, <2>2
      <3> QED BY <2>1, <3>1 DEF Coming
    <2> QED BY <1>2, <2>2, <2>3
  <1> QED BY <1>4, <1>5

(* What comes stays to come for the next call.                             *)
LEMMA StillComing ==
    ASSUME NEW tail, Coming(tail), UNCHANGED toBot, result' = "none" \/ UNCHANGED <<result, passed>>
    PROVE  Coming(tail)'
  BY DEF Coming

LEMMA AllComing ==
    ASSUME NEW tail, toBot' = Gaps(Gap) \o tail, passed' \in Nat
    PROVE  Coming(tail)'
  <1>1. \A p \in Nat : Gap + p >= 1
    BY ONLY ApplicationsAssumption
  <1> QED BY <1>1, ApplicationsAssumption DEF Coming

LEMMA TailsFact ==
    \A m \in {"finished", "switchEnd"} :
       <<m>> \in Seq(Msg) /\ <<m>> # <<>> /\ Head(<<m>>) = m /\ Tail(<<m>>) = <<>>
  BY MsgFact

(* A packet dispatched before the battle.                                  *)
LEMMA TalkingDispatch ==
    ASSUME CrystalInv, step # "battle", C!Dispatch
    PROVE  CrystalInv'
  <1>0. /\ Talking /\ step \in C!Steps /\ passed \in Nat
        /\ result = "none" => passed = 0
        /\ result # "none" => step \in C!Calls /\ result \in C!Awaited[step]
    BY DEF CrystalInv
  <1>1. /\ UNCHANGED <<step, toServer, tank, spawner>> /\ toBot # <<>> /\ toBot' = Tail(toBot)
        /\ step \in C!Calls \union {"pause"}
        /\ spawner = "none" /\ tank = "none"
    BY <1>0 DEF C!Dispatch, C!TankKilled, Talking
  <1>2. step # "pause"
    BY <1>0, <1>1 DEF Talking, Following, Silent, C!Requests
  <1>3. step \in C!Calls
    BY <1>1, <1>2
  <1>4. CASE step \in C!Requests /\ result = "none"
    <2>1. toServer = <<>> /\ toBot \in C!Sends(step)
      BY <1>0, <1>1, <1>4 DEF Talking, Requested
    <2>2. Head(toBot) \in C!Awaited[step] =>
            result' = Head(toBot) /\ UNCHANGED passed
      BY <1>3, <1>4 DEF C!Dispatch
    <2>3. \A r \in Msg : Head(<<r>>) = r /\ Tail(<<r>>) = <<>>
      OBVIOUS
    <2>4. CASE step = "login"
      <3>1. CASE \E r \in {"failure", "banTemporary", "banPermanent"} : toBot = <<r>>
        <4>1. PICK r \in {"failure", "banTemporary", "banPermanent"} : toBot = <<r>>
          BY <3>1
        <4>2. Head(toBot) = r /\ Tail(toBot) = <<>> /\ r \in C!Awaited["login"]
          BY <2>3, <4>1, MsgFact, AwaitedFact
        <4> QED
          BY <1>0, <1>1, <1>3, <1>4, <2>1, <2>2, <2>4, <4>2 DEF CrystalInv, Talking, Following, Silent
      <3>2. CASE toBot = <<"success">> \o (Gaps(Gap) \o <<"switchEnd">>)
        <4>1. Head(toBot) = "success" /\ Tail(toBot) = Gaps(Gap) \o <<"switchEnd">>
          BY <3>2, MsgFact, BattleFact, FrontFact
        <4>2. result' = "success" /\ passed' = 0 /\ "success" \in C!Awaited["login"]
          BY <1>0, <1>4, <2>2, <2>4, <4>1, AwaitedFact
        <4>3. Coming(<<"switchEnd">>)'
          BY <1>1, <4>1, <4>2, AllComing
        <4> QED
          BY <1>0, <1>1, <1>3, <2>1, <2>4, <4>2, <4>3 DEF CrystalInv, Talking, Following, Silent
      <3> QED BY <2>1, <2>4, <3>1, <3>2, SendsFact
    <2>5. CASE step = "select"
      <3>1. PICK r \in {"selected", "linkDead"} : toBot = <<r>>
        BY <2>1, <2>5, SendsFact
      <3>2. Head(toBot) = r /\ Tail(toBot) = <<>> /\ r \in C!Awaited["select"]
        BY <2>3, <3>1, MsgFact, AwaitedFact
      <3> QED
        BY <1>0, <1>1, <1>3, <1>4, <2>1, <2>2, <2>5, <3>2 DEF CrystalInv, Talking, Following, Silent
    <2>6. CASE step = "join"
      <3>1. toBot = <<"switchStart">> \o (Gaps(Gap) \o Battle)
        BY <2>1, <2>6, SendsFact
      <3>2. Gaps(Gap) \o Battle \in Seq(Msg)
        BY BattleFact, GapsFact
      <3>3. Head(toBot) = "switchStart" /\ Tail(toBot) = Gaps(Gap) \o Battle
        BY <3>1, <3>2, MsgFact, FrontFact
      <3>4. result' = "switchStart" /\ passed' = 0 /\ "switchStart" \in C!Awaited["join"]
        BY <1>0, <1>4, <2>2, <2>6, <3>3, AwaitedFact
      <3>5. Coming(Battle)'
        BY <1>1, <3>3, <3>4, AllComing
      <3> QED BY <1>0, <1>1, <1>3, <2>1, <2>6, <3>4, <3>5 DEF CrystalInv, Talking, Following, Silent
    <2> QED BY <1>4, <2>4, <2>5, <2>6 DEF C!Requests
  <1>5. CASE ~(step \in C!Requests /\ result = "none")
    <2>1. toServer = <<>> /\ Following
      BY <1>0, <1>5 DEF Talking
    <2>2. CASE step \in {"resources", "lobby", "switch"}
      <3>1. result = "none"
        BY <1>1, <2>1, <2>2 DEF Following, Silent
      <3>2. PICK m \in {"finished", "switchEnd"} :
              /\ Coming(<<m>>) /\ m \in C!Awaited[step]
              /\ m = "finished" <=> step = "resources"
        BY <2>1, <2>2, <3>1, AwaitedFact DEF Following
      <3> DEFINE t == <<m>>
      <3>3. t \in Seq(Msg) /\ t # <<>> /\ Head(t) = m /\ Tail(t) = <<>> /\ Coming(t)
        BY <3>2, TailsFact
      <3> HIDE DEF t
      <3>4. \/ result' = "none" /\ Coming(t)' /\ passed' = 0
            \/ result' = m /\ passed' = 0 /\ toBot' = <<>>
        BY <1>3, <3>1, <3>2, <3>3, NextComing
      <3>5. Talking' /\ (result' # "none" => result' \in C!Awaited[step]) => CrystalInv'
        <4>1. passed' = 0 /\ 0 \in Nat
          BY <3>4
        <4> QED BY <1>0, <1>1, <1>3, <2>2, <4>1 DEF CrystalInv
      <3>6. CASE result' = "none" /\ Coming(t)'
        <4>1. step = "resources" => Coming(<<"finished">>)'
          BY <2>2, <3>2, <3>6 DEF t
        <4>2. step # "resources" => Coming(<<"switchEnd">>)'
          BY <2>2, <3>2, <3>6 DEF t
        <4>3. Talking'
          BY <1>1, <2>1, <2>2, <3>6, <4>1, <4>2 DEF Talking, Following, Silent, C!Requests
        <4> QED BY <3>5, <3>6, <4>3
      <3>7. CASE result' = m /\ toBot' = <<>>
        <4>1. Talking'
          BY <1>1, <2>1, <2>2, <3>2, <3>7, TailsFact DEF Talking, Following, Silent, C!Requests
        <4> QED BY <3>2, <3>5, <3>7, <4>1
      <3> QED BY <3>4, <3>6, <3>7
    <2>3. CASE step \in {"login", "join"} \/ (step = "map" /\ result # "none")
      <3>1. result # "none" /\ step # "battle"
        BY <1>5, <2>3 DEF C!Requests
      <3>2. CASE step = "join"
        <4>1. UNCHANGED result /\ Coming(Battle)' /\ passed' \in Nat
          BY <1>3, <2>1, <3>1, <3>2, BattleFact, NextComing DEF Following
        <4> QED
          BY <1>0, <1>1, <1>3, <2>1, <3>1, <3>2, <4>1 DEF CrystalInv, Talking, Following, Silent
      <3>3. CASE step # "join"
        <4>1. Coming(<<"switchEnd">>) /\ (step = "login" => result = "success")
          BY <1>1, <2>1, <2>3, <3>1, <3>3 DEF Following, Silent
        <4>2. UNCHANGED result /\ Coming(<<"switchEnd">>)' /\ passed' \in Nat
          BY <1>3, <3>1, <4>1, TailsFact, NextComing
        <4> QED
          BY <1>0, <1>1, <1>3, <2>1, <2>3, <3>1, <3>3, <4>1, <4>2
          DEF CrystalInv, Talking, Following, Silent
      <3> QED BY <3>2, <3>3
    <2>4. CASE step = "map" /\ result = "none"
      <3>1. Coming(Battle) /\ "mapInfo" \in C!Awaited[step]
        BY <2>1, <2>4, AwaitedFact DEF Following
      <3>2. \/ result' = "none" /\ Coming(Battle)' /\ passed' = 0
            \/ result' = "mapInfo" /\ passed' = 0 /\ toBot' = Gaps(Gap) \o <<"switchEnd">>
        BY <1>3, <2>4, <3>1, BattleFact, NextComing
      <3>3. result' = "none" \/ Coming(<<"switchEnd">>)'
        <4>1. passed' \in Nat
          BY <3>2
        <4> QED BY <3>2, <4>1, AllComing
      <3> QED
        BY <1>0, <1>1, <1>3, <2>1, <2>4, <3>1, <3>2, <3>3
        DEF CrystalInv, Talking, Following, Silent, C!Requests
    <2>5. step # "select"
      BY <1>1, <1>5, <2>1 DEF Following, Silent
    <2> QED BY <1>3, <2>2, <2>3, <2>4, <2>5, AwaitedFact
  <1> QED BY <1>4, <1>5

(* The script gives up on its session, and on the account if it must.      *)
LEMMA Returns ==
    ASSUME NEW next \in {"connect", "banned"}, C!Return(next)
    PROVE  CrystalInv'
  <1>1. /\ step' = next /\ result' = "none" /\ passed' = 0 /\ spawner' = "none"
        /\ toBot' = <<>> /\ toServer' = <<>> /\ tank' = "none"
    BY DEF C!Return
  <1>2. next \in C!Steps /\ next \notin C!Requests
    BY DEF C!Steps, C!Requests
  <1>3. Talking'
    BY <1>1, <1>2 DEF Talking, Following, Silent
  <1> QED BY <1>1, <1>2, <1>3 DEF CrystalInv

(* The script goes on: it asks, or waits for what is coming.               *)
LEMMA TalkingCalls ==
    ASSUME CrystalInv, C!CallAnswered \/ C!PauseEnds
    PROVE  CrystalInv'
  <1>0. /\ step \in C!Calls \union {"pause"} /\ step # "battle" /\ Talking
        /\ result # "none" => step \in C!Calls /\ result \in C!Awaited[step]
    BY AwaitedFact DEF CrystalInv, C!CallAnswered, C!PauseEnds
  <1>1. /\ toServer = <<>> /\ Following /\ spawner = "none" /\ tank = "none"
        /\ step # "pause" => result # "none"
    BY <1>0 DEF Talking, C!CallAnswered, C!PauseEnds, C!Requests
  <1>2. {"login", "lobby", "pause", "select", "join", "map", "switch"} \subseteq C!Steps
    BY AwaitedFact DEF C!Steps
  (* A call that asks finds nothing on its way.                             *)
  <1>3. ASSUME NEW next \in C!Requests, C!GoOn(next), UNCHANGED spawner, toBot = <<>> PROVE CrystalInv'
    <2>1. /\ step' = next /\ result' = "none" /\ passed' = 0 /\ toServer' = <<next>>
          /\ UNCHANGED <<toBot, tank>>
      BY <1>1, <1>3 DEF C!GoOn
    <2>2. next \in C!Steps /\ next # "battle"
      BY <1>2 DEF C!Requests
    <2>3. Talking'
      BY <1>1, <1>3, <2>1 DEF Talking, Requested
    <2> QED BY <2>1, <2>2, <2>3 DEF CrystalInv
  (* One that does not leaves all as it is.                                 *)
  <1>4. ASSUME NEW next \in {"lobby", "pause", "map", "switch"}, C!GoOn(next), UNCHANGED spawner,
               next = "pause" => toBot = <<>>,
               next = "map" => Coming(Battle),
               next \in {"lobby", "switch"} => Coming(<<"switchEnd">>)
        PROVE  CrystalInv'
    <2>1. /\ step' = next /\ result' = "none" /\ passed' = 0
          /\ UNCHANGED <<toBot, toServer, tank>> /\ next \notin C!Requests
      BY <1>4 DEF C!GoOn, C!Requests
    <2>2. next = "map" => Coming(Battle)'
      BY <1>4, <2>1 DEF Coming, Battle
    <2>3. next \in {"lobby", "switch"} => Coming(<<"switchEnd">>)'
      BY <1>4, <2>1 DEF Coming
    <2>4. Talking'
      BY <1>1, <1>4, <2>1, <2>2, <2>3 DEF Talking, Following, Silent
    <2> QED BY <1>2, <2>1, <2>4 DEF CrystalInv
  <1>5. CASE C!PauseEnds
    <2>1. step = "pause" /\ C!GoOn("select") /\ UNCHANGED spawner
      BY <1>5 DEF C!PauseEnds
    <2>2. toBot = <<>> /\ "select" \in C!Requests
      BY <1>1, <2>1 DEF Following, Silent, C!Requests
    <2> QED BY <1>3, <2>1, <2>2
  <1>6. CASE C!CallAnswered
    <2>0. step \in C!Calls /\ result # "none" /\ result \in C!Awaited[step]
      BY <1>0, <1>6 DEF C!CallAnswered
    <2>1. CASE step = "resources"
      <3>1. C!GoOn("login") /\ UNCHANGED spawner
        BY <1>6, <2>1 DEF C!CallAnswered
      <3>2. toBot = <<>> /\ "login" \in C!Requests
        BY <1>1, <2>0, <2>1 DEF Following, Silent, C!Requests
      <3> QED BY <1>3, <3>1, <3>2
    <2>2. CASE step = "login" /\ result = "success"
      <3>1. C!GoOn("lobby") /\ UNCHANGED spawner
        BY <1>6, <2>2 DEF C!CallAnswered
      <3>2. Coming(<<"switchEnd">>)
        BY <1>1, <2>2 DEF Following
      <3> QED BY <1>4, <3>1, <3>2
    <2>3. CASE step = "login" /\ result # "success"
      <3>1. C!Return("banned") \/ C!Return("connect")
        BY <1>6, <2>3 DEF C!CallAnswered
      <3> QED BY <3>1, Returns
    <2>4. CASE step = "lobby"
      <3>1. C!GoOn("pause") /\ UNCHANGED spawner
        BY <1>6, <2>4 DEF C!CallAnswered
      <3>2. toBot = <<>>
        BY <1>1, <2>0, <2>4 DEF Following, Silent
      <3> QED BY <1>4, <3>1, <3>2
    <2>5. CASE step = "select"
      <3>1. CASE result = "selected"
        <4>1. C!GoOn("join") /\ UNCHANGED spawner
          BY <1>6, <2>5, <3>1 DEF C!CallAnswered
        <4>2. toBot = <<>> /\ "join" \in C!Requests
          BY <1>1, <2>5 DEF Following, Silent, C!Requests
        <4> QED BY <1>3, <4>1, <4>2
      <3>2. CASE result # "selected"
        BY <1>6, <2>5, <3>2, Returns DEF C!CallAnswered
      <3> QED BY <3>1, <3>2
    <2>6. CASE step = "join"
      <3>1. C!GoOn("map") /\ UNCHANGED spawner
        BY <1>6, <2>6 DEF C!CallAnswered
      <3>2. Coming(Battle)
        BY <1>1, <2>6 DEF Following
      <3> QED BY <1>4, <3>1, <3>2
    <2>7. CASE step = "map"
      <3>1. C!GoOn("switch") /\ UNCHANGED spawner
        BY <1>6, <2>7 DEF C!CallAnswered
      <3>2. Coming(<<"switchEnd">>)
        BY <1>1, <2>0, <2>7 DEF Following
      <3> QED BY <1>4, <3>1, <3>2
    <2>8. CASE step = "switch"
      <3>1. C!GoOn("battle") /\ spawner' = "Uninit"
        BY <1>6, <2>8 DEF C!CallAnswered
      <3>2. toBot = <<>>
        BY <1>1, <2>0, <2>8 DEF Following, Silent
      <3>3. /\ step' = "battle" /\ result' = "none" /\ passed' = 0
            /\ UNCHANGED <<toBot, toServer, tank>>
        BY <3>1 DEF C!GoOn, C!Requests
      <3> QED BY <1>1, <3>1, <3>2, <3>3 DEF CrystalInv, Spawning, C!Steps
    <2> QED BY <2>0, <2>1, <2>2, <2>3, <2>4, <2>5, <2>6, <2>7, <2>8, AwaitedFact
  <1> QED BY <1>5, <1>6

(* A connection: the resources are on their way.                           *)
LEMMA Connects ==
    ASSUME CrystalInv, C!Connect
    PROVE  CrystalInv'
  <1>1. /\ step = "connect" /\ Talking /\ result = "none" /\ passed = 0
    BY AwaitedFact DEF CrystalInv, C!Connect
  <1>2. /\ step' = "resources" /\ toBot' = Gaps(Gap) \o <<"finished">>
        /\ UNCHANGED <<result, passed, spawner, toServer, tank>>
    BY GapsFact DEF C!Connect
  <1>3. Coming(<<"finished">>)'
    BY <1>1, <1>2, AllComing
  <1>4. Talking'
    BY <1>1, <1>2, <1>3 DEF Talking, Following, Silent, C!Requests
  <1> QED BY <1>1, <1>2, <1>4, AwaitedFact DEF CrystalInv, C!Steps

(* Short queues, as they grow and shrink.                                  *)
LEMMA QueueFact ==
    /\ \A x : Append(<<>>, x) = <<x>> /\ Head(<<x>>) = x /\ Tail(<<x>>) = <<>>
    /\ \A x, y : /\ Append(<<x>>, y) = <<x, y>>
                 /\ Head(<<x, y>>) = x /\ Tail(<<x, y>>) = <<y>>
    /\ \A x, y, z : /\ Append(<<x, y>>, z) = <<x, y, z>>
                    /\ Head(<<x, y, z>>) = x /\ Tail(<<x, y, z>>) = <<y, z>>
  <1>1. \A x : Append(<<>>, x) = <<x>> /\ Head(<<x>>) = x /\ Tail(<<x>>) = <<>>
    OBVIOUS
  <1>2. ASSUME NEW x, NEW y
        PROVE  Append(<<x>>, y) = <<x, y>> /\ Head(<<x, y>>) = x /\ Tail(<<x, y>>) = <<y>>
    <2>1. Append(<<x>>, y) = <<x, y>>
      <3> DEFINE S == {x, y}
                 a == Append(<<x>>, y)
                 b == <<x, y>>
      <3>1. a \in Seq(S) /\ Len(a) = 2 /\ a[1] = x /\ a[2] = y
        OBVIOUS
      <3>2. b \in Seq(S) /\ Len(b) = 2 /\ b[1] = x /\ b[2] = y
        OBVIOUS
      <3> HIDE DEF a, b, S
      <3>3. a = b
        BY <3>1, <3>2, SeqEqual
      <3> QED BY <3>3 DEF a, b
    <2>2. Head(<<x, y>>) = x
      OBVIOUS
    <2>3. Tail(<<x, y>>) = <<y>>
      OBVIOUS
    <2> QED BY <2>1, <2>2, <2>3
  <1>3. ASSUME NEW x, NEW y, NEW z
        PROVE  /\ Append(<<x, y>>, z) = <<x, y, z>>
               /\ Head(<<x, y, z>>) = x /\ Tail(<<x, y, z>>) = <<y, z>>
    <2>1. Append(<<x, y>>, z) = <<x, y, z>>
      <3> DEFINE S == {x, y, z}
                 a == Append(<<x, y>>, z)
                 b == <<x, y, z>>
      <3>1. a \in Seq(S) /\ Len(a) = 3 /\ a[1] = x /\ a[2] = y /\ a[3] = z
        OBVIOUS
      <3>2. b \in Seq(S) /\ Len(b) = 3 /\ b[1] = x /\ b[2] = y /\ b[3] = z
        OBVIOUS
      <3> HIDE DEF a, b, S
      <3>3. a = b
        BY <3>1, <3>2, SeqEqual
      <3> QED BY <3>3 DEF a, b
    <2>2. Head(<<x, y, z>>) = x
      OBVIOUS
    <2>3. Tail(<<x, y, z>>) = <<y, z>>
      OBVIOUS
    <2> QED BY <2>1, <2>2, <2>3
  <1> QED BY <1>1, <1>2, <1>3

(* The spawner's turn.                                                     *)
LEMMA Spawns ==
    ASSUME CrystalInv, C!UpdateSpawner
    PROVE  CrystalInv'
  <1>1. /\ step = "battle" /\ Spawning /\ UNCHANGED <<step, result, passed, toBot, tank>>
        /\ \/ /\ spawner = "Uninit" /\ spawner' = "Dead" /\ toServer' = Append(toServer, "init")
           \/ /\ spawner = "Dead" /\ spawner' = "Placed" /\ toServer' = Append(toServer, "place")
           \/ /\ spawner = "Placed" /\ spawner' = "Activated"
              /\ toServer' = Append(toServer, "activate")
    BY DEF CrystalInv, C!UpdateSpawner, C!Spawn
  <1>2. UNCHANGED <<toBot, tank>> /\ spawner \in {"Uninit", "Dead", "Placed"}
    BY <1>1
  <1>3. ASSUME spawner = "Uninit" PROVE Spawning'
    <2>1. tank = "none" /\ toServer' = <<"init">> /\ toBot = <<>> /\ spawner' = "Dead"
      BY <1>1, <1>3, QueueFact DEF Spawning
    <2> QED BY <1>2, <2>1 DEF Spawning
  <1>4. ASSUME spawner = "Dead" PROVE Spawning'
    <2>1. toBot = <<>> /\ spawner' = "Placed"
      BY <1>1, <1>4 DEF Spawning
    <2>2. \/ tank = "none" /\ toServer' = <<"init", "place">>
          \/ Killed /\ toServer' \in {<<"place">>, <<"activate", "place">>}
      BY <1>1, <1>4, QueueFact DEF Spawning, Killed
    <2> QED BY <1>2, <2>1, <2>2 DEF Spawning, Killed
  <1>5. ASSUME spawner = "Placed" PROVE Spawning'
    <2>1. toBot = <<>> \/ toBot = <<"kill">>
      BY <1>1, <1>5 DEF Spawning
    <2>2. CASE toBot = <<>>
      <3>1. \/ tank = "none" /\ toServer = <<"init", "place">>
            \/ Killed /\ toServer \in {<<"place">>, <<"activate", "place">>}
            \/ tank \in {"placed", "left"} /\ toServer = <<>>
        BY <1>1, <1>5, <2>2 DEF Spawning, Killed
      <3>2. \/ tank = "none" /\ toServer' = <<"init", "place", "activate">>
            \/ Killed /\ toServer' \in {<<"place", "activate">>, <<"activate", "place", "activate">>}
            \/ tank \in {"placed", "left"} /\ toServer' = <<"activate">>
        BY <1>1, <1>5, <3>1, QueueFact DEF Killed
      <3> QED BY <1>1, <1>2, <1>5, <2>2, <3>2 DEF Spawning, Killed
    <2>3. CASE toBot = <<"kill">>
      <3>1. Killed /\ toServer = <<>>
        BY <1>1, <1>5, <2>3 DEF Spawning, Killed
      <3>2. spawner' = "Activated" /\ toServer' = <<"activate">>
        BY <1>1, <1>5, <3>1, QueueFact
      <3> QED BY <1>2, <2>3, <3>1, <3>2 DEF Spawning, Killed
    <2> QED BY <2>1, <2>2, <2>3
  <1> QED BY <1>1, <1>2, <1>3, <1>4, <1>5 DEF CrystalInv

(* In the battle the bot sees its tank killed, and nothing else.           *)
LEMMA BattleDispatch ==
    ASSUME CrystalInv, step = "battle", C!Dispatch
    PROVE  CrystalInv'
  <1>1. step \notin C!Calls /\ result = "none" /\ passed = 0 /\ Spawning
    BY AwaitedFact DEF CrystalInv
  <1>2. /\ toBot # <<>> /\ toBot' = Tail(toBot) /\ UNCHANGED <<step, toServer, tank, result>>
        /\ passed' = 0
    BY <1>1 DEF C!Dispatch
  <1>3. /\ Killed /\ spawner \in {"Placed", "Activated"} /\ toServer \in {<<>>, <<"activate">>}
        /\ toBot = <<"kill">>
    BY <1>1, <1>2 DEF Spawning, Killed
  <1>4. spawner' = "Dead" /\ toBot' = <<>>
    <2>1. Head(toBot) = "kill" /\ Tail(toBot) = <<>>
      BY <1>3, QueueFact
    <2> QED BY <1>2, <1>3, <2>1 DEF C!Dispatch, C!TankKilled
  <1>5. Spawning'
    BY <1>2, <1>3, <1>4 DEF Spawning, Killed
  <1> QED BY <1>1, <1>2, <1>5 DEF CrystalInv

(* What becomes of the tank, where the spawner's requests are in turn.     *)
LEMMA TankAfterFact ==
    /\ tank = "none" => C!TankAfter("init") = {"waiting"}
    /\ Killed => C!TankAfter("place") \subseteq {"placed", "left"}
    /\ Killed \/ tank = "left" => C!TankAfter("activate") = {tank}
    /\ tank = "placed" => C!TankAfter("activate") = {"active"}
  BY DEF C!TankAfter, Killed

(* The server takes the next request.                                      *)
LEMMA Receives ==
    ASSUME CrystalInv, C!ServerReceives
    PROVE  CrystalInv'
  <1>1. /\ toServer # <<>> /\ toServer' = Tail(toServer)
        /\ UNCHANGED <<step, result, passed, spawner>>
    BY DEF C!ServerReceives, C!botVars
  <1>2. IF Head(toServer) \in C!Requests
        THEN (\E q \in C!Sends(Head(toServer)) : toBot' = toBot \o q) /\ UNCHANGED tank
        ELSE tank' \in C!TankAfter(Head(toServer)) /\ UNCHANGED toBot
    BY DEF C!ServerReceives
  <1>3. CASE step = "battle"
    <2>1. Spawning
      BY <1>3 DEF CrystalInv
    <2>2. Head(toServer) \in {"init", "place", "activate"}
      <3>1. toServer \in {<<"init">>, <<"place">>, <<"activate">>, <<"init", "place">>,
                          <<"activate", "place">>, <<"place", "activate">>,
                          <<"init", "place", "activate">>, <<"activate", "place", "activate">>}
        BY <1>1, <2>1 DEF Spawning
      <3> QED BY <3>1, QueueFact
    <2>3. tank' \in C!TankAfter(Head(toServer)) /\ UNCHANGED <<spawner, toBot>>
      BY <1>1, <1>2, <2>2 DEF C!Requests
    <2>4. Spawning'
      <3>1. CASE tank = "none"
        <4>1. \/ /\ toBot = <<>> /\ spawner = "Dead" /\ toServer = <<"init">>
              \/ /\ toBot = <<>> /\ spawner = "Placed" /\ toServer = <<"init", "place">>
              \/ /\ toBot = <<>> /\ spawner = "Activated" /\ toServer = <<"init", "place", "activate">>
          BY <1>1, <2>1, <3>1 DEF Spawning, Killed
        <4>2. tank' = "waiting"
          BY <2>3, <3>1, <4>1, QueueFact, TankAfterFact
        <4>3. /\ toBot' = <<>>
              /\ \/ spawner' = "Dead" /\ toServer' = <<>>
                 \/ spawner' = "Placed" /\ toServer' = <<"place">>
                 \/ spawner' = "Activated" /\ toServer' = <<"place", "activate">>
          <5>1. /\ Tail(<<"init">>) = <<>> /\ Tail(<<"init", "place">>) = <<"place">>
                /\ Tail(<<"init", "place", "activate">>) = <<"place", "activate">>
            BY QueueFact
          <5> QED BY <1>1, <2>3, <4>1, <5>1
        <4> QED BY <4>2, <4>3 DEF Spawning, Killed
      <3>2. CASE Killed /\ Head(toServer) = "place"
        <4>1. \/ toBot = <<>> /\ spawner = "Placed" /\ toServer = <<"place">>
              \/ toBot = <<>> /\ spawner = "Activated" /\ toServer = <<"place", "activate">>
          <5>1. toServer # <<"activate">> /\ toServer # <<"activate", "place">>
                /\ toServer # <<"activate", "place", "activate">>
            BY <3>2, QueueFact
          <5> QED BY <1>1, <2>1, <3>2, <5>1 DEF Spawning, Killed
        <4>2. tank' \in {"placed", "left"}
          BY <2>3, <3>2, TankAfterFact
        <4>3. /\ toBot' = <<>>
              /\ \/ spawner' = "Placed" /\ toServer' = <<>>
                 \/ spawner' = "Activated" /\ toServer' = <<"activate">>
          BY <1>1, <2>3, <4>1, QueueFact
        <4> QED BY <4>2, <4>3 DEF Spawning
      <3>3. CASE Killed /\ Head(toServer) = "activate"
        <4>1. \/ toBot = <<>> /\ spawner = "Dead" /\ toServer = <<"activate">>
              \/ toBot = <<>> /\ spawner = "Placed" /\ toServer = <<"activate", "place">>
              \/ toBot = <<>> /\ spawner = "Activated" /\ toServer = <<"activate", "place", "activate">>
              \/ toBot = <<"kill">> /\ spawner = "Activated" /\ toServer = <<"activate">>
          <5>1. toServer # <<"place">> /\ toServer # <<"place", "activate">>
            BY <3>3, QueueFact
          <5> QED BY <1>1, <2>1, <3>3, <5>1 DEF Spawning, Killed
        <4>2. Killed'
          BY <2>3, <3>3, TankAfterFact DEF Killed
        <4>3. \/ toBot' = <<>> /\ spawner' = "Dead" /\ toServer' = <<>>
              \/ toBot' = <<>> /\ spawner' = "Placed" /\ toServer' = <<"place">>
              \/ toBot' = <<>> /\ spawner' = "Activated" /\ toServer' = <<"place", "activate">>
              \/ toBot' = <<"kill">> /\ spawner' = "Activated" /\ toServer' = <<>>
          <5>1. toServer' = Tail(toServer) /\ toBot' = toBot /\ spawner' = spawner
            BY <1>1, <2>3
          <5>2. /\ Tail(<<"activate">>) = <<>> /\ Tail(<<"activate", "place">>) = <<"place">>
                /\ Tail(<<"activate", "place", "activate">>) = <<"place", "activate">>
            BY QueueFact
          <5> QED BY <4>1, <5>1, <5>2
        <4> QED BY <4>2, <4>3 DEF Spawning
      <3>4. CASE tank \in {"placed", "left", "active"}
        <4>1. tank # "active" /\ toBot = <<>> /\ spawner = "Activated" /\ toServer = <<"activate">>
          BY <1>1, <2>1, <3>4 DEF Spawning, Killed
        <4>2. tank' \in {"active", "left"}
          BY <2>3, <3>4, <4>1, QueueFact, TankAfterFact
        <4>3. toBot' = <<>> /\ spawner' = "Activated" /\ toServer' = <<>>
          BY <1>1, <2>3, <4>1, QueueFact
        <4> QED BY <4>2, <4>3 DEF Spawning
      <3>5. tank = "none" \/ Killed \/ tank \in {"placed", "left", "active"}
        BY <2>1 DEF Spawning, Killed
      <3>6. Killed => Head(toServer) \in {"place", "activate"}
        <4>1. Killed => toServer \in {<<"place">>, <<"activate">>, <<"activate", "place">>,
                                     <<"place", "activate">>, <<"activate", "place", "activate">>}
          BY <1>1, <2>1 DEF Spawning, Killed
        <4> QED BY <4>1, QueueFact
      <3> QED BY <3>1, <3>2, <3>3, <3>4, <3>5, <3>6
    <2> QED BY <1>1, <1>3, <2>4 DEF CrystalInv
  <1>4. CASE step # "battle"
    <2>1. /\ step \in C!Requests /\ result = "none" /\ Requested /\ spawner = "none" /\ tank = "none"
      BY <1>1, <1>4 DEF CrystalInv, Talking
    <2>2. toServer = <<step>> /\ toBot = <<>>
      BY <1>1, <2>1 DEF Requested
    <2>3. Head(toServer) = step /\ toServer' = <<>>
      BY <1>1, <2>2
    <2>4. UNCHANGED tank /\ \E q \in C!Sends(step) : toBot' = <<>> \o q
      BY <1>2, <2>1, <2>2, <2>3
    <2>5. \A q \in C!Sends(step) : <<>> \o q = q
      <3>1. C!Sends(step) \subseteq Seq(Msg)
        BY <2>1, AnswersFact
      <3> QED BY <3>1, ConcatEmptySeq
    <2>6. toBot' \in C!Sends(step)
      BY <2>4, <2>5
    <2>7. C!Sends(step)' = C!Sends(step)
      BY <1>1 DEF C!Sends, C!Others
    <2>8. Talking'
      BY <1>1, <2>1, <2>3, <2>4, <2>6, <2>7 DEF Talking, Requested
    <2> QED BY <1>1, <1>4, <2>8 DEF CrystalInv
  <1> QED BY <1>3, <1>4

(* A kill takes a tank that is placed, and may meet an activation of it.   *)
LEMMA Kills ==
    ASSUME CrystalInv, C!ServerKills
    PROVE  CrystalInv'
  <1>1. /\ tank \in {"placed", "active"} /\ tank' = "dead" /\ toBot' = Append(toBot, "kill")
        /\ UNCHANGED <<step, result, passed, spawner, toServer>>
    BY DEF C!ServerKills, C!botVars
  <1>2. step = "battle" /\ Spawning
    BY <1>1 DEF CrystalInv, Talking
  <1>3. /\ toBot = <<>>
        /\ \/ spawner = "Placed" /\ toServer = <<>>
           \/ spawner = "Activated" /\ toServer \in {<<>>, <<"activate">>}
    BY <1>1, <1>2 DEF Spawning, Killed
  <1>4. toBot' = <<"kill">> /\ Killed'
    BY <1>1, <1>3, QueueFact DEF Killed
  <1>5. Spawning'
    BY <1>1, <1>3, <1>4 DEF Spawning
  <1> QED BY <1>1, <1>2, <1>5 DEF CrystalInv

(* The respawn delay of a dead tank ends.                                  *)
LEMMA Revives ==
    ASSUME CrystalInv, C!ServerRevives
    PROVE  CrystalInv'
  <1>1. /\ tank = "dead" /\ tank' = "waiting"
        /\ UNCHANGED <<step, result, passed, spawner, toServer, toBot>>
    BY DEF C!ServerRevives, C!botVars
  <1>2. step = "battle" /\ Spawning
    BY <1>1 DEF CrystalInv, Talking
  <1>3. Spawning'
    BY <1>1, <1>2 DEF Spawning, Killed
  <1> QED BY <1>1, <1>2, <1>3 DEF CrystalInv

(* Nothing that the invariant speaks of changes.                           *)
LEMMA CrystalRests ==
    ASSUME CrystalInv, UNCHANGED <<step, result, passed, spawner, toBot, toServer, tank>>
    PROVE  CrystalInv'
  BY DEF CrystalInv, Talking, Requested, Following, Silent, Coming, Battle, Spawning, Killed, C!Sends,
    C!Others

LEMMA CrystalNext == CrystalInv /\ [C!Next]_crystalBotVars => CrystalInv'
  <1> SUFFICES ASSUME CrystalInv, [C!Next]_crystalBotVars PROVE CrystalInv'
    OBVIOUS
  <1>1. CASE C!Connect
    BY <1>1, Connects
  <1>2. CASE C!CallAnswered \/ C!PauseEnds
    BY <1>2, TalkingCalls
  <1>3. CASE C!SessionOver
    BY <1>3, Returns DEF C!SessionOver
  <1>4. CASE C!Dispatch
    BY <1>4, TalkingDispatch, BattleDispatch
  <1>5. CASE C!UpdateSpawner
    BY <1>5, Spawns
  <1>6. CASE C!ServerReceives
    BY <1>6, Receives
  <1>7. CASE C!ServerKills
    BY <1>7, Kills
  <1>8. CASE C!SessionEnds
    BY <1>8, CrystalRests DEF C!SessionEnds
  <1>9. CASE UNCHANGED crystalBotVars
    BY <1>9, CrystalRests DEF crystalBotVars
  <1>10. CASE C!ServerRevives
    BY <1>10, Revives
  <1> QED BY <1>1, <1>2, <1>3, <1>4, <1>5, <1>6, <1>7, <1>8, <1>9, <1>10 DEF C!Next, C!Bot

LEMMA CrystalInit == C!Init => CrystalInv
  <1> SUFFICES ASSUME C!Init PROVE CrystalInv
    OBVIOUS
  <1>1. Talking
    BY DEF C!Init, Talking, Following, Silent, C!Requests
  <1> QED BY <1>1 DEF C!Init, CrystalInv, C!Steps

(* A packet that is coming is among those on their way.                    *)
LEMMA ComingArrives ==
    ASSUME NEW tail \in Seq(Msg), tail # <<>>, Coming(tail)
    PROVE  \E i \in DOMAIN toBot : toBot[i] = Head(tail)
  <1>1. PICK n \in Nat : toBot = Gaps(n) \o tail
    BY DEF Coming
  <1> QED BY <1>1, GapsFirst

(* What is in a short queue.                                               *)
LEMMA OnItsWayFact ==
    /\ \A x : C!OnItsWay(x, <<x>>)
    /\ \A x, y : C!OnItsWay(x, <<x, y>>) /\ C!OnItsWay(y, <<x, y>>)
    /\ \A x, y, z : C!OnItsWay(x, <<x, y, z>>) /\ C!OnItsWay(y, <<x, y, z>>)
  <1>1. \A x : 1 \in DOMAIN <<x>> /\ <<x>>[1] = x
    OBVIOUS
  <1>2. \A x, y : /\ 1 \in DOMAIN <<x, y>> /\ <<x, y>>[1] = x
                  /\ 2 \in DOMAIN <<x, y>> /\ <<x, y>>[2] = y
    OBVIOUS
  <1>3. \A x, y, z : /\ 1 \in DOMAIN <<x, y, z>> /\ <<x, y, z>>[1] = x
                     /\ 2 \in DOMAIN <<x, y, z>> /\ <<x, y, z>>[2] = y
    OBVIOUS
  <1> QED BY <1>1, <1>2, <1>3, Zenon DEF C!OnItsWay

LEMMA CrystalSuffices == CrystalInv => SpawnsInTurn /\ NothingMissed
  <1> SUFFICES ASSUME CrystalInv PROVE SpawnsInTurn /\ NothingMissed
    OBVIOUS
  <1>1. SpawnsInTurn
    <2>1. tank # "refused"
      BY DEF CrystalInv, Talking, Spawning, Killed
    <2>2. ASSUME step = "battle", tank = "none"
          PROVE  spawner = "Uninit" \/ C!OnItsWay("init", toServer)
      <3>1. \/ spawner = "Uninit"
            \/ toServer \in {<<"init">>, <<"init", "place">>, <<"init", "place", "activate">>}
        BY <2>2 DEF CrystalInv, Spawning, Killed
      <3> QED BY <3>1, OnItsWayFact
    <2>3. ASSUME step = "battle", tank \in {"waiting", "dead"}
          PROVE  spawner = "Dead" \/ C!OnItsWay("place", toServer) \/ C!OnItsWay("kill", toBot)
      <3>1. \/ spawner = "Dead" \/ toBot = <<"kill">>
            \/ toServer \in {<<"place">>, <<"activate", "place">>, <<"place", "activate">>,
                             <<"activate", "place", "activate">>}
        BY <2>3 DEF CrystalInv, Spawning, Killed
      <3> QED BY <3>1, OnItsWayFact
    <2>4. ASSUME step = "battle", tank = "placed"
          PROVE  spawner = "Placed" \/ C!OnItsWay("activate", toServer)
      <3>1. spawner = "Placed" \/ toServer = <<"activate">>
        BY <2>4 DEF CrystalInv, Spawning, Killed
      <3> QED BY <3>1, OnItsWayFact
    <2> QED BY <2>1, <2>2, <2>3, <2>4 DEF SpawnsInTurn, C!SpawnsInTurn
  <1>2. ASSUME step \in C!Calls, result = "none"
        PROVE  \/ \E i \in DOMAIN toServer : toServer[i] = step
               \/ \E i \in DOMAIN toBot : toBot[i] \in C!Awaited[step]
    <2>0. step # "battle" /\ Talking
      BY <1>2, AwaitedFact DEF CrystalInv
    <2>1. CASE step \in C!Requests
      <3>1. CASE toServer = <<step>>
        <4>1. 1 \in DOMAIN toServer /\ toServer[1] = step
          BY <3>1
        <4> QED BY <4>1
      <3>2. CASE toBot \in C!Sends(step)
        <4>1. toBot \in Seq(Msg) /\ toBot # <<>> /\ Head(toBot) \in C!Awaited[step]
          BY <2>1, <3>2, AnswersFact
        <4>2. 1 \in DOMAIN toBot /\ toBot[1] = Head(toBot)
          BY <4>1
        <4> QED BY <4>1, <4>2
      <3> QED BY <1>2, <2>0, <2>1, <3>1, <3>2 DEF Talking, Requested
    <2>2. CASE step \notin C!Requests
      <3>1. Following
        BY <2>0, <2>2 DEF Talking
      <3>2. \/ step = "resources" /\ Coming(<<"finished">>)
            \/ step \in {"lobby", "switch"} /\ Coming(<<"switchEnd">>)
            \/ step = "map" /\ Coming(Battle)
        BY <1>2, <2>2, <3>1, AwaitedFact DEF Following, C!Requests
      <3>3. PICK tail \in Seq(Msg) : tail # <<>> /\ Head(tail) \in C!Awaited[step] /\ Coming(tail)
        BY <3>2, TailsFact, BattleFact, AwaitedFact
      <3> QED BY <3>3, ComingArrives
    <2> QED BY <2>1, <2>2
  <1> QED BY <1>1, <1>2 DEF NothingMissed, C!NothingMissed, C!OnItsWay

LEMMA ConversationHolds == Spec => []CrystalInv
  <1>1. Init => CrystalInv
    BY CrystalInit DEF Init
  <1>2. CrystalInv /\ [Next]_vars => CrystalInv'
    BY CrystalNext, StepOfOne
  <1> QED BY <1>1, <1>2, PTL DEF Spec

(* However kills cross the spawner's requests on the wire, no tank is      *)
(* forgotten: the next request is on its way or about to be made, or the   *)
(* kill has still to be seen.  And but for an activation that a kill has   *)
(* overtaken, what its handlers send arrives in turn.                      *)
THEOREM Spawner == Spec => []SpawnsInTurn
  <1>1. CrystalInv => SpawnsInTurn
    BY CrystalSuffices
  <1> QED BY <1>1, ConversationHolds, PTL

(* create_shot_bot never awaits a packet that has gone by: what the call   *)
(* at hand accepts is on its way, or the request that asks for it is.      *)
THEOREM Script == Spec => []NothingMissed
  <1>1. CrystalInv => NothingMissed
    BY CrystalSuffices
  <1> QED BY <1>1, ConversationHolds, PTL

(* What CrystalInv does not say: the counts, and a session that is over.   *)
CrystalCounts ==
    /\ passed \in 0..1 /\ ended \in BOOLEAN
    /\ sessions \in 0..MaxSessions /\ kills \in 0..MaxKills

LEMMA CrystalCountsStep == CrystalCounts /\ [C!Next]_crystalBotVars => CrystalCounts'
  <1> SUFFICES ASSUME CrystalCounts, [C!Next]_crystalBotVars PROVE CrystalCounts'
    OBVIOUS
  <1> USE DEF CrystalCounts
  <1>1. CASE C!Connect
    BY <1>1, ApplicationsAssumption DEF C!Connect
  <1>2. CASE C!CallAnswered \/ C!PauseEnds \/ C!SessionOver
    <2>1. (\E s \in C!Steps : C!GoOn(s)) \/ (\E s \in C!Steps : C!Return(s))
      BY <1>2, AwaitedFact DEF C!CallAnswered, C!PauseEnds, C!SessionOver, C!Steps
    <2>2. passed' = 0 /\ (UNCHANGED ended \/ ended' = FALSE) /\ UNCHANGED <<sessions, kills>>
      BY <2>1 DEF C!GoOn, C!Return
    <2>3. passed' \in 0..1 /\ sessions' \in 0..MaxSessions /\ kills' \in 0..MaxKills
      BY <2>2
    <2>4. ended' \in BOOLEAN
      BY <2>2, Zenon
    <2> QED BY <2>3, <2>4
  <1>3. CASE C!Dispatch
    <2>1. UNCHANGED <<ended, sessions, kills>>
      BY <1>3 DEF C!Dispatch
    <2>2. /\ result = "none" \/ passed = 0
          /\ passed' \in {passed, 0, IF result = "none" THEN 0 ELSE passed + 1}
      BY <1>3 DEF C!Dispatch, C!CanDispatch
    <2> QED BY <2>1, <2>2
  <1>4. CASE C!UpdateSpawner
    BY <1>4 DEF C!UpdateSpawner, C!Spawn
  <1>5. CASE C!ServerReceives
    BY <1>5 DEF C!ServerReceives, C!botVars
  <1>6. CASE C!ServerKills
    BY <1>6, ApplicationsAssumption DEF C!ServerKills, C!botVars
  <1>7. CASE C!SessionEnds
    BY <1>7 DEF C!SessionEnds
  <1>8. CASE UNCHANGED crystalBotVars
    BY <1>8 DEF crystalBotVars
  <1>9. CASE C!ServerRevives
    BY <1>9 DEF C!ServerRevives, C!botVars
  <1> QED BY <1>1, <1>2, <1>3, <1>4, <1>5, <1>6, <1>7, <1>8, <1>9 DEF C!Next, C!Bot

(* What is coming are packets.                                             *)
LEMMA ComingIsPackets ==
    ASSUME NEW tail \in Seq(Msg), Coming(tail)
    PROVE  toBot \in Seq(Msg)
  <1>1. PICK n \in Nat : toBot = Gaps(n) \o tail
    BY DEF Coming
  <1>2. Gaps(n) \in Seq(Msg)
    BY GapsFact
  <1> QED BY <1>1, <1>2, ConcatProperties

(* Before the battle only requests and their answers are on the wire.      *)
LEMMA TalkingWires ==
    ASSUME CrystalInv, step # "battle"
    PROVE  toBot \in Seq(Msg) /\ toServer \in Seq(C!Requests)
  <1>0. Talking /\ step \in C!Steps /\ (result # "none" => step \in C!Calls /\ result \in C!Awaited[step])
    BY DEF CrystalInv
  <1>1. CASE step \in C!Requests /\ result = "none"
    <2>1. Requested
      BY <1>0, <1>1 DEF Talking
    <2>2. toServer = <<step>> \/ toServer = <<>>
      BY <2>1 DEF Requested
    <2>3. toBot = <<>> \/ toBot \in C!Sends(step)
      BY <2>1 DEF Requested
    <2>4. toServer \in Seq(C!Requests)
      <3>1. \A c \in C!Requests : <<c>> \in Seq(C!Requests)
        OBVIOUS
      <3>2. <<>> \in Seq(C!Requests)
        OBVIOUS
      <3> QED BY <1>1, <2>2, <3>1, <3>2
    <2>5. toBot \in Seq(Msg)
      <3>1. \A q \in C!Sends(step) : q \in Seq(Msg)
        BY <1>1, AnswersFact, Zenon
      <3>2. <<>> \in Seq(Msg)
        OBVIOUS
      <3> QED BY <2>3, <3>1, <3>2
    <2> QED BY <2>4, <2>5
  <1>2. CASE ~(step \in C!Requests /\ result = "none")
    <2>1. toServer = <<>> /\ Following
      BY <1>0, <1>2 DEF Talking
    <2>2. \/ Coming(<<"finished">>)
          \/ Coming(<<"switchEnd">>)
          \/ Coming(Battle)
          \/ toBot = <<>>
      <3>1. step \in {"connect", "banned", "pause", "select", "resources", "login", "lobby", "join",
                      "map", "switch"}
        BY <1>0, AwaitedFact DEF C!Steps
      <3> QED BY <1>2, <2>1, <3>1 DEF Following, Silent, C!Requests
    <2>3. {<<"finished">>, <<"switchEnd">>, Battle} \subseteq Seq(Msg)
      BY TailsFact, BattleFact
    <2>4. toBot \in Seq(Msg)
      <3>1. \A tail \in Seq(Msg) : Coming(tail) => toBot \in Seq(Msg)
        BY ComingIsPackets
      <3>2. <<>> \in Seq(Msg)
        OBVIOUS
      <3> HIDE DEF Battle
      <3> QED BY ONLY <2>2, <2>3, <3>1, <3>2
    <2> QED BY <2>1, <2>4
  <1> QED BY <1>1, <1>2

(* In the battle the spawner's requests are, and a kill.                   *)
LEMMA SpawningWires ==
    ASSUME CrystalInv, step = "battle"
    PROVE  toBot \in Seq(Msg) /\ toServer \in Seq({"init", "place", "activate"})
  <1>1. Spawning
    BY DEF CrystalInv
  <1>2. toBot = <<>> \/ toBot = <<"kill">>
    BY <1>1 DEF Spawning
  <1>3. toServer \in {<<>>, <<"init">>, <<"place">>, <<"activate">>, <<"init", "place">>,
                      <<"activate", "place">>, <<"place", "activate">>,
                      <<"init", "place", "activate">>, <<"activate", "place", "activate">>}
    BY <1>1 DEF Spawning
  <1>4. <<>> \in Seq(Msg) /\ <<"kill">> \in Seq(Msg)
    BY MsgFact
  <1> DEFINE S == {"init", "place", "activate"}
  <1>5. /\ <<>> \in Seq(S)
        /\ \A a, b, c \in S : {<<a>>, <<a, b>>, <<a, b, c>>} \subseteq Seq(S)
    <2> HIDE DEF S
    <2> QED OBVIOUS
  <1>6. {"init", "place", "activate"} \subseteq S
    OBVIOUS
  <1>7. toServer \in Seq(S)
    <2> HIDE DEF S
    <2> QED BY <1>3, <1>5, <1>6
  <1> QED BY <1>2, <1>4, <1>7

LEMMA CrystalTypes == CrystalInv /\ CrystalCounts => C!TypeOK
  <1> SUFFICES ASSUME CrystalInv, CrystalCounts PROVE C!TypeOK
    OBVIOUS
  <1>1. result \in C!Replies \union {"none"}
    BY DEF CrystalInv, C!Replies
  <1>2. spawner \in {"none", "Uninit", "Dead", "Placed", "Activated"}
        /\ tank \in {"none", "waiting", "placed", "active", "dead", "left", "refused"}
    BY DEF CrystalInv, Talking, Spawning, Killed
  <1>3. toBot \in Seq(C!Replies \union {"other", "kill"})
    BY TalkingWires, SpawningWires DEF Msg
  <1>4. toServer \in Seq(C!Requests \union {"init", "place", "activate"})
    <2>1. toServer \in Seq(C!Requests) \/ toServer \in Seq({"init", "place", "activate"})
      BY TalkingWires, SpawningWires
    <2> QED BY <2>1
  <1>5. step \in C!Steps
    BY DEF CrystalInv
  <1> QED BY <1>1, <1>2, <1>3, <1>4, <1>5 DEF CrystalCounts, C!TypeOK

LEMMA CrystalTypesHold == Spec => []C!TypeOK
  <1>1. Init => CrystalCounts
    <2> SUFFICES ASSUME C!Init PROVE CrystalCounts
      BY DEF Init
    <2>1. passed = 0 /\ ended = FALSE /\ sessions = 0 /\ kills = 0
      BY DEF C!Init
    <2>2. passed \in 0..1 /\ sessions \in 0..MaxSessions /\ kills \in 0..MaxKills
      BY <2>1, ApplicationsAssumption
    <2>3. ended \in BOOLEAN
      BY <2>1, Zenon
    <2> QED BY <2>2, <2>3 DEF CrystalCounts
  <1>2. CrystalCounts /\ [Next]_vars => CrystalCounts'
    BY CrystalCountsStep, StepOfOne
  <1> QED BY <1>1, <1>2, CrystalTypes, ConversationHolds, PTL DEF Spec

-----------------------------------------------------------------------------
(* All three.                                                              *)

(* Every variable has its type.  A worker of the register bot never makes  *)
(* more attempts at a name, or tries at a captcha, than the code allows;   *)
(* a call of the crystal bot dispatches one packet at most behind its      *)
(* answer, and on its wires is only what the script, the spawner and the   *)
(* server say.                                                             *)
THEOREM TypesCorrect == Spec => [](C!TypeOK /\ R!TypeOK /\ P!TypeOK)
  BY CrystalTypesHold, RegisterTypesHold, RelayTypesHold, PTL

=============================================================================
