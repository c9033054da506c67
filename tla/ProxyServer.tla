---------------------------- MODULE ProxyServer -----------------------------
(***************************************************************************)
(* One session of the proxy (applications/proxy-server/src/main.rs): two   *)
(* connections, one to a client and one to the server, joined by a select  *)
(* loop that passes every packet on.  A connection keeps the promises of   *)
(* Connection: packets arrive in order, and after one that cannot be read  *)
(* it is over.                                                             *)
(***************************************************************************)
EXTENDS Naturals, Sequences, SequencesExt

CONSTANT MaxSent  \* bound: packets either peer sends

Sides == {"client", "server"}
Other(s) == IF s = "client" THEN "server" ELSE "client"

(* A packet is known by its number and whether it can be read.             *)
Packet == [number: 1..MaxSent, readable: BOOLEAN]

VARIABLES
    stage,     \* of proxy_client
    setup,     \* init_encryption of each connection
    latched,   \* a connection that yields no packets any more
    closed,    \* a peer that has ended
    sent,      \* the packets each peer has sent
    arriving,  \* those that the proxy has not read yet
    unsent,    \* send_buffer of the connection to each peer
    received   \* what each peer has received

peers == <<closed, sent>>
relayVars == <<stage, setup, latched, peers, arriving, unsent, received>>

TypeOK ==
    /\ stage \in {"setup", "relaying", "over"}
    /\ setup \in [Sides -> {"pending", "ok", "failed"}]
    /\ latched \in [Sides -> BOOLEAN] /\ closed \in [Sides -> BOOLEAN]
    /\ \A s \in Sides : /\ sent[s] \in Seq(Packet) /\ arriving[s] \in Seq(Packet)
                        /\ unsent[s] \in Seq(Packet) /\ received[s] \in Seq(Packet)

Init ==
    /\ stage = "setup"
    /\ setup = [s \in Sides |-> "pending"]
    /\ latched = [s \in Sides |-> FALSE] /\ closed = [s \in Sides |-> FALSE]
    /\ sent = [s \in Sides |-> <<>>] /\ arriving = [s \in Sides |-> <<>>]
    /\ unsent = [s \in Sides |-> <<>>] /\ received = [s \in Sides |-> <<>>]

-----------------------------------------------------------------------------
(* The peers.                                                              *)

PeerSends(s) ==
    /\ Len(sent[s]) < MaxSent /\ ~closed[s]
    /\ \E readable \in BOOLEAN :
         LET packet == [number |-> Len(sent[s]) + 1, readable |-> readable] IN
           /\ sent' = [sent EXCEPT ![s] = Append(@, packet)]
           /\ arriving' = [arriving EXCEPT ![s] = Append(@, packet)]
    /\ UNCHANGED <<stage, setup, latched, closed, unsent, received>>

PeerCloses(s) ==
    /\ ~closed[s]
    /\ closed' = [closed EXCEPT ![s] = TRUE]
    /\ UNCHANGED <<stage, setup, latched, sent, arriving, unsent, received>>

-----------------------------------------------------------------------------
(* proxy_client.                                                           *)

(* One half of the join!: the ciphers are agreed on, or the peer fails.    *)
InitEncryption(s) ==
    /\ stage = "setup" /\ setup[s] = "pending"
    /\ \/ setup' = [setup EXCEPT ![s] = "ok"] /\ ~closed[s]
       \/ setup' = [setup EXCEPT ![s] = "failed"]
    /\ UNCHANGED <<stage, latched, peers, arriving, unsent, received>>

(* The join! waits for both, also when one of them has failed.             *)
Joined ==
    /\ stage = "setup" /\ \A s \in Sides : setup[s] # "pending"
    /\ stage' = IF \A s \in Sides : setup[s] = "ok" THEN "relaying" ELSE "over"
    /\ UNCHANGED <<setup, latched, peers, arriving, unsent, received>>

(* Mutant of SendPacket: a packet finds no room while another waits.            *)
SendPacketWhenIdle(s, packet) ==
    unsent' = IF unsent[Other(s)] = <<>>
              THEN [unsent EXCEPT ![Other(s)] = Append(@, packet)] ELSE unsent

SendPacket(s, packet) == unsent' = [unsent EXCEPT ![Other(s)] = Append(@, packet)]

(* One turn of the select!, whose branches are tried in random order: a    *)
(* packet is passed on, an error is not.                                   *)
RelayNext(s) ==
    /\ stage = "relaying" /\ ~latched[s] /\ arriving[s] # <<>>
    /\ LET packet == Head(arriving[s]) IN
         IF packet.readable
         THEN SendPacket(s, packet) /\ UNCHANGED latched
         ELSE latched' = [latched EXCEPT ![s] = TRUE] /\ UNCHANGED unsent
    /\ arriving' = [arriving EXCEPT ![s] = Tail(@)]
    /\ UNCHANGED <<stage, setup, peers, received>>

(* None from either breaks the loop and drops both connections, with what  *)
(* is unsent.                                                              *)
Disconnect(s) ==
    /\ stage = "relaying"
    /\ latched[s] \/ (closed[s] /\ arriving[s] = <<>>)
    /\ stage' = "over"
    /\ unsent' = [t \in Sides |-> <<>>]
    /\ UNCHANGED <<setup, latched, peers, arriving, received>>

(* A connection that is polled writes to its socket.                       *)
Flush(s) ==
    /\ stage = "relaying" /\ unsent[s] # <<>> /\ ~closed[s]
    /\ received' = [received EXCEPT ![s] = Append(@, Head(unsent[s]))]
    /\ unsent' = [unsent EXCEPT ![s] = Tail(@)]
    /\ UNCHANGED <<stage, setup, latched, peers, arriving>>

(* A peer that has gone makes the write fail, and the connection end even  *)
(* with packets still to read.                                             *)
FlushFails(s) ==
    /\ stage = "relaying" /\ unsent[s] # <<>> /\ closed[s] /\ ~latched[s]
    /\ latched' = [latched EXCEPT ![s] = TRUE]
    /\ UNCHANGED <<stage, setup, peers, arriving, unsent, received>>

(* main returns, as accept fails or there is no proxy for the next client, *)
(* and the runtime drops every session.                                    *)
MainReturns ==
    /\ stage # "over"
    /\ stage' = "over"
    /\ unsent' = [t \in Sides |-> <<>>]
    /\ UNCHANGED <<setup, latched, peers, arriving, received>>

Next ==
    \/ \E s \in Sides :
         \/ PeerSends(s) \/ PeerCloses(s)
         \/ InitEncryption(s) \/ RelayNext(s) \/ Disconnect(s) \/ Flush(s) \/ FlushFails(s)
    \/ Joined \/ MainReturns

Spec == Init /\ [][Next]_relayVars

-----------------------------------------------------------------------------
(* Properties.                                                             *)

(* Each peer receives the packets of the other without gap, change or      *)
(* repetition, from the first one on and up to the first that cannot be    *)
(* read; and while the session lives all of them are accounted for.        *)
RelayedInOrder ==
    \A s \in Sides :
        /\ IsPrefix(received[s] \o unsent[s], sent[Other(s)])
        /\ \A i \in DOMAIN received[s] : received[s][i].readable
        /\ stage # "over" /\ ~latched[Other(s)] =>
             received[s] \o unsent[s] \o arriving[Other(s)] = sent[Other(s)]

=============================================================================
