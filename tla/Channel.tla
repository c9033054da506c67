------------------------------- MODULE Channel --------------------------------
(***************************************************************************)
(* What a Connection promises to the two programs that it joins            *)
(* (protocol/src/connection.rs): each end reads the packets of the other   *)
(* in the order in which they were sent, one by one, until its stream      *)
(* ends; a stream ends only when the other end is gone or at a packet that *)
(* cannot be read, and then for good.  Bytes, buffers, the socket and the  *)
(* ciphers are left out; module Connection implements this one.            *)
(***************************************************************************)
EXTENDS Naturals, Sequences

CONSTANTS
    Ends,
    Peer(_),
    Packets,
    Readable  \* those that poll_next can decode

VARIABLES
    sent,   \* sent[e]: the packets that e has sent
    got,    \* got[e]: the packets that e has read
    ended,  \* the ends whose stream is over
    gone    \* the ends that have dropped their Connection

vars == <<sent, got, ended, gone>>

Init ==
    /\ sent = [e \in Ends |-> <<>>]
    /\ got = [e \in Ends |-> <<>>]
    /\ ended = {}
    /\ gone = {}

(* Also after the stream has ended: nobody tells the sender.               *)
Send(e) ==
    /\ e \notin gone
    /\ \E packet \in Packets : sent' = [sent EXCEPT ![e] = Append(@, packet)]
    /\ UNCHANGED <<got, ended, gone>>

(* The packet that e reads next, once there is one.                        *)
Index(e) == Len(got[e]) + 1
Waiting(e) == Index(e) <= Len(sent[Peer(e)])
Upcoming(e) == sent[Peer(e)][Index(e)]

Receive(e) ==
    /\ e \notin ended \union gone
    /\ Waiting(e) /\ Upcoming(e) \in Readable
    /\ got' = [got EXCEPT ![e] = Append(@, Upcoming(e))]
    /\ UNCHANGED <<sent, ended, gone>>

End(e) ==
    /\ e \notin ended \union gone
    /\ Peer(e) \in gone \/ (Waiting(e) /\ Upcoming(e) \notin Readable)
    /\ ended' = ended \union {e}
    /\ UNCHANGED <<sent, got, gone>>

Drop(e) ==
    /\ gone' = gone \union {e}
    /\ UNCHANGED <<sent, got, ended>>

Next == \E e \in Ends : Send(e) \/ Receive(e) \/ End(e) \/ Drop(e)

Spec == Init /\ [][Next]_vars

-----------------------------------------------------------------------------
(* What an end has read is a beginning of what the other has sent, all of  *)
(* it readable.                                                            *)
ReadInOrder ==
    \A e \in Ends :
        /\ Len(got[e]) <= Len(sent[Peer(e)])
        /\ \A n \in DOMAIN got[e] : got[e][n] = sent[Peer(e)][n] /\ got[e][n] \in Readable

(* A stream that is over has ended at a packet or with its peer.           *)
EndedForAReason ==
    \A e \in ended : Peer(e) \in gone \/ (Waiting(e) /\ Upcoming(e) \notin Readable)

=============================================================================
