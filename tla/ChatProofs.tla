------------------------------ MODULE ChatProofs ------------------------------
(***************************************************************************)
(* Proofs about Chat: its channels are windows of one ordered list of      *)
(* messages, and nobody sleeps while a message waits.                      *)
(***************************************************************************)
EXTENDS Chat, TLAPS

Numbers(first, last) == [i \in 1..(last - first) |-> first + i]

(* Every receiver that lives has its sender in the chat.                   *)
Subscribed == \A c \in Clients : HasReceiver(c) => c \in subscriber

(* Only a subscriber's channel holds anything.                             *)
Owned == \A c \in Clients : ~client[c].chat => client[c].channel = <<>>

(* The history is what was registered last, and as long as it may be.      *)
HistoryExact ==
    /\ Len(history) <= registered
    /\ history = Numbers(registered - Len(history), registered)
    /\ Len(history) = HistoryLength \/ Len(history) = registered

(* The events of a channel follow each other: at[i] is where the i-th ends. *)
Follows(at, channel, first, last) ==
    /\ at[0] = first
    /\ at[Len(channel)] = last
    /\ \A i \in 1..Len(channel) :
          /\ at[i - 1] <= at[i]
          /\ at[i] <= last
          /\ channel[i] = Numbers(at[i - 1], at[i])

Consecutive(channel, first, last) ==
    \E at \in [0..Len(channel) -> Nat] : Follows(at, channel, first, last)

(* A channel goes from the last message shown to the last one registered.  *)
Windows ==
    \A c \in Clients : HasReceiver(c) /\ client[c].state = "Open" =>
        Consecutive(client[c].channel, joined[c] + Len(shown[c]), registered)

(* A client past its components is awake, or waits for its empty channel.  *)
Awake ==
    \A c \in Clients :
        /\ client[c].life = "running"
        /\ client[c].poll \in {"idle", "io"}
        /\ client[c].chat
        => \/ client[c].woken
           \/ client[c].channel = <<>> /\ client[c].recvWaker

Inv == TypeOK /\ Subscribed /\ Owned /\ HistoryExact /\ Windows /\ Awake

-----------------------------------------------------------------------------
(* The operators.                                                          *)

LEMMA SentType ==
    ASSUME NEW r \in ClientRecord, NEW event \in Seq(Nat)
    PROVE  /\ Sent(r, event) \in ClientRecord
           /\ Sent(r, event).state = r.state
           /\ Sent(r, event).life = r.life
           /\ Sent(r, event).poll = r.poll
           /\ Sent(r, event).chat = r.chat
           /\ Sent(r, event).channel = Append(r.channel, event)
           /\ r.woken \/ r.recvWaker => Sent(r, event).woken
<1> DEFINE w == r.woken \/ r.recvWaker
           q == Append(r.channel, event)
<1>1. w \in BOOLEAN /\ q \in Seq(Seq(Nat))
  BY DEF ClientRecord
<1>2. Sent(r, event) = [r EXCEPT !.channel = q, !.woken = w, !.recvWaker = FALSE]
  BY DEF Sent
<1> HIDE DEF w, q
<1>3. QED
  <2>1. /\ [r EXCEPT !.channel = q, !.woken = w, !.recvWaker = FALSE] \in ClientRecord
    BY <1>1 DEF ClientRecord
  <2>2. QED
    BY <1>1, <1>2, <2>1 DEF ClientRecord, w, q

LEMMA NumbersType ==
    ASSUME NEW first \in Nat, NEW last \in Nat, first <= last
    PROVE  /\ Numbers(first, last) \in Seq(Nat)
           /\ Len(Numbers(first, last)) = last - first
           /\ DOMAIN Numbers(first, last) = 1..(last - first)
           /\ \A i \in 1..(last - first) : Numbers(first, last)[i] = first + i
<1> DEFINE n == last - first
<1>1. n \in Nat
  OBVIOUS
<1>2. Numbers(first, last) = [i \in 1..n |-> first + i]
  BY DEF Numbers
<1> HIDE DEF n
<1>3. [i \in 1..n |-> first + i] \in [1..n -> Nat]
  OBVIOUS
<1>4. [i \in 1..n |-> first + i] \in Seq(Nat) /\ Len([i \in 1..n |-> first + i]) = n
  BY <1>1, <1>3
<1>5. QED
  BY <1>1, <1>2, <1>4 DEF n

LEMMA IsNumbers ==
    ASSUME NEW first \in Nat, NEW last \in Nat, first <= last,
           NEW s \in Seq(Nat), Len(s) = last - first,
           \A i \in 1..(last - first) : s[i] = first + i
    PROVE  s = Numbers(first, last)
<1> DEFINE n == last - first
<1>1. s = [i \in 1..n |-> s[i]]
  OBVIOUS
<1>2. [i \in 1..n |-> s[i]] = [i \in 1..n |-> first + i]
  OBVIOUS
<1>3. QED
  BY <1>1, <1>2 DEF Numbers

LEMMA NoneOrOneNumber ==
    ASSUME NEW n \in Nat
    PROVE  Numbers(n, n) = <<>> /\ Numbers(n, n + 1) = <<n + 1>>
<1>1. ASSUME NEW s \in Seq(Nat), Len(s) = 0 PROVE s = Numbers(n, n)
  <2>1. n - n = 0 /\ n <= n /\ \A i \in 1..(n - n) : s[i] = n + i
    OBVIOUS
  <2>2. QED
    BY <1>1, <2>1, IsNumbers
<1>2. ASSUME NEW s \in Seq(Nat), Len(s) = 1, s[1] = n + 1 PROVE s = Numbers(n, n + 1)
  <2> DEFINE m == n + 1
  <2>1. m \in Nat /\ n <= m /\ m - n = 1 /\ s[1] = m
    BY <1>2
  <2> HIDE DEF m
  <2>2. \A i \in 1..(m - n) : s[i] = n + i
    BY <1>2, <2>1
  <2>3. s = Numbers(n, m)
    BY <1>2, <2>1, <2>2, IsNumbers
  <2>4. QED
    BY <2>3 DEF m
<1>3. <<>> \in Seq(Nat) /\ Len(<<>>) = 0
  OBVIOUS
<1>4. <<n + 1>> \in Seq(Nat) /\ Len(<<n + 1>>) = 1 /\ <<n + 1>>[1] = n + 1
  OBVIOUS
<1>5. QED
  BY <1>1, <1>2, <1>3, <1>4

LEMMA ConsecutiveAppend ==
    ASSUME NEW q \in Seq(Seq(Nat)), NEW first, NEW last \in Nat,
           Consecutive(q, first, last)
    PROVE  Consecutive(Append(q, <<last + 1>>), first, last + 1)
<1> DEFINE n == Len(q)
           number == last + 1
           q2 == Append(q, <<number>>)
<1>1. PICK at \in [0..n -> Nat] : Follows(at, q, first, last)
  BY DEF Consecutive
<1> DEFINE at2 == [i \in 0..(n + 1) |-> IF i = n + 1 THEN number ELSE at[i]]
<1>2. n \in Nat /\ number \in Nat /\ last <= number /\ <<number>> \in Seq(Nat)
  OBVIOUS
<1>3. /\ Len(q2) = n + 1
      /\ q2[n + 1] = <<number>>
      /\ \A i \in 1..n : q2[i] = q[i]
  BY <1>2
<1>4. /\ at2 \in [0..(n + 1) -> Nat]
      /\ at2[n + 1] = number
      /\ \A i \in 0..n : at2[i] = at[i]
  BY <1>2
<1>5. <<number>> = Numbers(last, number)
  BY NoneOrOneNumber
<1>6. /\ at[0] = first
      /\ at[n] = last
      /\ \A i \in 1..n : at[i - 1] <= at[i] /\ at[i] <= last /\ q[i] = Numbers(at[i - 1], at[i])
  BY <1>1 DEF Follows
<1> HIDE DEF at2, q2, n, number
<1>7. ASSUME NEW i \in 1..(n + 1)
      PROVE  at2[i - 1] <= at2[i] /\ at2[i] <= number /\ q2[i] = Numbers(at2[i - 1], at2[i])
  <2>1. CASE i = n + 1
    <3>1. i - 1 = n /\ n \in 0..n
      BY <1>2, <2>1
    <3>2. at2[i - 1] = last /\ at2[i] = number
      BY <1>4, <1>6, <2>1, <3>1
    <3>3. q2[i] = <<number>> /\ Numbers(at2[i - 1], at2[i]) = Numbers(last, number)
      BY <1>3, <2>1, <3>2
    <3>4. at2[i - 1] <= at2[i] /\ at2[i] <= number
      BY <1>2, <3>2
    <3>5. QED
      BY <1>5, <3>3, <3>4
  <2>2. CASE i \in 1..n
    <3>1. i - 1 \in 0..n /\ i \in 0..n
      BY <1>2, <2>2
    <3>2. at2[i - 1] = at[i - 1] /\ at2[i] = at[i]
      BY <1>4, <3>1
    <3>3. at[i] \in Nat /\ at[i] <= last
      BY <1>1, <1>6, <2>2, <3>1 DEF n
    <3>4. at2[i] <= number
      BY <1>2, <3>2, <3>3
    <3>5. QED
      BY <1>3, <1>6, <2>2, <3>2, <3>4
  <2>3. QED
    BY <1>2, <2>1, <2>2
<1>8. at2[0] = first
  BY <1>2, <1>4, <1>6
<1>9. Follows(at2, q2, first, number)
  BY <1>3, <1>4, <1>7, <1>8 DEF Follows
<1>10. QED
  BY <1>3, <1>4, <1>9 DEF Consecutive, q2, number

LEMMA ConsecutiveTail ==
    ASSUME NEW q \in Seq(Seq(Nat)), q # <<>>,
           NEW first \in Nat, NEW last \in Nat, Consecutive(q, first, last)
    PROVE  \E next \in first..last :
             /\ Head(q) = Numbers(first, next)
             /\ Consecutive(Tail(q), next, last)
<1> DEFINE n == Len(q)
           m == n - 1
           q2 == Tail(q)
<1>1. PICK at \in [0..n -> Nat] : Follows(at, q, first, last)
  BY DEF Consecutive
<1> DEFINE at2 == [i \in 0..m |-> at[i + 1]]
<1>2. n \in Nat /\ m \in Nat /\ n = m + 1 /\ n > 0
  OBVIOUS
<1>3. /\ Len(q2) = m
      /\ Head(q) = q[1]
      /\ \A i \in 1..m : q2[i] = q[i + 1]
  BY <1>2
<1>4. /\ at[0] = first
      /\ at[n] = last
      /\ \A i \in 1..n : at[i - 1] <= at[i] /\ at[i] <= last /\ q[i] = Numbers(at[i - 1], at[i])
  BY <1>1 DEF Follows
<1> HIDE DEF q2, n, m
<1>5. /\ at2 \in [0..m -> Nat]
      /\ \A i \in 0..m : at2[i] = at[i + 1]
  BY <1>2
<1> HIDE DEF at2
<1>6. ASSUME NEW i \in 1..m
      PROVE  at2[i - 1] <= at2[i] /\ at2[i] <= last /\ q2[i] = Numbers(at2[i - 1], at2[i])
  <2>1. i - 1 \in 0..m /\ i \in 0..m /\ i + 1 \in 1..n /\ (i - 1) + 1 = i /\ (i + 1) - 1 = i
    BY <1>2
  <2>2. at2[i - 1] = at[i] /\ at2[i] = at[i + 1]
    BY <1>5, <2>1
  <2>3. QED
    BY <1>3, <1>4, <2>1, <2>2
<1>7. at2[0] = at[1] /\ at2[m] = last
  BY <1>2, <1>4, <1>5
<1>8. Follows(at2, q2, at[1], last)
  BY <1>3, <1>6, <1>7 DEF Follows
<1>9. at[1] \in Nat /\ first <= at[1] /\ at[1] <= last /\ q[1] = Numbers(first, at[1])
  <2>1. 1 \in 1..n /\ 1 \in 0..n /\ 1 - 1 = 0
    BY <1>2
  <2>2. QED
    BY <1>1, <1>4, <2>1 DEF n
<1>10. Consecutive(q2, at[1], last)
  BY <1>3, <1>5, <1>8 DEF Consecutive
<1>11. QED
  BY <1>3, <1>9, <1>10 DEF q2

LEMMA ConsecutiveNew ==
    ASSUME NEW last \in Nat, NEW first \in Nat, first <= last,
           NEW h \in Seq(Nat), h = Numbers(first, last)
    PROVE  Consecutive(<<h, <<>>>>, first, last)
<1> DEFINE at == [i \in 0..2 |-> IF i = 0 THEN first ELSE last]
           q == <<h, <<>>>>
<1>1. q \in Seq(Seq(Nat)) /\ Len(q) = 2 /\ q[1] = h /\ q[2] = <<>>
  OBVIOUS
<1>2. at \in [0..2 -> Nat] /\ at[0] = first /\ at[1] = last /\ at[2] = last
  OBVIOUS
<1>3. <<>> = Numbers(last, last)
  BY NoneOrOneNumber
<1> HIDE DEF at, q
<1>4. ASSUME NEW i \in 1..2
      PROVE  at[i - 1] <= at[i] /\ at[i] <= last /\ q[i] = Numbers(at[i - 1], at[i])
  <2>1. CASE i = 1
    BY <1>1, <1>2, <2>1
  <2>2. CASE i = 2
    BY <1>1, <1>2, <1>3, <2>2
  <2>3. QED
    BY <2>1, <2>2
<1>5. Follows(at, q, first, last)
  BY <1>1, <1>2, <1>4 DEF Follows
<1>6. QED
  BY <1>1, <1>2, <1>5 DEF Consecutive, q

LEMMA TrimmedExact ==
    ASSUME ChatAssumption, NEW count \in Nat, NEW h \in Seq(Nat),
           Len(h) <= count, Len(h) <= HistoryLength,
           h = Numbers(count - Len(h), count),
           Len(h) = HistoryLength \/ Len(h) = count
    PROVE  LET t == Trimmed(Append(h, count + 1))
           IN  /\ t \in Seq(Nat)
               /\ Len(t) <= count + 1
               /\ Len(t) <= HistoryLength
               /\ t = Numbers(count + 1 - Len(t), count + 1)
               /\ Len(t) = HistoryLength \/ Len(t) = count + 1
<1> DEFINE a == Append(h, count + 1)
           n == Len(h)
<1>1. HistoryLength \in Nat /\ n \in Nat
  BY DEF ChatAssumption
<1>2. a \in Seq(Nat) /\ Len(a) = n + 1
  OBVIOUS
<1>3. \A i \in 1..(n + 1) : a[i] = count - n + i
  <2> DEFINE k == count - n
  <2>1. k \in Nat /\ k <= count /\ count - k = n
    BY <1>1
  <2>2. h = Numbers(k, count)
    OBVIOUS
  <2> HIDE DEF k
  <2>3. \A i \in 1..n : h[i] = k + i
    BY <2>1, <2>2, NumbersType
  <2>4. ASSUME NEW i \in 1..(n + 1) PROVE a[i] = k + i
    <3>1. CASE i = n + 1
      BY <1>1, <2>1, <3>1
    <3>2. CASE i \in 1..n
      BY <1>1, <2>3, <3>2
    <3>3. QED
      BY <1>1, <3>1, <3>2
  <2>5. QED
    BY <2>4 DEF k
<1> HIDE DEF a
<1>4. CASE n + 1 <= HistoryLength
  <2>1. Trimmed(a) = a
    BY <1>1, <1>2, <1>4 DEF Trimmed
  <2>2. n = count
    BY <1>1, <1>4
  <2>3. count + 1 - Len(a) = 0 /\ count - n = 0
    BY <1>1, <1>2, <2>2
  <2>4. a = Numbers(0, count + 1)
    BY <1>1, <1>2, <1>3, <2>2, IsNumbers
  <2>5. a = Numbers(count + 1 - Len(a), count + 1)
    BY <2>3, <2>4
  <2>6. /\ Len(a) <= count + 1
        /\ Len(a) <= HistoryLength
        /\ Len(a) = count + 1
    BY <1>1, <1>2, <1>4, <2>2
  <2>7. QED
    BY <1>2, <2>1, <2>5, <2>6 DEF a
<1>5. CASE n = HistoryLength
  <2> DEFINE t == SubSeq(a, 2, n + 1)
  <2>1. Trimmed(a) = t
    BY <1>1, <1>2, <1>5 DEF Trimmed
  <2>2. t \in Seq(Nat) /\ Len(t) = n /\ \A i \in 1..n : t[i] = a[i + 1]
    BY <1>1, <1>2
  <2>3. \A i \in 1..n : t[i] = count + 1 - n + i
    BY <1>1, <1>3, <2>2
  <2> HIDE DEF t
  <2>4. t = Numbers(count + 1 - n, count + 1)
    <3> DEFINE k == count + 1 - n
               m == count + 1
    <3>1. k \in Nat /\ m \in Nat /\ k <= m /\ m - k = n
      BY <1>1
    <3>2. \A i \in 1..n : t[i] = k + i
      BY <2>3
    <3> HIDE DEF k, m
    <3>3. t = Numbers(k, m)
      BY <2>2, <3>1, <3>2, IsNumbers
    <3>4. QED
      BY <3>3 DEF k, m
  <2>5. /\ Len(t) <= count + 1
        /\ Len(t) <= HistoryLength
        /\ Len(t) = HistoryLength
    BY <1>1, <1>5, <2>2
  <2>6. t = Numbers(count + 1 - Len(t), count + 1)
    BY <2>2, <2>4
  <2>7. QED
    BY <2>1, <2>2, <2>5, <2>6 DEF a
<1>6. QED
  BY <1>1, <1>4, <1>5

LEMMA InitInv == ASSUME ChatAssumption PROVE Init => Inv
<1> SUFFICES ASSUME Init PROVE Inv
  OBVIOUS
<1>1. TypeOK
  BY DEF Init, TypeOK, ClientRecord, ChatAssumption
<1>2. Subscribed /\ Owned /\ Windows /\ Awake
  BY DEF Init, Subscribed, Owned, Windows, Awake, HasReceiver
<1>3. HistoryExact
  <2>1. <<>> = Numbers(0, 0)
    BY NoneOrOneNumber
  <2>2. QED
    BY <2>1 DEF Init, HistoryExact
<1>4. QED
  BY <1>1, <1>2, <1>3 DEF Inv

-----------------------------------------------------------------------------
(* Steps that leave the channels alone.                                    *)

(* What a poll step, a wake-up or a disconnect keeps of every client.      *)
Quiet ==
    \A c \in Clients :
        /\ client'[c].chat = client[c].chat
        /\ client'[c].channel = client[c].channel
        /\ client'[c].life # "dropped" => client[c].life # "dropped"
        /\ client'[c].state = "Open" => client[c].state = "Open"

LEMMA QuietStep ==
    ASSUME Inv, Quiet, UNCHANGED <<subscriber, history, registered, joined, shown>>
    PROVE  Subscribed' /\ Owned' /\ HistoryExact' /\ Windows'
<1>1. Subscribed'
  BY DEF Inv, Quiet, Subscribed, HasReceiver
<1>2. Owned'
  BY DEF Inv, Quiet, Owned
<1>3. HistoryExact'
  BY DEF Inv, HistoryExact, Numbers
<1>4. Windows'
  BY DEF Inv, Quiet, Windows, HasReceiver
<1>5. QED
  BY <1>1, <1>2, <1>3, <1>4

LEMMA SetClientType ==
    ASSUME TypeOK, NEW c \in Clients, NEW r \in ClientRecord, SetClient(c, r)
    PROVE  /\ client' \in [Clients -> ClientRecord]
           /\ client'[c] = r
           /\ \A d \in Clients : d # c => client'[d] = client[d]
BY DEF TypeOK, SetClient

(* It is enough to look at the client that steps.                          *)
LEMMA QuietClient ==
    ASSUME Inv, NEW c \in Clients, NEW r \in ClientRecord, SetClient(c, r),
           UNCHANGED <<subscriber, history, registered, joined, shown>>,
           r.chat = client[c].chat,
           r.channel = client[c].channel,
           r.life # "dropped" => client[c].life # "dropped",
           r.state = "Open" => client[c].state = "Open",
           /\ r.life = "running" /\ r.poll \in {"idle", "io"} /\ r.chat
           => r.woken \/ (r.channel = <<>> /\ r.recvWaker)
    PROVE  Inv'
<1> USE SetClientType DEF Inv
<1>1. TypeOK'
  BY DEF TypeOK
<1>2. Quiet
  BY DEF Quiet
<1>3. Awake'
  BY DEF Awake
<1>4. QED
  BY <1>1, <1>2, <1>3, QuietStep

LEMMA QuietActions ==
    ASSUME Inv, NEW c \in Clients,
           \/ BeginPoll(c) \/ EndTasks(c) \/ ReceivePending(c) \/ EndPoll(c)
           \/ EndStream(c) \/ Disconnect(c) \/ Wake(c)
    PROVE  Inv'
<1> DEFINE r == client[c]
<1>1. r \in ClientRecord
  BY DEF Inv, TypeOK
<1>2. ASSUME r.life = "running", r.poll \in {"idle", "io"}, r.chat
      PROVE  r.woken \/ (r.channel = <<>> /\ r.recvWaker)
  BY <1>2 DEF Inv, Awake
<1>3. CASE BeginPoll(c)
  <2> DEFINE q == [r EXCEPT !.poll = "tasks", !.woken = FALSE]
  <2>1. q \in ClientRecord
    BY <1>1 DEF ClientRecord
  <2>2. QED
    BY <1>1, <1>3, <2>1, QuietClient DEF BeginPoll, ClientRecord
<1>4. CASE EndTasks(c)
  <2> DEFINE q == [r EXCEPT !.poll = "components"]
  <2>1. q \in ClientRecord
    BY <1>1 DEF ClientRecord
  <2>2. QED
    BY <1>1, <1>4, <2>1, QuietClient DEF EndTasks, ClientRecord
<1>5. CASE ReceivePending(c)
  <2> DEFINE q == [r EXCEPT !.recvWaker = r.chat, !.poll = "idle", !.life = "ended"]
             p == [r EXCEPT !.recvWaker = r.chat, !.poll = "io"]
  <2>1. q \in ClientRecord /\ p \in ClientRecord
    BY <1>1 DEF ClientRecord
  <2>2. CASE r.state = "Closed"
    BY <1>1, <1>5, <2>1, <2>2, QuietClient DEF ReceivePending, Polling, ClientRecord
  <2>3. CASE r.state # "Closed"
    BY <1>1, <1>5, <2>1, <2>3, QuietClient DEF ReceivePending, Polling, ClientRecord
  <2>4. QED
    BY <2>2, <2>3
<1>6. CASE EndPoll(c)
  <2> DEFINE q == [r EXCEPT !.poll = "idle"]
             p == [r EXCEPT !.poll = "idle", !.state = "Closed"]
  <2>1. q \in ClientRecord /\ p \in ClientRecord
    BY <1>1 DEF ClientRecord
  <2>2. CASE SetClient(c, q)
    BY <1>1, <1>2, <1>6, <2>1, <2>2, QuietClient DEF EndPoll, Polling, ClientRecord
  <2>3. CASE SetClient(c, p)
    BY <1>1, <1>2, <1>6, <2>1, <2>3, QuietClient DEF EndPoll, Polling, ClientRecord
  <2>4. QED
    BY <1>6, <2>2, <2>3 DEF EndPoll
<1>7. CASE EndStream(c)
  <2> DEFINE q == [r EXCEPT !.poll = "idle", !.state = "Closed", !.life = "ended"]
  <2>1. q \in ClientRecord
    BY <1>1 DEF ClientRecord
  <2>2. QED
    BY <1>1, <1>7, <2>1, QuietClient DEF EndStream, Polling, ClientRecord
<1>8. CASE Disconnect(c)
  <2> DEFINE q == [r EXCEPT !.state = "Closing", !.woken = TRUE]
  <2>1. q \in ClientRecord
    BY <1>1 DEF ClientRecord
  <2>2. QED
    BY <1>1, <1>8, <2>1, QuietClient DEF Disconnect, ClientRecord
<1>9. CASE Wake(c)
  <2> DEFINE q == [r EXCEPT !.woken = TRUE]
  <2>1. q \in ClientRecord
    BY <1>1 DEF ClientRecord
  <2>2. QED
    BY <1>1, <1>9, <2>1, QuietClient DEF Wake, ClientRecord
<1>10. QED
  BY <1>3, <1>4, <1>5, <1>6, <1>7, <1>8, <1>9

-----------------------------------------------------------------------------
(* A message is dispatched to every client that has a receiver.            *)

LEMMA DispatchInv ==
    ASSUME ChatAssumption, Inv, RegisterMessage, UNCHANGED <<joined, shown>>
    PROVE  Inv'
<1> DEFINE number == registered + 1
           event == <<number>>
<1>1. /\ registered \in Nat /\ number \in Nat
      /\ registered' = number
      /\ event \in Seq(Nat)
  BY DEF Inv, TypeOK, RegisterMessage
<1>2. ASSUME NEW c \in Clients
      PROVE  /\ HasReceiver(c) => client'[c] = Sent(client[c], event)
             /\ ~HasReceiver(c) => client'[c] = client[c]
             /\ client[c] \in ClientRecord
  BY <1>1 DEF Inv, TypeOK, Subscribed, RegisterMessage, DispatchServerEvent
<1> HIDE DEF event
<1>3. subscriber' = {c \in subscriber : HasReceiver(c)}
  BY DEF RegisterMessage, DispatchServerEvent
<1>4. ASSUME NEW c \in Clients
      PROVE  /\ client'[c] \in ClientRecord
             /\ client'[c].chat = client[c].chat
             /\ client'[c].life = client[c].life
             /\ client'[c].state = client[c].state
             /\ HasReceiver(c)' = HasReceiver(c)
  <2>1. CASE HasReceiver(c)
    <3>1. client'[c] = Sent(client[c], event)
      BY <1>2, <2>1
    <3>2. QED
      BY <1>1, <1>2, <3>1, SentType DEF HasReceiver
  <2>2. CASE ~HasReceiver(c)
    BY <1>2, <2>2 DEF HasReceiver
  <2>3. QED
    BY <2>1, <2>2
<1> HIDE DEF number
<1>5. TypeOK' /\ HistoryExact'
  <2>1. LET t == Trimmed(Append(history, registered + 1))
        IN  /\ t \in Seq(Nat)
            /\ Len(t) <= registered + 1
            /\ Len(t) <= HistoryLength
            /\ t = Numbers(registered + 1 - Len(t), registered + 1)
            /\ Len(t) = HistoryLength \/ Len(t) = registered + 1
    BY <1>1, TrimmedExact DEF Inv, TypeOK, HistoryExact
  <2>2. history' = Trimmed(Append(history, registered + 1))
    BY <1>1 DEF RegisterMessage, number
  <2>3. client' \in [Clients -> ClientRecord]
    BY <1>4 DEF RegisterMessage, DispatchServerEvent
  <2>4. TypeOK'
    BY <1>1, <1>3, <2>1, <2>2, <2>3 DEF Inv, TypeOK
  <2>5. HistoryExact'
    BY <1>1, <2>1, <2>2 DEF HistoryExact, number, Numbers
  <2>6. QED
    BY <2>4, <2>5
<1>6. Subscribed'
  BY <1>3, <1>4 DEF Inv, Subscribed
<1>7. Owned'
  BY <1>2, <1>4 DEF Inv, Owned, HasReceiver
<1>8. Windows'
  <2> SUFFICES ASSUME NEW c \in Clients, HasReceiver(c)', client'[c].state = "Open"
               PROVE  Consecutive(client'[c].channel, joined[c] + Len(shown[c]), number)
    BY <1>1 DEF Windows
  <2>1. HasReceiver(c) /\ client[c].state = "Open"
    BY <1>4
  <2>2. client'[c].channel = Append(client[c].channel, event)
    <3>1. client'[c] = Sent(client[c], event)
      BY <1>2, <2>1
    <3>2. QED
      BY <1>1, <1>2, <3>1, SentType
  <2>3. Consecutive(client[c].channel, joined[c] + Len(shown[c]), registered)
    BY <2>1 DEF Inv, Windows
  <2>4. client[c].channel \in Seq(Seq(Nat))
    BY <1>2 DEF ClientRecord
  <2>5. QED
    BY <1>1, <2>2, <2>3, <2>4, ConsecutiveAppend DEF number, event
<1>9. Awake'
  <2> SUFFICES ASSUME NEW c \in Clients,
                      client'[c].life = "running",
                      client'[c].poll \in {"idle", "io"},
                      client'[c].chat
               PROVE  \/ client'[c].woken
                      \/ client'[c].channel = <<>> /\ client'[c].recvWaker
    BY DEF Awake
  <2>1. client[c].life = "running" /\ client[c].chat /\ HasReceiver(c)
    BY <1>4 DEF HasReceiver
  <2>2. client'[c] = Sent(client[c], event)
    BY <1>2, <2>1
  <2>3. /\ client[c].woken \/ client[c].recvWaker => client'[c].woken
        /\ client'[c].poll = client[c].poll
    BY <1>1, <1>2, <2>2, SentType
  <2>4. QED
    BY <2>1, <2>3 DEF Inv, Awake
<1>10. QED
  BY <1>5, <1>6, <1>7, <1>8, <1>9 DEF Inv

-----------------------------------------------------------------------------
(* The other steps.                                                        *)

LEMMA OpenLobbyInv ==
    ASSUME ChatAssumption, Inv, NEW c \in Clients, OpenLobby(c)
    PROVE  Inv'
<1> DEFINE r == client[c]
           e == <<history, <<>>>>
           q == [r EXCEPT !.chat = TRUE, !.channel = e, !.recvWaker = FALSE,
                          !.woken = TRUE, !.lobbies = @ + 1]
<1>1. r \in ClientRecord /\ history \in Seq(Nat) /\ registered \in Nat
  BY DEF Inv, TypeOK
<1>2. e \in Seq(Seq(Nat))
  BY <1>1
<1>3. SetClient(c, q) /\ Polling(c, "tasks")
  BY DEF OpenLobby, Subscribe, SendMessageHistory
<1> HIDE DEF e
<1>4. /\ q \in ClientRecord
      /\ q.chat = TRUE /\ q.channel = e /\ q.state = r.state
      /\ q.life = r.life /\ q.poll = r.poll
  <2> DEFINE n == r.lobbies + 1
  <2>1. n \in Nat
    BY <1>1 DEF ClientRecord
  <2>2. q = [r EXCEPT !.chat = TRUE, !.channel = e, !.recvWaker = FALSE,
                      !.woken = TRUE, !.lobbies = n]
    OBVIOUS
  <2> HIDE DEF n, q
  <2>3. q \in ClientRecord
    BY <1>1, <1>2, <2>1, <2>2 DEF ClientRecord
  <2>4. QED
    BY <1>1, <2>2, <2>3 DEF ClientRecord
<1>5. /\ client' \in [Clients -> ClientRecord]
      /\ client'[c] = q
      /\ \A d \in Clients : d # c => client'[d] = client[d]
  BY <1>3, <1>4, SetClientType DEF Inv
<1> HIDE DEF q
<1>6. registered - Len(history) \in Nat /\ registered - Len(history) <= registered
  BY <1>1 DEF Inv, HistoryExact
<1>7. /\ subscriber' = subscriber \union {c}
      /\ joined' = [joined EXCEPT ![c] = registered - Len(history)]
      /\ shown' = [shown EXCEPT ![c] = <<>>]
      /\ history' = history /\ registered' = registered
  BY DEF OpenLobby, Subscribe, SendMessageHistory
<1>8. TypeOK'
  BY <1>5, <1>6, <1>7 DEF Inv, TypeOK
<1>9. Subscribed'
  BY <1>5, <1>7 DEF Inv, Subscribed, HasReceiver
<1>10. Owned'
  BY <1>4, <1>5 DEF Inv, Owned
<1>11. HistoryExact'
  BY <1>7 DEF Inv, HistoryExact, Numbers
<1>12. Windows'
  <2> SUFFICES ASSUME NEW d \in Clients, HasReceiver(d)', client'[d].state = "Open"
               PROVE  Consecutive(client'[d].channel, joined'[d] + Len(shown'[d]), registered)
    BY <1>7 DEF Windows
  <2>1. CASE d = c
    <3>1. joined'[c] = registered - Len(history) /\ shown'[c] = <<>>
      BY <1>7 DEF Inv, TypeOK
    <3>2. joined'[c] + Len(shown'[c]) = registered - Len(history)
      BY <1>6, <3>1
    <3>3. Consecutive(e, registered - Len(history), registered)
      BY <1>1, <1>6, ConsecutiveNew DEF Inv, HistoryExact, e
    <3>4. QED
      BY <1>4, <1>5, <2>1, <3>2, <3>3
  <2>2. CASE d # c
    <3>1. joined'[d] = joined[d] /\ shown'[d] = shown[d] /\ client'[d] = client[d]
      BY <1>5, <1>7, <2>2 DEF Inv, TypeOK
    <3>2. QED
      BY <3>1 DEF Inv, Windows, HasReceiver
  <2>3. QED
    BY <2>1, <2>2
<1>13. Awake'
  BY <1>3, <1>4, <1>5 DEF Inv, Awake, Polling
<1>14. QED
  BY <1>8, <1>9, <1>10, <1>11, <1>12, <1>13 DEF Inv

(* What Receive does to the client and to its screen.                      *)
LEMMA ReceiveStep ==
    ASSUME Inv, NEW c \in Clients, Receive(c)
    PROVE  /\ client' = [client EXCEPT ![c] = [client[c] EXCEPT !.channel = Tail(client[c].channel),
                                                                !.poll = "components"]]
           /\ client[c] \in ClientRecord
           /\ client[c].chat
           /\ HasReceiver(c)
           /\ client[c].channel \in Seq(Seq(Nat))
           /\ client[c].channel # <<>>
           /\ Tail(client[c].channel) \in Seq(Seq(Nat))
           /\ Head(client[c].channel) \in Seq(Nat)
           /\ joined[c] + Len(shown[c]) \in Nat
           /\ registered \in Nat
<1>1. client[c] \in ClientRecord /\ joined[c] \in Nat /\ shown[c] \in Seq(Nat) /\ registered \in Nat
  BY DEF Inv, TypeOK
<1>2. client[c].channel \in Seq(Seq(Nat)) /\ client[c].channel # <<>>
  BY <1>1 DEF ClientRecord, Receive, HandleChatEvent
<1>3. Tail(client[c].channel) \in Seq(Seq(Nat)) /\ Head(client[c].channel) \in Seq(Nat)
  BY <1>2
<1>4. client[c].chat /\ HasReceiver(c)
  BY <1>2 DEF Inv, Owned, HasReceiver, Receive, HandleChatEvent, Polling
<1>5. joined[c] + Len(shown[c]) \in Nat
  BY <1>1
<1>6. QED
  BY <1>1, <1>2, <1>3, <1>4, <1>5 DEF Receive, HandleChatEvent, SetClient

LEMMA ReceiveInv ==
    ASSUME Inv, NEW c \in Clients, Receive(c)
    PROVE  Inv'
<1> DEFINE r == client[c]
           e == Tail(client[c].channel)
           h == Head(client[c].channel)
           seen == joined[c] + Len(shown[c])
           q == [r EXCEPT !.channel = e, !.poll = "components"]
<1>1. /\ r \in ClientRecord /\ e \in Seq(Seq(Nat)) /\ SetClient(c, q) /\ r.chat /\ HasReceiver(c)
      /\ h \in Seq(Nat) /\ seen \in Nat /\ joined[c] \in Nat /\ shown[c] \in Seq(Nat)
      /\ registered \in Nat
  BY ReceiveStep DEF SetClient, Inv, TypeOK
<1> HIDE DEF e, h
<1>2. /\ q \in ClientRecord
      /\ q.chat = r.chat /\ q.channel = e /\ q.state = r.state
      /\ q.life = r.life /\ q.poll = "components"
  BY <1>1 DEF ClientRecord
<1>3. /\ client' \in [Clients -> ClientRecord]
      /\ client'[c] = q
      /\ \A d \in Clients : d # c => client'[d] = client[d]
  BY <1>1, <1>2, SetClientType DEF Inv
<1> HIDE DEF q
<1>4. UNCHANGED <<subscriber, history, registered, joined>>
  BY DEF Receive, HandleChatEvent
<1>5. /\ r.state = "Open" => shown' = [shown EXCEPT ![c] = shown[c] \o h]
      /\ r.state # "Open" => shown' = shown
  BY DEF h, Receive, HandleChatEvent
<1>6. shown' \in [Clients -> Seq(Nat)]
  <2>1. shown[c] \o h \in Seq(Nat)
    BY <1>1
  <2>2. QED
    BY <1>5, <2>1 DEF Inv, TypeOK
<1>7. TypeOK'
  BY <1>3, <1>4, <1>6 DEF Inv, TypeOK
<1>8. Subscribed'
  BY <1>2, <1>3, <1>4 DEF Inv, Subscribed, HasReceiver
<1>9. Owned'
  BY <1>1, <1>2, <1>3 DEF Inv, Owned
<1>10. HistoryExact'
  BY <1>4 DEF Inv, HistoryExact, Numbers
<1>11. Windows'
  <2> SUFFICES ASSUME NEW d \in Clients, HasReceiver(d)', client'[d].state = "Open"
               PROVE  Consecutive(client'[d].channel, joined[d] + Len(shown'[d]), registered)
    BY <1>4 DEF Windows
  <2>1. CASE d = c
    <3>1. r.state = "Open"
      BY <1>2, <1>3, <2>1
    <3>2. Consecutive(r.channel, seen, registered)
      BY <1>1, <3>1 DEF Inv, Windows
    <3>3. PICK next \in seen..registered : h = Numbers(seen, next) /\ Consecutive(e, next, registered)
      BY <1>1, <3>2, ReceiveStep, ConsecutiveTail DEF e, h
    <3>4. shown'[c] = shown[c] \o h
      BY <1>5, <3>1 DEF Inv, TypeOK
    <3>5. joined[c] + Len(shown'[c]) = next
      <4>1. next \in Nat /\ seen <= next
        BY <1>1, <3>3
      <4>2. Len(h) = next - seen
        BY <1>1, <3>3, <4>1, NumbersType
      <4>3. Len(shown'[c]) = Len(shown[c]) + Len(h)
        BY <1>1, <3>4
      <4>4. Len(shown[c]) \in Nat /\ Len(h) \in Nat
        BY <1>1
      <4>5. QED
        BY <1>1, <4>1, <4>2, <4>3, <4>4
    <3>6. QED
      BY <1>2, <1>3, <2>1, <3>3, <3>5
  <2>2. CASE d # c
    <3>1. shown'[d] = shown[d] /\ client'[d] = client[d]
      BY <1>3, <1>5, <2>2 DEF Inv, TypeOK
    <3>2. QED
      BY <3>1 DEF Inv, Windows, HasReceiver
  <2>3. QED
    BY <2>1, <2>2
<1>12. Awake'
  BY <1>2, <1>3 DEF Inv, Awake
<1>13. QED
  BY <1>7, <1>8, <1>9, <1>10, <1>11, <1>12 DEF Inv

LEMMA DropInv ==
    ASSUME Inv, NEW c \in Clients, Drop(c)
    PROVE  Inv'
<1> DEFINE r == client[c]
           q == [r EXCEPT !.life = "dropped", !.channel = <<>>, !.recvWaker = FALSE]
<1>1. r \in ClientRecord /\ SetClient(c, q)
  BY DEF Inv, TypeOK, Drop
<1>2. q \in ClientRecord /\ q.life = "dropped" /\ q.channel = <<>>
  <2> DEFINE e == <<>>
  <2>1. e \in Seq(Seq(Nat))
    OBVIOUS
  <2>2. q = [r EXCEPT !.life = "dropped", !.channel = e, !.recvWaker = FALSE]
    OBVIOUS
  <2> HIDE DEF e, q
  <2>3. q \in ClientRecord
    BY <1>1, <2>1, <2>2 DEF ClientRecord
  <2>4. q.life = "dropped" /\ q.channel = e
    BY <1>1, <2>2 DEF ClientRecord
  <2>5. QED
    BY <2>3, <2>4 DEF e
<1>3. /\ client' \in [Clients -> ClientRecord]
      /\ client'[c] = q
      /\ \A d \in Clients : d # c => client'[d] = client[d]
  BY <1>1, <1>2, SetClientType DEF Inv
<1> HIDE DEF q
<1>4. UNCHANGED <<subscriber, history, registered, joined, shown>>
  BY DEF Drop
<1>5. TypeOK'
  BY <1>3, <1>4 DEF Inv, TypeOK
<1>6. Subscribed' /\ Owned'
  BY <1>2, <1>3, <1>4 DEF Inv, Subscribed, Owned, HasReceiver
<1>7. HistoryExact'
  BY <1>4 DEF Inv, HistoryExact, Numbers
<1>8. Windows'
  BY <1>2, <1>3, <1>4 DEF Inv, Windows, HasReceiver
<1>9. Awake'
  BY <1>2, <1>3 DEF Inv, Awake
<1>10. QED
  BY <1>5, <1>6, <1>7, <1>8, <1>9 DEF Inv

LEMMA NextInv == ASSUME ChatAssumption, Inv, [Next]_vars PROVE Inv'
<1>1. CASE UNCHANGED vars
  BY <1>1 DEF vars, Inv, TypeOK, Subscribed, Owned, HistoryExact, Windows, Awake, HasReceiver
<1>2. ASSUME NEW c \in Clients, SendMessage(c) PROVE Inv'
  BY <1>2, DispatchInv DEF SendMessage
<1>3. QED
  BY <1>1, <1>2, QuietActions, OpenLobbyInv, ReceiveInv, DropInv
     DEF Next, PollStep, AllDropped

(* The invariant of the chat: subscribers, history and channels agree.     *)
THEOREM ChatInvariant == Spec => []Inv
<1>1. Init => Inv
  BY ChatAssumption, InitInv
<1>2. Inv /\ [Next]_vars => Inv'
  BY ChatAssumption, NextInv
<1>3. QED
  BY <1>1, <1>2, PTL DEF Spec

(* ServerChat and ServerChatComponent keep their types, and the history    *)
(* its length, in every run.                                               *)
THEOREM TypeCorrect == Spec => []TypeOK
<1>1. Inv => TypeOK
  BY DEF Inv
<1>2. QED
  BY <1>1, ChatInvariant, PTL

(* No client sleeps while its chat channel holds a message.                *)
THEOREM Wakeful == Spec => []NoMessageSleeps
<1>1. Inv => NoMessageSleeps
  BY DEF Inv, Owned, Awake, NoMessageSleeps, Polling
<1>2. QED
  BY <1>1, ChatInvariant, PTL

-----------------------------------------------------------------------------
(* Refinement.                                                             *)

Members == {c \in Clients : client[c].chat}

(* A step that changes one client, but not whether it has the component.   *)
LEMMA SameMembers ==
    ASSUME TypeOK, NEW c \in Clients, NEW r, SetClient(c, r), r.chat = client[c].chat
    PROVE  Members' = Members
<1>1. \A d \in Clients : client'[d].chat = client[d].chat
  BY DEF TypeOK, SetClient
<1>2. QED
  BY <1>1 DEF Members

LEMMA QuietStutters ==
    ASSUME Inv, NEW c \in Clients,
           \/ BeginPoll(c) \/ EndTasks(c) \/ ReceivePending(c) \/ EndPoll(c)
           \/ EndStream(c) \/ Disconnect(c) \/ Wake(c) \/ Drop(c)
    PROVE  UNCHANGED <<registered, Members, joined, shown>>
<1>1. client[c] \in ClientRecord /\ TypeOK
  BY DEF Inv, TypeOK
<1>2. UNCHANGED <<registered, joined, shown>>
  BY DEF BeginPoll, EndTasks, ReceivePending, EndPoll, EndStream, Disconnect, Wake, Drop
<1>3. CASE BeginPoll(c) \/ EndTasks(c)
  BY <1>1, <1>2, <1>3, SameMembers DEF BeginPoll, EndTasks, ClientRecord
<1>4. CASE ReceivePending(c)
  BY <1>1, <1>2, <1>4, SameMembers DEF ReceivePending, ClientRecord
<1>5. CASE EndPoll(c)
  BY <1>1, <1>2, <1>5, SameMembers DEF EndPoll, ClientRecord
<1>6. CASE EndStream(c) \/ Disconnect(c) \/ Wake(c)
  BY <1>1, <1>2, <1>6, SameMembers DEF EndStream, Disconnect, Wake, ClientRecord
<1>7. CASE Drop(c)
  BY <1>1, <1>2, <1>7, SameMembers DEF Drop, ClientRecord
<1>8. QED
  BY <1>3, <1>4, <1>5, <1>6, <1>7

LEMMA SendMessagePosts ==
    ASSUME Inv, NEW c \in Clients, SendMessage(c)
    PROVE  registered' = registered + 1 /\ UNCHANGED <<Members, joined, shown>>
<1>1. registered' = registered + 1 /\ UNCHANGED <<joined, shown>>
  BY DEF SendMessage, RegisterMessage
<1> DEFINE event == <<registered'>>
<1>2. event \in Seq(Nat)
  BY <1>1 DEF Inv, TypeOK
<1>3. ASSUME NEW d \in Clients PROVE client'[d].chat = client[d].chat
  <2>1. client[d] \in ClientRecord
    BY DEF Inv, TypeOK
  <2>2. \/ client'[d] = Sent(client[d], event)
        \/ client'[d] = client[d]
    BY DEF SendMessage, RegisterMessage, DispatchServerEvent
  <2> HIDE DEF event
  <2>3. QED
    BY <1>2, <2>1, <2>2, SentType
<1>4. QED
  BY <1>1, <1>3 DEF Members

LEMMA OpenLobbyJoins ==
    ASSUME ChatAssumption, Inv, NEW c \in Clients, OpenLobby(c)
    PROVE  /\ Members' = Members \union {c}
           /\ joined' = [joined EXCEPT ![c] = Room!BeforeHistory(registered)]
           /\ shown' = [shown EXCEPT ![c] = <<>>]
           /\ registered' = registered
<1>1. client[c] \in ClientRecord
  BY DEF Inv, TypeOK
<1>2. client'[c].chat /\ \A d \in Clients : d # c => client'[d] = client[d]
  BY <1>1 DEF Inv, TypeOK, OpenLobby, Subscribe, SetClient, ClientRecord
<1>3. registered - Len(history) = Room!BeforeHistory(registered)
  <2>1. registered \in Nat /\ HistoryLength \in Nat /\ Len(history) \in Nat
    BY DEF Inv, TypeOK, ChatAssumption
  <2>2. /\ Len(history) <= HistoryLength
        /\ Len(history) <= registered
        /\ Len(history) = HistoryLength \/ Len(history) = registered
    BY DEF Inv, TypeOK, HistoryExact
  <2>3. QED
    BY <2>1, <2>2 DEF Room!BeforeHistory
<1>4. Members' = Members \union {c}
  BY <1>2 DEF Members
<1>5. QED
  BY <1>3, <1>4 DEF OpenLobby, Subscribe

LEMMA ReceiveReads ==
    ASSUME Inv, NEW c \in Clients, Receive(c)
    PROVE  /\ c \in Members
           /\ UNCHANGED <<registered, Members, joined>>
           /\ \/ UNCHANGED shown
              \/ \E last \in (joined[c] + Len(shown[c]))..registered :
                   shown' = [shown EXCEPT ![c] = shown[c] \o Numbers(joined[c] + Len(shown[c]), last)]
<1> DEFINE seen == joined[c] + Len(shown[c])
           q == [client[c] EXCEPT !.channel = Tail(client[c].channel), !.poll = "components"]
<1>1. c \in Members
  BY ReceiveStep DEF Members
<1>2. UNCHANGED <<registered, joined>>
  BY DEF Receive, HandleChatEvent
<1>3. Members' = Members
  <2>1. SetClient(c, q) /\ q.chat = client[c].chat
    BY ReceiveStep DEF SetClient, ClientRecord
  <2>2. QED
    BY <2>1, SameMembers DEF Inv
<1>4. CASE client[c].state = "Open"
  <2> DEFINE e == client[c].channel
  <2>1. /\ Consecutive(e, seen, registered)
        /\ e \in Seq(Seq(Nat)) /\ e # <<>>
        /\ seen \in Nat /\ registered \in Nat
    BY <1>4, ReceiveStep DEF Inv, Windows
  <2> HIDE DEF e, seen
  <2>2. PICK next \in seen..registered : Head(e) = Numbers(seen, next)
    BY <2>1, ConsecutiveTail
  <2> USE DEF e, seen
  <2>3. shown' = [shown EXCEPT ![c] = shown[c] \o Numbers(seen, next)]
    BY <1>4, <2>2 DEF Receive, HandleChatEvent
  <2>4. QED
    BY <1>1, <1>2, <1>3, <2>3
<1>5. CASE client[c].state # "Open"
  BY <1>1, <1>2, <1>3, <1>5 DEF Receive, HandleChatEvent
<1>6. QED
  BY <1>4, <1>5

LEMMA StepSimulation ==
    ASSUME ChatAssumption, Inv, [Next]_vars
    PROVE  [Room!Next]_(Room!vars)
<1> USE DEF Members
<1>1. CASE UNCHANGED vars
  BY <1>1 DEF vars, Room!vars
<1>2. ASSUME NEW c \in Clients,
             \/ BeginPoll(c) \/ EndTasks(c) \/ ReceivePending(c) \/ EndPoll(c)
             \/ EndStream(c) \/ Disconnect(c) \/ Wake(c) \/ Drop(c)
      PROVE  UNCHANGED Room!vars
  BY <1>2, QuietStutters DEF Room!vars
<1>3. ASSUME NEW c \in Clients, SendMessage(c) PROVE Room!Post
  BY <1>3, SendMessagePosts DEF Room!Post
<1>4. ASSUME NEW c \in Clients, OpenLobby(c) PROVE Room!Join(c)
  BY <1>4, OpenLobbyJoins DEF Room!Join
<1>5. ASSUME NEW c \in Clients, Receive(c) PROVE Room!Read(c) \/ UNCHANGED Room!vars
  BY <1>5, ReceiveReads DEF Room!Read, Room!vars, Room!Numbers, Numbers
<1>6. QED
  BY <1>1, <1>2, <1>3, <1>4, <1>5 DEF Next, PollStep, AllDropped, Room!Next

(* Every run of the chat is one of ChatRoom: its channels and its history  *)
(* show everybody the one list of messages without gap or repetition.      *)
THEOREM Implementation == Spec => ImplementsChatRoom
<1>1. Init => Room!Init
  BY DEF Init, Room!Init
<1>2. ChatAssumption /\ Inv /\ [Next]_vars => [Room!Next]_(Room!vars)
  BY StepSimulation
<1>3. QED
  BY <1>1, <1>2, ChatAssumption, ChatInvariant, PTL DEF Spec, Room!Spec, ImplementsChatRoom

-----------------------------------------------------------------------------
(* What ChatRoom promises, and so the chat.                                *)

RoomInv == Room!TypeOK /\ Room!ShownInOrder

LEMMA ConcatFact ==
    ASSUME NEW a \in Seq(Nat), NEW b \in Seq(Nat)
    PROVE  /\ a \o b \in Seq(Nat) /\ Len(a \o b) = Len(a) + Len(b)
           /\ \A i \in 1..Len(a) : (a \o b)[i] = a[i]
           /\ \A i \in (Len(a) + 1)..(Len(a) + Len(b)) : (a \o b)[i] = b[i - Len(a)]
  OBVIOUS

LEMMA NumbersJoin ==
    ASSUME NEW first \in Nat, NEW middle \in first..registered, NEW last \in middle..registered,
           registered \in Nat
    PROVE  Numbers(first, middle) \o Numbers(middle, last) = Numbers(first, last)
<1> DEFINE a == Numbers(first, middle)
           b == Numbers(middle, last)
<1>1. /\ middle \in Nat /\ last \in Nat /\ first <= middle /\ middle <= last /\ first <= last
      /\ middle - first \in Nat /\ last - middle \in Nat /\ last - first \in Nat
  OBVIOUS
<1>2. /\ a \in Seq(Nat) /\ Len(a) = middle - first
      /\ \A i \in 1..(middle - first) : a[i] = first + i
  BY <1>1, NumbersType
<1>3. /\ b \in Seq(Nat) /\ Len(b) = last - middle
      /\ \A i \in 1..(last - middle) : b[i] = middle + i
  BY <1>1, NumbersType
<1> HIDE DEF a, b
<1>4. a \o b \in Seq(Nat) /\ Len(a \o b) = last - first
  <2>1. a \o b \in Seq(Nat) /\ Len(a \o b) = Len(a) + Len(b)
    BY ONLY <1>2, <1>3, ConcatFact
  <2>2. (middle - first) + (last - middle) = last - first
    BY <1>1
  <2>3. QED
    BY ONLY <1>2, <1>3, <2>1, <2>2
<1>5. ASSUME NEW i \in 1..(last - first) PROVE (a \o b)[i] = first + i
  <2>1. CASE i <= middle - first
    <3>1. i \in 1..(middle - first)
      BY <1>1, <2>1
    <3>2. (a \o b)[i] = a[i]
      BY <1>2, <1>3, <3>1
    <3>3. QED
      BY <1>2, <3>1, <3>2
  <2>2. CASE i > middle - first
    <3> DEFINE j == i - (middle - first)
    <3>1. j \in 1..(last - middle) /\ middle + j = first + i
      BY <1>1, <2>2
    <3>2. (a \o b)[i] = b[j]
      <4>1. Len(a) = middle - first /\ Len(a) \in Nat /\ i - Len(a) = j
        BY <1>1, <1>2
      <4>2. i \in (Len(a) + 1)..(Len(a) + Len(b))
        BY <1>1, <1>2, <1>3, <2>2
      <4> HIDE DEF j
      <4>3. QED
        BY ONLY <1>2, <1>3, <4>1, <4>2, ConcatFact
    <3> HIDE DEF j
    <3>3. QED
      BY <1>3, <3>1, <3>2
  <2>3. i <= middle - first \/ i > middle - first
    BY <1>1
  <2>4. QED
    BY ONLY <2>1, <2>2, <2>3
<1>6. QED
  BY <1>1, <1>4, <1>5, IsNumbers DEF a, b

LEMMA RoomStep ==
    ASSUME RoomInv, Room!Next, ChatAssumption
    PROVE  RoomInv'
<1> DEFINE members == {c \in Clients : client[c].chat}
           Ordered(c, screen, from) ==
               /\ from + Len(screen) <= registered
               /\ screen = Numbers(from, from + Len(screen))
<1>1. /\ registered \in Nat /\ joined \in [Clients -> Nat] /\ shown \in [Clients -> Seq(Nat)]
      /\ \A c \in Clients : Ordered(c, shown[c], joined[c]) /\ (c \notin members => shown[c] = <<>>)
  BY DEF RoomInv, Room!TypeOK, Room!ShownInOrder, Room!Numbers, Numbers
<1> SUFFICES /\ registered' \in Nat /\ joined' \in [Clients -> Nat] /\ shown' \in [Clients -> Seq(Nat)]
             /\ \A c \in Clients :
                  /\ joined'[c] + Len(shown'[c]) <= registered'
                  /\ shown'[c] = Numbers(joined'[c], joined'[c] + Len(shown'[c]))
                  /\ c \notin members' => shown'[c] = <<>>
  BY DEF RoomInv, Room!TypeOK, Room!ShownInOrder, Room!Numbers, Numbers
<1>2. CASE Room!Post
  <2>1. registered' = registered + 1 /\ members' = members /\ joined' = joined /\ shown' = shown
    BY <1>2 DEF Room!Post
  <2>2. ASSUME NEW c \in Clients
        PROVE  joined[c] + Len(shown[c]) <= registered + 1
    <3>1. joined[c] \in Nat /\ Len(shown[c]) \in Nat /\ joined[c] + Len(shown[c]) <= registered
      BY <1>1
    <3>2. QED
      BY <1>1, <3>1
  <2> HIDE DEF members
  <2>3. QED
    BY <1>1, <2>1, <2>2
<1>3. CASE \E c \in Clients : Room!Join(c)
  <2>1. PICK c \in Clients : Room!Join(c)
    BY <1>3
  <2> DEFINE from == Room!BeforeHistory(registered)
  <2>2. from \in Nat /\ from <= registered
    BY <1>1 DEF ChatAssumption, Room!BeforeHistory
  <2>3. /\ members' = members \union {c} /\ registered' = registered
        /\ joined' = [joined EXCEPT ![c] = from] /\ shown' = [shown EXCEPT ![c] = <<>>]
    BY <2>1 DEF Room!Join
  <2> HIDE DEF from, members
  <2>4. <<>> \in Seq(Nat) /\ Len(<<>>) = 0 /\ from + 0 = from /\ <<>> = Numbers(from, from)
    BY <2>2, NoneOrOneNumber
  <2>5. joined' \in [Clients -> Nat] /\ shown' \in [Clients -> Seq(Nat)]
    BY <1>1, <2>2, <2>3, <2>4
  <2>6. joined'[c] = from /\ shown'[c] = <<>>
    BY <1>1, <2>3
  <2>7. \A d \in Clients : d # c => joined'[d] = joined[d] /\ shown'[d] = shown[d]
    BY <1>1, <2>3
  <2>8. QED
    BY <1>1, <2>2, <2>3, <2>4, <2>5, <2>6, <2>7
<1>4. CASE \E c \in Clients : Room!Read(c)
  <2>1. PICK c \in Clients : Room!Read(c)
    BY <1>4
  <2> DEFINE seen == joined[c] + Len(shown[c])
  <2>2. PICK last \in seen..registered : shown' = [shown EXCEPT ![c] = @ \o Numbers(seen, last)]
    BY <2>1 DEF Room!Read, Room!Numbers, Numbers
  <2>3. c \in members /\ registered' = registered /\ members' = members /\ joined' = joined
    BY <2>1 DEF Room!Read
  <2> HIDE DEF members
  <2>4. joined[c] \in Nat /\ Len(shown[c]) \in Nat /\ seen \in joined[c]..registered /\ last \in Nat
    BY <1>1
  <2>5. shown[c] = Numbers(joined[c], seen)
    BY <1>1
  <2>6. shown'[c] = Numbers(joined[c], last)
    <3>1. shown'[c] = shown[c] \o Numbers(seen, last)
      BY <1>1, <2>2
    <3>2. Numbers(joined[c], seen) \o Numbers(seen, last) = Numbers(joined[c], last)
      BY <1>1, <2>4, NumbersJoin
    <3> HIDE DEF seen
    <3>3. QED
      BY <2>5, <3>1, <3>2
  <2>7. \A d \in Clients : d # c => shown'[d] = shown[d]
    BY <1>1, <2>2
  <2>8. /\ Numbers(joined[c], last) \in Seq(Nat)
        /\ Len(Numbers(joined[c], last)) = last - joined[c]
        /\ joined[c] + (last - joined[c]) = last
        /\ last <= registered
    <3>1. joined[c] <= last /\ last <= registered
      BY <1>1, <2>4
    <3>2. joined[c] + (last - joined[c]) = last
      BY <2>4
    <3>3. QED
      BY ONLY <2>4, <3>1, <3>2, NumbersType
  <2>9. shown' \in [Clients -> Seq(Nat)]
    BY <1>1, <2>2, <2>6, <2>8
  <2> HIDE DEF seen
  <2>10. /\ joined[c] + Len(shown'[c]) = last
         /\ shown'[c] = Numbers(joined[c], last)
    BY <2>6, <2>8
  <2>11. QED
    BY <1>1, <2>3, <2>7, <2>8, <2>9, <2>10
<1>5. QED
  BY <1>2, <1>3, <1>4 DEF Room!Next

(* Whatever implements ChatRoom shows everybody consecutive messages, from *)
(* where the reader joined; so does the chat, however its channels lag and *)
(* its history is trimmed.                                                 *)
THEOREM ScreensInOrder == Spec => []Room!ShownInOrder
<1>1. Room!Init => RoomInv
  <2> SUFFICES ASSUME Room!Init PROVE RoomInv
    OBVIOUS
  <2>1. registered = 0 /\ joined = [c \in Clients |-> 0] /\ shown = [c \in Clients |-> <<>>]
    BY DEF Room!Init
  <2>2. Len(<<>>) = 0 /\ 0 + 0 = 0 /\ <<>> = Numbers(0, 0) /\ <<>> \in Seq(Nat)
    BY NoneOrOneNumber
  <2>3. Room!TypeOK
    BY <2>1, <2>2 DEF Room!TypeOK
  <2>4. Room!ShownInOrder
    BY <2>1, <2>2 DEF Room!ShownInOrder, Room!Numbers, Numbers
  <2>5. QED
    BY <2>3, <2>4 DEF RoomInv
<1>2. ChatAssumption /\ RoomInv /\ [Room!Next]_(Room!vars) => RoomInv'
  <2> SUFFICES ASSUME RoomInv, UNCHANGED Room!vars PROVE RoomInv'
    BY RoomStep
  <2>1. QED
    BY DEF Room!vars, RoomInv, Room!TypeOK, Room!ShownInOrder
<1>3. RoomInv => Room!ShownInOrder
  BY DEF RoomInv
<1>4. QED
  BY <1>1, <1>2, <1>3, ChatAssumption, Implementation, PTL DEF ImplementsChatRoom, Room!Spec

=============================================================================
