------------------------- MODULE ClientResourcesProofs -------------------------
(***************************************************************************)
(* For any stages and callers the resource pipeline has at most one        *)
(* request under way, never stalls and forgets no listener.  The four      *)
(* properties of the run are inductive together: that the pipeline never   *)
(* stalls is why a fresh request is the first to be sent, and that every   *)
(* stage has one request is why its listeners are all of its callers.      *)
(***************************************************************************)
EXTENDS ClientResources, TLAPS

IInv == TypeOK /\ OnePending /\ WorkConserving /\ NoLostListener

(* What the changes of one request do to the sequence of all.              *)
LEMMA Entry ==
    ASSUME NEW reqs \in Seq(Request), NEW k \in DOMAIN reqs, NEW r \in Request
    PROVE  /\ reqs[k] \in Request
           /\ [reqs EXCEPT ![k] = r] \in Seq(Request)
           /\ DOMAIN [reqs EXCEPT ![k] = r] = DOMAIN reqs
           /\ [reqs EXCEPT ![k] = r][k] = r
           /\ \A i \in DOMAIN reqs : i # k => [reqs EXCEPT ![k] = r][i] = reqs[i]
  OBVIOUS

(* A request with another state or other listeners is a request.           *)
LEMMA Change ==
    ASSUME NEW r \in Request, NEW s \in {"Enqueued", "Pending", "Finished"},
           NEW L \in SUBSET Waiters
    PROVE  /\ [stage |-> r.stage, state |-> s, listeners |-> L] \in Request
           /\ r.listeners \in SUBSET Waiters
           /\ r.state \in {"Enqueued", "Pending", "Finished"}
           /\ [r EXCEPT !.state = s]
                = [stage |-> r.stage, state |-> s, listeners |-> r.listeners]
           /\ [r EXCEPT !.listeners = L]
                = [stage |-> r.stage, state |-> r.state, listeners |-> L]
           /\ [r EXCEPT !.state = s, !.listeners = L]
                = [stage |-> r.stage, state |-> s, listeners |-> L]
<1>1. r = [stage |-> r.stage, state |-> r.state, listeners |-> r.listeners]
  BY DEF Request
<1>2. r.stage \in Stages /\ r.listeners \in SUBSET Waiters
  BY DEF Request
<1>3. r.state \in {"Enqueued", "Pending", "Finished"}
  BY DEF Request
<1>4. [stage |-> r.stage, state |-> s, listeners |-> L] \in Request
  BY <1>2 DEF Request
<1>5. [r EXCEPT !.state = s] = [stage |-> r.stage, state |-> s, listeners |-> r.listeners]
  BY <1>1
<1>6. [r EXCEPT !.listeners = L] = [stage |-> r.stage, state |-> r.state, listeners |-> L]
  BY <1>1
<1>7. [r EXCEPT !.state = s, !.listeners = L]
        = [stage |-> r.stage, state |-> s, listeners |-> L]
  <2>1. [r EXCEPT !.state = s, !.listeners = L] = [[r EXCEPT !.state = s] EXCEPT !.listeners = L]
    OBVIOUS
  <2>2. @ = [[stage |-> r.stage, state |-> s, listeners |-> r.listeners] EXCEPT !.listeners = L]
    BY <1>5
  <2>3. @ = [stage |-> r.stage, state |-> s, listeners |-> L]
    OBVIOUS
  <2> QED
    BY <2>1, <2>2, <2>3
<1> QED
  BY <1>2, <1>3, <1>4, <1>5, <1>6, <1>7

(* try_send_next_load_request turns requests of which those to be sent     *)
(* come last into requests of which at most one is pending and none waits  *)
(* in vain.  It moves one request at most, from Enqueued to Pending.       *)
LEMMA SendNext ==
    ASSUME NEW reqs \in Seq(Request), NEW pending \in BOOLEAN, NEW acknowledged,
           pending <=> InState(reqs, "Pending") # {},
           \A i, j \in InState(reqs, "Pending") : i = j,
           \A i \in InState(reqs, "Enqueued") : \A j \in DOMAIN reqs :
             j > i => reqs[j].state = "Enqueued",
           open => InState(reqs, "Pending") \subseteq asked \ acknowledged,
           asked \subseteq DOMAIN reqs,
           open \in BOOLEAN, open' = open,
           TrySendNextLoadRequest(reqs, pending, acknowledged)
    PROVE  /\ requests' \in Seq(Request) /\ request_pending' \in BOOLEAN
           /\ asked' \subseteq DOMAIN requests'
           /\ OnePending' /\ WorkConserving'
           /\ DOMAIN requests' = DOMAIN reqs
           /\ \A i \in DOMAIN reqs :
                /\ requests'[i].stage = reqs[i].stage
                /\ requests'[i].listeners = reqs[i].listeners
                /\ requests'[i].state = "Finished" <=> reqs[i].state = "Finished"
<1>1. CASE ~CanSend(reqs, pending)
  <2>1. /\ requests' = reqs /\ request_pending' = pending
        /\ asked' = asked \ acknowledged
    BY <1>1 DEF TrySendNextLoadRequest
  <2>2. OnePending'
    BY <2>1 DEF OnePending, InState
  <2>3. WorkConserving'
    BY <1>1, <2>1 DEF WorkConserving, InState, CanSend
  <2> QED
    BY <2>1, <2>2, <2>3
<1>2. CASE CanSend(reqs, pending)
  <2>1. PICK k \in DOMAIN reqs :
          /\ IsFirst(k, InState(reqs, "Enqueued"))
          /\ requests' = [reqs EXCEPT ![k].state = "Pending"]
          /\ request_pending' = TRUE
          /\ Ask(k, acknowledged)
    BY <1>2 DEF TrySendNextLoadRequest
  <2>2. DOMAIN reqs = 1..Len(reqs) /\ Len(reqs) \in Nat /\ k \in Nat
    OBVIOUS
  <2>3. /\ reqs[k].state = "Enqueued"
        /\ \A j \in DOMAIN reqs : reqs[j].state = "Enqueued" => k <= j
    BY <2>1 DEF IsFirst, InState
  <2> DEFINE r == [stage |-> reqs[k].stage, state |-> "Pending",
                   listeners |-> reqs[k].listeners]
  <2>4. /\ requests' = [reqs EXCEPT ![k] = r] /\ r \in Request
        /\ r.state = "Pending" /\ r.stage = reqs[k].stage
        /\ r.listeners = reqs[k].listeners
    <3>1. reqs[k] \in Request
      OBVIOUS
    <3>2. /\ [reqs[k] EXCEPT !.state = "Pending"] = r
          /\ r \in Request
      BY <3>1, Change
    <3>3. requests' = [reqs EXCEPT ![k] = [reqs[k] EXCEPT !.state = "Pending"]]
      BY <2>1
    <3> QED
      BY <3>2, <3>3
  <2> HIDE DEF r
  <2>5. /\ requests' \in Seq(Request) /\ DOMAIN requests' = DOMAIN reqs
        /\ requests'[k].state = "Pending"
        /\ requests'[k].stage = reqs[k].stage
        /\ requests'[k].listeners = reqs[k].listeners
    BY <2>4, Entry
  <2>6. \A i \in DOMAIN reqs : i # k => requests'[i] = reqs[i]
    BY <2>4, Entry
  <2>7. \A i \in DOMAIN reqs : reqs[i].state # "Pending"
    BY <1>2 DEF CanSend, InState
  <2>8. InState(requests', "Pending") = {k}
    BY <2>5, <2>6, <2>7 DEF InState
  <2>9. asked' = (asked \ acknowledged) \union (IF open THEN {k} ELSE {})
    BY <2>1 DEF Ask
  <2>10. OnePending'
    BY <2>1, <2>8, <2>9 DEF OnePending, InState
  <2>11. WorkConserving'
    <3> SUFFICES ASSUME NEW i \in DOMAIN reqs, requests'[i].state = "Enqueued",
                        NEW j \in DOMAIN reqs, j > i
                 PROVE  requests'[j].state = "Enqueued"
      BY <2>1, <2>5 DEF WorkConserving, InState
    <3>1. i # k /\ reqs[i].state = "Enqueued"
      BY <2>5, <2>6
    <3>2. k <= i /\ j # k
      BY <2>2, <2>3, <3>1
    <3>3. reqs[j].state = "Enqueued"
      BY <3>1 DEF InState
    <3> QED
      BY <2>6, <3>2, <3>3
  <2>12. asked' \subseteq DOMAIN requests'
    BY <2>5, <2>9
  <2>13. \A i \in DOMAIN reqs :
           /\ requests'[i].stage = reqs[i].stage
           /\ requests'[i].listeners = reqs[i].listeners
           /\ requests'[i].state = "Finished" <=> reqs[i].state = "Finished"
    BY <2>3, <2>5, <2>6
  <2> QED
    BY <2>1, <2>5, <2>10, <2>11, <2>12, <2>13
<1> QED
  BY <1>1, <1>2

(* No request was made, so there is nothing to violate.                    *)
LEMMA InitIInv == Init => IInv
<1> SUFFICES ASSUME Init PROVE IInv
  OBVIOUS
<1>1. requests \in Seq(Request) /\ DOMAIN requests = {}
  BY DEF Init
<1> QED
  BY <1>1 DEF Init, IInv, TypeOK, OnePending, WorkConserving, NoLostListener, InState

(* await_resources_loaded of a stage nobody asked for: what becomes of the *)
(* requests.                                                               *)
LEMMA AwaitNewSends ==
    ASSUME IInv, NEW w \in Waiters, AwaitNew(w)
    PROVE  LET n == Len(requests) + 1
           IN  /\ requests' \in Seq(Request) /\ request_pending' \in BOOLEAN
               /\ asked' \subseteq DOMAIN requests'
               /\ OnePending' /\ WorkConserving'
               /\ n \in Nat \ {0} /\ DOMAIN requests = 1..(n - 1) /\ DOMAIN requests' = 1..n
               /\ \A i \in DOMAIN requests :
                    /\ requests'[i].stage = requests[i].stage
                    /\ requests'[i].listeners = requests[i].listeners
                    /\ requests'[i].state = "Finished" <=> requests[i].state = "Finished"
               /\ requests'[n].stage = StageOf[w] /\ requests'[n].listeners = {w}
               /\ requests'[n].state # "Finished"
<1> USE WaiterAssumption
<1> DEFINE new == [stage |-> StageOf[w], state |-> "Enqueued", listeners |-> {w}]
           reqs == Append(requests, new)
           n == Len(requests) + 1
<1>1. /\ requests \in Seq(Request) /\ new \in Request /\ reqs \in Seq(Request)
      /\ DOMAIN requests = 1..Len(requests) /\ DOMAIN reqs = 1..n /\ Len(requests) \in Nat
      /\ reqs[n] = new /\ \A i \in DOMAIN requests : reqs[i] = requests[i]
  BY DEF IInv, TypeOK, Request
<1>2. /\ w \notin called /\ called' = called \union {w}
      /\ open' = open /\ served' = served
      /\ \A i \in DOMAIN requests : requests[i].stage # StageOf[w]
      /\ TrySendNextLoadRequest(reqs, request_pending, {})
  BY DEF AwaitNew, CanCall, Call
<1>3. new.stage = StageOf[w] /\ new.state = "Enqueued" /\ new.listeners = {w}
  OBVIOUS
<1> HIDE DEF new, reqs
<1>4. InState(reqs, "Pending") = InState(requests, "Pending")
  BY <1>1, <1>3 DEF InState
<1>5. \A i \in InState(reqs, "Enqueued") : \A j \in DOMAIN reqs :
        j > i => reqs[j].state = "Enqueued"
  BY <1>1, <1>3 DEF InState, IInv, WorkConserving
<1>6. /\ requests' \in Seq(Request) /\ request_pending' \in BOOLEAN
      /\ asked' \subseteq DOMAIN requests'
      /\ OnePending' /\ WorkConserving'
      /\ DOMAIN requests' = DOMAIN reqs
      /\ \A i \in DOMAIN reqs :
           /\ requests'[i].stage = reqs[i].stage
           /\ requests'[i].listeners = reqs[i].listeners
           /\ requests'[i].state = "Finished" <=> reqs[i].state = "Finished"
  <2>1. /\ request_pending \in BOOLEAN /\ open \in BOOLEAN
        /\ request_pending <=> InState(reqs, "Pending") # {}
        /\ \A i, j \in InState(reqs, "Pending") : i = j
        /\ open => InState(reqs, "Pending") \subseteq asked \ {}
    BY <1>4 DEF IInv, TypeOK, OnePending
  <2>2. asked \subseteq DOMAIN reqs
    BY <1>1 DEF IInv, TypeOK
  <2> QED
    BY <1>1, <1>2, <1>5, <2>1, <2>2, SendNext
<1>7. n \in Nat \ {0} /\ DOMAIN requests = 1..(n - 1) /\ n \in DOMAIN reqs
  BY <1>1
<1> QED
  BY <1>1, <1>3, <1>6, <1>7

LEMMA AwaitNewIInv ==
    ASSUME IInv, NEW w \in Waiters, AwaitNew(w)
    PROVE  IInv'
<1> DEFINE n == Len(requests) + 1
<1>1. /\ requests' \in Seq(Request) /\ request_pending' \in BOOLEAN
      /\ asked' \subseteq DOMAIN requests'
      /\ OnePending' /\ WorkConserving'
      /\ n \in Nat \ {0} /\ DOMAIN requests = 1..(n - 1) /\ DOMAIN requests' = 1..n
      /\ \A i \in DOMAIN requests :
           /\ requests'[i].stage = requests[i].stage
           /\ requests'[i].listeners = requests[i].listeners
           /\ requests'[i].state = "Finished" <=> requests[i].state = "Finished"
      /\ requests'[n].stage = StageOf[w] /\ requests'[n].listeners = {w}
      /\ requests'[n].state # "Finished"
  BY AwaitNewSends
<1> HIDE DEF n
<1>2. /\ w \notin called /\ called' = called \union {w}
      /\ open' = open /\ served' = served
      /\ \A i \in DOMAIN requests : requests[i].stage # StageOf[w]
  BY DEF AwaitNew, CanCall, Call
<1>3. \A i \in DOMAIN requests' : i = n \/ i \in DOMAIN requests
  BY <1>1
<1>4. TypeOK'
  BY <1>1, <1>2 DEF IInv, TypeOK
<1>5. NoLostListener'
  <2>1. \A i, j \in DOMAIN requests' : requests'[i].stage = requests'[j].stage => i = j
    BY <1>1, <1>2, <1>3 DEF IInv, NoLostListener
  <2>2. served' \subseteq called'
    BY <1>2 DEF IInv, NoLostListener
  <2>3. ASSUME NEW v \in called'
        PROVE  \E i \in DOMAIN requests' :
                 /\ requests'[i].stage = StageOf[v]
                 /\ IF v \in served' THEN requests'[i].state = "Finished"
                    ELSE requests'[i].state # "Finished" /\ v \in requests'[i].listeners
    <3>1. CASE v = w
      <4>1. w \notin served
        BY <1>2 DEF IInv, NoLostListener
      <4>2. n \in DOMAIN requests'
        BY <1>1
      <4> QED
        BY <1>1, <1>2, <3>1, <4>1, <4>2
    <3>2. CASE v # w
      BY <1>1, <1>2, <1>3, <3>2 DEF IInv, NoLostListener
    <3> QED
      BY <3>1, <3>2
  <2>4. ASSUME NEW i \in DOMAIN requests', NEW v \in requests'[i].listeners
        PROVE  v \in called' \ served' /\ StageOf[v] = requests'[i].stage
    <3>1. CASE i = n
      BY <1>1, <1>2, <1>3, <3>1 DEF IInv, NoLostListener
    <3>2. CASE i # n
      BY <1>1, <1>2, <1>3, <3>2 DEF IInv, NoLostListener
    <3> QED
      BY <3>1, <3>2
  <2> QED
    BY <2>1, <2>2, <2>3, <2>4 DEF NoLostListener
<1> QED
  BY <1>1, <1>4, <1>5 DEF IInv

(* await_resources_loaded of a stage that was asked for before.            *)
LEMMA AwaitKnownIInv ==
    ASSUME IInv, NEW w \in Waiters, AwaitKnown(w)
    PROVE  IInv'
<1> USE WaiterAssumption
<1>1. PICK k \in DOMAIN requests :
         /\ requests[k].stage = StageOf[w]
         /\ IF requests[k].state # "Finished"
            THEN /\ requests' = [requests EXCEPT ![k].listeners = @ \union {w}]
                 /\ served' = served
            ELSE served' = served \union {w} /\ requests' = requests
  BY DEF AwaitKnown
<1>2. /\ w \notin called /\ called' = called \union {w}
      /\ request_pending' = request_pending /\ open' = open /\ asked' = asked
  BY DEF AwaitKnown, CanCall, Call
<1>3. requests \in Seq(Request)
  BY DEF IInv, TypeOK
<1>4. requests[k] \in Request /\ requests[k].listeners \union {w} \in SUBSET Waiters
  <2>1. requests[k] \in Request
    BY <1>3
  <2> QED
    BY <2>1 DEF Request
<1> DEFINE r == [stage |-> requests[k].stage, state |-> requests[k].state,
                 listeners |-> IF requests[k].state # "Finished"
                               THEN requests[k].listeners \union {w}
                               ELSE requests[k].listeners]
<1>5. requests' = [requests EXCEPT ![k] = r] /\ r \in Request
  <2>1. requests[k] = [stage |-> requests[k].stage, state |-> requests[k].state,
                       listeners |-> requests[k].listeners]
    BY <1>4 DEF Request
  <2>2. CASE requests[k].state # "Finished"
    BY <1>1, <1>4, <2>2, Change
  <2>3. CASE requests[k].state = "Finished"
    <3>1. r = requests[k]
      BY <2>1, <2>3
    <3> QED
      BY <1>1, <1>3, <1>4, <2>3, <3>1
  <2> QED
    BY <2>2, <2>3
<1>6. /\ requests' \in Seq(Request) /\ DOMAIN requests' = DOMAIN requests
      /\ requests'[k] = r
      /\ \A i \in DOMAIN requests : i # k => requests'[i] = requests[i]
  <2> HIDE DEF r
  <2> QED
    BY <1>3, <1>5, Entry
<1>6a. /\ r.stage = requests[k].stage /\ r.state = requests[k].state
       /\ r.listeners = IF requests[k].state # "Finished" THEN requests[k].listeners \union {w}
                        ELSE requests[k].listeners
  OBVIOUS
<1> HIDE DEF r
<1>6b. /\ \A i \in DOMAIN requests :
            /\ requests'[i].stage = requests[i].stage
            /\ requests'[i].state = requests[i].state
            /\ i # k => requests'[i].listeners = requests[i].listeners
      /\ requests'[k].listeners =
            IF requests[k].state # "Finished" THEN requests[k].listeners \union {w}
            ELSE requests[k].listeners
  BY <1>6, <1>6a
<1>7. TypeOK'
  BY <1>1, <1>2, <1>6 DEF IInv, TypeOK
<1>8. OnePending' /\ WorkConserving'
  BY <1>2, <1>6, <1>6b DEF IInv, OnePending, WorkConserving, InState
<1>9. NoLostListener'
  <2>1. \A i, j \in DOMAIN requests' : requests'[i].stage = requests'[j].stage => i = j
    BY <1>6, <1>6b DEF IInv, NoLostListener
  <2>2. served' \subseteq called'
    BY <1>1, <1>2 DEF IInv, NoLostListener
  <2>3. ASSUME NEW v \in called'
        PROVE  \E i \in DOMAIN requests' :
                 /\ requests'[i].stage = StageOf[v]
                 /\ IF v \in served' THEN requests'[i].state = "Finished"
                    ELSE requests'[i].state # "Finished" /\ v \in requests'[i].listeners
    <3>1. CASE v = w
      <4>1. w \notin served
        BY <1>2 DEF IInv, NoLostListener
      <4> QED
        BY <1>1, <1>6, <1>6b, <3>1, <4>1
    <3>2. CASE v # w
      <4>1. PICK i \in DOMAIN requests :
              /\ requests[i].stage = StageOf[v]
              /\ IF v \in served THEN requests[i].state = "Finished"
                 ELSE requests[i].state # "Finished" /\ v \in requests[i].listeners
        BY <1>2, <3>2 DEF IInv, NoLostListener
      <4>2. v \in served' <=> v \in served
        BY <1>1, <3>2
      <4>3. v \in requests[i].listeners => v \in requests'[i].listeners
        BY <1>6b
      <4> QED
        BY <1>6, <1>6b, <4>1, <4>2, <4>3
    <3> QED
      BY <3>1, <3>2
  <2>4. ASSUME NEW i \in DOMAIN requests', NEW v \in requests'[i].listeners
        PROVE  v \in called' \ served' /\ StageOf[v] = requests'[i].stage
    <3>1. \A j \in DOMAIN requests : \A u \in requests[j].listeners :
            u \in called \ served /\ StageOf[u] = requests[j].stage
      BY DEF IInv, NoLostListener
    <3>2. w \notin served
      BY <1>2 DEF IInv, NoLostListener
    <3>3. CASE v \in requests[i].listeners
      <4>1. v # w /\ v \in called \ served
        BY <1>2, <1>6, <3>1, <3>3
      <4> QED
        BY <1>1, <1>2, <1>6, <1>6b, <3>1, <3>3, <4>1
    <3>4. CASE v \notin requests[i].listeners
      <4>1. i = k /\ v = w /\ requests[k].state # "Finished"
        BY <1>6, <1>6b, <3>4
      <4> QED
        BY <1>1, <1>2, <1>6b, <3>2, <4>1
    <3> QED
      BY <3>3, <3>4
  <2> QED
    BY <2>1, <2>2, <2>3, <2>4 DEF NoLostListener
<1> QED
  BY <1>7, <1>8, <1>9 DEF IInv

(* on_packet: the pending request is finished, the next one sent.          *)
LEMMA RegisteredSends ==
    ASSUME IInv, NEW k \in DOMAIN requests, ResourcesRegistered(k)
    PROVE  /\ requests' \in Seq(Request) /\ request_pending' \in BOOLEAN
           /\ asked' \subseteq DOMAIN requests'
           /\ OnePending' /\ WorkConserving'
           /\ DOMAIN requests' = DOMAIN requests
           /\ \A i \in DOMAIN requests :
                /\ requests'[i].stage = requests[i].stage
                /\ i # k => /\ requests'[i].listeners = requests[i].listeners
                            /\ requests'[i].state = "Finished" <=> requests[i].state = "Finished"
           /\ requests[k].state = "Pending" /\ requests'[k].state = "Finished"
           /\ requests'[k].listeners = {}
<1> DEFINE reqs == [requests EXCEPT ![k].state = "Finished", ![k].listeners = {}]
<1>1. requests \in Seq(Request)
  BY DEF IInv, TypeOK
<1>2. /\ requests[k].state = "Pending"
      /\ served' = served \union requests[k].listeners
      /\ open' = open /\ called' = called
      /\ TrySendNextLoadRequest(reqs, FALSE, {k})
  <2> HIDE DEF reqs
  <2> QED
    BY DEF ResourcesRegistered, InState, reqs
<1> DEFINE r == [stage |-> requests[k].stage, state |-> "Finished", listeners |-> {}]
<1>3. reqs = [requests EXCEPT ![k] = r] /\ r \in Request
  <2>1. requests[k] \in Request /\ {} \in SUBSET Waiters
    BY <1>1
  <2>a. ASSUME NEW q \in Request
        PROVE  /\ [q EXCEPT !.state = "Finished", !.listeners = {}]
                    = [stage |-> q.stage, state |-> "Finished", listeners |-> {}]
               /\ [stage |-> q.stage, state |-> "Finished", listeners |-> {}] \in Request
    BY ONLY <2>a, <2>1, Change
  <2>2. r = [requests[k] EXCEPT !.state = "Finished", !.listeners = {}] /\ r \in Request
    BY ONLY <2>1, <2>a
  <2>3. reqs = [requests EXCEPT ![k] = [requests[k] EXCEPT !.state = "Finished",
                                                         !.listeners = {}]]
    BY <1>1
  <2> QED
    BY <2>2, <2>3
<1>3a. r.stage = requests[k].stage /\ r.state = "Finished" /\ r.listeners = {}
  OBVIOUS
<1> HIDE DEF reqs, r
<1>4. /\ reqs \in Seq(Request) /\ DOMAIN reqs = DOMAIN requests
      /\ reqs[k].state = "Finished" /\ reqs[k].listeners = {}
      /\ reqs[k].stage = requests[k].stage
      /\ \A i \in DOMAIN requests : i # k => reqs[i] = requests[i]
  BY <1>1, <1>3, <1>3a, Entry
<1>5. InState(reqs, "Pending") = {}
  BY <1>2, <1>4 DEF InState, IInv, OnePending
<1>6. \A i \in InState(reqs, "Enqueued") : \A j \in DOMAIN reqs :
        j > i => reqs[j].state = "Enqueued"
  <2> SUFFICES ASSUME NEW i \in DOMAIN requests, reqs[i].state = "Enqueued",
                      NEW j \in DOMAIN requests, j > i
               PROVE  reqs[j].state = "Enqueued"
    BY <1>4 DEF InState
  <2>1. requests[i].state = "Enqueued"
    BY <1>4
  <2>2. requests[j].state = "Enqueued"
    BY <2>1 DEF InState, IInv, WorkConserving
  <2> QED
    BY <1>2, <1>4, <2>2
<1>7. /\ requests' \in Seq(Request) /\ request_pending' \in BOOLEAN
      /\ asked' \subseteq DOMAIN requests'
      /\ OnePending' /\ WorkConserving'
      /\ DOMAIN requests' = DOMAIN reqs
      /\ \A i \in DOMAIN reqs :
           /\ requests'[i].stage = reqs[i].stage
           /\ requests'[i].listeners = reqs[i].listeners
           /\ requests'[i].state = "Finished" <=> reqs[i].state = "Finished"
  <2>1. asked \subseteq DOMAIN reqs /\ open \in BOOLEAN
    BY <1>4 DEF IInv, TypeOK
  <2> QED
    BY <1>2, <1>4, <1>5, <1>6, <2>1, SendNext
<1> QED
  BY <1>2, <1>4, <1>7

LEMMA RegisteredIInv ==
    ASSUME IInv, NEW k \in DOMAIN requests, ResourcesRegistered(k)
    PROVE  IInv'
<1>1. requests \in Seq(Request)
  BY DEF IInv, TypeOK
<1>2. /\ requests' \in Seq(Request) /\ request_pending' \in BOOLEAN
      /\ asked' \subseteq DOMAIN requests'
      /\ OnePending' /\ WorkConserving'
      /\ DOMAIN requests' = DOMAIN requests
      /\ \A i \in DOMAIN requests :
           /\ requests'[i].stage = requests[i].stage
           /\ i # k => /\ requests'[i].listeners = requests[i].listeners
                       /\ requests'[i].state = "Finished" <=> requests[i].state = "Finished"
      /\ requests[k].state = "Pending" /\ requests'[k].state = "Finished"
      /\ requests'[k].listeners = {}
  BY RegisteredSends
<1>3. served' = served \union requests[k].listeners /\ open' = open /\ called' = called
  BY DEF ResourcesRegistered
<1>4. requests[k].listeners \subseteq Waiters
  <2>1. requests[k] \in Request
    BY <1>1
  <2> QED
    BY <2>1 DEF Request
<1>5. TypeOK'
  BY <1>2, <1>3, <1>4 DEF IInv, TypeOK
<1>6. NoLostListener'
  <2>1. \A i, j \in DOMAIN requests' : requests'[i].stage = requests'[j].stage => i = j
    BY <1>2 DEF IInv, NoLostListener
  <2>2. \A i \in DOMAIN requests : \A u \in requests[i].listeners :
          u \in called \ served /\ StageOf[u] = requests[i].stage
    BY DEF IInv, NoLostListener
  <2>3. served' \subseteq called'
    BY <1>3, <2>2 DEF IInv, NoLostListener
  <2>4. ASSUME NEW v \in called'
        PROVE  \E i \in DOMAIN requests' :
                 /\ requests'[i].stage = StageOf[v]
                 /\ IF v \in served' THEN requests'[i].state = "Finished"
                    ELSE requests'[i].state # "Finished" /\ v \in requests'[i].listeners
    <3>1. PICK i \in DOMAIN requests :
            /\ requests[i].stage = StageOf[v]
            /\ IF v \in served THEN requests[i].state = "Finished"
               ELSE requests[i].state # "Finished" /\ v \in requests[i].listeners
      BY <1>3 DEF IInv, NoLostListener
    <3>2. CASE i = k
      BY <1>2, <1>3, <3>1, <3>2
    <3>3. CASE i # k
      <4>1. v \in requests[k].listeners => requests[i].stage = requests[k].stage
        BY <2>2, <3>1
      <4>2. v \notin requests[k].listeners
        BY <3>3, <4>1 DEF IInv, NoLostListener
      <4> QED
        BY <1>2, <1>3, <3>1, <3>3, <4>2
    <3> QED
      BY <3>2, <3>3
  <2>5. ASSUME NEW i \in DOMAIN requests', NEW v \in requests'[i].listeners
        PROVE  v \in called' \ served' /\ StageOf[v] = requests'[i].stage
    <3>1. i \in DOMAIN requests /\ i # k /\ v \in requests[i].listeners
      BY <1>2
    <3>2. v \in called \ served /\ StageOf[v] = requests[i].stage
      BY <2>2, <3>1
    <3>3. v \notin requests[k].listeners
      <4>1. v \in requests[k].listeners => requests[i].stage = requests[k].stage
        BY <2>2, <3>2
      <4> QED
        BY <3>1, <4>1 DEF IInv, NoLostListener
    <3> QED
      BY <1>2, <1>3, <3>1, <3>2, <3>3
  <2> QED
    BY <2>1, <2>3, <2>4, <2>5 DEF NoLostListener
<1> QED
  BY <1>2, <1>5, <1>6 DEF IInv

(* The inductive step, one case per action.                                *)
LEMMA NextIInv == IInv /\ [Next]_vars => IInv'
<1> SUFFICES ASSUME IInv, [Next]_vars PROVE IInv'
  OBVIOUS
<1>1. ASSUME NEW w \in Waiters, AwaitNew(w) PROVE IInv'
  BY <1>1, AwaitNewIInv
<1>2. ASSUME NEW w \in Waiters, AwaitKnown(w) PROVE IInv'
  BY <1>2, AwaitKnownIInv
<1>3. ASSUME NEW i \in DOMAIN requests, ResourcesRegistered(i) PROVE IInv'
  BY <1>3, RegisteredIInv
<1>4. CASE BadCallbackId
  <2>1. /\ requests' = requests /\ request_pending' = request_pending /\ open' = FALSE
        /\ asked' = asked /\ called' = called /\ served' = served
    BY <1>4 DEF BadCallbackId
  <2>2. TypeOK'
    BY <2>1 DEF IInv, TypeOK
  <2>3. OnePending'
    BY <2>1 DEF IInv, OnePending, InState
  <2>4. WorkConserving' /\ NoLostListener'
    BY <2>1 DEF IInv, WorkConserving, NoLostListener, InState
  <2> QED
    BY <2>2, <2>3, <2>4 DEF IInv
<1>5. CASE UNCHANGED vars
  BY <1>5 DEF vars, IInv, TypeOK, OnePending, WorkConserving, NoLostListener, InState
<1> QED
  BY <1>1, <1>2, <1>3, <1>4, <1>5 DEF Next

(* Whatever the peer acknowledges and whenever the callers call, the       *)
(* resource pipeline of a client keeps its types, its single pending       *)
(* request, its order and its listeners.                                   *)
THEOREM ResourcesSafe == Spec => [](TypeOK /\ OnePending /\ WorkConserving /\ NoLostListener)
  BY InitIInv, NextIInv, PTL DEF Spec, IInv

(* Nothing waits to be asked for while no request is out: the pipeline     *)
(* does not stall, whatever the peer acknowledges.                         *)
THEOREM WorkConserved == Spec => []WorkConserving
  BY ResourcesSafe, PTL

-----------------------------------------------------------------------------
(* The stages as their callers see them.  That every stage has one request *)
(* is why a stage is loaded once, that none overtakes another is why they  *)
(* are loaded in order, and NoLostListener says who is served.             *)

(* What IInv says of requests, stages and listeners, in one place.         *)
LEMMA Seen ==
    ASSUME IInv
    PROVE  /\ DOMAIN requests = 1..Len(requests) /\ Len(requests) \in Nat
           /\ \A i \in DOMAIN requests :
                requests[i].state \in {"Enqueued", "Pending", "Finished"}
           /\ \A i \in DOMAIN requests :
                requests[i].stage \in StagesLoaded <=> requests[i].state = "Finished"
           /\ \A i, j \in DOMAIN requests : requests[i].stage = requests[j].stage => i = j
           /\ Loads!Awaited = {requests[i].stage : i \in DOMAIN requests}
           /\ StagesLoaded \subseteq Loads!Awaited
<1>1. requests \in Seq(Request)
  BY DEF IInv, TypeOK
<1>2. DOMAIN requests = 1..Len(requests) /\ Len(requests) \in Nat
  BY <1>1
<1>3. ASSUME NEW i \in DOMAIN requests
      PROVE  requests[i].state \in {"Enqueued", "Pending", "Finished"}
  <2>1. requests[i] \in Request
    BY <1>1
  <2> QED
    BY <2>1 DEF Request
<1>4. \A i, j \in DOMAIN requests : requests[i].stage = requests[j].stage => i = j
  BY DEF IInv, NoLostListener
<1>5. \A i \in DOMAIN requests :
        requests[i].stage \in StagesLoaded <=> requests[i].state = "Finished"
  BY <1>4 DEF StagesLoaded, InState
<1>6. Loads!Awaited = {requests[i].stage : i \in DOMAIN requests}
  BY DEF Loads!Awaited, StagesQueued
<1>7. StagesLoaded \subseteq {requests[i].stage : i \in DOMAIN requests}
  BY DEF StagesLoaded, InState
<1> QED
  BY <1>2, <1>3, <1>4, <1>5, <1>6, <1>7

(* The same stages, and as many loaded, look the same.                     *)
LEMMA SameStages ==
    ASSUME DOMAIN requests' = DOMAIN requests,
           \A i \in DOMAIN requests : requests'[i].stage = requests[i].stage
    PROVE  StagesQueued' = StagesQueued
  BY DEF StagesQueued

(* What Append does to a sequence that is given place by place.            *)
LEMMA AppendedTo ==
    ASSUME NEW n \in Nat \ {0}, NEW f, NEW x
    PROVE  Append([i \in 1..(n - 1) |-> f[i].stage], x)
             = [i \in 1..n |-> IF i = n THEN x ELSE f[i].stage]
<1> DEFINE s == [i \in 1..(n - 1) |-> f[i].stage]
           T == {f[i].stage : i \in 1..(n - 1)} \union {x}
<1>1. s \in [1..(n - 1) -> T] /\ n - 1 \in Nat
  OBVIOUS
<1>2. s \in Seq(T) /\ Len(s) = n - 1 /\ x \in T
  BY <1>1
<1> HIDE DEF s, T
<1>3. /\ Append(s, x) \in Seq(T) /\ Len(Append(s, x)) = n
      /\ \A i \in 1..(n - 1) : Append(s, x)[i] = s[i]
      /\ Append(s, x)[n] = x
  BY <1>2
<1>4. Append(s, x) = [i \in 1..n |-> Append(s, x)[i]]
  <2>1. ASSUME NEW q \in Seq(T) PROVE q = [i \in 1..Len(q) |-> q[i]]
    OBVIOUS
  <2> QED
    BY ONLY <1>3, <2>1
<1>5. \A i \in 1..(n - 1) : s[i] = f[i].stage
  BY DEF s
<1>6. ASSUME NEW i \in 1..n
      PROVE  Append(s, x)[i] = IF i = n THEN x ELSE f[i].stage
  <2>1. i = n \/ i \in 1..(n - 1)
    OBVIOUS
  <2> QED
    BY <1>3, <1>5, <2>1
<1>7. [i \in 1..n |-> Append(s, x)[i]] = [i \in 1..n |-> IF i = n THEN x ELSE f[i].stage]
  BY <1>6
<1> QED
  BY <1>4, <1>7 DEF s

(* A stage that is new is appended to the queue, and is not loaded.        *)
LEMMA AwaitNewSeen ==
    ASSUME IInv, NEW w \in Waiters, AwaitNew(w)
    PROVE  Loads!Await(w)
<1> DEFINE n == Len(requests) + 1
<1>1. /\ n \in Nat \ {0} /\ DOMAIN requests = 1..(n - 1) /\ DOMAIN requests' = 1..n
      /\ \A i \in DOMAIN requests :
           /\ requests'[i].stage = requests[i].stage
           /\ requests'[i].state = "Finished" <=> requests[i].state = "Finished"
      /\ requests'[n].stage = StageOf[w]
      /\ requests'[n].state # "Finished"
  BY AwaitNewSends
<1>2. /\ w \notin called /\ After[w] \subseteq served
      /\ called' = called \union {w} /\ served' = served
      /\ \A i \in DOMAIN requests : requests[i].stage # StageOf[w]
  BY DEF AwaitNew, CanCall, Call
<1>3. StageOf[w] \notin Loads!Awaited /\ StageOf[w] \notin StagesLoaded
  BY <1>2, Seen
<1>4. StagesQueued' = Append(StagesQueued, StageOf[w])
  <2>1. StagesQueued = [i \in 1..(n - 1) |-> requests[i].stage]
    BY <1>1 DEF StagesQueued
  <2>2. StagesQueued' = [i \in 1..n |-> IF i = n THEN StageOf[w] ELSE requests[i].stage]
    BY <1>1 DEF StagesQueued
  <2> HIDE DEF n
  <2> QED
    BY <1>1, <2>1, <2>2, AppendedTo
<1> HIDE DEF n
<1>5. \A i \in 1..n : i \in DOMAIN requests \/ i = n
  BY <1>1
<1>6. InState(requests, "Finished")' = InState(requests, "Finished")
  BY <1>1, <1>5 DEF InState
<1>7. StagesLoaded' = StagesLoaded
  BY <1>1, <1>6 DEF StagesLoaded, InState
<1> QED
  BY <1>2, <1>3, <1>4, <1>7 DEF Loads!Await

(* A stage that is known: its caller is served if it is loaded.            *)
LEMMA AwaitKnownSeen ==
    ASSUME IInv, NEW w \in Waiters, AwaitKnown(w)
    PROVE  Loads!Await(w)
<1>1. PICK k \in DOMAIN requests :
         /\ requests[k].stage = StageOf[w]
         /\ IF requests[k].state # "Finished"
            THEN /\ requests' = [requests EXCEPT ![k].listeners = @ \union {w}]
                 /\ served' = served
            ELSE served' = served \union {w} /\ requests' = requests
  BY DEF AwaitKnown
<1>2. /\ w \notin called /\ After[w] \subseteq served /\ called' = called \union {w}
  BY DEF AwaitKnown, CanCall, Call
<1>3. StageOf[w] \in Loads!Awaited
  BY <1>1, Seen
<1>4. /\ DOMAIN requests' = DOMAIN requests
      /\ \A i \in DOMAIN requests :
           /\ requests'[i].stage = requests[i].stage
           /\ requests'[i].state = requests[i].state
  <2>1. CASE requests' = requests
    BY <2>1
  <2>2. CASE requests' = [requests EXCEPT ![k].listeners = @ \union {w}]
    <3> DEFINE r == [requests[k] EXCEPT !.listeners = @ \union {w}]
    <3>1. requests' = [requests EXCEPT ![k] = r]
      BY <2>2
    <3>2. requests[k] \in Request
      BY DEF IInv, TypeOK
    <3>3. r.stage = requests[k].stage /\ r.state = requests[k].state
      BY <3>2 DEF Request
    <3> HIDE DEF r
    <3>4. requests'[k] = r /\ \A i \in DOMAIN requests : i # k => requests'[i] = requests[i]
      BY <3>1
    <3>5. DOMAIN requests' = DOMAIN requests
      BY <3>1
    <3> QED
      BY <3>3, <3>4, <3>5
  <2> QED
    BY <1>1, <2>1, <2>2
<1>5. StagesQueued' = StagesQueued
  BY <1>4, SameStages
<1>6. StagesLoaded' = StagesLoaded
  BY <1>4 DEF StagesLoaded, InState
<1>7. served' = served \union (IF StageOf[w] \in StagesLoaded THEN {w} ELSE {})
  <2>1. StageOf[w] \in StagesLoaded <=> requests[k].state = "Finished"
    BY <1>1, Seen
  <2> QED
    BY <1>1, <2>1
<1> QED
  BY <1>2, <1>3, <1>5, <1>6, <1>7 DEF Loads!Await

(* The acknowledgement that counts loads the first stage that is not       *)
(* loaded, and serves all who wait for it.                                 *)
LEMMA RegisteredSeen ==
    ASSUME IInv, NEW k \in DOMAIN requests, ResourcesRegistered(k)
    PROVE  Loads!Load(k)
<1>1. /\ DOMAIN requests' = DOMAIN requests
      /\ \A i \in DOMAIN requests :
           /\ requests'[i].stage = requests[i].stage
           /\ i # k => (requests'[i].state = "Finished" <=> requests[i].state = "Finished")
      /\ requests[k].state = "Pending" /\ requests'[k].state = "Finished"
  BY RegisteredSends
<1>2. served' = served \union requests[k].listeners /\ called' = called
  BY DEF ResourcesRegistered
<1>3. \A i \in DOMAIN requests : StagesQueued[i] = requests[i].stage
  BY DEF StagesQueued
<1>4. DOMAIN StagesQueued = DOMAIN requests
  BY DEF StagesQueued
<1>5. requests[k].stage \notin StagesLoaded
  BY <1>1, Seen
<1>6. ASSUME NEW j \in DOMAIN requests, j < k
      PROVE  requests[j].stage \in StagesLoaded
  <2>1. requests[j].state # "Enqueued"
    BY <1>1, <1>6 DEF IInv, WorkConserving, InState
  <2>2. requests[j].state # "Pending"
    <3>1. j # k
      BY <1>6, Seen
    <3> QED
      BY <1>1, <3>1 DEF IInv, OnePending, InState
  <2> QED
    BY <2>1, <2>2, Seen
<1>7. StagesLoaded' = StagesLoaded \union {requests[k].stage}
  <2>1. InState(requests, "Finished")' = InState(requests, "Finished") \union {k}
    BY <1>1 DEF InState
  <2>2. \A i \in DOMAIN requests : requests'[i].stage = requests[i].stage
    BY <1>1
  <2> QED
    BY <2>1, <2>2 DEF StagesLoaded, InState
<1>8. requests[k].listeners = {w \in called \ served : StageOf[w] = requests[k].stage}
  <2>1. ASSUME NEW w \in requests[k].listeners
        PROVE  w \in called \ served /\ StageOf[w] = requests[k].stage
    BY DEF IInv, NoLostListener
  <2>2. ASSUME NEW w \in called \ served, StageOf[w] = requests[k].stage
        PROVE  w \in requests[k].listeners
    <3>1. PICK i \in DOMAIN requests :
            /\ requests[i].stage = StageOf[w]
            /\ requests[i].state # "Finished" /\ w \in requests[i].listeners
      BY DEF IInv, NoLostListener
    <3>2. i = k
      BY <2>2, <3>1, Seen
    <3> QED
      BY <3>1, <3>2
  <2> QED
    BY <2>1, <2>2
<1>9. served' = served \union {w \in called : StageOf[w] = requests[k].stage}
  <2>1. ASSUME NEW w \in served, StageOf[w] = requests[k].stage PROVE FALSE
    <3>1. PICK i \in DOMAIN requests :
            requests[i].stage = StageOf[w] /\ requests[i].state = "Finished"
      BY DEF IInv, NoLostListener
    <3> QED
      BY <1>1, <2>1, <3>1, Seen
  <2> QED
    BY <1>2, <1>8, <2>1
<1>10. StagesQueued' = StagesQueued
  BY <1>1, SameStages
<1> QED
  BY <1>2, <1>3, <1>4, <1>5, <1>6, <1>7, <1>9, <1>10 DEF Loads!Load

(* The requests of a client implement Loading: whichever stage is awaited  *)
(* while another is under way, stages are loaded in the order in which     *)
(* they were first awaited, and no caller is forgotten or told early.      *)
THEOREM Implementation == Spec => ImplementsLoading
<1>1. Init => Loads!Init
  <2> SUFFICES ASSUME Init PROVE Loads!Init
    OBVIOUS
  <2>1. DOMAIN requests = {} /\ DOMAIN <<>> = {} /\ requests = <<>>
    BY DEF Init
  <2>2. StagesQueued = <<>> /\ StagesLoaded = {}
    BY <2>1 DEF StagesQueued, StagesLoaded, InState
  <2> QED
    BY <2>2 DEF Init, Loads!Init
<1>2. IInv /\ [Next]_vars => [Loads!Next]_(Loads!vars)
  <2> SUFFICES ASSUME IInv, [Next]_vars PROVE [Loads!Next]_(Loads!vars)
    OBVIOUS
  <2>1. ASSUME NEW w \in Waiters, AwaitNew(w) PROVE Loads!Next
    BY <2>1, AwaitNewSeen DEF Loads!Next
  <2>2. ASSUME NEW w \in Waiters, AwaitKnown(w) PROVE Loads!Next
    BY <2>2, AwaitKnownSeen DEF Loads!Next
  <2>3. ASSUME NEW i \in DOMAIN requests, ResourcesRegistered(i) PROVE Loads!Next
    <3>1. i \in DOMAIN StagesQueued
      BY DEF StagesQueued
    <3> QED
      BY <2>3, <3>1, RegisteredSeen DEF Loads!Next
  <2>4. CASE BadCallbackId \/ UNCHANGED vars
    <3>1. requests' = requests /\ called' = called /\ served' = served
      BY <2>4 DEF BadCallbackId, vars
    <3>2. StagesQueued' = StagesQueued /\ StagesLoaded' = StagesLoaded
      BY <3>1 DEF StagesQueued, StagesLoaded, InState
    <3> QED
      BY <3>1, <3>2 DEF Loads!vars
  <2> QED
    BY <2>1, <2>2, <2>3, <2>4 DEF Next
<1> QED
  BY <1>1, <1>2, InitIInv, NextIInv, PTL DEF Spec, ImplementsLoading, Loads!Spec

(* Loading by itself: nobody asks twice for a stage, so the queue has no   *)
(* stage twice, and those loaded are its first ones.                       *)
LoadsInv == Loads!TypeOK /\ Loads!LoadedInOrder /\ Loads!ServedExact

LEMMA AppendFact ==
    ASSUME NEW T, NEW q \in Seq(T), NEW x \in T
    PROVE  /\ Append(q, x) \in Seq(T)
           /\ Len(q) \in Nat /\ DOMAIN q = 1..Len(q)
           /\ DOMAIN Append(q, x) = 1..Len(q) + 1
           /\ \A i \in 1..Len(q) : Append(q, x)[i] = q[i]
           /\ Append(q, x)[Len(q) + 1] = x
  OBVIOUS

LEMMA LoadsAwait ==
    ASSUME LoadsInv, NEW w \in Waiters, Loads!Await(w)
    PROVE  LoadsInv'
<1> DEFINE q == StagesQueued
           n == Len(StagesQueued)
           x == StageOf[w]
<1>1. /\ called' = called \union {w} /\ StagesLoaded' = StagesLoaded
      /\ served' = served \union (IF x \in StagesLoaded THEN {w} ELSE {})
      /\ \/ x \in Loads!Awaited /\ q' = q
         \/ x \notin Loads!Awaited /\ q' = Append(q, x)
  BY DEF Loads!Await
<1>2. /\ q \in Seq(Stages) /\ StagesLoaded \subseteq Loads!Awaited /\ called \subseteq Waiters
      /\ \A i, j \in DOMAIN q : /\ i # j => q[i] # q[j]
                                /\ j < i /\ q[i] \in StagesLoaded => q[j] \in StagesLoaded
      /\ served = {v \in called : StageOf[v] \in StagesLoaded}
  BY DEF LoadsInv, Loads!TypeOK, Loads!LoadedInOrder, Loads!ServedExact
<1>3. x \in Stages
  BY WaiterAssumption
<1>4. Loads!ServedExact'
  <2>1. served' = {v \in called' : StageOf[v] \in StagesLoaded}
    BY <1>1, <1>2
  <2> QED
    BY <1>1, <2>1 DEF Loads!ServedExact
<1>5. CASE x \in Loads!Awaited /\ q' = q
  <2>1. Loads!Awaited' = Loads!Awaited
    BY <1>5 DEF Loads!Awaited
  <2>2. Loads!TypeOK'
    BY <1>1, <1>2, <1>5, <2>1 DEF Loads!TypeOK
  <2>3. Loads!LoadedInOrder'
    BY <1>1, <1>2, <1>5 DEF Loads!LoadedInOrder
  <2> QED
    BY <1>4, <2>2, <2>3 DEF LoadsInv
<1>6. CASE x \notin Loads!Awaited /\ q' = Append(q, x)
  <2>1. /\ q' \in Seq(Stages) /\ n \in Nat /\ DOMAIN q = 1..n /\ DOMAIN q' = 1..n + 1
        /\ \A i \in 1..n : q'[i] = q[i]
        /\ q'[n + 1] = x
    BY <1>2, <1>3, <1>6, AppendFact
  <2> HIDE DEF n, q
  <2>2. \A i \in DOMAIN q' : i \in DOMAIN q \/ i = n + 1
    BY <2>1
  <2>3. n + 1 \in DOMAIN q' /\ \A i \in DOMAIN q : i \in DOMAIN q' /\ i < n + 1 /\ i \in Nat
    BY <2>1
  <2>4. \A i \in DOMAIN q : q[i] \in Loads!Awaited
    BY DEF Loads!Awaited, q
  <2>5. x \notin StagesLoaded
    BY <1>2, <1>6
  <2>6. \A i \in DOMAIN q : q'[i] = q[i] /\ q[i] # x
    BY <1>6, <2>1, <2>4
  <2>7. \A y \in Loads!Awaited : y \in Loads!Awaited'
    <3>1. \A y \in Loads!Awaited : \E i \in DOMAIN q : q[i] = y
      BY DEF Loads!Awaited, q
    <3>2. \A i \in DOMAIN q' : q'[i] \in Loads!Awaited'
      BY DEF Loads!Awaited, q
    <3> QED
      BY <2>3, <2>6, <3>1, <3>2
  <2>8. Loads!TypeOK'
    <3>1. StagesLoaded' \subseteq Loads!Awaited' /\ called' \subseteq Waiters
      BY <1>1, <1>2, <2>7
    <3>2. StagesQueued' \in Seq(Stages)
      BY <2>1 DEF q
    <3> QED
      BY <3>1, <3>2 DEF Loads!TypeOK
  <2>9. ASSUME NEW i \in DOMAIN q', NEW j \in DOMAIN q'
        PROVE  /\ i # j => q'[i] # q'[j]
               /\ j < i /\ q'[i] \in StagesLoaded => q'[j] \in StagesLoaded
    <3>1. CASE i \in DOMAIN q /\ j \in DOMAIN q
      BY <1>2, <2>6, <3>1
    <3>2. CASE i = n + 1
      BY <2>1, <2>2, <2>5, <2>6, <3>2
    <3>3. CASE i \in DOMAIN q /\ j = n + 1
      <4>1. ~(j < i)
        BY <2>1, <3>3
      <4> QED
        BY <2>1, <2>6, <3>3, <4>1
    <3> QED
      BY <2>2, <3>1, <3>2, <3>3
  <2>10. Loads!LoadedInOrder'
    BY <1>1, <2>9 DEF Loads!LoadedInOrder, q
  <2> QED
    BY <1>4, <2>8, <2>10 DEF LoadsInv
<1> QED
  BY <1>1, <1>5, <1>6

LEMMA LoadsLoad ==
    ASSUME LoadsInv, NEW k \in DOMAIN StagesQueued, Loads!Load(k)
    PROVE  LoadsInv'
<1> DEFINE q == StagesQueued
<1>1. /\ \A j \in DOMAIN q : j < k => q[j] \in StagesLoaded
      /\ StagesLoaded' = StagesLoaded \union {q[k]}
      /\ served' = served \union {w \in called : StageOf[w] = q[k]}
      /\ q' = q /\ called' = called
  BY DEF Loads!Load
<1>2. /\ q \in Seq(Stages) /\ StagesLoaded \subseteq Loads!Awaited /\ called \subseteq Waiters
      /\ \A i, j \in DOMAIN q : /\ i # j => q[i] # q[j]
                                /\ j < i /\ q[i] \in StagesLoaded => q[j] \in StagesLoaded
      /\ served = {v \in called : StageOf[v] \in StagesLoaded}
  BY DEF LoadsInv, Loads!TypeOK, Loads!LoadedInOrder, Loads!ServedExact
<1>3. Loads!Awaited' = Loads!Awaited /\ q[k] \in Loads!Awaited
  BY <1>1 DEF Loads!Awaited
<1>4. Loads!TypeOK'
  BY <1>1, <1>2, <1>3 DEF Loads!TypeOK
<1>5. ASSUME NEW i \in DOMAIN q, NEW j \in DOMAIN q, j < i, q[i] \in StagesLoaded'
      PROVE  q[j] \in StagesLoaded'
  <2>1. CASE q[i] \in StagesLoaded
    BY <1>1, <1>2, <1>5, <2>1
  <2>2. CASE q[i] = q[k]
    <3>1. i = k
      BY <1>2, <2>2
    <3> QED
      BY <1>1, <1>5, <3>1
  <2> QED
    BY <1>1, <1>5, <2>1, <2>2
<1>6. Loads!LoadedInOrder'
  BY <1>1, <1>2, <1>5 DEF Loads!LoadedInOrder
<1>7. Loads!ServedExact'
  BY <1>1, <1>2 DEF Loads!ServedExact
<1> QED
  BY <1>4, <1>6, <1>7 DEF LoadsInv

(* Whatever implements Loading loads each stage once and in order, and has *)
(* served exactly those whose stage is loaded; so has the client, whatever *)
(* its peer acknowledges.                                                  *)
THEOREM LoadingSafe == Spec => [](Loads!LoadedInOrder /\ Loads!ServedExact)
<1>1. Loads!Init => LoadsInv
  <2> SUFFICES ASSUME Loads!Init PROVE LoadsInv
    OBVIOUS
  <2>1. StagesQueued = <<>> /\ StagesLoaded = {} /\ called = {} /\ served = {}
    BY DEF Loads!Init
  <2>2. DOMAIN <<>> = {} /\ <<>> \in Seq(Stages)
    OBVIOUS
  <2> QED
    BY <2>1, <2>2 DEF LoadsInv, Loads!TypeOK, Loads!LoadedInOrder, Loads!ServedExact
<1>2. LoadsInv /\ [Loads!Next]_(Loads!vars) => LoadsInv'
  <2> SUFFICES ASSUME LoadsInv, [Loads!Next]_(Loads!vars) PROVE LoadsInv'
    OBVIOUS
  <2>1. CASE \E w \in Waiters : Loads!Await(w)
    BY <2>1, LoadsAwait
  <2>2. CASE \E k \in DOMAIN StagesQueued : Loads!Load(k)
    BY <2>2, LoadsLoad
  <2>3. CASE UNCHANGED Loads!vars
    BY <2>3 DEF Loads!vars, LoadsInv, Loads!TypeOK, Loads!LoadedInOrder,
                Loads!ServedExact, Loads!Awaited
  <2> QED
    BY <2>1, <2>2, <2>3 DEF Loads!Next
<1>3. LoadsInv => Loads!LoadedInOrder /\ Loads!ServedExact
  BY DEF LoadsInv
<1> QED
  BY <1>1, <1>2, <1>3, Implementation, PTL DEF ImplementsLoading, Loads!Spec

=============================================================================
