----------------------------- MODULE LoginProofs ----------------------------
(***************************************************************************)
(* Login keeps its promises, and implements Accounts, for any clients,     *)
(* user names and numbers of requests.                                     *)
(***************************************************************************)
EXTENDS Login, SequenceTheorems, TLAPS

(* What a task may rely on once it has been started.                       *)
GoodTask(t) ==
    /\ t.kind = "token" => t.hash # 0
    /\ t.success => t.step = "answered"
    /\ t.kind \in {"findUser", "createToken"} => t.user \in committed.user
    /\ t.kind \in {"credentials", "token", "register"} /\ t.success
         => t.user \in committed.user
    /\ t.kind = "createToken" /\ t.success => committed.token[t.user] # 0

ClientInv ==
    /\ life \in [Clients -> {"live", "ended", "gone"}]
    /\ auth \in [Clients -> Users \union {NoUser}]
    /\ loginPending \in [Clients -> BOOLEAN]
    /\ captcha \in [Clients -> {"Invalid", "Pending", "Solved"}]
    /\ announced \in [Clients -> Nat]
    /\ left \in [Clients -> Nat]
    /\ paid \in [Clients -> BOOLEAN]
    /\ \A c \in Clients : announced[c] > 0 => auth[c] # NoUser
    /\ \A c \in Clients : auth[c] # NoUser => auth[c] \in committed.user
    /\ CaptchaPaysOnce

FreshInv ==
    /\ fresh \in [Clients -> Seq(Task)]
    /\ \A c \in Clients : \A i \in DOMAIN fresh[c] :
         GoodTask(fresh[c][i]) /\ fresh[c][i].step = "waiting"

QueueInv ==
    /\ database \in Seq(Task)
    /\ \A i \in DOMAIN database :
         GoodTask(database[i]) /\ (i # 1 => database[i].step = "waiting")

InTransaction ==
    database # <<>> /\ database[1].step \in {"userInserted", "bothInserted"}

(* What the transaction of the head of the queue has done so far.          *)
OpenTransaction(t) ==
    /\ t.kind = "register"
    /\ t.user \notin committed.user
    /\ tables.user = committed.user \union {t.user}
    /\ tables.authentication = committed.authentication \union
                                 (IF t.step = "bothInserted" THEN {t.user} ELSE {})
    /\ tables.token = committed.token

FileInv ==
    /\ tables \in Tables
    /\ committed \in Tables
    /\ committed.user = committed.authentication
    /\ \A u \in Users : committed.token[u] # 0 => u \in committed.user
    /\ IF InTransaction THEN OpenTransaction(database[1]) ELSE tables = committed

HistoryInv ==
    /\ handed \subseteq [user: Users, hash: Nat \ {0}]
    /\ claims \in [Users -> Nat]
    /\ TokensStayValid
    /\ \A u \in Users : claims[u] = (IF u \in committed.user THEN 1 ELSE 0)

Inv == ClientInv /\ FreshInv /\ QueueInv /\ FileInv /\ HistoryInv

-----------------------------------------------------------------------------
(* Queues.                                                                 *)

(* Sequences are typed element by element, and the first is the head.      *)
LEMMA SeqFacts ==
    ASSUME NEW S, NEW s \in Seq(S)
    PROVE  /\ Len(s) \in Nat
           /\ DOMAIN s = 1 .. Len(s)
           /\ \A i \in DOMAIN s : s[i] \in S
           /\ s # <<>> => 1 \in DOMAIN s /\ Head(s) = s[1]
  OBVIOUS

(* Append, as enqueue and the Mutex use it.                                *)
LEMMA AppendFacts ==
    ASSUME NEW S, NEW s \in Seq(S), NEW t \in S
    PROVE  /\ Append(s, t) \in Seq(S)
           /\ DOMAIN Append(s, t) = 1 .. Len(s) + 1
           /\ Append(s, t)[Len(s) + 1] = t
           /\ \A i \in DOMAIN s : Append(s, t)[i] = s[i]
  OBVIOUS

(* Tail, as a task leaves the list or the Mutex.                           *)
LEMMA TailFacts ==
    ASSUME NEW S, NEW s \in Seq(S), s # <<>>
    PROVE  /\ Tail(s) \in Seq(S)
           /\ DOMAIN Tail(s) = 1 .. Len(s) - 1
           /\ \A i \in DOMAIN Tail(s) : i + 1 \in DOMAIN s /\ Tail(s)[i] = s[i + 1]
  OBVIOUS

(* RemoveAt, as a waiter is dropped.                                       *)
LEMMA RemoveAtFacts ==
    ASSUME NEW S, NEW s \in Seq(S), NEW k \in 1 .. Len(s)
    PROVE  /\ RemoveAt(s, k) \in Seq(S)
           /\ DOMAIN RemoveAt(s, k) = 1 .. Len(s) - 1
           /\ \A i \in DOMAIN RemoveAt(s, k) :
                /\ i < k => i \in DOMAIN s /\ RemoveAt(s, k)[i] = s[i]
                /\ i >= k => i + 1 \in DOMAIN s /\ RemoveAt(s, k)[i] = s[i + 1]
  <1> DEFINE n == Len(s)
             front == SubSeq(s, 1, k - 1)
             back == SubSeq(s, k + 1, n)
  <1>1. n \in Nat /\ k \in 1 .. n /\ DOMAIN s = 1 .. n
    OBVIOUS
  <1>2. /\ front \in Seq(S)
        /\ Len(front) = k - 1
        /\ \A i \in 1 .. k - 1 : front[i] = s[i]
    BY <1>1
  <1>3. /\ back \in Seq(S)
        /\ Len(back) = n - k
        /\ \A i \in 1 .. n - k : back[i] = s[k + i]
    <2>1. k + 1 \in Int /\ n \in Int /\ \A i \in k + 1 .. n : s[i] \in S
      BY <1>1
    <2>2. /\ back \in Seq(S)
          /\ Len(back) = IF k + 1 <= n THEN n - (k + 1) + 1 ELSE 0
          /\ \A i \in 1 .. n - (k + 1) + 1 : back[i] = s[k + 1 + i - 1]
      BY <2>1, SubSeqProperties
    <2> HIDE DEF back, n
    <2>3. /\ n - (k + 1) + 1 = n - k
          /\ ~(k + 1 <= n) => n - k = 0
          /\ \A i \in 1 .. n - k : k + 1 + i - 1 = k + i
      BY <1>1
    <2> QED BY <2>2, <2>3
  <1>4. RemoveAt(s, k) = front \o back
    BY DEF RemoveAt
  <1> HIDE DEF n, front, back
  <1>5. /\ front \o back \in Seq(S)
        /\ Len(front \o back) = n - 1
        /\ \A i \in 1 .. n - 1 :
             (front \o back)[i] = IF i < k THEN front[i] ELSE back[i - (k - 1)]
    <2>1. /\ front \o back \in Seq(S)
          /\ Len(front \o back) = Len(front) + Len(back)
          /\ \A i \in 1 .. Len(front) + Len(back) :
               (front \o back)[i] = IF i <= Len(front) THEN front[i] ELSE back[i - Len(front)]
      BY ONLY <1>2, <1>3, ConcatProperties, Zenon
    <2>2. Len(front) = k - 1 /\ Len(back) = n - k
      BY ONLY <1>2, <1>3, Zenon
    <2>3. Len(front) + Len(back) = n - 1 /\ \A i \in 1 .. n - 1 : i < k <=> i <= Len(front)
      BY ONLY <1>1, <2>2
    <2>4. ASSUME NEW i \in 1 .. n - 1
          PROVE  (front \o back)[i] = IF i < k THEN front[i] ELSE back[i - (k - 1)]
      <3>1. (front \o back)[i] = IF i <= Len(front) THEN front[i] ELSE back[i - Len(front)]
        BY ONLY <2>1, <2>3, Zenon
      <3> QED BY ONLY <3>1, <2>2, <2>3, Zenon
    <2> QED BY ONLY <2>1, <2>3, <2>4, Zenon
  <1>6. DOMAIN (front \o back) = 1 .. n - 1
    BY <1>5
  <1>7. ASSUME NEW i \in 1 .. n - 1, i < k
        PROVE  i \in 1 .. n /\ (front \o back)[i] = s[i]
    BY <1>7, <1>1, <1>2, <1>5
  <1>8. ASSUME NEW i \in 1 .. n - 1, i >= k
        PROVE  i + 1 \in 1 .. n /\ (front \o back)[i] = s[i + 1]
    <2>1. i - (k - 1) \in 1 .. n - k /\ k + (i - (k - 1)) = i + 1 /\ ~(i < k)
      BY <1>8, <1>1
    <2> QED BY <2>1, <1>1, <1>3, <1>5
  <1> QED BY <1>1, <1>4, <1>5, <1>6, <1>7, <1>8 DEF n

-----------------------------------------------------------------------------
(* What is kept when the file only gains accounts and tokens.              *)

Grows ==
    /\ committed.user \subseteq committed'.user
    /\ \A u \in Users : committed.token[u] # 0 => committed'.token[u] = committed.token[u]

(* A commit leaves every task what it relies on.                           *)
LEMMA GoodTaskKept ==
    ASSUME NEW t \in Task, GoodTask(t), Grows
    PROVE  GoodTask(t)'
  BY DEF GoodTask, Grows, Task

(* Tasks that no step touches stay good.                                   *)
LEMMA FreshKept ==
    ASSUME FreshInv, Grows, UNCHANGED fresh
    PROVE  FreshInv'
  <1>1. ASSUME NEW c \in Clients, NEW i \in DOMAIN fresh[c]
        PROVE  GoodTask(fresh[c][i])' /\ fresh[c][i].step = "waiting"
    <2>1. fresh[c] \in Seq(Task) /\ GoodTask(fresh[c][i]) /\ fresh[c][i].step = "waiting"
      BY DEF FreshInv
    <2>2. fresh[c][i] \in Task
      BY <2>1, SeqFacts
    <2>3. GoodTask(fresh[c][i])'
      BY <2>1, <2>2, GoodTaskKept DEF GoodTask
    <2> QED BY <2>1, <2>3
  <1> QED BY <1>1 DEF FreshInv

(* So do the clients.                                                      *)
LEMMA ClientKept ==
    ASSUME ClientInv, Grows, UNCHANGED <<clientVars, paid>>
    PROVE  ClientInv'
  BY DEF ClientInv, Grows, clientVars, CaptchaPaysOnce

(* And so does what the peers hold.                                        *)
LEMMA HistoryKept ==
    ASSUME HistoryInv, UNCHANGED <<handed, claims, committed>>
    PROVE  HistoryInv'
  BY DEF HistoryInv, TokensStayValid

(* run_async with a task that may rely on the file as it is.               *)
LEMMA RunAsyncGood ==
    ASSUME FreshInv, UNCHANGED committed, NEW c \in Clients,
           NEW t \in Task, GoodTask(t), t.step = "waiting", RunAsync(c, t)
    PROVE  FreshInv'
  <1>1. /\ fresh[c] \in Seq(Task)
        /\ fresh' = [fresh EXCEPT ![c] = Append(fresh[c], t)]
    BY DEF FreshInv, RunAsync
  <1>2. /\ Append(fresh[c], t) \in Seq(Task)
        /\ \A i \in DOMAIN Append(fresh[c], t) :
             Append(fresh[c], t)[i] = t \/ (i \in DOMAIN fresh[c] /\ Append(fresh[c], t)[i] = fresh[c][i])
    BY <1>1, AppendFacts, SeqFacts
  <1>3. fresh' \in [Clients -> Seq(Task)]
    BY <1>1, <1>2 DEF FreshInv
  <1>4. ASSUME NEW d \in Clients, NEW i \in DOMAIN fresh'[d]
        PROVE  GoodTask(fresh'[d][i]) /\ fresh'[d][i].step = "waiting"
    <2>1. CASE d = c
      BY <1>1, <1>2, <2>1 DEF FreshInv
    <2>2. CASE d # c
      BY <1>1, <2>2 DEF FreshInv
    <2> QED BY <2>1, <2>2
  <1>5. ASSUME NEW d \in Clients, NEW i \in DOMAIN fresh'[d]
        PROVE  GoodTask(fresh[d][i])'
    BY <1>4 DEF GoodTask
  <1> QED BY <1>3, <1>4, <1>5 DEF FreshInv

(* A step that leaves queue and tables alone leaves the file as it was.    *)
LEMMA FileKept ==
    ASSUME QueueInv, FileInv, UNCHANGED <<database, tables, committed>>
    PROVE  QueueInv' /\ FileInv'
  <1>1. QueueInv'
    BY DEF QueueInv, GoodTask
  <1>2. FileInv'
    BY DEF FileInv, InTransaction, OpenTransaction
  <1> QED BY <1>1, <1>2

(* A new task is a task.                                                   *)
LEMMA NewTaskTyped ==
    ASSUME NEW c \in Clients, NEW kind \in Kinds, NEW u \in Users,
           NEW remember \in BOOLEAN, NEW hash \in Nat
    PROVE  /\ NewTask(c, kind, u, remember, hash) \in Task
           /\ NewTask(c, kind, u, remember, hash).step = "waiting"
           /\ /\ kind = "token" => hash # 0
              /\ kind \in {"findUser", "createToken"} => u \in committed.user
              => GoodTask(NewTask(c, kind, u, remember, hash))
  BY DEF NewTask, Task, GoodTask

-----------------------------------------------------------------------------
(* Packets.                                                                *)

(* A handler that changes only the client and starts nothing or one task.  *)
LEMMA PacketInv ==
    ASSUME Inv, NEW c \in Clients, Packet(c)
    PROVE  Inv'
  <1> USE DEF Inv
  <1>1. ASSUME NEW u \in Users, NEW remember \in BOOLEAN, AccountLoginExecute(c, u, remember)
        PROVE  Inv'
    <2>1. ClientInv'
      BY <1>1 DEF ClientInv, AccountLoginExecute, Request, history, CaptchaPaysOnce
    <2>2. FreshInv'
      <3>1. "credentials" \in Kinds /\ 0 \in Nat
        BY DEF Kinds
      <3>2. /\ NewTask(c, "credentials", u, remember, 0) \in Task
            /\ NewTask(c, "credentials", u, remember, 0).step = "waiting"
            /\ GoodTask(NewTask(c, "credentials", u, remember, 0))
        BY <3>1, NewTaskTyped
      <3>3. /\ UNCHANGED committed
            /\ RunAsync(c, NewTask(c, "credentials", u, remember, 0))
        BY <1>1 DEF AccountLoginExecute
      <3> QED BY <3>2, <3>3, RunAsyncGood
    <2>3. UNCHANGED <<database, tables, committed, handed, claims>>
      BY <1>1 DEF AccountLoginExecute, history
    <2> QED BY <2>1, <2>2, <2>3, FileKept, HistoryKept
  <1>2. ASSUME NEW u \in Users, NEW remember \in BOOLEAN, AccountRegisterSubmit(c, u, remember)
        PROVE  Inv'
    <2>1. ClientInv'
      BY <1>2 DEF ClientInv, AccountRegisterSubmit, SolvedFor, Request, CaptchaPaysOnce
    <2>2. FreshInv'
      <3>1. "register" \in Kinds /\ 0 \in Nat
        BY DEF Kinds
      <3>2. /\ NewTask(c, "register", u, remember, 0) \in Task
            /\ NewTask(c, "register", u, remember, 0).step = "waiting"
            /\ GoodTask(NewTask(c, "register", u, remember, 0))
        BY <3>1, NewTaskTyped
      <3>3. /\ UNCHANGED committed
            /\ RunAsync(c, NewTask(c, "register", u, remember, 0))
        BY <1>2 DEF AccountRegisterSubmit
      <3> QED BY <3>2, <3>3, RunAsyncGood
    <2>3. UNCHANGED <<database, tables, committed, handed, claims>>
      BY <1>2 DEF AccountRegisterSubmit
    <2> QED BY <2>1, <2>2, <2>3, FileKept, HistoryKept
  <1>3. ASSUME AccountLoginHashLogin(c) PROVE Inv'
    <2>1. ClientInv'
      BY <1>3 DEF ClientInv, AccountLoginHashLogin, Request, history, CaptchaPaysOnce
    <2>2. PICK h \in handed : RunAsync(c, NewTask(c, "token", h.user, TRUE, h.hash))
      BY <1>3 DEF AccountLoginHashLogin
    <2>3. FreshInv'
      <3>1. "token" \in Kinds /\ h.user \in Users /\ h.hash \in Nat /\ h.hash # 0
        BY DEF Kinds, HistoryInv
      <3>2. /\ NewTask(c, "token", h.user, TRUE, h.hash) \in Task
            /\ NewTask(c, "token", h.user, TRUE, h.hash).step = "waiting"
            /\ GoodTask(NewTask(c, "token", h.user, TRUE, h.hash))
        BY <3>1, NewTaskTyped
      <3>3. UNCHANGED committed
        BY <1>3 DEF AccountLoginHashLogin
      <3> QED BY <2>2, <3>2, <3>3, RunAsyncGood
    <2>4. UNCHANGED <<database, tables, committed, handed, claims>>
      BY <1>3 DEF AccountLoginHashLogin, history
    <2> QED BY <2>1, <2>3, <2>4, FileKept, HistoryKept
  <1>4. ASSUME NEW u \in Users, AccountRegisterValidateUid(c, u) PROVE Inv'
    <2>1. ClientInv'
      BY <1>4 DEF ClientInv, AccountRegisterValidateUid, Request, history, CaptchaPaysOnce
    <2>2. FreshInv'
      <3>1. "isFree" \in Kinds /\ 0 \in Nat
        BY DEF Kinds
      <3>2. /\ NewTask(c, "isFree", u, FALSE, 0) \in Task
            /\ NewTask(c, "isFree", u, FALSE, 0).step = "waiting"
            /\ GoodTask(NewTask(c, "isFree", u, FALSE, 0))
        BY <3>1, NewTaskTyped
      <3>3. /\ UNCHANGED committed
            /\ RunAsync(c, NewTask(c, "isFree", u, FALSE, 0))
        BY <1>4 DEF AccountRegisterValidateUid
      <3> QED BY <3>2, <3>3, RunAsyncGood
    <2>3. UNCHANGED <<database, tables, committed, handed, claims>>
      BY <1>4 DEF AccountRegisterValidateUid, history
    <2> QED BY <2>1, <2>2, <2>3, FileKept, HistoryKept
  <1>5. ASSUME SendNewCaptcha(c) \/ SolveCaptcha(c) PROVE Inv'
    <2>1. ClientInv'
      BY <1>5 DEF ClientInv, SendNewCaptcha, SolveCaptcha, history, CaptchaPaysOnce
    <2>2. UNCHANGED <<fresh, database, tables, committed, handed, claims>>
      BY <1>5 DEF SendNewCaptcha, SolveCaptcha, history
    <2>3. FreshInv'
      BY <2>2, FreshKept DEF Grows
    <2> QED BY <2>1, <2>2, <2>3, FileKept, HistoryKept
  <1> QED BY <1>1, <1>2, <1>3, <1>4, <1>5 DEF Packet

-----------------------------------------------------------------------------
(* Statements.                                                             *)

(* A task that has never been polled joins the queue of the Mutex.         *)
LEMMA AwaitDatabaseInv ==
    ASSUME Inv, NEW c \in Clients, AwaitDatabase(c)
    PROVE  Inv'
  <1> USE DEF Inv
  <1> DEFINE t == Head(fresh[c])
  <1>1. /\ fresh[c] # <<>>
        /\ database' = Append(database, t)
        /\ fresh' = [fresh EXCEPT ![c] = Tail(fresh[c])]
        /\ UNCHANGED <<clientVars, tables, committed, history>>
    BY DEF AwaitDatabase
  <1>2. fresh[c] \in Seq(Task) /\ fresh \in [Clients -> Seq(Task)] /\ database \in Seq(Task)
    BY DEF FreshInv, QueueInv
  <1>3. t \in Task /\ GoodTask(t) /\ t.step = "waiting"
    <2>1. t = fresh[c][1] /\ 1 \in DOMAIN fresh[c] /\ fresh[c][1] \in Task
      BY <1>1, <1>2, SeqFacts
    <2> QED BY <2>1 DEF FreshInv
  <1> HIDE DEF t
  <1>4. FreshInv'
    <2>1. /\ Tail(fresh[c]) \in Seq(Task)
          /\ \A i \in DOMAIN Tail(fresh[c]) :
               i + 1 \in DOMAIN fresh[c] /\ Tail(fresh[c])[i] = fresh[c][i + 1]
      BY <1>1, <1>2, TailFacts
    <2>2. fresh' \in [Clients -> Seq(Task)]
      BY <1>1, <1>2, <2>1
    <2>3. \A d \in Clients : \A i \in DOMAIN fresh'[d] :
            GoodTask(fresh'[d][i]) /\ fresh'[d][i].step = "waiting"
      <3> TAKE d \in Clients
      <3> TAKE i \in DOMAIN fresh'[d]
      <3>1. CASE d = c
        BY <3>1, <1>1, <1>2, <2>1 DEF FreshInv
      <3>2. CASE d # c
        BY <3>2, <1>1, <1>2 DEF FreshInv
      <3> QED BY <3>1, <3>2
    <2>4. UNCHANGED committed
      BY <1>1
    <2> QED BY <2>2, <2>3, <2>4 DEF FreshInv, GoodTask
  <1>5. QueueInv' /\ FileInv'
    <2>1. /\ database' \in Seq(Task)
          /\ Len(database) \in Nat
          /\ DOMAIN database = 1 .. Len(database)
          /\ DOMAIN database' = 1 .. Len(database) + 1
          /\ database'[Len(database) + 1] = t
          /\ \A i \in DOMAIN database : database'[i] = database[i]
      BY <1>1, <1>2, <1>3, AppendFacts, SeqFacts
    <2>2. \A i \in DOMAIN database' :
            GoodTask(database'[i]) /\ (i # 1 => database'[i].step = "waiting")
      BY <2>1, <1>3 DEF QueueInv
    <2>3. QueueInv'
      BY <1>1, <2>1, <2>2 DEF QueueInv, GoodTask
    <2>4. database' # <<>>
      BY <2>1
    <2>5. CASE database = <<>>
      <3>1. database'[1] = t
        BY <2>5, <2>1
      <3> QED BY <1>1, <1>3, <2>3, <2>5, <3>1 DEF FileInv, InTransaction
    <2>6. CASE database # <<>>
      <3>1. database'[1] = database[1]
        BY <2>6, <2>1
      <3> QED BY <1>1, <2>3, <2>4, <2>6, <3>1 DEF FileInv, InTransaction, OpenTransaction
    <2> QED BY <2>5, <2>6
  <1>6. ClientInv' /\ HistoryInv'
    BY <1>1, ClientKept, HistoryKept DEF Grows, history
  <1> QED BY <1>4, <1>5, <1>6

(* The head of the queue takes a step, and answers what the file bears out.*)
LEMMA ProceedGood ==
    ASSUME QueueInv, Grows, database # <<>>,
           NEW step \in {"waiting", "userInserted", "bothInserted", "answered"},
           NEW success \in BOOLEAN,
           Proceed(step, success),
           success => step = "answered",
           success /\ database[1].kind \in {"credentials", "token", "register"}
             => database[1].user \in committed'.user,
           success /\ database[1].kind = "createToken"
             => committed'.token[database[1].user] # 0
    PROVE  /\ QueueInv'
           /\ database' # <<>>
           /\ database'[1].step = step
           /\ database'[1].kind = database[1].kind
           /\ database'[1].user = database[1].user
  <1> DEFINE t == [database[1] EXCEPT !.step = step, !.success = success]
  <1>1. /\ database \in Seq(Task)
        /\ 1 \in DOMAIN database
        /\ DOMAIN database = 1 .. Len(database)
        /\ Len(database) \in Nat
        /\ database[1] \in Task
        /\ GoodTask(database[1])
    <2>1. database \in Seq(Task)
      BY DEF QueueInv
    <2> QED BY <2>1, SeqFacts DEF QueueInv
  <1>2. /\ t \in Task
        /\ t.step = step
        /\ t.success = success
        /\ t.kind = database[1].kind
        /\ t.user = database[1].user
        /\ t.hash = database[1].hash
    BY <1>1 DEF Task
  <1>3. database' = [database EXCEPT ![1] = t]
    BY DEF Proceed
  <1> HIDE DEF t
  <1>4. /\ database' \in Seq(Task)
        /\ DOMAIN database' = DOMAIN database
        /\ database'[1] = t
        /\ \A i \in DOMAIN database : i # 1 => database'[i] = database[i]
    <2>1. /\ DOMAIN database' = DOMAIN database
          /\ database'[1] = t
          /\ \A i \in DOMAIN database : i # 1 => database'[i] = database[i]
      BY <1>1, <1>3
    <2>2. database' \in Seq(Task)
      BY <1>1, <1>2, <1>3
    <2> QED BY <2>1, <2>2
  <1>5. database[1].user \in Users
    BY <1>1 DEF Task
  <1>6. ASSUME NEW i \in DOMAIN database'
        PROVE  GoodTask(database[i])' /\ (i # 1 => database'[i].step = "waiting")
    <2>1. CASE i = 1
      BY <2>1, <1>1, <1>2, <1>4, <1>5 DEF GoodTask, Grows
    <2>2. CASE i # 1
      <3>1. /\ database'[i] = database[i]
            /\ database[i] \in Task
            /\ GoodTask(database[i])
            /\ database[i].step = "waiting"
        BY <2>2, <1>1, <1>4, SeqFacts DEF QueueInv
      <3>2. database[i].user \in Users
        BY <3>1 DEF Task
      <3> QED BY <2>2, <3>1, <3>2 DEF GoodTask, Grows
    <2> QED BY <2>1, <2>2
  <1>7. QueueInv'
    BY <1>4, <1>6 DEF QueueInv
  <1>8. database' # <<>>
    BY <1>1, <1>4
  <1> QED BY <1>2, <1>4, <1>7, <1>8

(* The task that has the database.                                         *)
LEMMA HeadFacts ==
    ASSUME QueueInv, database # <<>>
    PROVE  /\ Head(database) = database[1]
           /\ 1 \in DOMAIN database
           /\ database[1] \in Task
           /\ database[1].user \in Users
           /\ GoodTask(database[1])
  <1>1. /\ database \in Seq(Task)
        /\ \A i \in DOMAIN database : GoodTask(database[i])
    BY DEF QueueInv
  <1>2. Head(database) = database[1] /\ 1 \in DOMAIN database /\ database[1] \in Task
    BY <1>1, SeqFacts
  <1> QED BY <1>1, <1>2 DEF Task

(* A statement of a query, or of a registration.                           *)
LEMMA FailInv ==
    ASSUME Inv, NEW c \in Clients, Fail(c)
    PROVE  Inv'
  <1> USE DEF Inv
  <1>1. /\ database # <<>>
        /\ Proceed("answered", FALSE)
        /\ tables' = committed
        /\ UNCHANGED <<clientVars, fresh, committed, history>>
    BY DEF Fail, Fallback, HasDatabase, Rollback
  <1>2. Grows
    BY <1>1 DEF Grows
  <1>3. QueueInv' /\ database'[1].step = "answered"
    BY <1>1, <1>2, ProceedGood
  <1>4. FileInv'
    BY <1>1, <1>3 DEF FileInv, InTransaction
  <1> QED BY <1>1, <1>2, <1>3, <1>4, ClientKept, FreshKept, HistoryKept DEF history

(* A SELECT that finds its row.                                            *)
LEMMA FindInv ==
    ASSUME Inv, NEW c \in Clients, Find(c)
    PROVE  Inv'
  <1> USE DEF Inv
  <1>1. /\ database # <<>>
        /\ Head(database).step = "waiting"
        /\ Finds(Head(database))
        /\ Proceed("answered", TRUE)
        /\ UNCHANGED <<clientVars, fresh, tables, committed, history>>
    BY DEF Find, HasDatabase
  <1>2. Grows
    BY <1>1 DEF Grows
  <1>3. /\ Head(database) = database[1]
        /\ database[1] \in Task
        /\ database[1].user \in Users
        /\ GoodTask(database[1])
    BY <1>1, HeadFacts
  <1>4. tables = committed
    BY <1>1, <1>3 DEF FileInv, InTransaction
  <1>5. /\ database[1].kind \in {"credentials", "token", "register"}
             => database[1].user \in committed'.user
        /\ database[1].kind # "createToken"
    BY <1>1, <1>3, <1>4 DEF Finds, FileInv, GoodTask
  <1>6. QueueInv' /\ database'[1].step = "answered"
    BY <1>1, <1>2, <1>5, ProceedGood
  <1>7. FileInv'
    BY <1>1, <1>4, <1>6 DEF FileInv, InTransaction
  <1> QED BY <1>1, <1>2, <1>6, <1>7, ClientKept, FreshKept, HistoryKept DEF history

(* The INSERT of a token.                                                  *)
LEMMA CreateTokenEffect ==
    ASSUME Inv, NEW c \in Clients, CreateAuthenticationToken(c)
    PROVE  /\ Inv'
           /\ database[1].user \in committed.user
           /\ committed.token[database[1].user] = 0
           /\ committed' = [committed EXCEPT !.token[database[1].user] = 1]
           /\ UNCHANGED auth
  <1> USE DEF Inv
  <1> DEFINE t == Head(database)
  <1>1. /\ database # <<>>
        /\ t.step = "waiting"
        /\ t.kind = "createToken"
        /\ t.user \in tables.user
        /\ tables.token[t.user] = 0
        /\ tables' = [tables EXCEPT !.token[t.user] = 1]
        /\ committed' = tables'
        /\ Proceed("answered", TRUE)
        /\ UNCHANGED <<clientVars, fresh, history>>
    BY DEF CreateAuthenticationToken, HasDatabase, Autocommit
  <1>2. t = database[1] /\ database[1].user \in Users
    BY <1>1, HeadFacts
  <1>3. tables = committed
    BY <1>1, <1>2 DEF FileInv, InTransaction
  <1> HIDE DEF t
  <1>4. /\ committed \in Tables
        /\ committed' = [committed EXCEPT !.token[t.user] = 1]
        /\ t.user \in committed.user
        /\ committed.token[t.user] = 0
    BY <1>1, <1>3 DEF FileInv
  <1>5. committed' = [committed EXCEPT !.token = [committed.token EXCEPT ![t.user] = 1]]
    BY <1>4 DEF Tables
  <1>6. /\ committed' \in Tables
        /\ committed'.user = committed.user
        /\ committed'.authentication = committed.authentication
        /\ committed'.token = [committed.token EXCEPT ![t.user] = 1]
        /\ committed.token \in [Users -> Nat]
    BY <1>4, <1>5 DEF Tables
  <1>7. Grows
    BY <1>4, <1>6 DEF Grows
  <1>8. QueueInv' /\ database'[1].step = "answered"
    <2>1. committed'.token[database[1].user] # 0 /\ database[1].kind = "createToken"
      BY <1>1, <1>2, <1>6
    <2> QED BY <1>1, <1>7, <2>1, ProceedGood
  <1>9. FileInv'
    BY <1>1, <1>2, <1>4, <1>6, <1>8 DEF FileInv, InTransaction
  <1>10. HistoryInv'
    BY <1>1, <1>4, <1>6 DEF HistoryInv, TokensStayValid, history
  <1>11. ClientInv' /\ FreshInv'
    BY <1>1, <1>7, ClientKept, FreshKept DEF history
  <1> QED BY <1>1, <1>2, <1>4, <1>8, <1>9, <1>10, <1>11 DEF clientVars

(* The two INSERTs of a registration.                                      *)
LEMMA InsertUserInv ==
    ASSUME Inv, NEW c \in Clients, RegisterInsertUser(c)
    PROVE  Inv'
  <1> USE DEF Inv
  <1> DEFINE t == Head(database)
  <1>1. /\ database # <<>>
        /\ t.step = "waiting"
        /\ t.kind = "register"
        /\ t.user \notin tables.user
        /\ tables' = [tables EXCEPT !.user = tables.user \union {t.user}]
        /\ Proceed("userInserted", FALSE)
        /\ UNCHANGED <<clientVars, fresh, committed, history>>
    BY DEF RegisterInsertUser, HasDatabase
  <1>2. t = database[1] /\ database[1].user \in Users
    BY <1>1, HeadFacts
  <1>3. tables = committed /\ committed \in Tables
    BY <1>1, <1>2 DEF FileInv, InTransaction
  <1> HIDE DEF t
  <1>4. Grows
    BY <1>1 DEF Grows
  <1>5. /\ QueueInv'
        /\ database' # <<>>
        /\ database'[1].step = "userInserted"
        /\ database'[1].kind = "register"
        /\ database'[1].user = t.user
    BY <1>1, <1>2, <1>4, ProceedGood
  <1>6. /\ tables' \in Tables
        /\ tables'.user = committed.user \union {t.user}
        /\ tables'.authentication = committed.authentication
        /\ tables'.token = committed.token
    BY <1>1, <1>2, <1>3 DEF Tables
  <1>7. FileInv'
    BY <1>1, <1>3, <1>5, <1>6 DEF FileInv, InTransaction, OpenTransaction
  <1> QED BY <1>1, <1>4, <1>5, <1>7, ClientKept, FreshKept, HistoryKept DEF history

(* The transaction stays open for the second one.                          *)
LEMMA InsertAuthenticationInv ==
    ASSUME Inv, NEW c \in Clients, RegisterInsertAuthentication(c)
    PROVE  Inv'
  <1> USE DEF Inv
  <1> DEFINE t == Head(database)
  <1>1. /\ database # <<>>
        /\ t.step = "userInserted"
        /\ tables' = [tables EXCEPT !.authentication = tables.authentication \union {t.user}]
        /\ Proceed("bothInserted", FALSE)
        /\ UNCHANGED <<clientVars, fresh, committed, history>>
    BY DEF RegisterInsertAuthentication, HasDatabase
  <1>2. t = database[1] /\ database[1].user \in Users
    BY <1>1, HeadFacts
  <1>3. OpenTransaction(t) /\ tables \in Tables /\ committed \in Tables
    BY <1>1, <1>2 DEF FileInv, InTransaction
  <1> HIDE DEF t
  <1>4. Grows
    BY <1>1 DEF Grows
  <1>5. /\ QueueInv'
        /\ database' # <<>>
        /\ database'[1].step = "bothInserted"
        /\ database'[1].kind = "register"
        /\ database'[1].user = t.user
    BY <1>1, <1>2, <1>3, <1>4, ProceedGood DEF OpenTransaction
  <1>6. /\ tables' \in Tables
        /\ tables'.user = committed.user \union {t.user}
        /\ tables'.authentication = committed.authentication \union {t.user}
        /\ tables'.token = committed.token
    BY <1>1, <1>2, <1>3 DEF Tables, OpenTransaction
  <1>7. FileInv'
    BY <1>1, <1>3, <1>5, <1>6 DEF FileInv, InTransaction, OpenTransaction
  <1> QED BY <1>1, <1>4, <1>5, <1>7, ClientKept, FreshKept, HistoryKept DEF history

(* The commit of a registration adds one account, which was not there.     *)
LEMMA CommitEffect ==
    ASSUME Inv, NEW c \in Clients, RegisterCommit(c)
    PROVE  /\ Inv'
           /\ database[1].user \in Users
           /\ database[1].user \notin committed.user
           /\ committed'.user = committed.user \union {database[1].user}
           /\ committed'.token = committed.token
           /\ UNCHANGED auth
  <1> USE DEF Inv
  <1> DEFINE u == Head(database).user
  <1>1. /\ database # <<>>
        /\ Head(database).step = "bothInserted"
        /\ committed' = tables
        /\ claims' = [claims EXCEPT ![u] = @ + 1]
        /\ Proceed("answered", TRUE)
        /\ UNCHANGED <<clientVars, fresh, tables, handed, paid>>
    BY DEF RegisterCommit, HasDatabase
  <1>2. /\ Head(database) = database[1]
        /\ u = database[1].user
        /\ u \in Users
    BY <1>1, HeadFacts
  <1>3. OpenTransaction(database[1]) /\ tables \in Tables /\ committed \in Tables
    BY <1>1, <1>2 DEF FileInv, InTransaction
  <1> HIDE DEF u
  <1>4. /\ u \notin committed.user
        /\ committed'.user = committed.user \union {u}
        /\ committed'.authentication = committed.authentication \union {u}
        /\ committed'.token = committed.token
        /\ database[1].kind = "register"
    BY <1>1, <1>2, <1>3 DEF OpenTransaction
  <1>5. Grows
    BY <1>4 DEF Grows
  <1>6. QueueInv' /\ database'[1].step = "answered"
    BY <1>1, <1>2, <1>4, <1>5, ProceedGood
  <1>7. FileInv'
    BY <1>1, <1>3, <1>4, <1>6 DEF FileInv, InTransaction
  <1>8. HistoryInv'
    <2>1. claims' \in [Users -> Nat] /\ claims'[u] = 1
      BY <1>1, <1>2, <1>4 DEF HistoryInv
    <2> QED BY <1>1, <1>2, <1>4, <2>1 DEF HistoryInv, TokensStayValid
  <1>9. ClientInv' /\ FreshInv'
    BY <1>1, <1>5, ClientKept, FreshKept
  <1> QED BY <1>1, <1>2, <1>4, <1>6, <1>7, <1>8, <1>9 DEF clientVars

-----------------------------------------------------------------------------
(* Callbacks.                                                              *)

(* A task with an answer leaves the queue; whoever is next just waited.    *)
LEMMA ReleaseInv ==
    ASSUME QueueInv, FileInv, NEW c \in Clients, Release(c), UNCHANGED <<tables, committed>>
    PROVE  QueueInv' /\ FileInv'
  <1>1. /\ database # <<>>
        /\ database[1].step = "answered"
        /\ database' = Tail(database)
        /\ database \in Seq(Task)
    BY HeadFacts DEF Release, HasDatabase, QueueInv
  <1>2. /\ database' \in Seq(Task)
        /\ DOMAIN database' = 1 .. Len(database) - 1
        /\ Len(database) \in Nat
        /\ \A i \in DOMAIN database' : i + 1 \in DOMAIN database /\ database'[i] = database[i + 1]
    BY <1>1, TailFacts, SeqFacts
  <1>3. \A i \in DOMAIN database' : GoodTask(database'[i]) /\ database'[i].step = "waiting"
    <2> TAKE i \in DOMAIN database'
    <2>1. i + 1 \in DOMAIN database /\ i + 1 # 1
      BY <1>2
    <2> QED BY <1>2, <2>1 DEF QueueInv
  <1>4. QueueInv'
    BY <1>2, <1>3 DEF QueueInv, GoodTask
  <1>5. ~InTransaction /\ ~InTransaction'
    <2>1. database' # <<>> => 1 \in DOMAIN database'
      BY <1>2, SeqFacts
    <2> QED BY <1>1, <1>3, <2>1 DEF InTransaction
  <1>6. FileInv'
    BY <1>5 DEF FileInv
  <1> QED BY <1>4, <1>6

(* A login that succeeded makes its client a user who has an account.      *)
LEMMA LoginEffect ==
    ASSUME Inv, NEW c \in Clients, LoginSucceeds(c)
    PROVE  /\ Inv'
           /\ database[1].user \in Users
           /\ database[1].user \in committed.user
           /\ auth' = [auth EXCEPT ![c] = database[1].user]
           /\ UNCHANGED committed
  <1> USE DEF Inv
  <1> DEFINE u == Head(database).user
             remember == Head(database).remember
  <1>1. /\ Release(c)
        /\ database # <<>>
        /\ Head(database).kind \in {"credentials", "token", "register"}
        /\ Head(database).success
        /\ ClearLoginPending(Head(database))
        /\ auth' = [auth EXCEPT ![c] = u]
        /\ announced' = [announced EXCEPT ![c] = @ + 1]
        /\ IF remember THEN RunAsync(c, NewTask(c, "createToken", u, FALSE, 0)) ELSE UNCHANGED fresh
        /\ UNCHANGED <<life, captcha, left, tables, committed, history>>
    BY DEF LoginSucceeds, HandleUserAuthenticated, Release, HasDatabase
  <1>2. /\ Head(database) = database[1]
        /\ u = database[1].user
        /\ u \in Users
        /\ GoodTask(database[1])
        /\ database[1] \in Task
    BY <1>1, HeadFacts
  <1>3. u \in committed.user /\ u # NoUser
    BY <1>1, <1>2, LoginAssumption DEF GoodTask
  <1>4. QueueInv' /\ FileInv'
    BY <1>1, ReleaseInv
  <1>5. FreshInv'
    <2>1. CASE remember
      <3>1. "createToken" \in Kinds /\ 0 \in Nat /\ FALSE \in BOOLEAN
        BY DEF Kinds
      <3>2. /\ NewTask(c, "createToken", u, FALSE, 0) \in Task
            /\ NewTask(c, "createToken", u, FALSE, 0).step = "waiting"
            /\ GoodTask(NewTask(c, "createToken", u, FALSE, 0))
        BY <1>2, <1>3, <3>1, NewTaskTyped
      <3>3. UNCHANGED committed /\ RunAsync(c, NewTask(c, "createToken", u, FALSE, 0))
        BY <1>1, <2>1
      <3> QED BY <3>2, <3>3, RunAsyncGood
    <2>2. CASE ~remember
      BY <1>1, <2>2, FreshKept DEF Grows
    <2> QED BY <2>1, <2>2
  <1> HIDE DEF u, remember
  <1>6. ClientInv'
    <2>1. loginPending' \in [Clients -> BOOLEAN]
      <3> DEFINE kept == loginPending[Head(database).client] /\ Head(database).kind # "credentials"
      <3>1. loginPending' = [loginPending EXCEPT ![Head(database).client] = kept]
        BY <1>1 DEF ClearLoginPending
      <3>2. kept \in BOOLEAN
        OBVIOUS
      <3> HIDE DEF kept
      <3> QED BY <3>1, <3>2 DEF ClientInv
    <2>2. /\ auth' \in [Clients -> Users \union {NoUser}]
          /\ auth'[c] = u
          /\ \A d \in Clients : d # c => auth'[d] = auth[d]
      BY <1>1, <1>2 DEF ClientInv
    <2>3. /\ announced' \in [Clients -> Nat]
          /\ \A d \in Clients : d # c => announced'[d] = announced[d]
      <3> DEFINE n == announced[c] + 1
      <3>1. announced' = [announced EXCEPT ![c] = n] /\ n \in Nat
        BY <1>1 DEF ClientInv
      <3> HIDE DEF n
      <3> QED BY <3>1 DEF ClientInv
    <2>4. \A d \in Clients : announced'[d] > 0 => auth'[d] # NoUser
      BY <1>3, <2>2, <2>3 DEF ClientInv
    <2>5. \A d \in Clients : auth'[d] # NoUser => auth'[d] \in committed'.user
      BY <1>1, <1>3, <2>2 DEF ClientInv
    <2>6. UNCHANGED <<life, captcha, left, paid, committed>>
      BY <1>1 DEF history
    <2>7. CaptchaPaysOnce'
      BY <2>6 DEF ClientInv, CaptchaPaysOnce
    <2>8. /\ life' \in [Clients -> {"live", "ended", "gone"}]
          /\ captcha' \in [Clients -> {"Invalid", "Pending", "Solved"}]
          /\ left' \in [Clients -> Nat]
          /\ paid' \in [Clients -> BOOLEAN]
      BY <2>6 DEF ClientInv
    <2>9. auth' \in [Clients -> Users \union {NoUser}] /\ announced' \in [Clients -> Nat]
      BY <2>2, <2>3
    <2> QED BY <2>1, <2>4, <2>5, <2>7, <2>8, <2>9 DEF ClientInv
  <1>7. HistoryInv'
    BY <1>1, HistoryKept DEF history
  <1> QED BY <1>1, <1>2, <1>3, <1>4, <1>5, <1>6, <1>7

(* An answer that only sends a packet.                                     *)
LEMMA AnswerInv ==
    ASSUME Inv, NEW c \in Clients, Answer(c)
    PROVE  Inv'
  <1> USE DEF Inv
  <1>1. /\ Release(c)
        /\ ClearLoginPending(Head(database))
        /\ UNCHANGED <<life, auth, captcha, announced, left, fresh, tables, committed, history>>
    BY DEF Answer
  <1>2. QueueInv' /\ FileInv'
    BY <1>1, ReleaseInv
  <1>3. ClientInv'
    <2>1. loginPending' \in [Clients -> BOOLEAN]
      <3> DEFINE kept == loginPending[Head(database).client] /\ Head(database).kind # "credentials"
      <3>1. loginPending' = [loginPending EXCEPT ![Head(database).client] = kept]
        BY <1>1 DEF ClearLoginPending
      <3>2. kept \in BOOLEAN
        OBVIOUS
      <3> HIDE DEF kept
      <3> QED BY <3>1, <3>2 DEF ClientInv
    <2> QED BY <1>1, <2>1 DEF ClientInv, CaptchaPaysOnce, history
  <1> QED BY <1>1, <1>2, <1>3, FreshKept, HistoryKept DEF history, Grows

(* The token that is sent is the one in the file.                          *)
LEMMA HashUpdateInv ==
    ASSUME Inv, NEW c \in Clients, AccountLoginHashUpdate(c)
    PROVE  Inv'
  <1> USE DEF Inv
  <1> DEFINE h == [user |-> Head(database).user, hash |-> tables.token[Head(database).user]]
  <1>1. /\ Release(c)
        /\ database # <<>>
        /\ Head(database).step = "answered"
        /\ Head(database).kind = "createToken"
        /\ Head(database).success
        /\ handed' \in {handed, handed \union {h}}
        /\ UNCHANGED <<clientVars, fresh, tables, committed, paid, claims>>
    BY DEF AccountLoginHashUpdate, Release, HasDatabase
  <1>2. /\ Head(database) = database[1]
        /\ database[1].user \in Users
        /\ GoodTask(database[1])
    BY <1>1, HeadFacts
  <1>3. tables = committed /\ committed \in Tables
    BY <1>1, <1>2 DEF FileInv, InTransaction
  <1>4. /\ h.user = database[1].user
        /\ h.hash = committed.token[database[1].user]
        /\ h.hash # 0
        /\ h.hash \in Nat
    BY <1>1, <1>2, <1>3 DEF GoodTask, Tables
  <1>5. h \in [user: Users, hash: Nat \ {0}]
    BY <1>2, <1>4
  <1> HIDE DEF h
  <1>6. HistoryInv'
    BY <1>1, <1>2, <1>4, <1>5 DEF HistoryInv, TokensStayValid
  <1> QED BY <1>1, <1>6, ReleaseInv, ClientKept, FreshKept DEF Grows

-----------------------------------------------------------------------------
(* The server and the end of clients.                                      *)

(* The event is handled for a client that still has its user.              *)
LEMMA HandleInv ==
    ASSUME Inv, NEW c \in Clients, HandleClientAuthenticated(c)
    PROVE  Inv'
  <1> USE DEF Inv
  <1>1. /\ announced[c] > 0
        /\ announced' = [announced EXCEPT ![c] = @ - 1]
        /\ RunAsync(c, NewTask(c, "findUser", auth[c], FALSE, 0))
        /\ UNCHANGED <<life, auth, loginPending, captcha, left,
                       database, tables, committed, history>>
    BY DEF HandleClientAuthenticated
  <1>2. auth[c] \in Users /\ auth[c] \in committed.user
    BY <1>1 DEF ClientInv
  <1>3. FreshInv'
    <2>1. "findUser" \in Kinds /\ 0 \in Nat /\ FALSE \in BOOLEAN
      BY DEF Kinds
    <2>2. /\ NewTask(c, "findUser", auth[c], FALSE, 0) \in Task
          /\ NewTask(c, "findUser", auth[c], FALSE, 0).step = "waiting"
          /\ GoodTask(NewTask(c, "findUser", auth[c], FALSE, 0))
      BY <1>2, <2>1, NewTaskTyped
    <2> QED BY <1>1, <2>2, RunAsyncGood
  <1>4. ClientInv'
    <2>1. /\ announced' \in [Clients -> Nat]
          /\ \A d \in Clients : announced'[d] > 0 => announced[d] > 0
      <3> DEFINE n == announced[c] - 1
      <3>1. announced' = [announced EXCEPT ![c] = n] /\ n \in Nat
        BY <1>1 DEF ClientInv
      <3> HIDE DEF n
      <3> QED BY <1>1, <3>1 DEF ClientInv
    <2> QED BY <1>1, <2>1 DEF ClientInv, CaptchaPaysOnce, history
  <1> QED BY <1>1, <1>3, <1>4, FileKept, HistoryKept DEF history

(* A client that ends takes nothing with it yet.                           *)
LEMMA EndInv ==
    ASSUME Inv, NEW c \in Clients, End(c)
    PROVE  Inv'
  <1> USE DEF Inv
  <1>1. /\ life' = [life EXCEPT ![c] = "ended"]
        /\ UNCHANGED <<auth, loginPending, captcha, announced, left,
                       fresh, database, tables, committed, history>>
    BY DEF End
  <1>2. ClientInv'
    BY <1>1 DEF ClientInv, CaptchaPaysOnce, history
  <1> QED BY <1>1, <1>2, FreshKept, FileKept, HistoryKept DEF history, Grows

(* A dropped task undoes what it had open, and the next one starts afresh. *)
LEMMA DropTaskInv ==
    ASSUME Inv, NEW c \in Clients, NEW k \in DOMAIN database, DropTask(c, k)
    PROVE  Inv'
  <1> USE DEF Inv
  <1>1. /\ database' = RemoveAt(database, k)
        /\ IF k = 1 THEN tables' = committed /\ UNCHANGED committed
                    ELSE UNCHANGED <<tables, committed>>
        /\ UNCHANGED <<clientVars, fresh, history>>
    BY DEF DropTask, Rollback
  <1>2. /\ database \in Seq(Task)
        /\ DOMAIN database = 1 .. Len(database)
        /\ Len(database) \in Nat
        /\ k \in 1 .. Len(database)
    BY SeqFacts DEF QueueInv
  <1>3. /\ database' \in Seq(Task)
        /\ DOMAIN database' = 1 .. Len(database) - 1
        /\ \A i \in DOMAIN database' :
             /\ i < k => i \in DOMAIN database /\ database'[i] = database[i]
             /\ i >= k => i + 1 \in DOMAIN database /\ database'[i] = database[i + 1]
    BY <1>1, <1>2, RemoveAtFacts
  <1>4. \A i \in DOMAIN database' :
          GoodTask(database'[i]) /\ (i # 1 \/ k = 1 => database'[i].step = "waiting")
    <2> TAKE i \in DOMAIN database'
    <2>1. i \in Nat /\ i >= 1 /\ k \in Nat
      BY <1>2, <1>3
    <2>2. CASE i < k
      <3>1. k # 1
        BY <2>1, <2>2
      <3> QED BY <1>3, <2>2, <3>1 DEF QueueInv
    <2>3. CASE i >= k
      <3>1. i + 1 # 1 /\ i + 1 \in DOMAIN database /\ database'[i] = database[i + 1]
        BY <1>3, <2>1, <2>3
      <3> QED BY <3>1 DEF QueueInv
    <2> QED BY <2>1, <2>2, <2>3
  <1>5. UNCHANGED committed
    BY <1>1
  <1>6. QueueInv'
    BY <1>3, <1>4, <1>5 DEF QueueInv, GoodTask
  <1>7. database' # <<>> => 1 \in DOMAIN database'
    BY <1>3, SeqFacts
  <1>8. FileInv'
    <2>1. CASE k = 1
      <3>1. ~InTransaction'
        BY <2>1, <1>4, <1>7 DEF InTransaction
      <3> QED BY <1>1, <2>1, <3>1 DEF FileInv
    <2>2. CASE k # 1
      <3>1. /\ database # <<>>
            /\ 1 < k
        BY <1>2, <2>2
      <3>2. 1 \in DOMAIN database'
        BY <1>2, <1>3, <2>2
      <3>3. database' # <<>> /\ database'[1] = database[1]
        BY <1>3, <3>1, <3>2
      <3> QED BY <1>1, <2>2, <3>1, <3>3 DEF FileInv, InTransaction, OpenTransaction
    <2> QED BY <2>1, <2>2
  <1> QED BY <1>1, <1>5, <1>6, <1>8, ClientKept, FreshKept, HistoryKept DEF history, Grows

(* The client is gone.                                                     *)
LEMMA DropInv ==
    ASSUME Inv, NEW c \in Clients, Drop(c)
    PROVE  /\ Inv'
           /\ auth' = [auth EXCEPT ![c] = NoUser]
           /\ UNCHANGED committed
  <1> USE DEF Inv
  <1>1. /\ announced[c] = 0
        /\ life' = [life EXCEPT ![c] = "gone"]
        /\ auth' = [auth EXCEPT ![c] = NoUser]
        /\ loginPending' = [loginPending EXCEPT ![c] = FALSE]
        /\ captcha' = [captcha EXCEPT ![c] = "Invalid"]
        /\ fresh' = [fresh EXCEPT ![c] = <<>>]
        /\ paid' = [paid EXCEPT ![c] = FALSE]
        /\ UNCHANGED <<announced, left, database, tables, committed, handed, claims>>
    BY DEF Drop
  <1>2. ClientInv'
    BY <1>1 DEF ClientInv, CaptchaPaysOnce
  <1>3. FreshInv'
    <2>1. <<>> \in Seq(Task) /\ DOMAIN <<>> = {}
      OBVIOUS
    <2>2. fresh' \in [Clients -> Seq(Task)]
      BY <1>1, <2>1 DEF FreshInv
    <2>3. \A d \in Clients : \A i \in DOMAIN fresh'[d] :
            d # c /\ GoodTask(fresh'[d][i]) /\ fresh'[d][i].step = "waiting"
      <3> TAKE d \in Clients
      <3>1. CASE d = c
        <4>1. fresh'[d] = <<>>
          BY <3>1, <1>1 DEF FreshInv
        <4> QED BY <4>1, <2>1
      <3>2. CASE d # c
        BY <3>2, <1>1 DEF FreshInv
      <3> QED BY <3>1, <3>2
    <2>4. UNCHANGED committed
      BY <1>1
    <2> QED BY <2>2, <2>3, <2>4 DEF FreshInv, GoodTask
  <1> QED BY <1>1, <1>2, <1>3, FileKept, HistoryKept

(* A new process finds what was committed, and no client.                  *)
LEMMA RestartInv ==
    ASSUME Inv, Restart
    PROVE  Inv'
  <1> USE DEF Inv
  <1>1. UNCHANGED <<handed, claims, committed, left>> /\ tables' = committed
    BY DEF Restart, Rollback
  <1>2. ClientInv'
    BY <1>1 DEF Restart, ClientInv, CaptchaPaysOnce
  <1>3. <<>> \in Seq(Task) /\ DOMAIN <<>> = {}
    OBVIOUS
  <1>4. FreshInv'
    BY <1>3 DEF Restart, FreshInv
  <1>5. QueueInv' /\ FileInv'
    BY <1>1, <1>3 DEF Restart, QueueInv, FileInv, InTransaction
  <1> QED BY <1>1, <1>2, <1>4, <1>5, HistoryKept

-----------------------------------------------------------------------------
(* The invariant holds of the file as the server finds it.                 *)
LEMMA InitInv == Init => Inv
  <1> SUFFICES ASSUME Init PROVE Inv
    OBVIOUS
  <1> USE LoginAssumption
  <1>1. PICK users \in SUBSET Users : \E remembered \in SUBSET users :
          /\ tables = [ user |-> users, authentication |-> users,
                        token |-> [u \in Users |-> IF u \in remembered THEN 1 ELSE 0] ]
          /\ claims = [u \in Users |-> IF u \in users THEN 1 ELSE 0]
          /\ handed \in SUBSET [user: remembered, hash: {1}]
    BY DEF Init
  <1>2. PICK remembered \in SUBSET users :
          /\ tables = [ user |-> users, authentication |-> users,
                        token |-> [u \in Users |-> IF u \in remembered THEN 1 ELSE 0] ]
          /\ claims = [u \in Users |-> IF u \in users THEN 1 ELSE 0]
          /\ handed \in SUBSET [user: remembered, hash: {1}]
    BY <1>1
  <1>3. committed = tables
    BY DEF Init
  <1>4. ClientInv
    BY DEF Init, ClientInv, CaptchaPaysOnce
  <1>5. <<>> \in Seq(Task) /\ DOMAIN <<>> = {}
    OBVIOUS
  <1>6. FreshInv /\ QueueInv
    BY <1>5 DEF Init, FreshInv, QueueInv
  <1>7. /\ committed.user = users
        /\ committed.authentication = users
        /\ committed.token = [u \in Users |-> IF u \in remembered THEN 1 ELSE 0]
    BY <1>2, <1>3
  <1>8. committed \in Tables
    <2>1. committed.token \in [Users -> Nat]
      BY <1>7
    <2> QED BY <1>2, <1>3, <1>7, <2>1 DEF Tables
  <1>9. FileInv
    BY <1>3, <1>7, <1>8 DEF Init, FileInv, InTransaction
  <1>10. HistoryInv
    BY <1>2, <1>7 DEF HistoryInv, TokensStayValid
  <1> QED BY <1>4, <1>6, <1>9, <1>10 DEF Inv

(* The inductive step, one case per action.                                *)
LEMMA NextInv == Inv /\ [Next]_vars => Inv'
  <1> SUFFICES ASSUME Inv, [Next]_vars PROVE Inv'
    OBVIOUS
  <1>1. ASSUME NEW c \in Clients, Packet(c) PROVE Inv'
    BY <1>1, PacketInv
  <1>2. ASSUME NEW c \in Clients, TaskStep(c) PROVE Inv'
    BY <1>2, AwaitDatabaseInv, FailInv, FindInv, CreateTokenEffect, InsertUserInv,
       InsertAuthenticationInv, CommitEffect, LoginEffect, AnswerInv, HashUpdateInv DEF TaskStep
  <1>3. ASSUME NEW c \in Clients, HandleClientAuthenticated(c) PROVE Inv'
    BY <1>3, HandleInv
  <1>4. ASSUME NEW c \in Clients, End(c) PROVE Inv'
    BY <1>4, EndInv
  <1>5. ASSUME NEW c \in Clients, DropStep(c) PROVE Inv'
    BY <1>5, DropTaskInv, DropInv DEF DropStep
  <1>6. ASSUME Restart PROVE Inv'
    BY <1>6, RestartInv
  <1>7. ASSUME UNCHANGED vars PROVE Inv'
    <2>1. UNCHANGED <<clientVars, fresh, database, tables, committed, handed, paid, claims>>
      BY <1>7 DEF vars, history
    <2> QED BY <2>1, ClientKept, FreshKept, FileKept, HistoryKept DEF Inv, Grows
  <1> QED BY <1>1, <1>2, <1>3, <1>4, <1>5, <1>6, <1>7 DEF Next

(* So it always holds.                                                     *)
LEMMA Invariance == Spec => []Inv
  BY InitInv, NextInv, PTL DEF Spec

(* Every variable of the login keeps its type.                             *)
THEOREM TypeCorrect == Spec => []TypeOK
  <1>1. Inv => TypeOK
    BY DEF Inv, ClientInv, FreshInv, QueueInv, FileInv, HistoryInv, TypeOK
  <1> QED BY <1>1, Invariance, PTL

(* Accounts are whole and registered once, tokens that were sent stay      *)
(* valid, a captcha pays one registration, and the lobby finds its user.   *)
THEOREM LoginSafe ==
    Spec => []( /\ NoHalfAccount
                /\ RegisteredOnce
                /\ TokensStayValid
                /\ CaptchaPaysOnce
                /\ LobbyUserExists )
  <1> SUFFICES ASSUME Inv
               PROVE  /\ NoHalfAccount
                      /\ RegisteredOnce
                      /\ TokensStayValid
                      /\ CaptchaPaysOnce
                      /\ LobbyUserExists
    BY Invariance, PTL
  <1> USE DEF Inv
  <1>1. NoHalfAccount
    <2>1. CASE InTransaction
      <3>1. database # <<>> /\ Head(database) = database[1]
        BY <2>1, HeadFacts DEF InTransaction
      <3> QED BY <2>1, <3>1 DEF NoHalfAccount, FileInv, InTransaction, OpenTransaction
    <2>2. CASE ~InTransaction
      BY <2>2 DEF NoHalfAccount, FileInv
    <2> QED BY <2>1, <2>2
  <1>2. \A t \in Tasks : GoodTask(t)
    BY DEF Tasks, Range, FreshInv, QueueInv
  <1>3. RegisteredOnce
    BY <1>2 DEF RegisteredOnce, HistoryInv, GoodTask
  <1>4. LobbyUserExists
    BY <1>2 DEF LobbyUserExists, ClientInv, GoodTask
  <1> QED BY <1>1, <1>3, <1>4 DEF HistoryInv, ClientInv

(* A token that was sent to a peer is the one of the file from then on.    *)
THEOREM TokensSafe == Spec => []TokensStayValid
  BY LoginSafe, PTL

(* A captcha that was solved once lets one registration through.           *)
THEOREM CaptchaSafe == Spec => []CaptchaPaysOnce
  BY LoginSafe, PTL

(* The lobby and the tokens are asked for users that exist.                *)
THEOREM LobbySafe == Spec => []LobbyUserExists
  BY LoginSafe, PTL

-----------------------------------------------------------------------------
(* Refinement.                                                             *)

(* A step that commits nothing and logs nobody in is not seen.             *)
LEMMA Unseen ==
    ASSUME UNCHANGED <<auth, committed>>
    PROVE  UNCHANGED A!vars
  BY DEF A!vars

(* Every step of the login is one of Accounts, or none.                    *)
LEMMA StepSimulation == Inv /\ [Next]_vars => [A!Next]_(A!vars)
  <1> SUFFICES ASSUME Inv, [Next]_vars PROVE [A!Next]_(A!vars)
    OBVIOUS
  <1>1. ASSUME NEW c \in Clients, Packet(c) PROVE UNCHANGED <<auth, committed>>
    BY <1>1 DEF Packet, AccountLoginExecute, AccountRegisterSubmit, AccountLoginHashLogin,
                AccountRegisterValidateUid, SendNewCaptcha, SolveCaptcha
  <1>2. ASSUME NEW c \in Clients,
               \/ AwaitDatabase(c) \/ Fail(c) \/ Find(c) \/ RegisterInsertUser(c)
               \/ RegisterInsertAuthentication(c) \/ Answer(c) \/ AccountLoginHashUpdate(c)
        PROVE  UNCHANGED <<auth, committed>>
    BY <1>2 DEF AwaitDatabase, Fail, Fallback, Rollback, Find, RegisterInsertUser,
                RegisterInsertAuthentication, Answer, AccountLoginHashUpdate, clientVars
  <1>3. ASSUME NEW c \in Clients, CreateAuthenticationToken(c) PROVE A!Next
    <2>1. /\ database[1].user \in committed.user
          /\ committed \in Tables
      BY <1>3, CreateTokenEffect DEF Inv, FileInv
    <2> PICK u \in Users : u = database[1].user
      BY <2>1 DEF Tables
    <2>2. /\ u \in committed.user
          /\ committed.token[u] = 0
          /\ committed' = [committed EXCEPT !.token[u] = 1]
          /\ UNCHANGED auth
      BY <1>3, CreateTokenEffect
    <2>3. committed' = [committed EXCEPT !.token = [committed.token EXCEPT ![u] = 1]]
      BY <2>1, <2>2 DEF Tables
    <2>4. /\ committed'.user = committed.user
          /\ committed'.token = [committed.token EXCEPT ![u] = 1]
          /\ committed.token \in [Users -> Nat]
      BY <2>1, <2>2, <2>3 DEF Tables
    <2>5. {v \in Users : committed'.token[v] # 0} = {v \in Users : committed.token[v] # 0} \union {u}
      BY <2>4
    <2>6. A!CreateToken(u)
      BY <2>2, <2>4, <2>5 DEF A!CreateToken
    <2> QED BY <2>6 DEF A!Next
  <1>4. ASSUME NEW c \in Clients, RegisterCommit(c) PROVE A!Next
    <2>1. /\ database[1].user \in Users
          /\ database[1].user \notin committed.user
          /\ committed'.user = committed.user \union {database[1].user}
          /\ committed'.token = committed.token
          /\ UNCHANGED auth
      BY <1>4, CommitEffect
    <2>2. A!Register(database[1].user)
      BY <2>1 DEF A!Register
    <2> QED BY <2>1, <2>2 DEF A!Next
  <1>5. ASSUME NEW c \in Clients, LoginSucceeds(c) PROVE A!Next
    <2>1. /\ database[1].user \in Users
          /\ database[1].user \in committed.user
          /\ auth' = [auth EXCEPT ![c] = database[1].user]
          /\ UNCHANGED committed
      BY <1>5, LoginEffect
    <2>2. A!Authenticate(c, database[1].user)
      BY <2>1 DEF A!Authenticate
    <2> QED BY <2>1, <2>2 DEF A!Next
  <1>6. ASSUME NEW c \in Clients, HandleClientAuthenticated(c) \/ End(c)
        PROVE  UNCHANGED <<auth, committed>>
    BY <1>6 DEF HandleClientAuthenticated, End
  <1>7. ASSUME NEW c \in Clients, NEW i \in DOMAIN database, DropTask(c, i)
        PROVE  UNCHANGED <<auth, committed>>
    BY <1>7 DEF DropTask, Rollback, clientVars
  <1>8. auth \in [Clients -> Users \union {NoUser}]
    BY DEF Inv, ClientInv
  <1>9. ASSUME NEW c \in Clients, Drop(c) PROVE A!Next
    <2>1. auth' = [auth EXCEPT ![c] = NoUser] /\ UNCHANGED committed
      BY <1>9, DropInv
    <2>2. A!Forget({c})
      BY <2>1, <1>8 DEF A!Forget
    <2> QED BY <2>2 DEF A!Next
  <1>10. ASSUME Restart PROVE A!Next
    <2>1. auth' = [c \in Clients |-> NoUser] /\ UNCHANGED committed
      BY <1>10 DEF Restart, Rollback
    <2>2. A!Forget(Clients)
      BY <2>1 DEF A!Forget
    <2> QED BY <2>2 DEF A!Next
  <1>11. ASSUME UNCHANGED vars PROVE UNCHANGED <<auth, committed>>
    BY <1>11 DEF vars, clientVars
  <1>12. ASSUME NEW c \in Clients, TaskStep(c) PROVE [A!Next]_(A!vars)
    BY <1>12, <1>2, <1>3, <1>4, <1>5, Unseen DEF TaskStep
  <1>13. ASSUME NEW c \in Clients, DropStep(c) PROVE [A!Next]_(A!vars)
    BY <1>13, <1>7, <1>9, Unseen DEF DropStep
  <1> QED BY <1>1, <1>6, <1>10, <1>11, <1>12, <1>13, Unseen DEF Next

(* The login implements Accounts: what happens between a request and its   *)
(* answer, in whatever order, cannot be told from single steps.            *)
THEOREM Implementation == Spec => ImplementsAccounts
  <1>1. Init => A!Init
    <2> SUFFICES ASSUME Init PROVE A!Init
      OBVIOUS
    <2>1. Inv
      BY InitInv
    <2>2. committed.user \in SUBSET Users
      BY <2>1 DEF Inv, FileInv, Tables
    <2>3. {u \in Users : committed.token[u] # 0} \in SUBSET committed.user
      BY <2>1 DEF Inv, FileInv
    <2>4. auth = [c \in Clients |-> NoUser]
      BY DEF Init
    <2> QED BY <2>2, <2>3, <2>4 DEF A!Init
  <1> QED BY <1>1, Invariance, StepSimulation, PTL DEF Spec, ImplementsAccounts, A!Spec

-----------------------------------------------------------------------------
(* login_pending.                                                          *)

(* A login with credentials of c.                                          *)
LoginOf(t, c) == t.client = c /\ t.kind = "credentials"

(* Is there one among tasks, and is there one at most?                     *)
SomeLogin(tasks, c) == \E i \in DOMAIN tasks : LoginOf(tasks[i], c)
OneLogin(tasks, c) ==
    \A i, j \in DOMAIN tasks : LoginOf(tasks[i], c) /\ LoginOf(tasks[j], c) => i = j

(* As far as the logins of c go, new are the tasks old.                    *)
SameLogins(old, new, c) ==
    /\ SomeLogin(new, c) <=> SomeLogin(old, c)
    /\ OneLogin(old, c) => OneLogin(new, c)

(* LoginPendingExact, of one client.                                       *)
PendingExact(c) ==
    life[c] = "live" =>
        /\ loginPending[c] <=> SomeLogin(fresh[c], c) \/ SomeLogin(database, c)
        /\ ~(SomeLogin(fresh[c], c) /\ SomeLogin(database, c))
        /\ OneLogin(fresh[c], c)
        /\ OneLogin(database, c)

(* run_async starts a task on the client's own list.                       *)
OwnTasks == \A c \in Clients : \A i \in DOMAIN fresh[c] : fresh[c][i].client = c

PendingInv == OwnTasks /\ \A c \in Clients : PendingExact(c)

(* Both ways to say it agree.                                              *)
LEMMA PendingExactIs ==
    ASSUME TypeOK
    PROVE  LoginPendingExact <=> \A c \in Clients : PendingExact(c)
  <1> SUFFICES ASSUME NEW c \in Clients
               PROVE  (life[c] = "live" =>
                         LET new == CredentialTasks(fresh[c], c)
                             old == CredentialTasks(database, c)
                         IN  /\ loginPending[c] <=> new # {} \/ old # {}
                             /\ new # {} => old = {}
                             /\ \A i, j \in new : i = j
                             /\ \A i, j \in old : i = j)
                       <=> PendingExact(c)
    BY DEF LoginPendingExact
  <1>1. fresh[c] \in Seq(Task) /\ database \in Seq(Task)
    BY DEF TypeOK
  <1>2. ASSUME NEW s \in Seq(Task)
        PROVE  /\ CredentialTasks(s, c) # {} <=> SomeLogin(s, c)
               /\ (\A i, j \in CredentialTasks(s, c) : i = j) <=> OneLogin(s, c)
    <2>1. DOMAIN s = 1 .. Len(s)
      OBVIOUS
    <2> QED BY <2>1 DEF CredentialTasks, SomeLogin, OneLogin, LoginOf
  <1> QED BY <1>1, <1>2 DEF PendingExact

(* A login that is enqueued is the only one if there was none.             *)
LEMMA AppendLogins ==
    ASSUME NEW s \in Seq(Task), NEW t \in Task, NEW c
    PROVE  /\ ~LoginOf(t, c) => SameLogins(s, Append(s, t), c)
           /\ LoginOf(t, c) => SomeLogin(Append(s, t), c)
           /\ LoginOf(t, c) /\ ~SomeLogin(s, c) => OneLogin(Append(s, t), c)
  <1> DEFINE n == Len(s)
             u == Append(s, t)
  <1>1. /\ n \in Nat
        /\ DOMAIN s = 1 .. n
        /\ DOMAIN u = 1 .. n + 1
        /\ u[n + 1] = t
        /\ \A i \in DOMAIN s : u[i] = s[i]
    BY AppendFacts, SeqFacts
  <1> HIDE DEF n, u
  <1>2. /\ \A i \in DOMAIN u : i = n + 1 \/ i \in DOMAIN s
        /\ \A i \in DOMAIN s : i \in DOMAIN u
        /\ n + 1 \in DOMAIN u
    BY <1>1
  <1> QED BY <1>1, <1>2 DEF SameLogins, SomeLogin, OneLogin, u

(* The only login is gone once it has left the queue.                      *)
LEMMA TailLogins ==
    ASSUME NEW s \in Seq(Task), s # <<>>, NEW c
    PROVE  /\ ~LoginOf(s[1], c) => SameLogins(s, Tail(s), c)
           /\ LoginOf(s[1], c) => SomeLogin(s, c)
           /\ LoginOf(s[1], c) /\ OneLogin(s, c) =>
                ~SomeLogin(Tail(s), c) /\ OneLogin(Tail(s), c)
  <1> DEFINE n == Len(s)
             u == Tail(s)
  <1>1. /\ n \in Nat
        /\ DOMAIN s = 1 .. n
        /\ DOMAIN u = 1 .. n - 1
        /\ \A i \in DOMAIN u : i + 1 \in DOMAIN s /\ u[i] = s[i + 1]
        /\ 1 \in DOMAIN s
    BY TailFacts, SeqFacts
  <1> HIDE DEF n, u
  <1>2. ASSUME NEW i \in DOMAIN s, i # 1
        PROVE  i - 1 \in DOMAIN u /\ u[i - 1] = s[i]
    <2>1. i - 1 \in DOMAIN u /\ i - 1 + 1 = i
      BY <1>1, <1>2
    <2> QED BY <2>1, <1>1
  <1>3. \A i, j \in DOMAIN u : i + 1 # 1 /\ (i + 1 = j + 1 => i = j)
    BY <1>1
  <1>4. OneLogin(s, c) => OneLogin(u, c)
    BY <1>1, <1>3 DEF OneLogin
  <1>5. SomeLogin(u, c) => SomeLogin(s, c)
    BY <1>1 DEF SomeLogin
  <1>6. ~LoginOf(s[1], c) /\ SomeLogin(s, c) => SomeLogin(u, c)
    BY <1>2 DEF SomeLogin
  <1>7. LoginOf(s[1], c) /\ OneLogin(s, c) => ~SomeLogin(u, c)
    BY <1>1, <1>3 DEF SomeLogin, OneLogin
  <1>8. LoginOf(s[1], c) => SomeLogin(s, c)
    BY <1>1 DEF SomeLogin
  <1> QED BY <1>4, <1>5, <1>6, <1>7, <1>8 DEF SameLogins, u

(* A task of somebody else that is dropped leaves the logins alone.        *)
LEMMA RemoveLogins ==
    ASSUME NEW s \in Seq(Task), NEW k \in DOMAIN s, NEW c, ~LoginOf(s[k], c)
    PROVE  SameLogins(s, RemoveAt(s, k), c)
  <1> DEFINE n == Len(s)
             u == RemoveAt(s, k)
  <1>1. n \in Nat /\ DOMAIN s = 1 .. n /\ k \in 1 .. n
    BY SeqFacts
  <1>2. /\ DOMAIN u = 1 .. n - 1
        /\ \A i \in DOMAIN u :
             /\ i < k => i \in DOMAIN s /\ u[i] = s[i]
             /\ i >= k => i + 1 \in DOMAIN s /\ u[i] = s[i + 1]
    BY <1>1, RemoveAtFacts
  <1> HIDE DEF n, u
  <1> DEFINE Place(i) == IF i < k THEN i ELSE i + 1
             Back(i) == IF i < k THEN i ELSE i - 1
  <1>3. \A i \in DOMAIN u : Place(i) \in DOMAIN s /\ u[i] = s[Place(i)]
    BY <1>1, <1>2
  <1>4. \A i, j \in DOMAIN u : Place(i) = Place(j) => i = j
    BY <1>1, <1>2
  <1>5. \A i \in DOMAIN s : i # k => Back(i) \in DOMAIN u /\ Place(Back(i)) = i
    BY <1>1, <1>2
  <1> HIDE DEF Place, Back
  <1>6. SomeLogin(u, c) => SomeLogin(s, c)
    BY <1>3 DEF SomeLogin
  <1>7. SomeLogin(s, c) => SomeLogin(u, c)
    <2> SUFFICES ASSUME NEW i \in DOMAIN s, LoginOf(s[i], c)
                 PROVE  SomeLogin(u, c)
      BY DEF SomeLogin
    <2>1. i # k
      OBVIOUS
    <2>2. Back(i) \in DOMAIN u /\ u[Back(i)] = s[i]
      BY <2>1, <1>3, <1>5
    <2> QED BY <2>2 DEF SomeLogin
  <1>8. OneLogin(s, c) => OneLogin(u, c)
    BY <1>3, <1>4 DEF OneLogin
  <1> QED BY <1>6, <1>7, <1>8 DEF SameLogins, u

(* A statement leaves the task what it is.                                 *)
LEMMA ProceedLogins ==
    ASSUME TypeOK, database # <<>>, NEW step, NEW success, Proceed(step, success), NEW c
    PROVE  SameLogins(database, database', c)
  <1>1. /\ database \in Seq(Task)
        /\ 1 \in DOMAIN database
        /\ database[1] \in Task
        /\ database' = [database EXCEPT ![1] =
                          [database[1] EXCEPT !.step = step, !.success = success]]
    BY SeqFacts DEF TypeOK, Proceed
  <1>2. /\ DOMAIN database' = DOMAIN database
        /\ database'[1].client = database[1].client
        /\ database'[1].kind = database[1].kind
    BY <1>1 DEF Task
  <1>3. \A i \in DOMAIN database : i # 1 => database'[i] = database[i]
    BY <1>1
  <1>4. \A i \in DOMAIN database : LoginOf(database'[i], c) <=> LoginOf(database[i], c)
    BY <1>1, <1>2, <1>3 DEF LoginOf
  <1> QED BY <1>2, <1>4 DEF SameLogins, SomeLogin, OneLogin

(* A client whose tasks and flag do not change, as far as logins go.       *)
LEMMA PendingKept ==
    ASSUME NEW c \in Clients, PendingExact(c),
           life'[c] = "live" => life[c] = "live" /\ loginPending'[c] = loginPending[c],
           SameLogins(fresh[c], fresh'[c], c), SameLogins(database, database', c)
    PROVE  PendingExact(c)'
  BY DEF PendingExact, SameLogins

LEMMA SameLoginsReflexive == \A s, c : SameLogins(s, s, c)
  BY DEF SameLogins

(* run_async with a task that is no login.                                 *)
LEMMA RunAsyncPending ==
    ASSUME TypeOK, PendingInv, NEW c \in Clients,
           NEW kind \in Kinds \ {"credentials"}, NEW u \in Users,
           NEW remember \in BOOLEAN, NEW hash \in Nat,
           RunAsync(c, NewTask(c, kind, u, remember, hash))
    PROVE  /\ OwnTasks'
           /\ \A d \in Clients : SameLogins(fresh[d], fresh'[d], d)
  <1> DEFINE t == NewTask(c, kind, u, remember, hash)
  <1>1. t \in Task /\ t.client = c /\ ~LoginOf(t, c)
    BY NewTaskTyped DEF NewTask, LoginOf
  <1> HIDE DEF t
  <1>2. /\ fresh \in [Clients -> Seq(Task)]
        /\ fresh' = [fresh EXCEPT ![c] = Append(fresh[c], t)]
    BY DEF TypeOK, RunAsync, t
  <1>3. \A d \in Clients : fresh'[d] = IF d = c THEN Append(fresh[c], t) ELSE fresh[d]
    BY <1>2
  <1>4. SameLogins(fresh[c], Append(fresh[c], t), c)
    BY <1>1, <1>2, AppendLogins
  <1>5. \A i \in DOMAIN Append(fresh[c], t) : Append(fresh[c], t)[i].client = c
    BY <1>1, <1>2, AppendFacts, SeqFacts DEF PendingInv, OwnTasks
  <1>6. OwnTasks'
    BY <1>3, <1>5 DEF PendingInv, OwnTasks
  <1> QED BY <1>3, <1>4, <1>6, SameLoginsReflexive

(* The packets of a client.                                                *)
LEMMA PacketPending ==
    ASSUME TypeOK, PendingInv, NEW c \in Clients, Packet(c)
    PROVE  PendingInv'
  <1>1. UNCHANGED <<life, database>>
    BY DEF Packet, AccountLoginExecute, AccountRegisterSubmit, AccountLoginHashLogin,
           AccountRegisterValidateUid, SendNewCaptcha, SolveCaptcha
  <1>2. ASSUME UNCHANGED loginPending, OwnTasks',
               \A d \in Clients : SameLogins(fresh[d], fresh'[d], d)
        PROVE  PendingInv'
    BY <1>1, <1>2, PendingKept, SameLoginsReflexive DEF PendingInv
  <1>3. ASSUME NEW u \in Users, NEW remember \in BOOLEAN, AccountLoginExecute(c, u, remember)
        PROVE  PendingInv'
    <2> DEFINE t == NewTask(c, "credentials", u, remember, 0)
    <2>1. "credentials" \in Kinds /\ 0 \in Nat
      BY DEF Kinds
    <2>2. t \in Task
      BY <2>1, NewTaskTyped
    <2>3. t.client = c /\ LoginOf(t, c)
      BY DEF NewTask, LoginOf
    <2> HIDE DEF t
    <2>4. /\ life[c] = "live"
          /\ ~loginPending[c]
          /\ loginPending' = [loginPending EXCEPT ![c] = TRUE]
          /\ fresh' = [fresh EXCEPT ![c] = Append(fresh[c], t)]
      BY <1>3 DEF AccountLoginExecute, Request, RunAsync, t
    <2>5. /\ fresh \in [Clients -> Seq(Task)]
          /\ loginPending \in [Clients -> BOOLEAN]
      BY DEF TypeOK
    <2>6. \A d \in Clients : /\ fresh'[d] = IF d = c THEN Append(fresh[c], t) ELSE fresh[d]
                             /\ loginPending'[d] = IF d = c THEN TRUE ELSE loginPending[d]
      BY <2>4, <2>5
    <2>7. ~SomeLogin(fresh[c], c) /\ ~SomeLogin(database, c) /\ OneLogin(database, c)
      BY <2>4 DEF PendingInv, PendingExact
    <2>8. SomeLogin(Append(fresh[c], t), c) /\ OneLogin(Append(fresh[c], t), c)
      BY <2>2, <2>3, <2>5, <2>7, AppendLogins
    <2>9. PendingExact(c)'
      BY <1>1, <2>6, <2>7, <2>8 DEF PendingExact
    <2>10. ASSUME NEW d \in Clients, d # c PROVE PendingExact(d)'
      BY <1>1, <2>6, <2>10 DEF PendingInv, PendingExact
    <2>11. \A i \in DOMAIN Append(fresh[c], t) : Append(fresh[c], t)[i].client = c
      BY <2>2, <2>3, <2>5, AppendFacts, SeqFacts DEF PendingInv, OwnTasks
    <2>12. OwnTasks'
      BY <2>6, <2>11 DEF PendingInv, OwnTasks
    <2> QED BY <2>9, <2>10, <2>12 DEF PendingInv
  <1>4. ASSUME NEW u \in Users, NEW remember \in BOOLEAN, AccountRegisterSubmit(c, u, remember)
        PROVE  PendingInv'
    <2>1. /\ RunAsync(c, NewTask(c, "register", u, remember, 0))
          /\ UNCHANGED loginPending
          /\ "register" \in Kinds \ {"credentials"} /\ 0 \in Nat
      BY <1>4 DEF AccountRegisterSubmit, Kinds
    <2> QED BY <1>2, <2>1, RunAsyncPending
  <1>5. ASSUME AccountLoginHashLogin(c) PROVE PendingInv'
    <2>1. PICK h \in handed : RunAsync(c, NewTask(c, "token", h.user, TRUE, h.hash))
      BY <1>5 DEF AccountLoginHashLogin
    <2>2. /\ h.user \in Users /\ h.hash \in Nat
          /\ UNCHANGED loginPending
          /\ "token" \in Kinds \ {"credentials"}
      BY <1>5 DEF AccountLoginHashLogin, Kinds, TypeOK
    <2> QED BY <1>2, <2>1, <2>2, RunAsyncPending
  <1>6. ASSUME NEW u \in Users, AccountRegisterValidateUid(c, u) PROVE PendingInv'
    <2>1. /\ RunAsync(c, NewTask(c, "isFree", u, FALSE, 0))
          /\ UNCHANGED loginPending
          /\ "isFree" \in Kinds \ {"credentials"} /\ 0 \in Nat
      BY <1>6 DEF AccountRegisterValidateUid, Kinds
    <2> QED BY <1>2, <2>1, RunAsyncPending
  <1>7. ASSUME SendNewCaptcha(c) \/ SolveCaptcha(c) PROVE PendingInv'
    <2>1. UNCHANGED <<fresh, loginPending>>
      BY <1>7 DEF SendNewCaptcha, SolveCaptcha
    <2> QED BY <1>2, <2>1, SameLoginsReflexive DEF PendingInv, OwnTasks
  <1> QED BY <1>3, <1>4, <1>5, <1>6, <1>7 DEF Packet

(* A task of a client that joins the queue of the Mutex is counted there.  *)
LEMMA AwaitDatabasePending ==
    ASSUME TypeOK, PendingInv, NEW c \in Clients, AwaitDatabase(c)
    PROVE  PendingInv'
  <1> DEFINE t == fresh[c][1]
  <1>1. /\ fresh \in [Clients -> Seq(Task)] /\ database \in Seq(Task)
        /\ life[c] = "live"
        /\ fresh[c] # <<>>
        /\ database' = Append(database, Head(fresh[c]))
        /\ fresh' = [fresh EXCEPT ![c] = Tail(fresh[c])]
        /\ UNCHANGED <<life, loginPending>>
    BY DEF TypeOK, AwaitDatabase, clientVars
  <1>2. t \in Task /\ Head(fresh[c]) = t /\ t.client = c
    <2>1. 1 \in DOMAIN fresh[c] /\ t \in Task /\ Head(fresh[c]) = t
      BY <1>1, SeqFacts
    <2> QED BY <2>1 DEF PendingInv, OwnTasks
  <1>3. \A d \in Clients : fresh'[d] = IF d = c THEN Tail(fresh[c]) ELSE fresh[d]
    BY <1>1
  <1>4. OwnTasks'
    <2>1. \A i \in DOMAIN Tail(fresh[c]) : Tail(fresh[c])[i].client = c
      BY <1>1, TailFacts DEF PendingInv, OwnTasks
    <2> QED BY <1>3, <2>1 DEF PendingInv, OwnTasks
  <1> HIDE DEF t
  <1>5. ASSUME NEW d \in Clients, d # c PROVE PendingExact(d)'
    <2>1. ~LoginOf(t, d)
      BY <1>2, <1>5 DEF LoginOf
    <2>2. SameLogins(database, database', d)
      BY <1>1, <1>2, <2>1, AppendLogins
    <2>3. SameLogins(fresh[d], fresh'[d], d)
      BY <1>3, <1>5, SameLoginsReflexive
    <2> QED BY <1>1, <2>2, <2>3, PendingKept DEF PendingInv
  <1>6. PendingExact(c)'
    <2>1. CASE ~LoginOf(t, c)
      <3>1. SameLogins(database, database', c)
        BY <1>1, <1>2, <2>1, AppendLogins
      <3>2. SameLogins(fresh[c], fresh'[c], c)
        BY <1>1, <1>3, <2>1, TailLogins DEF t
      <3> QED BY <1>1, <3>1, <3>2, PendingKept DEF PendingInv
    <2>2. CASE LoginOf(t, c)
      <3>1. SomeLogin(fresh[c], c)
        BY <1>1, <2>2, TailLogins DEF t
      <3>2. /\ loginPending[c]
            /\ OneLogin(fresh[c], c)
            /\ ~SomeLogin(database, c)
        BY <1>1, <3>1 DEF PendingInv, PendingExact
      <3>3. ~SomeLogin(Tail(fresh[c]), c) /\ OneLogin(Tail(fresh[c]), c)
        BY <1>1, <2>2, <3>2, TailLogins DEF t
      <3>4. SomeLogin(database', c) /\ OneLogin(database', c)
        BY <1>1, <1>2, <2>2, <3>2, AppendLogins
      <3> QED BY <1>1, <1>3, <3>2, <3>3, <3>4 DEF PendingExact
    <2> QED BY <2>1, <2>2
  <1> QED BY <1>4, <1>5, <1>6 DEF PendingInv

(* A statement changes no flag and leaves every task where it is.          *)
LEMMA StatementPending ==
    ASSUME TypeOK, PendingInv, NEW c \in Clients,
           \/ Fail(c) \/ Find(c) \/ CreateAuthenticationToken(c)
           \/ RegisterInsertUser(c) \/ RegisterInsertAuthentication(c) \/ RegisterCommit(c)
    PROVE  PendingInv'
  <1>1. /\ database # <<>>
        /\ UNCHANGED <<life, loginPending, fresh>>
        /\ \E step, success : Proceed(step, success)
    BY DEF Fail, Fallback, Find, CreateAuthenticationToken, RegisterInsertUser,
           RegisterInsertAuthentication, RegisterCommit, HasDatabase, clientVars
  <1>2. \A d : SameLogins(database, database', d)
    BY <1>1, ProceedLogins
  <1>3. OwnTasks'
    BY <1>1 DEF PendingInv, OwnTasks
  <1> QED BY <1>1, <1>2, <1>3, PendingKept, SameLoginsReflexive DEF PendingInv

(* A callback runs when its task has left the queue: the one of a login    *)
(* clears the flag, and the login was the only one.                        *)
LEMMA ReleasePending ==
    ASSUME TypeOK, PendingInv, NEW c \in Clients, Release(c),
           loginPending' = [loginPending EXCEPT
               ![c] = loginPending[c] /\ Head(database).kind # "credentials"],
           UNCHANGED life,
           OwnTasks', \A d \in Clients : SameLogins(fresh[d], fresh'[d], d)
    PROVE  PendingInv'
  <1> DEFINE t == database[1]
  <1>1. /\ database \in Seq(Task)
        /\ loginPending \in [Clients -> BOOLEAN]
        /\ life[c] = "live"
        /\ database # <<>>
        /\ Head(database) = t
        /\ t.client = c
        /\ database' = Tail(database)
    BY SeqFacts DEF TypeOK, Release, HasDatabase
  <1>2. \A d \in Clients : loginPending'[d] =
          IF d = c THEN loginPending[c] /\ t.kind # "credentials" ELSE loginPending[d]
    BY <1>1
  <1> HIDE DEF t
  <1>3. ASSUME NEW d \in Clients, ~LoginOf(t, d) PROVE PendingExact(d)'
    <2>1. SameLogins(database, database', d)
      BY <1>1, <1>3, TailLogins DEF t
    <2>2. loginPending'[d] <=> loginPending[d]
      BY <1>1, <1>2, <1>3 DEF LoginOf
    <2>3. SameLogins(fresh[d], fresh'[d], d) /\ PendingExact(d)
      BY DEF PendingInv
    <2> QED BY <2>1, <2>2, <2>3 DEF PendingExact, SameLogins
  <1>4. ASSUME LoginOf(t, c) PROVE PendingExact(c)'
    <2>1. SomeLogin(database, c)
      BY <1>1, <1>4, TailLogins DEF t
    <2>2. /\ OneLogin(database, c)
          /\ OneLogin(fresh[c], c)
          /\ ~SomeLogin(fresh[c], c)
      BY <1>1, <2>1 DEF PendingInv, PendingExact
    <2>3. ~SomeLogin(database', c) /\ OneLogin(database', c)
      BY <1>1, <1>4, <2>2, TailLogins DEF t
    <2>4. ~SomeLogin(fresh'[c], c) /\ OneLogin(fresh'[c], c)
      BY <2>2 DEF SameLogins
    <2>5. ~loginPending'[c]
      BY <1>2, <1>4 DEF LoginOf
    <2> QED BY <2>3, <2>4, <2>5 DEF PendingExact
  <1>5. \A d \in Clients : LoginOf(t, d) => d = c
    BY <1>1 DEF LoginOf
  <1> QED BY <1>3, <1>4, <1>5 DEF PendingInv

(* The callbacks.                                                          *)
LEMMA CallbackPending ==
    ASSUME TypeOK, PendingInv, NEW c \in Clients,
           LoginSucceeds(c) \/ Answer(c) \/ AccountLoginHashUpdate(c)
    PROVE  PendingInv'
  <1> DEFINE t == Head(database)
  <1>1. /\ Release(c)
        /\ t.client = c
        /\ t \in Task
        /\ loginPending \in [Clients -> BOOLEAN]
        /\ UNCHANGED life
    <2>1. Release(c) /\ t.client = c /\ UNCHANGED life /\ database # <<>>
      BY DEF LoginSucceeds, Answer, AccountLoginHashUpdate, Release, HasDatabase, clientVars
    <2> QED BY <2>1, SeqFacts DEF TypeOK
  <1> HIDE DEF t
  <1>2. ASSUME UNCHANGED fresh
        PROVE  OwnTasks' /\ \A d \in Clients : SameLogins(fresh[d], fresh'[d], d)
    BY <1>2, SameLoginsReflexive DEF PendingInv, OwnTasks
  <1>3. CASE LoginSucceeds(c)
    <2>1. /\ loginPending' = [loginPending EXCEPT ![c] = loginPending[c] /\ t.kind # "credentials"]
          /\ IF t.remember THEN RunAsync(c, NewTask(c, "createToken", t.user, FALSE, 0))
                           ELSE UNCHANGED fresh
      BY <1>1, <1>3 DEF LoginSucceeds, ClearLoginPending, HandleUserAuthenticated, t
    <2>2. "createToken" \in Kinds \ {"credentials"} /\ t.user \in Users /\ 0 \in Nat
      BY <1>1 DEF Kinds, Task
    <2>3. OwnTasks' /\ \A d \in Clients : SameLogins(fresh[d], fresh'[d], d)
      BY <1>2, <2>1, <2>2, RunAsyncPending
    <2> QED BY <1>1, <2>1, <2>3, ReleasePending DEF t
  <1>4. CASE Answer(c)
    <2>1. /\ loginPending' = [loginPending EXCEPT ![c] = loginPending[c] /\ t.kind # "credentials"]
          /\ UNCHANGED fresh
      BY <1>1, <1>4 DEF Answer, ClearLoginPending, t
    <2> QED BY <1>1, <1>2, <2>1, ReleasePending DEF t
  <1>5. CASE AccountLoginHashUpdate(c)
    <2>1. t.kind = "createToken" /\ UNCHANGED <<fresh, loginPending>>
      BY <1>5 DEF AccountLoginHashUpdate, clientVars, t
    <2>2. loginPending' = [loginPending EXCEPT ![c] = loginPending[c] /\ t.kind # "credentials"]
      BY <1>1, <2>1
    <2> QED BY <1>1, <1>2, <2>1, <2>2, ReleasePending DEF t
  <1> QED BY <1>3, <1>4, <1>5

(* The server's event, and the end of clients.                             *)
LEMMA EndPending ==
    ASSUME TypeOK, PendingInv, LobbyUserExists, NEW c \in Clients,
           HandleClientAuthenticated(c) \/ End(c) \/ DropStep(c)
    PROVE  PendingInv'
  <1>1. CASE HandleClientAuthenticated(c)
    <2>1. /\ UNCHANGED <<life, loginPending, database>>
          /\ RunAsync(c, NewTask(c, "findUser", auth[c], FALSE, 0))
          /\ announced[c] > 0
      BY <1>1 DEF HandleClientAuthenticated
    <2>2. "findUser" \in Kinds \ {"credentials"} /\ auth[c] \in Users /\ 0 \in Nat
      BY <2>1 DEF Kinds, LobbyUserExists, TypeOK
    <2>3. OwnTasks' /\ \A d \in Clients : SameLogins(fresh[d], fresh'[d], d)
      BY <2>1, <2>2, RunAsyncPending
    <2> QED BY <2>1, <2>3, PendingKept, SameLoginsReflexive DEF PendingInv
  <1>2. CASE End(c)
    <2>1. /\ life' = [life EXCEPT ![c] = "ended"]
          /\ life \in [Clients -> {"live", "ended", "gone"}]
          /\ UNCHANGED <<loginPending, fresh, database>>
      BY <1>2 DEF End, TypeOK
    <2>2. \A d \in Clients : life'[d] = "live" => life[d] = "live"
      BY <2>1
    <2>3. OwnTasks'
      BY <2>1 DEF PendingInv, OwnTasks
    <2> QED BY <2>1, <2>2, <2>3, PendingKept, SameLoginsReflexive DEF PendingInv
  <1>3. ASSUME NEW k \in DOMAIN database, DropTask(c, k) PROVE PendingInv'
    <2>1. /\ life[c] = "ended"
          /\ database[k].client = c
          /\ database' = RemoveAt(database, k)
          /\ database \in Seq(Task)
          /\ UNCHANGED <<life, loginPending, fresh>>
      BY <1>3 DEF DropTask, NextDropped, clientVars, TypeOK
    <2>2. OwnTasks'
      BY <2>1 DEF PendingInv, OwnTasks
    <2>3. ASSUME NEW d \in Clients PROVE PendingExact(d)'
      <3>1. CASE d = c
        BY <2>1, <3>1 DEF PendingExact
      <3>2. CASE d # c
        <4>1. ~LoginOf(database[k], d)
          BY <2>1, <3>2 DEF LoginOf
        <4>2. SameLogins(database, database', d)
          BY <2>1, <4>1, RemoveLogins
        <4> QED BY <2>1, <4>2, PendingKept, SameLoginsReflexive DEF PendingInv
      <3> QED BY <3>1, <3>2
    <2> QED BY <2>2, <2>3 DEF PendingInv
  <1>4. CASE Drop(c)
    <2>1. /\ life' = [life EXCEPT ![c] = "gone"]
          /\ loginPending' = [loginPending EXCEPT ![c] = FALSE]
          /\ fresh' = [fresh EXCEPT ![c] = <<>>]
          /\ UNCHANGED database
          /\ life \in [Clients -> {"live", "ended", "gone"}]
          /\ loginPending \in [Clients -> BOOLEAN]
          /\ fresh \in [Clients -> Seq(Task)]
      BY <1>4 DEF Drop, TypeOK
    <2>2. ASSUME NEW d \in Clients, d # c
          PROVE  /\ life'[d] = life[d]
                 /\ loginPending'[d] = loginPending[d]
                 /\ fresh'[d] = fresh[d]
      BY <2>1, <2>2
    <2>3. life'[c] = "gone" /\ fresh'[c] = <<>>
      BY <2>1
    <2>4. OwnTasks'
      BY <2>2, <2>3 DEF PendingInv, OwnTasks
    <2>5. ASSUME NEW d \in Clients PROVE PendingExact(d)'
      <3>1. CASE d = c
        BY <2>3, <3>1 DEF PendingExact
      <3>2. CASE d # c
        BY <2>1, <2>2, <3>2 DEF PendingInv, PendingExact
      <3> QED BY <3>1, <3>2
    <2> QED BY <2>4, <2>5 DEF PendingInv
  <1> QED BY <1>1, <1>2, <1>3, <1>4 DEF DropStep

(* Nothing is under way when a process starts.                             *)
LEMMA NoLogins == \A c : ~SomeLogin(<<>>, c) /\ OneLogin(<<>>, c)
  BY DEF SomeLogin, OneLogin

(* login_pending is set exactly while a login with credentials is under    *)
(* way, never polled, in the queue or at the database, and it is the only  *)
(* one of its client, whatever else is asked, fails or ends meanwhile.     *)
THEOREM PendingSafe == Spec => []LoginPendingExact
  <1>1. Init => PendingInv
    <2> SUFFICES ASSUME Init PROVE PendingInv
      OBVIOUS
    <2>1. /\ database = <<>>
          /\ \A c \in Clients : fresh[c] = <<>> /\ ~loginPending[c]
      BY DEF Init
    <2> QED BY <2>1, NoLogins DEF PendingInv, OwnTasks, PendingExact
  <1>2. TypeOK /\ LobbyUserExists /\ PendingInv /\ [Next]_vars => PendingInv'
    <2> SUFFICES ASSUME TypeOK, LobbyUserExists, PendingInv, [Next]_vars
                 PROVE  PendingInv'
      OBVIOUS
    <2>1. ASSUME NEW c \in Clients, Packet(c) PROVE PendingInv'
      BY <2>1, PacketPending
    <2>2. ASSUME NEW c \in Clients, TaskStep(c) PROVE PendingInv'
      BY <2>2, AwaitDatabasePending, StatementPending, CallbackPending DEF TaskStep
    <2>3. ASSUME NEW c \in Clients, HandleClientAuthenticated(c) \/ End(c) \/ DropStep(c)
          PROVE  PendingInv'
      BY <2>3, EndPending
    <2>4. ASSUME Restart PROVE PendingInv'
      <3>1. /\ database' = <<>>
            /\ \A c \in Clients : fresh'[c] = <<>> /\ ~loginPending'[c]
        BY <2>4 DEF Restart
      <3> QED BY <3>1, NoLogins DEF PendingInv, OwnTasks, PendingExact
    <2>5. ASSUME UNCHANGED vars PROVE PendingInv'
      BY <2>5 DEF vars, clientVars, PendingInv, OwnTasks, PendingExact
    <2> QED BY <2>1, <2>2, <2>3, <2>4, <2>5 DEF Next
  <1>3. TypeOK /\ PendingInv => LoginPendingExact
    BY PendingExactIs DEF PendingInv
  <1>4. Spec => [](TypeOK /\ LobbyUserExists)
    BY TypeCorrect, LobbySafe, PTL
  <1> QED BY <1>1, <1>2, <1>3, <1>4, PTL DEF Spec

-----------------------------------------------------------------------------
(* What Accounts promises, and so the login.                               *)

LEMMA AccountsStep ==
    ASSUME A!TypeOK, A!AuthenticatedExists, A!Next
    PROVE  A!TypeOK' /\ A!AuthenticatedExists'
  <1> DEFINE accounts == committed.user
             tokens == {u \in Users : committed.token[u] # 0}
  <1>1. /\ accounts \subseteq Users /\ tokens \subseteq accounts
        /\ auth \in [Clients -> Users \union {NoUser}]
        /\ \A c \in Clients : auth[c] # NoUser => auth[c] \in accounts
    BY DEF A!TypeOK, A!AuthenticatedExists
  <1> SUFFICES /\ accounts' \subseteq Users /\ tokens' \subseteq accounts'
               /\ auth' \in [Clients -> Users \union {NoUser}]
               /\ \A c \in Clients : auth'[c] # NoUser => auth'[c] \in accounts'
    BY DEF A!TypeOK, A!AuthenticatedExists
  <1>2. ASSUME NEW u \in Users, A!Register(u)
        PROVE  accounts' = accounts \union {u} /\ tokens' = tokens /\ auth' = auth
    BY <1>2 DEF A!Register
  <1>3. ASSUME NEW u \in Users, A!CreateToken(u)
        PROVE  u \in accounts /\ accounts' = accounts /\ tokens' = tokens \union {u} /\ auth' = auth
    BY <1>3 DEF A!CreateToken
  <1>4. ASSUME NEW c \in Clients, NEW u \in Users, A!Authenticate(c, u)
        PROVE  /\ u \in accounts /\ accounts' = accounts /\ tokens' = tokens
               /\ auth' = [auth EXCEPT ![c] = u]
    BY <1>4 DEF A!Authenticate
  <1>5. ASSUME NEW lost \in SUBSET Clients, A!Forget(lost)
        PROVE  /\ accounts' = accounts /\ tokens' = tokens
               /\ auth' = [c \in Clients |-> IF c \in lost THEN NoUser ELSE auth[c]]
    BY <1>5 DEF A!Forget
  <1>6. \/ \E u \in Users : A!Register(u) \/ A!CreateToken(u)
        \/ \E c \in Clients, u \in Users : A!Authenticate(c, u)
        \/ \E lost \in SUBSET Clients : A!Forget(lost)
    BY DEF A!Next
  <1> HIDE DEF accounts, tokens
  <1>7. CASE \E u \in Users : A!Register(u)
    BY <1>1, <1>2, <1>7
  <1>8. CASE \E u \in Users : A!CreateToken(u)
    BY <1>1, <1>3, <1>8
  <1>9. CASE \E c \in Clients, u \in Users : A!Authenticate(c, u)
    BY <1>1, <1>4, <1>9
  <1>10. CASE \E lost \in SUBSET Clients : A!Forget(lost)
    BY <1>1, <1>5, <1>10
  <1> QED BY <1>6, <1>7, <1>8, <1>9, <1>10

(* Whatever implements Accounts has an account for every connection that   *)
(* is logged in and for every login token; so the server has, whatever     *)
(* rolls back and whoever authenticates at the same time.                  *)
THEOREM AccountsSafe == Spec => []A!AuthenticatedExists
  <1>1. A!Init => A!TypeOK /\ A!AuthenticatedExists
    BY DEF A!Init, A!TypeOK, A!AuthenticatedExists
  <1>2. A!TypeOK /\ A!AuthenticatedExists /\ [A!Next]_(A!vars) => (A!TypeOK /\ A!AuthenticatedExists)'
    <2> SUFFICES ASSUME A!TypeOK, A!AuthenticatedExists, UNCHANGED A!vars
                 PROVE  A!TypeOK' /\ A!AuthenticatedExists'
      BY AccountsStep
    <2> QED BY DEF A!vars, A!TypeOK, A!AuthenticatedExists
  <1> QED BY <1>1, <1>2, Implementation, PTL DEF ImplementsAccounts, A!Spec

=============================================================================
