-------------------------------- MODULE Login -------------------------------
(***************************************************************************)
(* Logging in and registering: the components a client has before it is    *)
(* authenticated (server/src/client_components/authenticate.rs,            *)
(* register.rs and captcha.rs), the tasks they start on the user registry  *)
(* (server/src/users.rs) and the one SQLite connection, behind a fair      *)
(* tokio Mutex, that all tasks of all clients share.                       *)
(*                                                                         *)
(* Polls and wakers are module Client's: here a live client's task is run  *)
(* when it can go on.  A task is suspended in the queue of the Mutex, then *)
(* at each of its statements, with the Mutex held; the client may end at   *)
(* any of these points, and then its tasks are not polled any more but     *)
(* stay where they are until the server drops the client.                  *)
(*                                                                         *)
(* A statement may fail for reasons of its own.  A wrong password, an      *)
(* unknown token and a failed query have the same answer, so passwords     *)
(* are left out: any login may fail.                                       *)
(***************************************************************************)
EXTENDS Naturals, Sequences, SequencesExt

CONSTANTS
    Clients,     \* the connections
    Users,       \* the user names in play
    NoUser,
    MaxRequests  \* bounds: how many packets that start a task each peer may send

ASSUME LoginAssumption == NoUser \notin Users /\ MaxRequests \subseteq [Clients -> Nat]

VARIABLES
    life,          \* live, ended (its poll returned Ready) or gone (dropped)
    auth,          \* authentication_state: the user, or NoUser
    loginPending,  \* UserAuthentication.login_pending
    captcha,       \* CaptchaProvider.solve_states at RegisterForm
    fresh,         \* fresh[c]: the tasks of c never polled, in their order
    database,      \* who waits for the Mutex, in its order; the head has it
    tables,        \* what the connection reads
    committed,     \* what a rollback, or the next process, finds
    announced,     \* announced[c]: its ClientAuthenticated events not handled
    left,          \* how many packets that start a task c may still send
    handed,        \* the login tokens peers were sent, and may send back
    paid,          \* has c solved a captcha since its last registration?
    claims         \* how often each user name was registered, by anyone

clientVars == <<life, auth, loginPending, captcha, announced, left>>
history == <<handed, paid, claims>>
vars == <<clientVars, fresh, database, tables, committed, history>>

-----------------------------------------------------------------------------
Kinds == {"credentials", "token", "register", "createToken", "isFree", "findUser"}

Task ==
    [ client: Clients, kind: Kinds, user: Users, remember: BOOLEAN, hash: Nat,
      step: {"waiting", "userInserted", "bothInserted", "answered"},
      success: BOOLEAN ]

(* The rows of the three tables, by the primary key they share.            *)
Tables ==
    [ user: SUBSET Users, authentication: SUBSET Users, token: [Users -> Nat] ]

TypeOK ==
    /\ life \in [Clients -> {"live", "ended", "gone"}]
    /\ auth \in [Clients -> Users \union {NoUser}]
    /\ loginPending \in [Clients -> BOOLEAN]
    /\ captcha \in [Clients -> {"Invalid", "Pending", "Solved"}]
    /\ fresh \in [Clients -> Seq(Task)]
    /\ database \in Seq(Task)
    /\ tables \in Tables
    /\ committed \in Tables
    /\ announced \in [Clients -> Nat]
    /\ left \in [Clients -> Nat]
    /\ handed \subseteq [user: Users, hash: Nat \ {0}]
    /\ paid \in [Clients -> BOOLEAN]
    /\ claims \in [Users -> Nat]

(* The file holds what earlier runs of the server wrote: some accounts,    *)
(* some of them with a token, and not every token reached its peer.        *)
Init ==
    /\ life = [c \in Clients |-> "live"]
    /\ auth = [c \in Clients |-> NoUser]
    /\ loginPending = [c \in Clients |-> FALSE]
    /\ captcha = [c \in Clients |-> "Invalid"]
    /\ fresh = [c \in Clients |-> <<>>]
    /\ database = <<>>
    /\ \E users \in SUBSET Users : \E remembered \in SUBSET users :
         /\ tables = [ user |-> users, authentication |-> users,
                       token |-> [u \in Users |-> IF u \in remembered THEN 1 ELSE 0] ]
         /\ claims = [u \in Users |-> IF u \in users THEN 1 ELSE 0]
         /\ handed \in SUBSET [user: remembered, hash: {1}]
    /\ committed = tables
    /\ announced = [c \in Clients |-> 0]
    /\ left \in MaxRequests
    /\ paid = [c \in Clients |-> FALSE]

-----------------------------------------------------------------------------
(* Packets.  One that is refused, or that finds no captcha solved, starts  *)
(* nothing; a refusal also closes the client, which may end at any time.   *)

NewTask(c, kind, u, remember, hash) ==
    [ client |-> c, kind |-> kind, user |-> u, remember |-> remember, hash |-> hash,
      step |-> "waiting", success |-> FALSE ]

(* Client::run_async.                                                      *)
RunAsync(c, task) == fresh' = [fresh EXCEPT ![c] = Append(@, task)]

(* The packets that start a task, and when they are not refused.           *)
Request(c) ==
    /\ life[c] = "live"
    /\ left[c] > 0
    /\ left' = [left EXCEPT ![c] = @ - 1]

(* Mutant of AccountLoginExecute: login_pending is not looked at.          *)
AccountLoginExecuteAnyway(c, u, remember) ==
    /\ Request(c)
    /\ auth[c] = NoUser
    /\ loginPending' = [loginPending EXCEPT ![c] = TRUE]
    /\ RunAsync(c, NewTask(c, "credentials", u, remember, 0))
    /\ UNCHANGED <<life, auth, captcha, announced, database, tables, committed, history>>

AccountLoginExecute(c, u, remember) ==
    /\ Request(c)
    /\ auth[c] = NoUser
    /\ ~loginPending[c]
    /\ loginPending' = [loginPending EXCEPT ![c] = TRUE]
    /\ RunAsync(c, NewTask(c, "credentials", u, remember, 0))
    /\ UNCHANGED <<life, auth, captcha, announced, database, tables, committed, history>>

(* Neither the state nor login_pending is looked at.                       *)
AccountLoginHashLogin(c) ==
    /\ Request(c)
    /\ \E h \in handed :
         RunAsync(c, NewTask(c, "token", h.user, TRUE, h.hash))
    /\ UNCHANGED <<life, auth, loginPending, captcha, announced,
                   database, tables, committed, history>>

AccountRegisterValidateUid(c, u) ==
    /\ Request(c)
    /\ auth[c] = NoUser
    /\ RunAsync(c, NewTask(c, "isFree", u, FALSE, 0))
    /\ UNCHANGED <<life, auth, loginPending, captcha, announced,
                   database, tables, committed, history>>

(* Mutant of SolvedFor: the solution stays valid.                          *)
SolvedForEver(c) ==
    /\ captcha[c] = "Solved"
    /\ UNCHANGED captcha

(* CaptchaProvider::solved_for(RegisterForm) answers TRUE, and uses up the *)
(* solution.                                                               *)
SolvedFor(c) ==
    /\ captcha[c] = "Solved"
    /\ captcha' = [captcha EXCEPT ![c] = "Invalid"]

AccountRegisterSubmit(c, u, remember) ==
    /\ Request(c)
    /\ auth[c] = NoUser
    /\ SolvedFor(c)
    /\ paid' = [paid EXCEPT ![c] = FALSE]
    /\ RunAsync(c, NewTask(c, "register", u, remember, 0))
    /\ UNCHANGED <<life, auth, loginPending, announced,
                   database, tables, committed, handed, claims>>

(* send_new_captcha for RegisterForm: asked for, or after a wrong code, or *)
(* after a code nobody asked for.  A solution given before is lost.        *)
SendNewCaptcha(c) ==
    /\ life[c] = "live"
    /\ captcha' = [captcha EXCEPT ![c] = "Pending"]
    /\ UNCHANGED <<life, auth, loginPending, announced, left,
                   fresh, database, tables, committed, history>>

(* CaptchaValidateCaptcha with the right code for a captcha that was sent. *)
SolveCaptcha(c) ==
    /\ life[c] = "live"
    /\ captcha[c] = "Pending"
    /\ captcha' = [captcha EXCEPT ![c] = "Solved"]
    /\ paid' = [paid EXCEPT ![c] = TRUE]
    /\ UNCHANGED <<life, auth, loginPending, announced, left,
                   fresh, database, tables, committed, handed, claims>>

-----------------------------------------------------------------------------
(* Tasks on the user registry.                                             *)

(* database.lock().await                                                   *)
AwaitDatabase(c) ==
    /\ life[c] = "live"
    /\ fresh[c] # <<>>
    /\ database' = Append(database, Head(fresh[c]))
    /\ fresh' = [fresh EXCEPT ![c] = Tail(@)]
    /\ UNCHANGED <<clientVars, tables, committed, history>>

(* The task t of the live client c has the database and is at a step.      *)
HasDatabase(c, step) ==
    /\ life[c] = "live"
    /\ database # <<>>
    /\ Head(database).client = c
    /\ Head(database).step = step

Proceed(step, success) ==
    database' = [database EXCEPT ![1] = [@ EXCEPT !.step = step, !.success = success]]

(* Outside a transaction every statement commits on its own.               *)
Autocommit(new) == tables' = new /\ committed' = new

(* The Transaction is dropped before it was committed.                     *)
Rollback == tables' = committed /\ UNCHANGED committed

(* Mutant of Fallback: a failed query counts as a success.                 *)
FallbackTrue(c) ==
    /\ Proceed("answered", TRUE)
    /\ Rollback
    /\ UNCHANGED <<clientVars, fresh, history>>

(* unwrap_or_else: the answer to a statement that failed, and to a query   *)
(* that finds nothing.                                                     *)
Fallback(c) ==
    /\ Proceed("answered", FALSE)
    /\ Rollback
    /\ UNCHANGED <<clientVars, fresh, history>>

Fail(c) ==
    /\ \E step \in {"waiting", "userInserted", "bothInserted"} : HasDatabase(c, step)
    /\ Fallback(c)

(* The three SELECTs and the UPDATE of the time stamp of a token.          *)
Finds(t) ==
    CASE t.kind = "credentials" -> t.user \in tables.authentication
      [] t.kind = "token"       -> tables.token[t.user] = t.hash
      [] t.kind = "isFree"      -> t.user \notin tables.user
      [] t.kind = "findUser"    -> t.user \in tables.user
      [] OTHER                  -> FALSE

Find(c) ==
    /\ HasDatabase(c, "waiting")
    /\ Finds(Head(database))
    /\ Proceed("answered", TRUE)
    /\ UNCHANGED <<clientVars, fresh, tables, committed, history>>

(* Mutant of CreateAuthenticationToken: INSERT OR REPLACE.                 *)
ReplaceAuthenticationToken(c) ==
    /\ HasDatabase(c, "waiting")
    /\ LET t == Head(database) IN
         /\ t.kind = "createToken"
         /\ t.user \in tables.user
         /\ tables.token[t.user] < 2
         /\ Autocommit([tables EXCEPT !.token[t.user] = @ + 1])
    /\ Proceed("answered", TRUE)
    /\ UNCHANGED <<clientVars, fresh, history>>

(* The INSERT succeeds if the user exists and has no token yet.            *)
CreateAuthenticationToken(c) ==
    /\ HasDatabase(c, "waiting")
    /\ LET t == Head(database) IN
         /\ t.kind = "createToken"
         /\ t.user \in tables.user
         /\ tables.token[t.user] = 0
         /\ Autocommit([tables EXCEPT !.token[t.user] = 1])
    /\ Proceed("answered", TRUE)
    /\ UNCHANGED <<clientVars, fresh, history>>

(* register_user: begin, and the first INSERT, refused by the primary key  *)
(* if the user exists.                                                     *)
RegisterInsertUser(c) ==
    /\ HasDatabase(c, "waiting")
    /\ LET t == Head(database) IN
         /\ t.kind = "register"
         /\ t.user \notin tables.user
         /\ tables' = [tables EXCEPT !.user = @ \union {t.user}]
    /\ Proceed("userInserted", FALSE)
    /\ UNCHANGED <<clientVars, fresh, committed, history>>

(* The second INSERT; what the user would log in with.                     *)
RegisterInsertAuthentication(c) ==
    /\ HasDatabase(c, "userInserted")
    /\ LET t == Head(database) IN
         tables' = [tables EXCEPT !.authentication = @ \union {t.user}]
    /\ Proceed("bothInserted", FALSE)
    /\ UNCHANGED <<clientVars, fresh, committed, history>>

RegisterCommit(c) ==
    /\ HasDatabase(c, "bothInserted")
    /\ committed' = tables
    /\ claims' = [claims EXCEPT ![Head(database).user] = @ + 1]
    /\ Proceed("answered", TRUE)
    /\ UNCHANGED <<clientVars, fresh, tables, handed, paid>>

-----------------------------------------------------------------------------
(* Callbacks.  The future is over, so the Mutex is free.                   *)

Release(c) == HasDatabase(c, "answered") /\ database' = Tail(database)

(* handle_user_authenticated.                                              *)
HandleUserAuthenticated(c, u, remember) ==
    /\ auth' = [auth EXCEPT ![c] = u]
    /\ announced' = [announced EXCEPT ![c] = @ + 1]
    /\ IF remember THEN RunAsync(c, NewTask(c, "createToken", u, FALSE, 0)) ELSE UNCHANGED fresh

(* Mutant of ClearLoginPending: only a login that failed may be repeated.  *)
ClearFailedLoginPending(t) ==
    loginPending' = [loginPending EXCEPT
        ![t.client] = @ /\ ~(t.kind = "credentials" /\ ~t.success)]

(* The first statement of the callback of AccountLoginExecute.             *)
ClearLoginPending(t) ==
    loginPending' = [loginPending EXCEPT ![t.client] = @ /\ t.kind # "credentials"]

LoginSucceeds(c) ==
    /\ Release(c)
    /\ LET t == Head(database) IN
         /\ t.kind \in {"credentials", "token", "register"}
         /\ t.success
         /\ ClearLoginPending(t)
         /\ HandleUserAuthenticated(c, t.user, t.remember)
    /\ UNCHANGED <<life, captcha, left, tables, committed, history>>

(* The callback sends a packet and changes nothing else.                   *)
Answer(c) ==
    /\ Release(c)
    /\ LET t == Head(database) IN
         /\ t.kind \in {"credentials", "token", "register"} => ~t.success
         /\ t.kind = "createToken" => ~t.success
         /\ ClearLoginPending(t)
    /\ UNCHANGED <<life, auth, captcha, announced, left, fresh, tables, committed, history>>

(* The token is sent, unless the connection is closing.                    *)
AccountLoginHashUpdate(c) ==
    /\ Release(c)
    /\ LET t == Head(database) IN
         /\ t.kind = "createToken"
         /\ t.success
         /\ handed' \in { handed,
                          handed \union {[user |-> t.user, hash |-> tables.token[t.user]]} }
    /\ UNCHANGED <<clientVars, fresh, tables, committed, paid, claims>>

-----------------------------------------------------------------------------
(* The server and the end of clients.                                      *)

(* handle_client_authenticated starts find_user for the user the client    *)
(* has by then; the client may have ended.                                 *)
HandleClientAuthenticated(c) ==
    /\ life[c] # "gone"
    /\ announced[c] > 0
    /\ announced' = [announced EXCEPT ![c] = @ - 1]
    /\ RunAsync(c, NewTask(c, "findUser", auth[c], FALSE, 0))
    /\ UNCHANGED <<life, auth, loginPending, captcha, left,
                   database, tables, committed, history>>

(* poll returns Ready; ClientDisconnected follows the events in the queue. *)
End(c) ==
    /\ life[c] = "live"
    /\ life' = [life EXCEPT ![c] = "ended"]
    /\ UNCHANGED <<auth, loginPending, captcha, announced, left,
                   fresh, database, tables, committed, history>>

(* The next task of c to be dropped: they are dropped one by one, in the   *)
(* order of Tasks.tasks, which is also their order in the queue.           *)
NextDropped(c, i) ==
    /\ life[c] = "ended"
    /\ announced[c] = 0
    /\ database[i].client = c
    /\ \A j \in 1..i - 1 : database[j].client # c

(* Mutant of DropTask: a task that has the Mutex never gives it back.      *)
DropWaiting(c, i) ==
    /\ NextDropped(c, i)
    /\ i # 1
    /\ database' = RemoveAt(database, i)
    /\ UNCHANGED <<clientVars, fresh, tables, committed, history>>

(* Mutant of DropTask: the transaction stays open.                         *)
DropKeepingTransaction(c, i) ==
    /\ NextDropped(c, i)
    /\ database' = RemoveAt(database, i)
    /\ UNCHANGED <<clientVars, fresh, tables, committed, history>>

(* A task leaves the queue of the Mutex or, if it has it, drops first the  *)
(* transaction and then the guard; the next task in the queue has it then. *)
DropTask(c, i) ==
    /\ NextDropped(c, i)
    /\ database' = RemoveAt(database, i)
    /\ IF i = 1 THEN Rollback ELSE UNCHANGED <<tables, committed>>
    /\ UNCHANGED <<clientVars, fresh, history>>

(* handle_event(ClientDisconnected) removes the last Arc of the client;    *)
(* nobody sees it any more, and its tasks are gone.                        *)
Drop(c) ==
    /\ life[c] = "ended"
    /\ announced[c] = 0
    /\ \A i \in DOMAIN database : database[i].client # c
    /\ life' = [life EXCEPT ![c] = "gone"]
    /\ auth' = [auth EXCEPT ![c] = NoUser]
    /\ loginPending' = [loginPending EXCEPT ![c] = FALSE]
    /\ captcha' = [captcha EXCEPT ![c] = "Invalid"]
    /\ fresh' = [fresh EXCEPT ![c] = <<>>]
    /\ paid' = [paid EXCEPT ![c] = FALSE]
    /\ UNCHANGED <<announced, left, database, tables, committed, handed, claims>>

(* The process exits or is killed, and is started again on the same file;  *)
(* new connections take the place of the old ones.                         *)
Restart ==
    /\ life' = [c \in Clients |-> "live"]
    /\ auth' = [c \in Clients |-> NoUser]
    /\ loginPending' = [c \in Clients |-> FALSE]
    /\ captcha' = [c \in Clients |-> "Invalid"]
    /\ announced' = [c \in Clients |-> 0]
    /\ fresh' = [c \in Clients |-> <<>>]
    /\ database' = <<>>
    /\ Rollback
    /\ paid' = [c \in Clients |-> FALSE]
    /\ UNCHANGED <<left, handed, claims>>

-----------------------------------------------------------------------------
Packet(c) ==
    \/ \E u \in Users, remember \in BOOLEAN :
         AccountLoginExecute(c, u, remember) \/ AccountRegisterSubmit(c, u, remember)
    \/ AccountLoginHashLogin(c)
    \/ \E u \in Users : AccountRegisterValidateUid(c, u)
    \/ SendNewCaptcha(c)
    \/ SolveCaptcha(c)

TaskStep(c) ==
    \/ AwaitDatabase(c)
    \/ Fail(c)
    \/ Find(c)
    \/ CreateAuthenticationToken(c)
    \/ RegisterInsertUser(c)
    \/ RegisterInsertAuthentication(c)
    \/ RegisterCommit(c)
    \/ LoginSucceeds(c)
    \/ Answer(c)
    \/ AccountLoginHashUpdate(c)

DropStep(c) == (\E i \in DOMAIN database : DropTask(c, i)) \/ Drop(c)

Next ==
    \/ \E c \in Clients :
         Packet(c) \/ TaskStep(c) \/ HandleClientAuthenticated(c) \/ End(c) \/ DropStep(c)
    \/ Restart

Spec == Init /\ [][Next]_vars

(* Every statement is answered, every task that can go on is polled, and   *)
(* the server handles its events.  Nothing makes peers send or leave.      *)
FairSpec ==
    /\ Spec
    /\ \A c \in Clients :
         /\ WF_vars(TaskStep(c))
         /\ WF_vars(HandleClientAuthenticated(c))
         /\ WF_vars(DropStep(c))

-----------------------------------------------------------------------------
(* Properties.                                                             *)

(* A user that exists can log in and the other way round, even if the      *)
(* process is killed or the client goes between the two INSERTs; and no    *)
(* statement runs inside a transaction that another task has left open.    *)
NoHalfAccount ==
    /\ committed.user = committed.authentication
    /\ \A u \in Users : committed.token[u] # 0 => u \in committed.user
    /\ tables # committed =>
         /\ database # <<>>
         /\ Head(database).kind = "register"
         /\ Head(database).step \in {"userInserted", "bothInserted"}

(* Every task there is, never polled or on its way to an answer.           *)
Tasks == (UNION {Range(fresh[c]) : c \in Clients}) \union Range(database)

CredentialTasks(tasks, c) ==
    {i \in 1..Len(tasks) : tasks[i].client = c /\ tasks[i].kind = "credentials"}

(* login_pending is set exactly while a login with credentials is under    *)
(* way, and then there is one of them: a client is neither locked out for  *)
(* good nor able to try several passwords at a time.                       *)
LoginPendingExact ==
    \A c \in Clients : life[c] = "live" =>
        LET new == CredentialTasks(fresh[c], c)
            old == CredentialTasks(database, c)
        IN  /\ loginPending[c] <=> new # {} \/ old # {}
            /\ new # {} => old = {}
            /\ \A i, j \in new : i = j
            /\ \A i, j \in old : i = j

(* find_user and the token of a login are asked only for users that exist: *)
(* server.rs on find_user finding nothing: "should not occur".             *)
LobbyUserExists ==
    /\ \A c \in Clients : announced[c] > 0 => auth[c] # NoUser
    /\ \A t \in Tasks : t.kind \in {"findUser", "createToken"} => t.user \in committed.user

(* A client that is authenticated "is not supposed to login" nor "to       *)
(* register" (authenticate.rs:114, register.rs:37, :56): its user stays    *)
(* the same until it is dropped.  It does not hold, as requests that were  *)
(* made before, and tokens at any time, authenticate it again.             *)
UserStays ==
    [][\A c \in Clients : auth[c] # NoUser => auth'[c] \in {auth[c], NoUser}]_vars

(* No two registrations of a name succeed, whoever asked first whether it  *)
(* was free, and one that was reported to succeed is in the file.          *)
RegisteredOnce ==
    /\ \A u \in Users : claims[u] = (IF u \in committed.user THEN 1 ELSE 0)
    /\ \A t \in Tasks : t.kind = "register" /\ t.success => t.user \in committed.user

(* One solved captcha lets one registration through, failed or not.        *)
CaptchaPaysOnce == \A c \in Clients : captcha[c] = "Solved" => paid[c]

(* A token that was sent to a peer stays valid, on whatever connection,    *)
(* however often the user logs in again and asks to be remembered.         *)
TokensStayValid == \A h \in handed : committed.token[h.user] = h.hash

A == INSTANCE Accounts WITH
        accounts <- committed.user,
        tokens   <- {u \in Users : committed.token[u] # 0}

(* Seen from the file and from the connections, accounts are created in    *)
(* one step and logins find them.                                          *)
ImplementsAccounts == A!Spec

(* Whoever has the database gives it back: no client that ended in the     *)
(* middle of a query keeps all others waiting.                             *)
DatabaseComesFree == []<>(database = <<>>)

(* A login with credentials is answered, unless the client ends.           *)
LoginAnswered ==
    \A c \in Clients : loginPending[c] ~> ~loginPending[c]

=============================================================================
