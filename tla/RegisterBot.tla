---------------------------- MODULE RegisterBot -----------------------------
(***************************************************************************)
(* The register bot (applications/register-bot/src/main.rs): workers that  *)
(* take user names from one list, register an account for each through a   *)
(* proxy and with a solved captcha (client-utils/src/captcha.rs), and      *)
(* write a line with the result.  Sessions keep the promises of Calls; the *)
(* server answers as the bot expects it to, and may close at any time.     *)
(***************************************************************************)
EXTENDS Naturals, Sequences, FiniteSets

CONSTANTS
    Workers,   \* parallel_workers
    NameCount  \* the lines of the file of names

MaxAttempts == 3
MaxCaptchas == 3

VARIABLES
    user_name_index, \* of the names' generator, behind its mutex
    output,          \* the lines of the output file, behind its mutex
    worker,          \* where each worker stands
    reply,           \* the server's answer to a worker's submission
    account,         \* the names at the server
    proxies          \* the provider has one: that of the host always has

vars == <<user_name_index, output, worker, reply, account, proxies>>

(* The steps of register_account_loop, between the two loops of main.      *)
Sessions == {"captcha", "solve", "validate", "submit", "answer", "linger", "purchase"}
Steps == {"next", "proxy", "connect", "gone"} \union Sessions

Names == 1..NameCount

Worker ==
    [ step: Steps, name: 0..NameCount, attempt: 0..MaxAttempts - 1,
      captchas: 0..MaxCaptchas, solved: BOOLEAN ]

Results == {"Success", "UsernameBusy", "UsernameInvalid", "CaptchaRequired"}
Lines == [name: Names, result: Results \union {"error"}]

TypeOK ==
    /\ user_name_index \in 0..NameCount
    /\ output \in Seq(Lines)
    /\ worker \in [Workers -> Worker]
    /\ reply \in [Workers -> Results \union {"none"}]
    /\ account \in [Names -> {"free", "taken"}]
    /\ proxies \in BOOLEAN

NewWorker(step) ==
    [step |-> step, name |-> 0, attempt |-> 0, captchas |-> 0, solved |-> FALSE]

Init ==
    /\ user_name_index = 0 /\ output = <<>>
    /\ worker = [w \in Workers |-> NewWorker("next")]
    /\ reply = [w \in Workers |-> "none"]
    /\ account \in [Names -> {"free", "taken"}]
    /\ proxies \in BOOLEAN

At(w, step) == worker[w].step = step

(* The rest of a step that only moves a worker on.                         *)
Move(w, new) == worker' = [worker EXCEPT ![w] = new]
Goto(w, step) == Move(w, [worker[w] EXCEPT !.step = step])

Shared == <<user_name_index, output, reply, account, proxies>>

-----------------------------------------------------------------------------
(* The loops of main.                                                      *)

NextUserName(w) ==
    /\ Move(w, [NewWorker("proxy") EXCEPT !.name = user_name_index + 1])
    /\ user_name_index' = user_name_index + 1

NextName(w) ==
    /\ At(w, "next")
    /\ IF user_name_index >= NameCount
       THEN Move(w, NewWorker("gone")) /\ UNCHANGED user_name_index
       ELSE NextUserName(w)
    /\ UNCHANGED <<output, reply, account, proxies>>

(* Without a proxy the worker returns and its name is not heard of again.  *)
NextProxy(w) ==
    /\ At(w, "proxy")
    /\ IF proxies THEN Goto(w, "connect") ELSE Move(w, NewWorker("gone"))
    /\ UNCHANGED Shared

WriteLine(w, result) ==
    output' = Append(output, [name |-> worker[w].name, result |-> result])

(* Mutant of AttemptFailed: the last one falls out of the loop.            *)
AttemptFailedQuietly(w) ==
    /\ IF worker[w].attempt + 1 > MaxAttempts THEN WriteLine(w, "error") ELSE UNCHANGED output
    /\ IF worker[w].attempt + 1 >= MaxAttempts
       THEN Move(w, NewWorker("next"))
       ELSE Move(w, [NewWorker("proxy") EXCEPT !.name = worker[w].name,
                                               !.attempt = worker[w].attempt + 1])

(* An error in any of the steps: the next attempt, or the line and the     *)
(* next name after the last.                                               *)
AttemptFailed(w) ==
    IF worker[w].attempt + 1 >= MaxAttempts
    THEN WriteLine(w, "error") /\ Move(w, NewWorker("next"))
    ELSE /\ Move(w, [NewWorker("proxy") EXCEPT !.name = worker[w].name,
                                               !.attempt = worker[w].attempt + 1])
         /\ UNCHANGED output

(* Mutant of Registered: no break.                                         *)
RegisteredAgain(w, result) ==
    /\ WriteLine(w, result)
    /\ IF worker[w].attempt + 1 >= MaxAttempts
       THEN Move(w, NewWorker("next"))
       ELSE Move(w, [NewWorker("proxy") EXCEPT !.name = worker[w].name,
                                               !.attempt = worker[w].attempt + 1])

Registered(w, result) == WriteLine(w, result) /\ Move(w, NewWorker("next"))

-----------------------------------------------------------------------------
(* register_account_loop.                                                  *)

Connect(w) ==
    /\ At(w, "connect")
    /\ \/ Goto(w, "captcha") /\ UNCHANGED output
       \/ AttemptFailed(w)
    /\ reply' = [reply EXCEPT ![w] = "none"]
    /\ UNCHANGED <<user_name_index, account, proxies>>

(* solve_captcha: the server shows one, the service solves it while nobody *)
(* polls the session, and the server judges the solution.                  *)
ShowCaptcha(w) ==
    /\ At(w, "captcha")
    /\ Goto(w, "solve")
    /\ UNCHANGED Shared

SolveCaptcha(w) ==
    /\ At(w, "solve")
    /\ \/ Goto(w, "validate") /\ UNCHANGED output
       \/ AttemptFailed(w)
    /\ UNCHANGED <<user_name_index, reply, account, proxies>>

(* Three tries; after the third the account is submitted as it is.         *)
ValidateCaptcha(w) ==
    /\ At(w, "validate")
    /\ \E solved \in BOOLEAN :
         LET tries == worker[w].captchas + 1 IN
           Move(w, [worker[w] EXCEPT !.captchas = tries, !.solved = solved,
                                     !.step = IF solved \/ tries = MaxCaptchas
                                              THEN "submit" ELSE "captcha"])
    /\ UNCHANGED Shared

Submit(w) ==
    /\ At(w, "submit")
    /\ Goto(w, "answer")
    /\ UNCHANGED Shared

(* The server: no account without a captcha, and none for a name that has  *)
(* one.  Any other registration may fail too, as with users.rs, which says *)
(* no more of a failed query than of a name that is taken.                 *)
ServerAnswers(w) ==
    /\ At(w, "answer") /\ reply[w] = "none"
    /\ LET name == worker[w].name IN
         \/ /\ ~worker[w].solved
            /\ reply' = [reply EXCEPT ![w] = "CaptchaRequired"] /\ UNCHANGED account
         \/ /\ worker[w].solved
            /\ reply' = [reply EXCEPT ![w] = "UsernameInvalid"] /\ UNCHANGED account
         \/ /\ worker[w].solved /\ account[name] = "taken"
            /\ reply' = [reply EXCEPT ![w] = "UsernameBusy"] /\ UNCHANGED account
         \/ /\ worker[w].solved /\ account[name] = "free"
            /\ reply' = [reply EXCEPT ![w] = "Success"]
            /\ account' = [account EXCEPT ![name] = "taken"]
    /\ UNCHANGED <<user_name_index, output, worker, proxies>>

(* The purchase "might cause the server to close the connected.  Then no   *)
(* account has been created."                                              *)
ServerRefuses(w) ==
    /\ At(w, "purchase")
    /\ account' = [account EXCEPT ![worker[w].name] = "free"]
    /\ UNCHANGED <<user_name_index, output, worker, reply, proxies>>

TakeAnswer(w) ==
    /\ At(w, "answer") /\ reply[w] # "none"
    /\ IF reply[w] = "Success"
       THEN Goto(w, "linger") /\ UNCHANGED output
       ELSE Registered(w, reply[w])
    /\ UNCHANGED <<user_name_index, reply, account, proxies>>

(* Twelve seconds later, or once the session is over, the purchase is put  *)
(* into the send buffer; that does not fail without a peer.                *)
Linger(w) ==
    /\ At(w, "linger")
    /\ Goto(w, "purchase")
    /\ UNCHANGED Shared

(* Another second later, or once the session is over, the result of the    *)
(* submission is that of the registration.                                 *)
Purchase(w) ==
    /\ At(w, "purchase")
    /\ Registered(w, "Success")
    /\ UNCHANGED <<user_name_index, reply, account, proxies>>

(* The session ends before the answer is taken: the await fails, also when *)
(* the answer was on its way.  A session that nobody polls, as the captcha *)
(* is solved, is found ended by the next await.                            *)
LoseSession(w) ==
    /\ worker[w].step \in {"captcha", "validate", "submit", "answer"}
    /\ AttemptFailed(w)
    /\ UNCHANGED <<user_name_index, reply, account, proxies>>

(* What a worker does by itself, or once the server answers it.            *)
Work(w) ==
    \/ NextName(w) \/ NextProxy(w) \/ Connect(w) \/ ShowCaptcha(w) \/ SolveCaptcha(w)
    \/ ValidateCaptcha(w) \/ Submit(w) \/ ServerAnswers(w) \/ TakeAnswer(w) \/ Linger(w)
    \/ Purchase(w)

Next == \E w \in Workers : Work(w) \/ LoseSession(w) \/ ServerRefuses(w)

Spec == Init /\ [][Next]_vars

(* Calls return, as the server answers or closes and the captcha service   *)
(* comes to an end; the code itself sets no timeout.                       *)
Fairness == \A w \in Workers : WF_vars(Work(w))

FairSpec == Spec /\ Fairness

-----------------------------------------------------------------------------
(* Properties.                                                             *)

(* One line for a name at most, and none for one that is still at work,    *)
(* whatever fails and is tried again.  What the line says is another       *)
(* matter: a name that is busy or invalid may be the bot's own, of an      *)
(* attempt whose answer was lost, or free, as any failure is "invalid".    *)
OneLineEach ==
    /\ \A i, j \in DOMAIN output : output[i].name = output[j].name => i = j
    /\ \A i \in DOMAIN output : \A w \in Workers : worker[w].name # output[i].name

(* "Then no account has been created" (register-bot/src/main.rs:103): a    *)
(* line that says Success is of an account.  It does not hold, as a server *)
(* that closes on the purchase goes unseen.                                *)
SuccessHasAccount ==
    \A i \in DOMAIN output :
        output[i].result = "Success" => account[output[i].name] = "taken"

(* With a proxy every name gets its line.                                  *)
EveryNameAnswered ==
    \A n \in Names : proxies => <>(\E i \in DOMAIN output : output[i].name = n)

=============================================================================
