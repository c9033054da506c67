# Formal model of protanki-protocol-rs

TLA+ specifications of the ProTanki server, its wire protocol, its client
library and the programs built on it, checked with TLC on small instances and proved, where marked, with
TLAPS for every value of the constants. Paths below are relative to the
repository root.

## The system

A Rust workspace of four parts: `protocol` (framing, cipher, packets), `server`
(the game server), `client-utils` (a client session for bots) and
`applications` (a proxy and two bots).

| Component | State | Operations | Hard behaviour | What makes it correct |
|---|---|---|---|---|
| Connection (`protocol/src/connection.rs`) | receive and send buffers, cipher, latch `disconnected` | `send_packet`, `init_encryption`, `poll_next` | partial reads and writes, cipher switch in mid-stream, errors | packets arrive once, in order, whole; no false end of stream |
| Ciphers (`protocol/src/crypto`) | key and offset per direction | `encrypt`, `decrypt` | state moves with the data | the two ends stay in step |
| Codec and packet registry (`protocol/src/codec`, `packets/registry.rs`) | none | `encode`, `decode` | a payload does not say where a field ends; payloads too short or too long | every field arrives as it was sent; a short payload is an error |
| Client (`server/src/client.rs`) | connection state, components, wakers, authentication | `poll`, `send_packet`, `run_async`, `disconnect`, `register_component` | calls from other threads between and during polls; closing; errors | no lost wakeup; flushed before closed; ends when it should |
| Task list (`server/src/tasks.rs`) | tasks, new tasks, waker | `enqueue`, `poll` | enqueue while polled | every task is polled and called back once |
| Ping (`client_components/ping.rs`) | interval, outstanding ping | `poll`, `on_packet` | the only timer of a client | a closing client is polled again |
| Server (`server/src/server.rs`, `main.rs`) | map of clients, event channel, `is_shutdown` | `register_client`, `poll`, `shutdown` | three actors on one mutex, events that outlive their client, shutdown racing registration | exact registry, event order, complete shutdown |
| Resource loading (`client_components/resources.rs`) | requests, `request_pending`, listeners | `await_resources_loaded`, `on_packet` | any acknowledgement at any time | one request out, no stall, no lost listener |
| Authentication, registration, captcha (`authenticate.rs`, `register.rs`, `captcha.rs`) | `login_pending`, captcha states | packet handlers, task callbacks | two logins in flight, check then act across an await | one user per client, one registration per captcha |
| User registry (`server/src/users.rs`) | SQLite tables behind one async mutex | queries, a transaction | shared mutex, uniqueness, failure of one insert | no user without credentials |
| Chat (`server/src/chat.rs`) | history, subscribers | subscribe, send, poll | subscription against dispatch | history, then every message once |
| Client session (`client-utils/src/session.rs`, `handler.rs`) | handlers by id, deferred updates, flag `disconnected`, the oneshot of a call | `register_handler`, `remove_handler`, `poll`, `await_match`, `execute_task` | updates during a pass, a failing handler, result against disconnect, cancelled calls | an answer is the awaited packet, a failure the end of the session; every call returns |
| Crystal bot (`applications/crystal-bot`) | where its script stands, `LocalTankState` | login, battle, spawner, reconnecting | packets between two calls, kills that cross requests | nothing awaited has gone by; the tank comes back |
| Register bot (`applications/register-bot`) | list of names, output file, one script per worker | captcha, registration, three attempts | workers share list and file; failures at every step | one line for every name |
| Proxy (`applications/proxy-server`) | two connections | select loop | one side ends first, unreadable packets | packets relayed once, in order |

How they interact: `main` accepts a socket and spawns a task that runs
`Client::new` (handshake on a Connection) and then, with the server locked,
`register_client`. That puts the client behind a mutex into the server's map
and spawns a second task that polls it until it is Ready and sends
`ClientDisconnected`. A client's poll runs its tasks, its components and then
its connection; handlers start tasks whose callbacks change the client. A
successful login sends `ClientAuthenticated` to the event task, which locks the
server and that client. ctrl-c makes main lock the server and every client in
turn.

On the other side a `Session` is a future over a Connection. Nobody spawns it:
whoever awaits a packet, a task's result or the session itself polls it, and
between two awaits it stands still. The bots are scripts of such calls; the
proxy uses two Connections without a Session.

## Modules

| Module | Models | Depends on |
|---|---|---|
| `Sessions` | what the server promises about sessions: the abstract specification | |
| `Client` | one client's record, methods and poll; its task list, ping and surroundings | |
| `Server` | accept, registration, event task, shutdown; refines `Sessions` | `Client`, `Sessions` |
| `Loading` | what resource loading promises to those who await a stage: the abstract specification | |
| `ClientResources` | resource loading of one client; refines `Loading` | `Loading` |
| `Channel` | what a connection promises to the two programs: the abstract specification | |
| `Connection` | two connections over one socket; refines `Channel` | `Channel` |
| `XorCipher` | both ends of the stream cipher | |
| `CodecTypes` | the types a field may have | |
| `Codec` | the fields of packets through `encode`, `decode` and the registry | `CodecTypes` |
| `Accounts` | what the server promises about accounts: the abstract specification | |
| `Login` | login, registration and captcha of clients that share the database; refines `Accounts` | `Accounts` |
| `ChatRoom` | what the chat promises its readers: the abstract specification | |
| `Chat` | the shared chat and every client's component of it; refines `ChatRoom` | `ChatRoom` |
| `Calls` | what a session promises to the code that awaits it: the abstract specification | |
| `ClientSession` | one session: the handler registry, its poll and the calls; refines `Calls` | `Calls` |
| `CrystalBot` | one bot: its script, its spawner, the loop that reconnects | what `Calls` promises |
| `RegisterBot` | the workers, the list of names and the output file | what `Calls` promises |
| `ProxyServer` | one session of the proxy | what `Channel` promises |
| `ServerProofs` | theorems | `Server`, and `Sessions` that it refines |
| `ClientResourcesProofs`, `ConnectionProofs`, `XorCipherProofs`, `LoginProofs`, `ChatProofs`, `ClientSessionProofs` | theorems | the module of the same name |
| `ApplicationsProofs` | theorems about the three programs | `MCApplications` |
| `MCServer`, `MCConnection`, `MCLogin`, `MCChat`, `MCClientSession` | small instances | |
| `MCProtocol` | small instances of the cipher, the codec and resource loading, side by side | `XorCipher`, `Codec`, `ClientResources` |
| `MCApplications` | small instances of the three programs, side by side | `CrystalBot`, `RegisterBot`, `ProxyServer` |

### Client and Server

`client[c]` is the `Client` behind its mutex. Each method is an operator from
the record to its new value, under the method's name. `Client::poll` holds the
mutex but is not atomic: the socket, the timer, the database and shutdown's
neighbours act between two of its steps. So `poll` is a program counter:
`BeginPoll` stores the waker, `Collect*` run the callback of a finished task,
`EndTasks` leaves the task list, `PollComponents` or `PollClosed` runs the
components, the `Receive*` actions are one turn of the read loop each. Other
threads change the record only while the counter is `idle` (`ClientFree`), as
the mutex demands; wakers and the readiness of tasks change at any time.

`woken` says that tokio has the task scheduled. The three places that keep a
waker (`Client.waker`, `Tasks.waker`, `Connection.send_waker`) are Booleans
that are taken when used and set by a poll, exactly as in the code. A task is
counted in one of four stages: never polled, suspended with our waker, ready
to be collected, or ready only after this poll has passed it (`late`).

Abstractions: a send buffer is empty or not; a packet is what the handlers do
with it (`PacketKinds`); a task is what its callback does (`TaskKinds`); a
client is its connection instead of the number that `client_id_index` gives
it, which does not repeat before 2^32 registrations. Whether a finished query
still finds its user is left open (`CollectQuery`), as `Client` has no users. A reader of the record in
`Client` finds the Rust field beside each.

The refinement: `life[c]`, where the client's tokio task stands, maps to a
session that is none, live, ended or closed; `open` and `auth` are read off the
record; channel, map and shutdown are the same. A poll that ends nothing and
authenticates nobody is a stutter, or a `Close` when the client begins to close.

### ClientResources

Requests in order, each with a stage, a state and its listeners. The callers are
the three call sites of the server: registration (Connect), `LoginKickoff`
(Auth, once Connect is loaded) and every authentication (Lobby). Since a hash
login is not guarded, Lobby can be awaited more than once and before Auth is
loaded. A wrong acknowledgement disconnects the client, whose components still
see packets it receives until it is closed.

`Loading` has no requests, ids or listeners: a queue of the stages in the order
in which they were first awaited, and the set of those that are loaded. An
acknowledgement that counts is a `Load`, which serves all who wait for that
stage in the same step; everything else the peer does is a stutter.

### Connection and XorCipher

A byte of `Connection` is known by its packet, its place in it and the count of
bytes the cipher had processed: a packet decrypts right exactly when each byte
was encrypted in the state in which it is decrypted. That this count may stand
for the state is what `XorCipher` shows bit by bit (`InStep`). Header length,
chunk and key length are constants; sockets take and give any portion up to
`Capacity`.

`Channel` has no bytes: each end sends packets, reads those of the other one by
one, ends its stream or is dropped. A packet that is parsed is a `Receive`, an
error an `End`, which needs a peer that is gone or a next packet that cannot be
read, and after which there is no `Receive` of that end; what `poll_next` does
with bytes and buffers is a stutter.

### Codec

A type with the `Codeable` trait is a record of `CodecTypes` (`Bool`, `Signed(n)`, `Enum(ords)`,
`String`, `Length`, `Option(t)`, `Vec(t)`, `Struct(ts)`), and `ValuesOf` gives the
values it has. `Encode` gives the bytes the code writes, `Decode` the value and
the bytes left over, or an error, as the reader it is given moves on.
`EncodePacket` makes one packet of any fields; `Differ` lets it come from a peer
that sends less or more of it, since `try_parse_read_buffer` takes any length;
`DecodePacket` is the registry and the packet's own decoder, which drops what is
left over; `NextPacket` is only possible if that succeeded, since a connection
that failed is latched. The field lists are samples in `MCProtocol`: the build
script generates the real ones, each a sequence of the same types.

Left out: UTF-8 (a `String` of other bytes is an error of `decode`), and what is
special about floats, which are moved as integers of their size are.

### Login

`Client` knows of a login only that it may authenticate; `Login` has the users.
Its parts are the handlers of `authenticate.rs`, `register.rs` and `captcha.rs`,
the queries of `users.rs`, and the one SQLite connection all clients share
behind a tokio Mutex. That Mutex is fair, so it is a sequence: `database` holds
the tasks that wait for it and, at its head, the one that has it. `fresh[c]` are
the tasks the client has not polled yet. A task is a record that goes through
`waiting`, the two inserts of a registration, and `answered`; then its future is
over, the Mutex is free and its callback runs, in one step as in
`RegisteredTaskImpl::poll`.

A client may end between any two of these steps. Its tasks are then polled no
more, also the one that has the database, until the event task handles
`ClientDisconnected` and drops the client: its tasks one by one (`DropTask`),
where the one that has the database rolls its transaction back and gives the
Mutex to the next, perhaps to another task of the same client. `tables` is what the connection reads,
`committed` what a rollback or another process finds; `Restart` is an exit or a
crash of the server.

A failed query and a wrong password have the same answer in the code
(`unwrap_or_else`), so passwords are left out and every login may fail. Tokens
are numbered per user; peers send back those they were given. `paid` and
`claims` only record history for the properties.

The refinement maps `accounts` to the committed users and `tokens` to those with
a committed token: `RegisterCommit` is the abstract `Register`, every query and
both inserts are stutters, and the callback of a login finds the account that
its query found.

### Chat

`Client` knows the chat only as a component that may send packets; `Chat` has
the `ServerChat` that all clients share and the component of each. The chat's
RwLock is only ever taken for writing and for a whole operation, so an operation
is a step; a client's poll is not, and others post between its steps. An event
of a channel is the list of messages it puts on the screen; a message is known
by its number in the order of `register_message`. `joined` and `shown` record
history for the properties: where c's history began, and what was sent to c.

A client keeps posting while it is closing, but is shown nothing more; its
receiver lives until the event task drops the client, its sender until the next
message after that. A client that logs in again (finding 3) gets a new channel
and loses what the old one held, except for what the history repeats.

`ChatRoom` has no history, no channel and no poll: a list that grows, and
readers that read on from at most `HistoryLength` messages before they joined.
Each operation of `Chat` is a `Post`, a `Join`, a `Read` of zero or more
messages, or a stutter.

Left out: the texts, ranks and private targets of messages (the code broadcasts
these too), `register_system_message` and `unsubscribe`, which nobody calls, and
tokio's cooperative budget, which makes a long drain stop early and wakes the
task at once.

### ClientSession and Calls

`registered` are the keys of the registry's BTreeMap, `handler[n]` the handler
with that id wherever it is, `pending` the deferred updates. A poll of the
owner's future is a program counter again: `phase` says where it stands and
`at` which handler was called last, because a packet may arrive, or the peer
end, between any two calls. `handle` and `poll` hold the RefCell during their
pass, so what they register or remove goes to `pending` (`Borrowed`); a handler
that fails leaves the pass before `CommitUpdates`. Three kinds of handler: the
matcher of `await_match`, the `TaskHandler` around the crystal bot's
`TaskSimpleAction` (the only Task there is), and any other one, which may
register a handler, remove itself or fail (`AppOutcomes`).

A call is what the owner awaits: a match, a task, or the session (`run`). The
`select!` of `await_match` tries its branches in random order and a `TaskHandle`
polls the session first; `order` keeps that choice. A call may be dropped
between any two polls (`CancelCall`), as the bot does with its timer.

`Calls` is what is left for the owner: a call is opened, served by its packet,
passed by at most one more, and then answered; or it fails, once the session is
over. A result is lost only with the session.

### CrystalBot, RegisterBot and ProxyServer

The scripts see their session through `Calls` and the proxy its connections
through `Channel`: packets in order, and nothing after one that cannot be
read. What these promise is built into the actions (`CanDispatch`, `latched`),
and it is what the runs of `ClientSession` and `Connection` check.

`CrystalBot` keeps where `create_shot_bot` stands. `Awaited` gives the packets
each matcher accepts; the server is what the script expects of it: it sends a
reply and what follows by itself, with `Gap` packets of no interest between two
that are awaited. With `Gap = 0` the property `NothingMissed` does not hold: a
`TaskHandle` lets one packet more go by before the script can register the next
matcher, and the bot would wait for ever. The code relies on the server not to
send, for example, `LobbyLayoutSwitchEnd` directly after `AccountLoginSuccess`;
a real server sends a lobby in between. `SessionEnds` stands for the server that
closes and for any handler that fails, at any time.

The server kills a tank once it is placed, so a kill may meet the bot's request
to activate it; that request is then void. A dead tank waits for its respawn
delay (`ServerRevives`), while the spawner asks for a place at once, with a timer
of 0 ms: "the respawn interval is currently not checked" (`main.rs:398-402`).
The bot cannot know whether that goes on being so, and the model takes both: a
place before the delay is over is granted, or it leaves the tank (`"left"`), for
which the spawner does not ask again. So `ComesBack` promises the tank or a
session that is over only where the server does not mind.

`RegisterBot` has the two loops of `main` and the steps of
`register_account_loop` between two awaits. Each step can fail; a lost answer
leaves an account behind that the next attempt finds taken. The server's
"invalid" is no word about the name: it answers so to any registration that
failed, as this repository's does (`register.rs:87-88`, `users.rs:246-249`). At
the purchase it may take the account back (`ServerRefuses`), which the bot does
not see (finding 4). So what a line says is not a property; that there is one
for each name is. The lock of the names, of the proxies and of the file is held for one operation each, which is
one action.

`ProxyServer` is one `proxy_client`. The branches of its `select!` are tried in
random order, so a side that has ended may win against packets of the other
(`Disconnect`), and what is unsent is dropped with the connections. `MainReturns`
also stands for a packet that cannot be encoded again, which ends the session
in the same way.

## Runs

| Run | Bounds | What it shows |
|---|---|---|
| `server_one` | one client, two packets of any of six kinds, a slow socket, peer may close or reset; 2.7 million states | types, no lost wakeup, registry, flush before close, refinement of `Sessions`: event order, authentication, shutdown |
| `server_live` | one client, one packet, slow socket, fairness | clients that ended or are closing leave; the lobby opens |
| `server_alert` | one client, an unreadable packet | *violated*: the alert is dropped (finding 1) |
| `server_await` | one client | *violated*: shutdown does not await (finding 2) |
| `connection` | header 2, chunk 2, client's packets of 2, 3 and 5 bytes, unreadable ones, server's of 3, capacity 3, fairness; 300 000 states | order, indices within buffers; refinement of `Channel`: whole packets, no false end, nothing after it; everything arrives |
| `login` | two clients, one user name; one of them sends two packets that start a task, or each of them one, and any captcha packets; fairness; 366 000 states | `login_pending` exact; tokens sent stay valid; one registration per solved captcha; the lobby finds its user; whole accounts; refinement of `Accounts`; the database comes free; logins are answered |
| `login_again` | one client, two user names, two packets | *violated*: an authenticated client becomes another user (finding 3) |
| `chat` | two clients, one logs in twice, history of two, three messages, fairness; 234 000 states | history bounded; nobody sleeps on a message; refinement of `ChatRoom`; messages are shown |
| `protocol` | the cipher with three seeds, four values, three bytes each way; the codec with five packets that have every type, one of them not registered, whole, cut at every byte or one byte longer; resource loading with three stages, five callers, any acknowledgement, fairness; 346 000 states | widths of the cipher, both ends in step; fields arrive as sent, short payloads noticed; no stall; refinement of `Loading`: in order, once, nobody forgotten or told early; callers served |
| `session` | three handlers, three packets, the peer closes or fails, every outcome of an application's handler, fairness; 694 000 states | no finished handler is polled, refinement of `Calls`, every call returns |
| `applications` | one crystal bot with three connections and three kills, one packet between two awaited; two workers of the register bot with two names; a proxy with two packets from each side; fairness; 156 000 states | spawner in turn, no tank forgotten, nothing missed, tank comes back; one line for a name, every name answered; relayed in order |
| `register_purchase` | one worker, one name | *violated*: a success without an account (finding 4) |

Why the bounds are enough to be of interest: one client with two packets has
every pair of handlers in one life (a login then a rejection, two logins, an
unreadable packet after a query), each against every point of a poll. Clients
share only the map, the channel and the shutdown; that many of them do not
disturb each other is proved (`ServerProofs`). The properties of `login`
speak of each user name by itself, so one is enough there, and two clients race for
it; for any number their safety is proved (`LoginProofs`). Packets as long as a
chunk and longer, in a socket smaller than a packet, make every branch of
the buffer code happen. Three bytes in each direction reuse a key position and
move the offset away from it and back. The packets have integers of both signs
and at the ends of their range, strings that are empty and that begin like a
flag, options in vectors and vectors in options, and every field is followed by
one that a byte too many or too few would spoil. Three messages overflow a history of two before, between and after two
subscriptions. Three handlers are a call, another one of an application and one
registered or still to be removed while they are called; three packets are the
awaited one and one on each side of it. Two workers and two names let a worker
finish while the other retries, with all three attempts. Every property is also run against a
changed definition (the `Mutant of` operators) that breaks it.

`CHECK_DEADLOCK FALSE` is said for `protocol`, where both ends of the cipher stop
after their last byte and the codec after an error (resource loading never does), `session`, whose peer may be silent and whose ids run out, and
`applications`, which end when the names do, when the account is banned or the
proxy returns. The finite bounds are `MaxPackets`, `MaxSent`, `Capacity`,
`MaxBytes`, `MaxRequests`, `MaxMessages`, `MaxLobbies`, `MaxHandlers`,
`MaxSessions` and `MaxKills`; in `Server` each client connects once.

### Fairness

`Server!Fairness`: tokio runs a task that was woken (WF of `PollStep`), its
interval ticks (WF of `PingTick`), and an actor waiting for a client's mutex
gets it in the end because the client's task sleeps between polls (SF of the
event handlers and of `HaltClient`). `FairSpec` adds what a peer must do for a
closing client to be flushed: it goes on reading, and a finite buffer is not
written in ever smaller portions for ever. No fairness makes a peer send, log in
or leave, or a database answer. `ClosingClientsLeave` needs the ping interval:
poll closes a flushed client and returns Pending without waking itself.
`ProtocolSpec`, as `ClientResources!FairSpec`, assumes a peer that acknowledges what it is sent and
`Connection!FairSpec` that each end polls while it has something to do.
`Login!FairSpec` assumes that a live client's task goes on when it can (what
`NoLostWakeup` shows, and `Wakeful` proves, of `Client`), that SQLite answers each statement, with an
error perhaps, and that the event task handles its events. The Mutex needs no
fairness of its own: its queue is in order. `Chat!FairSpec` has the poll go on
only once it was woken, and no fairness for the wake-ups of others, so
`MessagesShown` rests on the channel's waker alone. `ClientSession!FairSpec`
asks for no more than that tokio polls a task that was woken: the peer may be
silent. `CrystalBot!FairSpec` has the bot polled and the server answer what it
was sent, and no fairness for kills, the respawn delay, closes or failures; its
spawner's timers run out. `RegisterBot!FairSpec` assumes that each await of a worker ends: the
server answers or closes, the captcha service answers or fails. The code sets no
timeout of its own, so a server that stays silent holds a worker for ever.

## Findings

1. `server/src/client.rs:370`: after a packet that cannot be read the client
   queues an alert and starts to close, but the connection has latched
   `disconnected`, its next `poll_next` is None, and the client is dropped
   unflushed, against the comment at `client.rs:74-75`.
2. `server/src/server.rs:88`: `disconnect` returns a ready future, so shutdown
   does not "await all clients beeing disconnected" (`server.rs:87`). For the
   same reason a client that registers during a shutdown may be dropped before
   it is told.
3. `server/src/client_components/authenticate.rs:145`: a login with a token is
   taken in any state, also while another login or a registration is under way,
   and no callback looks at the state again. So a client that is authenticated
   can become another user and set up its lobby again, although it "is not
   supposed to login" (`authenticate.rs:114`, of a login with credentials). The
   other properties of `Login` and `Chat` hold with it.
4. `applications/register-bot/src/main.rs:112`: the bot returns the result of the
   submission whatever becomes of the purchase, although the server may close on
   it and "then no account has been created" (`main.rs:103`); the line says
   `Success` all the same.

### Observations

Seen while modelling, without a run of their own:

- `protocol/src/codec/basics.rs:43-59` decodes no `Length` of 128 or more as it was
  encoded: bit 6 of the length is looked for in the second byte, and the bits that mark
  the size are not taken off. `DecodeLength` is translated as it stands; with
  `Lengths = {128}` the run `protocol` violates `FieldsArrive`. No packet has a
  `Length`.
- `protocol/src/connection.rs:205` negates the bits of the position, `!position < len`,
  so the warning about a packet that was not read whole is never logged and what is
  left of it is dropped silently.
- `server/src/server.rs:184` has `min(0)` where the remaining premium time wants
  `max(0)`.
- `applications/register-bot/src/main.rs:51-61` waits for answers of the
  original server; this repository's server answers a registration with
  `AccountLoginSuccess`, which no branch accepts.
- `applications/crystal-bot/src/main.rs:398-402` asks for a place at once and
  once only: a server that does check the respawn delay would leave the bot in
  its battle without a tank.
- The session is not polled while a captcha is solved
  (`client-utils/src/captcha.rs:103`), so pings go unanswered for as long.
- `applications/proxy-server/src/main.rs:121`: an `accept` that fails ends main,
  and with it every session under way.

## Proofs

All are checked by TLAPS without assumptions other than those of the modules
(`ClientAssumption`, `WaiterAssumption`, `CipherAssumption`, `LoginAssumption`,
`ChatAssumption`, `SessionAssumption`, `ConnectionAssumption`,
`ApplicationsAssumption`). The last says `Gap >= 1`: it is what the crystal bot
relies on its server for, and only the bot's theorems need it; beside that it
says that the number of names and the three bounds are natural numbers.

- `SessionsSafe` (`ServerProofs`): `S!Spec => []S!Inv`, from nothing but
  `Sessions`: the proof looks into no definition of the server. `RegistryExact` alone is
  not inductive: that a removed client does not come back needs that
  `ClientDisconnected` is the last event of a session that is closed, and
  `AuthenticatedIsKnown` needs the registry; hence the conjunction `Inv`. For
  the shutdown it says that while the server is held every open session is
  still in the list.
- `TypeCorrect`, `Implementation`, `SessionSafety` (`ServerProofs`): each action
  of `Server` is a step of `Sessions` or none. The lemmas named `...Tame` state
  of each method that it keeps the record's type, authenticates nobody and opens
  nothing; the simulation then needs only the few steps that a session can see.
  The one invariant it takes besides `TypeOK` is `ShutdownFlag`, that
  `is_shutdown` says whether main still accepts, so that no client is registered
  behind the back of a shutdown. `SessionSafety` carries the invariants of
  `Sessions` over.
- `Wakeful` (`ServerProofs`): `Spec => []NoLostWakeup`. The property speaks of
  tasks that sleep, so it says nothing while a poll runs and is not inductive. The
  invariant `Attentive` says it of every point of a poll: unless the task is
  scheduled again, what the poll has passed stays done and has a waker (`Armed`:
  the tasks after the task list, the tick after the components, the socket at the
  end), and a task that sleeps has drained its socket (`Drained`). The lemmas
  named `...Keeps` state of each method that it leaves a client that could be
  woken as it was, takes no wakeup back and does not move the poll.
- `Flushing` (`ServerProofs`): only `do_connection_close` closes a client
  (`Unclosed`, of every other method), and `poll` reaches it with an empty send
  buffer or a dead connection.
- `ResourcesSafe` (`ClientResourcesProofs`): the four safety properties
  together with the order of requests: everything before a pending or enqueued
  request is finished.
- `Implementation` (`ClientResourcesProofs`): that a stage has one request
  (`NoLostListener`) is why it is loaded once; that none overtakes another
  (`WorkConserving`, `OnePending`) is why an acknowledgement loads the first
  stage that is left; and the listeners of a request are all who wait for its
  stage, so a `Load` serves them all.
- `ConnectionTypes`, `PacketsStayInOrder`, `EndsAreTrue` (`ConnectionProofs`): what
  an end has encoded and its peer has not yet cut is one sequence of bytes, laid
  over the peer's receive buffer, the socket and the send buffer (`Transit`).
  `Stream` gives for each packet the place where it begins in that sequence and
  the number of bytes encrypted before it; the first of them still there is the
  next that the peer returns, and its count is the peer's cipher's. So a portion
  that the socket takes or gives moves bytes inside `Transit` and changes nothing,
  and a packet is cut where it was put together. `Handshake` says from which packet
  on this is encrypted, `Buffers` that there is always room to read into.
- `Implementation` (`ConnectionProofs`): the same invariant shows each step to be
  one of `Channel` or none. `PacketsInOrder` gives the packet of a `Receive`
  (`PacketSeen`), `NoFalseEnd`, already in the next state, the reason of an `End`
  (`ErrorEnds`), and the latch, that an end whose stream is over is not polled
  (`PollUnseen`, `StepSeen`).
- `ChannelSafe`, `LoadingSafe`, `ScreensInOrder`, `OutcomesSafe`, `AccountsSafe`:
  what follows from an abstract specification alone, with an invariant of its
  own and no look at the module below it. What is read is a beginning of what
  was sent and streams end for a reason (`Channel`); stages are loaded once, in
  order, and served are exactly those whose stage is loaded (`Loading`); screens
  show consecutive messages (`ChatRoom`); who is answered was served (`Calls`);
  who is logged in has an account (`Accounts`). All but the first are stated of
  the detailed specification, which has them by its `Implementation`.
- `CipherInStep` (`XorCipherProofs`): the states recorded with the bytes in
  flight form a chain from the reader's state to the writer's, each link the
  advance by its byte. The proof never looks into `Xor` except that it undoes
  itself.

- `TypeCorrect`, `LoginSafe`, `Implementation` (`LoginProofs`): the invariant
  `Inv` says of every task what it may rely on (`GoodTask`: a success that is not
  collected yet is still true of the file, a task on behalf of a user has one),
  that only the head of the queue has begun, and that `tables` differs from
  `committed` by exactly what the head's transaction has inserted. `Grows`, that
  the file only gains, is why a result stays true while it waits for its client.
- `PendingSafe` (`LoginProofs`): `LoginPendingExact` is inductive but for one fact,
  `OwnTasks`, that a task on a client's list is its own. The flag is set with the
  one task that is added, and stays so while the task moves from the list to the
  queue; it is cleared when that task is collected.

- `TypeCorrect`, `Wakeful`, `Implementation` (`ChatProofs`): the invariant `Inv`
  says that the history is the end of the list (`HistoryExact`), that the events
  of a channel follow each other from the last message shown to the last one
  registered (`Consecutive`, with the place where each event ends as its
  witness), that every living receiver has a sender, and that a client past its
  components is awake or waits for an empty channel. A dispatch lengthens the
  witness, a receipt cuts its head off, a subscription makes one of the history
  and the warning.

- `TypeCorrect`, `FinishedSafe`, `Implementation` (`ClientSessionProofs`): the
  invariant `Inv` says that no id is above `index` (`IdsInOrder`); that, while the
  session lives, a finished handler is either removed or behind the pass under
  way with its removal pending (`InOrder`, which gives `FinishedNotPolled`); that
  a served call has its result in its oneshot or in its task (`CallServed`); that
  the handler of an unanswered task is registered, not finished and still to be
  polled (`TaskKept`); and that one more packet can only be dispatched in a poll
  whose call has its value already (`OnePasses`). A handler that fails breaks
  all of this at once, and the flag `disconnected` is the way out of each.

- `Relayed` (`ApplicationsProofs`): what the proxy has passed on is a beginning of
  what the peer has sent, all of it readable; while both connections are read, the
  rest is exactly what is still to be read.
- `Registration` (`ApplicationsProofs`): a name is with one worker, or in one line
  of the file, or still to be given out (`NamesApart`, `LinesApart`). What the
  server answers and what it does with the accounts plays no part.
- `Spawner`, `Script` (`ApplicationsProofs`): the invariant `CrystalInv` gives the
  whole conversation on the wire from the place in the script and its result: in
  a battle from the spawner and its tank (`Spawning`: with a kill on its way the
  wire holds at most the activation that it overtook), else the request, or its
  answer and what follows by itself with any number of other packets before each
  (`Talking`).
- `TypesCorrect` (`ApplicationsProofs`): the types of all three programs. Those of the
  wires follow from the invariants above. The counts need their own: a worker
  that is not past its captcha has a try left (`TriesInv`), and a packet that is
  dispatched behind an answer is the first (`CrystalCounts`).

`EndsAreTrue` (`ConnectionProofs`) is `NoFalseEnd`, `ResourcesSafe` includes
`NoLostListener`; the runs check them as part of `ImplementsChannel` and
`ImplementsLoading`. `SessionSafety` also carries `DisconnectedIsLast`, `AuthenticatedIsKnown` and
`ShutdownReachesAll` over to the server, `ResourcesSafe` includes `OnePending`,
`CipherInStep` includes `RoundTrip` and `LoginSafe` includes `RegisteredOnce`:
no run checks these any more by themselves.

Only model-checked: `FieldsArrive` and `CutNoticed` of `Codec`, whose operators are
`RECURSIVE` as its types are, and all liveness. Both are out of the prover's
reach: it has no induction over data, and neither fairness nor `ENABLED`.
Every other invariant and action property of the runs, and the
safety of every refinement, is proved.

## Not modelled

Lobby, settings and battle components answer with constants; server resources
are data; structures and generated packets are lists of fields for `Codec`, and the
build script that makes them only formats text. Ranks are a table and a pure
function that no state depends on. SOCKS and HTTP are I/O. Of the crystal bot the handlers
that drive, turn and shoot, and the map of tanks they read, are left out: the
rest of the bot depends on them only in that they may fail. Poisoned mutexes (a
panic inside a poll) are left out.

## Plan

Ranks (`server/src/rank.rs`) against a reference definition.
