--------------------------------- MODULE Chat ---------------------------------
(***************************************************************************)
(* The server's chat (server/src/chat.rs): the ServerChat that all clients *)
(* share behind a RwLock, and the ServerChatComponent of each client, which *)
(* is polled by its client's task (server/src/client.rs) and fed through   *)
(* an unbounded channel.                                                   *)
(*                                                                         *)
(* A poll of a client goes through its tasks, its components and its       *)
(* packets; other clients post messages between any two of its steps.  The *)
(* lock of the chat is taken for writing by every user, and for the whole  *)
(* of the operation.                                                       *)
(*                                                                         *)
(* A message is known by its number in the order of registration, and an   *)
(* event of a channel by the messages it puts on the screen: one for       *)
(* ServerChatEvent::Message, the history for MessageHistory, none for the  *)
(* warning that follows the history and is not in it.  Module Client tells *)
(* how a client gets a lobby; here its life begins with a login.           *)
(***************************************************************************)
EXTENDS Naturals, Sequences

CONSTANTS
    Clients,
    HistoryLength, \* message_history_length: 100
    MaxMessages,   \* bound: how many messages are posted
    MaxLobbies     \* bound: how often each client logs in

ASSUME ChatAssumption ==
    /\ HistoryLength \in Nat
    /\ MaxMessages \in Nat
    /\ MaxLobbies \in [Clients -> Nat]

VARIABLES
    client,     \* client[c]: what the chat needs of a Client and its component
    subscriber, \* the clients with a sender in ServerChat.subscriber
    history,    \* message_history
    registered, \* history variable: how many messages were registered
    joined,     \* history variable: the last message before c's history
    shown       \* shown[c]: the messages sent to c since its lobby opened

vars == <<client, subscriber, history, registered, joined, shown>>

ClientRecord ==
    [ state:     {"Open", "Closing", "Closed"},       \* connection_state
      life:      {"running", "ended", "dropped"},     \* of the task that polls it
      poll:      {"idle", "tasks", "components", "io"},
      woken:     BOOLEAN,                             \* the tokio task is scheduled
      lobbies:   Nat,                                 \* how often the lobby opened
      chat:      BOOLEAN,                             \* ServerChatComponent registered
      channel:   Seq(Seq(Nat)),                       \* events its receiver has not taken
      recvWaker: BOOLEAN ]                            \* the channel holds our waker

(* The history never exceeds its length.                                   *)
TypeOK ==
    /\ client \in [Clients -> ClientRecord]
    /\ subscriber \in SUBSET Clients
    /\ history \in Seq(Nat)
    /\ Len(history) <= HistoryLength
    /\ registered \in Nat
    /\ joined \in [Clients -> Nat]
    /\ shown \in [Clients -> Seq(Nat)]

Init ==
    /\ client = [c \in Clients |->
                   [ state |-> "Open", life |-> "running", poll |-> "idle", woken |-> TRUE,
                     lobbies |-> 0, chat |-> FALSE, channel |-> <<>>, recvWaker |-> FALSE ]]
    /\ subscriber = {}
    /\ history = <<>>
    /\ registered = 0
    /\ joined = [c \in Clients |-> 0]
    /\ shown = [c \in Clients |-> <<>>]

SetClient(c, r) == client' = [client EXCEPT ![c] = r]

-----------------------------------------------------------------------------
(* ServerChat.                                                             *)

(* A receiver lives as long as its client, and every component that is     *)
(* registered has one: unsubscribe is never called.                        *)
HasReceiver(c) == client[c].chat /\ client[c].life # "dropped"

(* Mutant of Sent: the receiver is not told.                               *)
SentSilently(r, event) == [r EXCEPT !.channel = Append(@, event)]

(* UnboundedSender::send to a receiver that lives wakes who waits for it.  *)
Sent(r, event) ==
    [r EXCEPT !.channel = Append(@, event),
              !.woken = @ \/ r.recvWaker, !.recvWaker = FALSE]

(* dispatch_server_event keeps the subscribers whose receiver still lives. *)
DispatchServerEvent(event) ==
    /\ client' = [c \in Clients |-> IF c \in subscriber /\ HasReceiver(c)
                                    THEN Sent(client[c], event) ELSE client[c]]
    /\ subscriber' = {c \in subscriber : HasReceiver(c)}

(* Mutants of Trimmed: the newest message goes; none goes.                 *)
TrimmedNewest(messages) ==
    IF Len(messages) > HistoryLength THEN SubSeq(messages, 1, HistoryLength) ELSE messages
TrimmedNever(messages) == messages

Trimmed(messages) ==
    IF Len(messages) > HistoryLength
    THEN SubSeq(messages, Len(messages) - HistoryLength + 1, Len(messages)) ELSE messages

RegisterMessage ==
    /\ registered < MaxMessages
    /\ registered' = registered + 1
    /\ DispatchServerEvent(<<registered'>>)
    /\ history' = Trimmed(Append(history, registered'))

-----------------------------------------------------------------------------
(* A client's poll, as far as the chat is concerned.                       *)

Polling(c, phase) == client[c].life = "running" /\ client[c].poll = phase

BeginPoll(c) ==
    /\ Polling(c, "idle")
    /\ client[c].woken
    /\ SetClient(c, [client[c] EXCEPT !.poll = "tasks", !.woken = FALSE])
    /\ UNCHANGED <<subscriber, history, registered, joined, shown>>

(* What a new channel holds: the history, then the warning.                *)
SendMessageHistory == <<history, <<>>>>

(* subscribe: the chat gets a sender to a new channel, in place of the one *)
(* it may have, and the component the receiver.                            *)
Subscribe(c) ==
    /\ SetClient(c, [client[c] EXCEPT !.chat = TRUE, !.channel = SendMessageHistory,
                                      !.recvWaker = FALSE, !.woken = TRUE,
                                      !.lobbies = @ + 1])
    /\ subscriber' = subscriber \union {c}
    /\ joined' = [joined EXCEPT ![c] = registered - Len(history)]
    /\ shown' = [shown EXCEPT ![c] = <<>>]

(* The callback of a login's last task registers the component, whose      *)
(* initialize subscribes; registering wakes the client.  A client that     *)
(* logs in again replaces its component: what the old channel held is lost.*)
OpenLobby(c) ==
    /\ Polling(c, "tasks")
    /\ client[c].lobbies < MaxLobbies[c]
    /\ Subscribe(c)
    /\ UNCHANGED <<history, registered>>

EndTasks(c) ==
    /\ Polling(c, "tasks")
    /\ SetClient(c, [client[c] EXCEPT !.poll = "components"])
    /\ UNCHANGED <<subscriber, history, registered, joined, shown>>

(* ServerChatComponent::poll takes an event and sends its messages to the  *)
(* peer, which a client that is closing does not.                          *)
HandleChatEvent(c, next) ==
    /\ Polling(c, "components")
    /\ client[c].channel # <<>>
    /\ SetClient(c, [client[c] EXCEPT !.channel = Tail(@), !.poll = next])
    /\ shown' = IF client[c].state = "Open"
                THEN [shown EXCEPT ![c] = @ \o Head(client[c].channel)] ELSE shown
    /\ UNCHANGED <<subscriber, history, registered, joined>>

(* Mutant of Receive: an event per poll, without a loop.                   *)
ReceiveOnce(c) == HandleChatEvent(c, "io")

Receive(c) == HandleChatEvent(c, "components")

(* The channel is empty and keeps our waker.  A closed client is finished  *)
(* after this.                                                             *)
ReceivePending(c) ==
    /\ Polling(c, "components")
    /\ client[c].channel = <<>>
    /\ SetClient(c, IF client[c].state = "Closed"
                    THEN [client[c] EXCEPT !.recvWaker = client[c].chat, !.poll = "idle",
                                           !.life = "ended"]
                    ELSE [client[c] EXCEPT !.recvWaker = client[c].chat, !.poll = "io"])
    /\ UNCHANGED <<subscriber, history, registered, joined, shown>>

(* on_packet: the peer posts a message; its client may be closing.         *)
SendMessage(c) ==
    /\ Polling(c, "io")
    /\ client[c].chat
    /\ RegisterMessage
    /\ UNCHANGED <<joined, shown>>

(* The packets are read.  A closing client that is flushed becomes closed. *)
EndPoll(c) ==
    /\ Polling(c, "io")
    /\ \/ SetClient(c, [client[c] EXCEPT !.poll = "idle"])
       \/ /\ client[c].state = "Closing"
          /\ SetClient(c, [client[c] EXCEPT !.poll = "idle", !.state = "Closed"])
    /\ UNCHANGED <<subscriber, history, registered, joined, shown>>

(* The connection has ended: the client is polled no more.                 *)
EndStream(c) ==
    /\ Polling(c, "io")
    /\ SetClient(c, [client[c] EXCEPT !.poll = "idle", !.state = "Closed", !.life = "ended"])
    /\ UNCHANGED <<subscriber, history, registered, joined, shown>>

-----------------------------------------------------------------------------
(* What happens around a poll.                                             *)

(* A packet cannot be handled, or the server shuts down.                   *)
Disconnect(c) ==
    /\ Polling(c, "io") \/ Polling(c, "idle")
    /\ client[c].state = "Open"
    /\ SetClient(c, [client[c] EXCEPT !.state = "Closing", !.woken = TRUE])
    /\ UNCHANGED <<subscriber, history, registered, joined, shown>>

(* A packet, a task or the ping interval wakes the client.                 *)
Wake(c) ==
    /\ client[c].life = "running"
    /\ ~client[c].woken
    /\ SetClient(c, [client[c] EXCEPT !.woken = TRUE])
    /\ UNCHANGED <<subscriber, history, registered, joined, shown>>

(* The server handles ClientDisconnected; the chat is not told.            *)
Drop(c) ==
    /\ client[c].life = "ended"
    /\ SetClient(c, [client[c] EXCEPT !.life = "dropped", !.channel = <<>>, !.recvWaker = FALSE])
    /\ UNCHANGED <<subscriber, history, registered, joined, shown>>

AllDropped == (\A c \in Clients : client[c].life = "dropped") /\ UNCHANGED vars

PollStep(c) ==
    \/ BeginPoll(c) \/ EndTasks(c) \/ Receive(c) \/ ReceivePending(c) \/ EndPoll(c)

Next ==
    \/ \E c \in Clients :
         \/ PollStep(c) \/ OpenLobby(c) \/ SendMessage(c) \/ EndStream(c)
         \/ Disconnect(c) \/ Wake(c) \/ Drop(c)
    \/ AllDropped

Spec == Init /\ [][Next]_vars

(* tokio runs a task that was woken; nothing else needs to wake it.        *)
FairSpec == Spec /\ \A c \in Clients : WF_vars(PollStep(c))

-----------------------------------------------------------------------------
(* Nobody is left asleep with a message waiting, whenever it came: every   *)
(* client that waits to be polled has read all, or will be polled.         *)
NoMessageSleeps ==
    \A c \in Clients :
        Polling(c, "idle") /\ client[c].channel # <<>> => client[c].woken

Room ==
    INSTANCE ChatRoom WITH
        Readers <- Clients,
        members <- {c \in Clients : client[c].chat}

(* The chat and all its channels together are the one ordered list of      *)
(* messages, of which everybody reads a part without gap or repetition,    *)
(* from the history at their subscription on.                              *)
ImplementsChatRoom == Room!Spec

(* Every message is shown to every client that subscribed before it, also  *)
(* if nothing but the message wakes that client, unless it begins to close *)
(* or logs in again and has it no more in the history.                     *)
MessagesShown ==
    \A c \in Clients : \A n \in 1..MaxMessages :
        (client[c].chat /\ joined[c] < n /\ n <= registered)
            ~> \/ n \in {shown[c][i] : i \in DOMAIN shown[c]}
               \/ client[c].state # "Open"
               \/ n <= joined[c]

=============================================================================
