---------------------------- MODULE WebSocketRpc ----------------------------
(***************************************************************************)
(* One WebSocket connection between a page (ServerImpl, the object         *)
(* ServerBuilder.start() returns) and a JSR-356 container (RpcEndpoint).   *)
(* Either end calls methods of the other; a call that carries a Callback   *)
(* leaves the Callback in a table under a fresh id, sends the id with the  *)
(* invocation, and is completed by the callback message that returns it.   *)
(*                                                                         *)
(* The page is one JavaScript thread: each of its handlers is one step.    *)
(* The container runs the handlers of one session one at a time, but any   *)
(* thread may call the client proxy, so such a call is three steps.        *)
(*                                                                         *)
(* A call is a constant: its method, parameters and values are left out,   *)
(* and the sets below say which of the code's paths it takes.              *)
(***************************************************************************)
EXTENDS Integers, Sequences, FiniteSets

CONSTANTS
  ClientCalls,          \* calls the page makes on the server
  ServerCalls,          \* calls the server makes on the page's client object
  WithCallback,         \* those whose last parameter is a Callback
  Unencodable,          \* those whose parameters cannot be serialized
  Unknown,              \* those the receiving end finds no method for
  BadAnswer,            \* those answered with a value that cannot be serialized
  Threads,              \* server threads that may hold one Callback object
  Js,                   \* the page's only thread
  NoCall,               \* an empty slot of a callback table
  MaxId                 \* bound: callback ids one end hands out (the code: int)

Calls == ClientCalls \cup ServerCalls

ASSUME CallsAssumption ==
  /\ ClientCalls \cap ServerCalls = {}
  /\ NoCall \notin Calls
  /\ MaxId \in Nat

Sides == {"client", "server"}
Peer(s) == IF s = "client" THEN "server" ELSE "client"
Caller(c) == IF c \in ClientCalls THEN "client" ELSE "server"

Ids == 0 .. MaxId       \* 0 is the id of a call without a Callback
Outcomes == [for : Calls, success : BOOLEAN]

\* `call` is the message's identity, which no code reads: the code has the id.
Invocation == [kind : {"invocation"}, call : Calls, id : Ids]
CallbackInvocation ==
  [kind : {"callback"}, call : Calls, id : Ids, success : BOOLEAN]
Message == Invocation \cup CallbackInvocation

VARIABLES
  ws,                   \* readyState of the page's WebSocket
  session,              \* the container's Session
  attached,             \* setClient was given a client object
  life,                 \* the last lifecycle method the client object received
  wire,                 \* wire[s]: messages on their way to s, oldest first
  nextId,               \* nextCallbackId of each end
  callbacks,            \* callbacks table of each end
  stage,                \* how far the making of a call has come
  callId,               \* the id a call was given
  given,                \* id captured by the Callback the method body received
  fired,                \* threads that set, and so surely see, its `fired` flag
  runs,                 \* how often the body of a call has run
  answers,              \* outcomes the Callback the body received let through
  result,               \* outcomes the caller's Callback was completed with
  completions           \* how often the caller's Callback was completed

connection == <<ws, session, attached, life>>
tables == <<nextId, callbacks>>
making == <<stage, callId>>
body == <<given, fired, runs, answers>>
completed == <<result, completions>>
vars == <<connection, wire, tables, making, body, completed>>
\* Mutation of FirstId: the counters start at the id that means "no Callback".
FirstId_Zero == 0

FirstId == 1

Init ==
  /\ ws = "CONNECTING" /\ session = "none"
  /\ attached = FALSE /\ life = "new"
  /\ wire = [s \in Sides |-> <<>>]
  /\ nextId = [s \in Sides |-> FirstId]
  /\ callbacks = [s \in Sides |-> [i \in Ids |-> NoCall]]
  /\ stage = [c \in Calls |-> "new"]
  /\ callId = [c \in Calls |-> 0]
  /\ given = [c \in Calls |-> 0]
  /\ fired = [c \in Calls |-> {}]
  /\ runs = [c \in Calls |-> 0]
  /\ answers = [c \in Calls |-> {}]
  /\ result = [c \in Calls |-> {}]
  /\ completions = [c \in Calls |-> 0]

(***************************************************************************)
(* The connection: WebSocket of the browser, Session of the container.     *)
(***************************************************************************)
CanSend(s) == IF s = "client" THEN ws = "OPEN" ELSE session = "open"
Reachable(s) == IF s = "client" THEN ws # "CLOSED" ELSE session # "closed"
\* Mutation of Transmit: messages overtake each other.
Transmit_OutOfOrder(s, m) ==
  wire' = IF CanSend(s) /\ Reachable(Peer(s))
            THEN [wire EXCEPT ![Peer(s)] = <<m>> \o @]
            ELSE wire

\* send() on a socket past OPEN drops the message without an error; sendText on
\* a closed session throws or fails a future nobody looks at.
Transmit(s, m) ==
  wire' = IF CanSend(s) /\ Reachable(Peer(s))
            THEN [wire EXCEPT ![Peer(s)] = Append(@, m)]
            ELSE wire

SetClient(present) ==
  /\ attached' = present
  /\ UNCHANGED <<ws, session, life, wire, tables, making, body, completed>>

\* connection.onopen
ClientOnOpen ==
  /\ ws = "CONNECTING"
  /\ ws' = "OPEN"
  /\ life' = IF attached THEN "open" ELSE life
  /\ UNCHANGED <<session, attached, wire, tables, making, body, completed>>

\* ServerImpl.close
ClientClose ==
  /\ ws \in {"CONNECTING", "OPEN"}
  /\ ws' = "CLOSING"
  /\ UNCHANGED <<session, attached, life, wire, tables, making, body, completed>>
\* Mutation of ClientOnClose: the close drops the Callbacks still waiting.
ClientOnClose_ClearsTable ==
  /\ ws # "CLOSED"
  /\ ws' = "CLOSED"
  /\ life' = IF attached THEN "closed" ELSE life
  /\ wire' = [wire EXCEPT !["client"] = <<>>]
  /\ callbacks' = [callbacks EXCEPT !["client"] = [i \in Ids |-> NoCall]]
  /\ UNCHANGED <<session, attached, nextId, making, body, completed>>

\* Mutation of ClientOnClose: onClose is called while the socket stays open.
ClientOnClose_StaysOpen ==
  /\ ws # "CLOSED"
  /\ life' = IF attached THEN "closed" ELSE life
  /\ UNCHANGED <<ws, session, attached, wire, tables, making, body, completed>>

\* connection.onclose: closed by either end, lost, or never established.  What
\* was still on its way to the page is gone; its callbacks table is left alone.
ClientOnClose ==
  /\ ws # "CLOSED"
  /\ ws' = "CLOSED"
  /\ life' = IF attached THEN "closed" ELSE life
  /\ wire' = [wire EXCEPT !["client"] = <<>>]
  /\ UNCHANGED <<session, attached, tables, making, body, completed>>
\* Mutation of ServerOnOpen: what arrived before the handler ran is dropped.
ServerOnOpen_DropsEarly ==
  /\ session = "none"
  /\ session' = "open"
  /\ wire' = [wire EXCEPT !["server"] = <<>>]
  /\ UNCHANGED <<ws, attached, life, tables, making, body, completed>>

\* @OnOpen; the container may run it after the handshake answer left, and the
\* page may by then have opened its end, or closed it.
ServerOnOpen ==
  /\ session = "none"
  /\ session' = "open"
  /\ UNCHANGED <<ws, attached, life, wire, tables, making, body, completed>>

\* @OnClose, and Connection.close
ServerOnClose ==
  /\ session = "open"
  /\ session' = "closed"
  /\ wire' = [wire EXCEPT !["server"] = <<>>]
  /\ UNCHANGED <<ws, attached, life, tables, making, body, completed>>

(***************************************************************************)
(* Making a call.                                                          *)
(***************************************************************************)
InvocationOf(c, id) == [kind |-> "invocation", call |-> c, id |-> id]

\* Mutation of ClientCall: the Callback is put only once the call was sent.
ClientCall_PutIfSent(c) ==
  LET id == IF c \in WithCallback THEN nextId["client"] ELSE 0
      sent == ws = "OPEN" /\ c \notin Unencodable
  IN  /\ c \in ClientCalls /\ stage[c] = "new"
      /\ id <= MaxId
      /\ callId' = [callId EXCEPT ![c] = id]
      /\ nextId' = [nextId EXCEPT !["client"] = IF id = 0 THEN @ ELSE id + 1]
      /\ IF sent
           THEN /\ Transmit("client", InvocationOf(c, id))
                /\ callbacks' = [callbacks EXCEPT !["client"][id] = c]
                /\ stage' = [stage EXCEPT ![c] = "sent"]
           ELSE /\ stage' = [stage EXCEPT ![c] = "failed"]
                /\ UNCHANGED <<wire, callbacks>>
      /\ UNCHANGED <<connection, body, completed>>

\* ServerImpl.__sendMessage: the Callback is in the table before the call is
\* encoded and sent, and stays there when either fails.
ClientCall(c) ==
  LET id == IF c \in WithCallback THEN nextId["client"] ELSE 0
      sent == ws = "OPEN" /\ c \notin Unencodable
  IN  /\ c \in ClientCalls /\ stage[c] = "new"
      /\ id <= MaxId
      /\ callId' = [callId EXCEPT ![c] = id]
      /\ IF c \in WithCallback
           THEN /\ nextId' = [nextId EXCEPT !["client"] = id + 1]
                /\ callbacks' = [callbacks EXCEPT !["client"][id] = c]
           ELSE UNCHANGED tables
      /\ IF sent
           THEN /\ Transmit("client", InvocationOf(c, id))
                /\ stage' = [stage EXCEPT ![c] = "sent"]
           ELSE /\ stage' = [stage EXCEPT ![c] = "failed"]
                /\ UNCHANGED wire
      /\ UNCHANGED <<connection, body, completed>>

\* IH.invoke on some thread, first step: nextCallbackId.getAndIncrement().  The
\* proxy exists once onOpen made it, and outlives the session.
ServerAllocate(c) ==
  /\ c \in ServerCalls /\ stage[c] = "new" /\ session # "none"
  /\ IF c \in WithCallback
       THEN /\ nextId["server"] <= MaxId
            /\ callId' = [callId EXCEPT ![c] = nextId["server"]]
            /\ nextId' = [nextId EXCEPT !["server"] = @ + 1]
            /\ stage' = [stage EXCEPT ![c] = "allocated"]
       ELSE /\ stage' = [stage EXCEPT ![c] = "registered"]
            /\ UNCHANGED <<nextId, callId>>
  /\ UNCHANGED <<connection, wire, callbacks, body, completed>>

\* ... second step: callbacks.put
ServerRegister(c) ==
  /\ c \in ServerCalls /\ stage[c] = "allocated"
  /\ callbacks' = [callbacks EXCEPT !["server"][callId[c]] = c]
  /\ stage' = [stage EXCEPT ![c] = "registered"]
  /\ UNCHANGED <<connection, wire, nextId, callId, body, completed>>
\* Mutation of ServerSend: the call is sent before its Callback is put.
ServerSend_BeforePut(c) ==
  /\ c \in ServerCalls /\ stage[c] = "allocated" /\ session = "open"
  /\ Transmit("server", InvocationOf(c, callId[c]))
  /\ stage' = [stage EXCEPT ![c] = "sent"]
  /\ UNCHANGED <<connection, tables, callId, body, completed>>

\* ... last step: encode and sendText
ServerSend(c) ==
  /\ c \in ServerCalls /\ stage[c] = "registered"
  /\ IF session = "open" /\ c \notin Unencodable
       THEN /\ Transmit("server", InvocationOf(c, callId[c]))
            /\ stage' = [stage EXCEPT ![c] = "sent"]
       ELSE /\ stage' = [stage EXCEPT ![c] = "failed"]
            /\ UNCHANGED wire
  /\ UNCHANGED <<connection, tables, callId, body, completed>>

(***************************************************************************)
(* Receiving.                                                              *)
(***************************************************************************)
\* Mutation of RunBody: the id is kept in a field all Callbacks of an end share.
RunBody_SharedId(m) ==
  /\ runs' = [runs EXCEPT ![m.call] = @ + 1]
  /\ given' = [c \in Calls |->
       IF Caller(c) = Caller(m.call) /\ (given[c] # 0 \/ c = m.call)
         THEN m.id ELSE given[c]]
  /\ fired' = [fired EXCEPT ![m.call] = {}]
  /\ UNCHANGED <<answers, tables, completed>>

\* The body runs, holding a new Callback bound to m.id (none when m.id is 0).
RunBody(m) ==
  /\ runs' = [runs EXCEPT ![m.call] = @ + 1]
  /\ given' = [given EXCEPT ![m.call] = m.id]
  /\ fired' = [fired EXCEPT ![m.call] = {}]
  /\ UNCHANGED <<answers, tables, completed>>

\* An id the table does not hold is ignored; the Callback found leaves the table
\* before it is run, so calls made by it find the table already updated.
Complete(s, m) ==
  LET c == callbacks[s][m.id]
  IN  /\ IF c # NoCall
           THEN /\ callbacks' = [callbacks EXCEPT ![s][m.id] = NoCall]
                /\ result' = [result EXCEPT
                     ![c] = @ \cup {[for |-> m.call, success |-> m.success]}]
                /\ completions' = [completions EXCEPT ![c] = @ + 1]
           ELSE UNCHANGED <<callbacks, completed>>
      /\ UNCHANGED <<nextId, body>>

\* runnable: the calls the receiving end has an object and a method for.
Receive(s, runnable) ==
  /\ wire[s] # <<>>
  /\ wire' = [wire EXCEPT ![s] = Tail(@)]
  /\ LET m == Head(wire[s])
     IN  CASE m.kind = "callback" -> Complete(s, m)
           [] m.kind = "invocation" /\ m.call \in runnable -> RunBody(m)
           [] OTHER -> UNCHANGED <<body, tables, completed>>
  /\ UNCHANGED <<connection, making>>

\* RpcEndpoint.handleMessage
HandleMessage ==
  /\ session = "open"
  /\ Receive("server", Calls \ Unknown)

\* connection.onmessage; without a client object an invocation throws on the
\* null getClient() and is lost, but a callback message is served.
OnMessage ==
  /\ ws = "OPEN"
  /\ Receive("client", IF attached THEN Calls \ Unknown ELSE {})

(***************************************************************************)
(* Using the Callback a body was given: the flag is set, then the answer is *)
(* encoded and sent; when that fails the Callback is used up all the same.  *)
(***************************************************************************)
\* Mutation of Respond: the flag is set only when the answer could be encoded.
Respond_FlagLast(s, thread, c, ok) ==
  /\ given[c] # 0
  /\ thread \notin fired[c]
  /\ answers' = [answers EXCEPT ![c] = @ \cup {ok}]
  /\ IF c \notin BadAnswer
       THEN /\ Transmit(s, [kind |-> "callback", call |-> c, id |-> given[c],
                            success |-> ok])
            /\ fired' = [fired EXCEPT ![c] = @ \cup {thread}]
       ELSE UNCHANGED <<wire, fired>>
  /\ UNCHANGED <<connection, tables, making, given, runs, completed>>

Respond(s, thread, c, ok) ==
  /\ given[c] # 0
  /\ thread \notin fired[c]
  /\ fired' = [fired EXCEPT ![c] = @ \cup {thread}]
  /\ answers' = [answers EXCEPT ![c] = @ \cup {ok}]
  /\ IF c \notin BadAnswer
       THEN Transmit(s, [kind |-> "callback", call |-> c, id |-> given[c],
                         success |-> ok])
       ELSE UNCHANGED wire
  /\ UNCHANGED <<connection, tables, making, given, runs, completed>>

\* addCallbackToArgs: `fired` is a plain field, tested and then set without a
\* lock, so a thread is only sure to see TRUE once it has set it itself.
ServerAnswer(u, c, ok) ==
  /\ c \in ClientCalls /\ u \in Threads
  /\ Respond("server", u, c, ok)

ClientAnswer(c, ok) ==
  /\ c \in ServerCalls
  /\ Respond("client", Js, c, ok)

Next ==
  \/ \E present \in BOOLEAN : SetClient(present)
  \/ ClientOnOpen \/ ClientClose \/ ClientOnClose
  \/ ServerOnOpen \/ ServerOnClose
  \/ HandleMessage \/ OnMessage
  \/ \E c \in Calls :
       \/ ClientCall(c)
       \/ ServerAllocate(c) \/ ServerRegister(c) \/ ServerSend(c)
       \/ \E ok \in BOOLEAN :
            \/ ClientAnswer(c, ok)
            \/ \E u \in Threads : ServerAnswer(u, c, ok)

Spec == Init /\ [][Next]_vars

\* The browser and the container dispatch what has arrived; the container runs
\* @OnOpen for a handshake it answered, and the browser onopen (or onclose) for
\* one that was answered.  Nothing makes an application call, answer or close.
Fairness ==
  /\ WF_vars(HandleMessage)
  /\ WF_vars(OnMessage)
  /\ WF_vars(session = "open" /\ ClientOnOpen)
  /\ WF_vars(ws = "OPEN" /\ ServerOnOpen)

FairSpec == Spec /\ Fairness

(***************************************************************************)
(* Properties                                                              *)
(***************************************************************************)
TypeOK ==
  /\ ws \in {"CONNECTING", "OPEN", "CLOSING", "CLOSED"}
  /\ session \in {"none", "open", "closed"}
  /\ attached \in BOOLEAN
  /\ life \in {"new", "open", "closed"}
  /\ wire \in [Sides -> Seq(Message)]
  /\ nextId \in [Sides -> 1 .. MaxId + 1]
  /\ callbacks \in [Sides -> [Ids -> Calls \cup {NoCall}]]
  /\ stage \in [Calls -> {"new", "allocated", "registered", "sent", "failed"}]
  /\ callId \in [Calls -> Ids]
  /\ given \in [Calls -> Ids]
  /\ fired \in [Calls -> SUBSET (Threads \cup {Js})]
  /\ runs \in [Calls -> Nat]
  /\ answers \in [Calls -> SUBSET BOOLEAN]
  /\ result \in [Calls -> SUBSET Outcomes]
  /\ completions \in [Calls -> Nat]

InFlight(s, kind) == {m \in {wire[s][i] : i \in DOMAIN wire[s]} : m.kind = kind}

\* A Callback waits in its table, under the id its call carries, exactly from
\* the moment it is put there until it is completed: an answer finds it, a
\* stranger's answer does not, and a completed one is not kept.
Waiting(c) == callId[c] # 0 /\ stage[c] \notin {"new", "allocated"} /\ completions[c] = 0
TableExact ==
  \A s \in Sides : \A i \in Ids : \A c \in Calls :
    callbacks[s][i] = c <=> Caller(c) = s /\ callId[c] = i /\ Waiting(c)

\* An answer that arrives is not lost: while its call is not completed, the
\* receiving end still holds that call's own Callback under the answer's id,
\* also when another thread of the server is in the middle of a call.
NoLostAnswer ==
  \A s \in Sides : \A m \in InFlight(s, "callback") :
    completions[m.call] = 0 => callbacks[s][m.id] = m.call

\* A Callback is completed only with an answer meant for it, which the body of
\* its own call gave, whatever the two ends called meanwhile.
RightAnswer ==
  \A c \in Calls : \A r \in result[c] :
    r.for = c /\ r.success \in answers[c] /\ runs[c] = 1

\* A Callback is completed at most once, even when threads of the server got
\* two answers past the `fired` flag.
CompletedAtMostOnce == \A c \in Calls : completions[c] <= 1

\* The server runs the page's calls in the order they were made: once a call
\* ran, every call sent before it has run or had no method.
ClientCallsRunInOrder ==
  \A c, d \in ClientCalls \cap WithCallback :
    /\ stage[c] = "sent" /\ stage[d] = "sent" /\ callId[c] < callId[d]
    /\ runs[d] > 0
    => runs[c] > 0 \/ c \in Unknown

\* README: "callbacks are one-time use, and cannot be invoked multiple times":
\* the Callback a body is given lets no second outcome through.
CallbacksAreOneTimeUse == \A c \in Calls : answers[c] # BOOLEAN

\* Only a completion takes a Callback out of its table, and none replaces
\* another: no close, failed send, later call or ignored message does.
OnlyCompletionRemoves ==
  [][\A s \in Sides : \A i \in Ids :
       callbacks[s][i] \notin {NoCall, callbacks'[s][i]} =>
         /\ callbacks'[s][i] = NoCall
         /\ completions'[callbacks[s][i]] = completions[callbacks[s][i]] + 1]_vars

\* A client object that was told onClose has no method called any more, though
\* the server may go on sending until it notices.
NothingAfterOnClose ==
  [][\A c \in ServerCalls : runs'[c] # runs[c] => life # "closed"]_vars

Lost == ws \in {"CLOSING", "CLOSED"} \/ session = "closed"

\* An answer on its way completes its Callback, unless the connection goes.
AnswersArrive ==
  \A c \in Calls :
    (\E m \in InFlight(Caller(c), "callback") : m.call = c)
      ~> (completions[c] = 1 \/ Lost)

\* A call the page sent runs on the server, unless the connection goes; one on
\* its way to the page runs there, unless the client object is taken away.
CallsArrive ==
  /\ \A c \in ClientCalls \ Unknown :
       (stage[c] = "sent") ~> (runs[c] = 1 \/ Lost)
  /\ \A c \in ServerCalls \ Unknown :
       (\E m \in InFlight("client", "invocation") : m.call = c)
         ~> (runs[c] = 1 \/ ~attached \/ Lost)

\* The two endpoints over one connection keep the promise of OneShotCalls.
Promise == INSTANCE OneShotCalls WITH made <- {c \in Calls : stage[c] # "new"}
PromiseKept == Promise!Spec
=============================================================================
