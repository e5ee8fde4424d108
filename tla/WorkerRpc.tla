----------------------------- MODULE WorkerRpc ------------------------------
(***************************************************************************)
(* The same calls between a page and a web worker: one                     *)
(* AbstractWorkerEndpointImpl at each end of a MessagePort.  Both ends are *)
(* single-threaded and run the same code, there is no connection to open   *)
(* or close, and every failure is swallowed where it occurs.               *)
(***************************************************************************)
EXTENDS Integers, Sequences

CONSTANTS
  PageCalls,            \* calls the page makes on the worker
  WorkerCalls,          \* calls the worker makes on the page
  WithCallback,         \* those whose last parameter is a Callback
  Unencodable,          \* those whose parameters cannot be serialized
  Unreadable,           \* those the receiver cannot decode, or has no method for
  BadAnswer,            \* those answered with a value that cannot be serialized
  NoCall,               \* an empty slot of a callback table
  MaxId                 \* bound: callback ids one end hands out (the code: int)

Calls == PageCalls \cup WorkerCalls

ASSUME CallsAssumption ==
  /\ PageCalls \cap WorkerCalls = {}
  /\ NoCall \notin Calls
  /\ MaxId \in Nat

Ends == {"page", "worker"}
Peer(e) == IF e = "page" THEN "worker" ELSE "page"
Caller(c) == IF c \in PageCalls THEN "page" ELSE "worker"
Callee(c) == Peer(Caller(c))
Ids == 0 .. MaxId
Outcomes == [for : Calls, success : BOOLEAN]

\* `call` is the message's identity, which no code reads: the code has the id.
RemoteInvocation == [kind : {"invocation"}, call : Calls, id : Ids]
RemoteCallbackInvocation ==
  [kind : {"callback"}, call : Calls, id : Ids, success : BOOLEAN]

VARIABLES
  state,                \* an end: "none", "up" once created, "gone" for good
  port,                 \* port[e]: messages posted to e, oldest first
  nextCallbackId,       \* of each end
  callbacks,            \* of each end
  stage,                \* a call: "new", then "posted" or "failed"
  callId,               \* the id a call was given
  given,                \* id captured by the Callback the method body received
  fired,                \* that Callback was used
  runs,                 \* how often the body of a call has run
  answers,              \* outcomes that Callback let through
  result,               \* outcomes the caller's Callback was completed with
  completions           \* how often the caller's Callback was completed

tables == <<nextCallbackId, callbacks>>
making == <<stage, callId>>
body == <<given, fired, runs, answers>>
completed == <<result, completions>>
vars == <<state, port, tables, making, body, completed>>

\* Mutation of FirstId: the counters start at the id that means "no Callback".
FirstId_Zero == 0

FirstId == 1

Init ==
  /\ state = [e \in Ends |-> "none"]
  /\ port = [e \in Ends |-> <<>>]
  /\ nextCallbackId = [e \in Ends |-> FirstId]
  /\ callbacks = [e \in Ends |-> [i \in Ids |-> NoCall]]
  /\ stage = [c \in Calls |-> "new"]
  /\ callId = [c \in Calls |-> 0]
  /\ given = [c \in Calls |-> 0]
  /\ fired = [c \in Calls |-> FALSE]
  /\ runs = [c \in Calls |-> 0]
  /\ answers = [c \in Calls |-> {}]
  /\ result = [c \in Calls |-> {}]
  /\ completions = [c \in Calls |-> 0]

\* The constructor listens on the port and starts it, and the factory gives the
\* endpoint its local object, before the thread returns to its event loop.
Create(e) ==
  /\ state[e] = "none"
  /\ state' = [state EXCEPT ![e] = "up"]
  /\ UNCHANGED <<port, tables, making, body, completed>>

\* A page is left, a worker terminated or its script never loaded; nobody tells
\* the other end.
Vanish(e) ==
  /\ state[e] # "gone"
  /\ state' = [state EXCEPT ![e] = "gone"]
  /\ port' = [port EXCEPT ![e] = <<>>]
  /\ UNCHANGED <<tables, making, body, completed>>

\* MessagePort.postMessage: queued until the receiver is up, lost once it is gone.
PostMessage(e, m) ==
  port' = IF state[e] = "gone" THEN port ELSE [port EXCEPT ![e] = Append(@, m)]

InvocationOf(c, id) == [kind |-> "invocation", call |-> c, id |-> id]

\* Mutation of SendMessage: the Callback is put only once the call was encoded.
SendMessage_PutIfPosted(e, c) ==
  LET id == IF c \in WithCallback THEN nextCallbackId[e] ELSE 0
  IN  /\ e = Caller(c) /\ state[e] = "up" /\ stage[c] = "new"
      /\ id <= MaxId
      /\ callId' = [callId EXCEPT ![c] = id]
      /\ nextCallbackId' = [nextCallbackId EXCEPT ![e] = IF id = 0 THEN @ ELSE id + 1]
      /\ IF c \in Unencodable
           THEN /\ stage' = [stage EXCEPT ![c] = "failed"]
                /\ UNCHANGED <<port, callbacks>>
           ELSE /\ stage' = [stage EXCEPT ![c] = "posted"]
                /\ callbacks' = [callbacks EXCEPT ![e][id] =
                                    IF id = 0 THEN @ ELSE c]
                /\ PostMessage(Peer(e), InvocationOf(c, id))
      /\ UNCHANGED <<state, body, completed>>

\* __sendMessage: when the call cannot be encoded its Callback stays in the table
\* and the caller is not told.
SendMessage(e, c) ==
  LET id == IF c \in WithCallback THEN nextCallbackId[e] ELSE 0
  IN  /\ e = Caller(c) /\ state[e] = "up" /\ stage[c] = "new"
      /\ id <= MaxId
      /\ callId' = [callId EXCEPT ![c] = id]
      /\ IF c \in WithCallback
           THEN /\ nextCallbackId' = [nextCallbackId EXCEPT ![e] = id + 1]
                /\ callbacks' = [callbacks EXCEPT ![e][id] = c]
           ELSE UNCHANGED tables
      /\ IF c \in Unencodable
           THEN /\ stage' = [stage EXCEPT ![c] = "failed"]
                /\ UNCHANGED port
           ELSE /\ stage' = [stage EXCEPT ![c] = "posted"]
                /\ PostMessage(Peer(e), InvocationOf(c, id))
      /\ UNCHANGED <<state, body, completed>>

\* The method runs, holding a new Callback bound to m.id (none when m.id is 0).
Invoke(m) ==
  /\ runs' = [runs EXCEPT ![m.call] = @ + 1]
  /\ given' = [given EXCEPT ![m.call] = m.id]
  /\ fired' = [fired EXCEPT ![m.call] = FALSE]
  /\ UNCHANGED <<answers, tables, completed>>

\* Mutation of Complete: an id the table does not hold completes another entry.
Complete_AnyEntry(e, m) ==
  \E i \in Ids :
    LET c == callbacks[e][i]
    IN  /\ c # NoCall
        /\ callbacks' = [callbacks EXCEPT ![e][i] = NoCall]
        /\ result' = [result EXCEPT
             ![c] = @ \cup {[for |-> m.call, success |-> m.success]}]
        /\ completions' = [completions EXCEPT ![c] = @ + 1]
        /\ UNCHANGED <<nextCallbackId, body>>

\* __callback: an id the table does not hold is ignored.
Complete(e, m) ==
  LET c == callbacks[e][m.id]
  IN  /\ IF c # NoCall
           THEN /\ callbacks' = [callbacks EXCEPT ![e][m.id] = NoCall]
                /\ result' = [result EXCEPT
                     ![c] = @ \cup {[for |-> m.call, success |-> m.success]}]
                /\ completions' = [completions EXCEPT ![c] = @ + 1]
           ELSE UNCHANGED <<callbacks, completed>>
      /\ UNCHANGED <<nextCallbackId, body>>

Handle(e, m) ==
  CASE m.kind = "callback" -> Complete(e, m)
    [] m.kind = "invocation" /\ m.call \notin Unreadable -> Invoke(m)
    [] OTHER -> UNCHANGED <<body, tables, completed>>

\* Mutation of OnMessage: the newest message is served first.
OnMessage_NewestFirst(e) ==
  /\ state[e] = "up" /\ port[e] # <<>>
  /\ port' = [port EXCEPT ![e] = SubSeq(@, 1, Len(@) - 1)]
  /\ Handle(e, port[e][Len(port[e])])
  /\ UNCHANGED <<state, making>>

\* Mutation of OnMessage: an invocation that throws is left in the queue.
OnMessage_KeepsFailed(e) ==
  /\ state[e] = "up" /\ port[e] # <<>>
  /\ port' = IF Head(port[e]).call \in Unreadable
               THEN port ELSE [port EXCEPT ![e] = Tail(@)]
  /\ Handle(e, Head(port[e]))
  /\ UNCHANGED <<state, making>>

\* __onMessage: whatever goes wrong, the message is gone.
OnMessage(e) ==
  /\ state[e] = "up" /\ port[e] # <<>>
  /\ port' = [port EXCEPT ![e] = Tail(@)]
  /\ Handle(e, Head(port[e]))
  /\ UNCHANGED <<state, making>>

\* The method uses its Callback: the flag is set first, so an answer that cannot
\* be encoded uses the Callback up, and the method is not told.
SendCallback(c, ok) ==
  /\ state[Callee(c)] = "up"
  /\ given[c] # 0 /\ ~fired[c]
  /\ fired' = [fired EXCEPT ![c] = TRUE]
  /\ answers' = [answers EXCEPT ![c] = @ \cup {ok}]
  /\ IF c \in BadAnswer
       THEN UNCHANGED port
       ELSE PostMessage(Caller(c), [kind |-> "callback", call |-> c,
                                    id |-> given[c], success |-> ok])
  /\ UNCHANGED <<state, tables, making, given, runs, completed>>

Next ==
  \/ \E e \in Ends :
       \/ Create(e) \/ Vanish(e) \/ OnMessage(e)
       \/ \E c \in Calls : SendMessage(e, c)
  \/ \E c \in Calls, ok \in BOOLEAN : SendCallback(c, ok)

Spec == Init /\ [][Next]_vars

\* An event loop dispatches what was posted to it, and a worker's script gets to
\* create its endpoint.  Nothing makes the program call or answer.
FairSpec ==
  Spec /\ \A e \in Ends : WF_vars(Create(e)) /\ WF_vars(OnMessage(e))

(***************************************************************************)
(* Properties                                                              *)
(***************************************************************************)
TypeOK ==
  /\ state \in [Ends -> {"none", "up", "gone"}]
  /\ port \in [Ends -> Seq(RemoteInvocation \cup RemoteCallbackInvocation)]
  /\ nextCallbackId \in [Ends -> 1 .. MaxId + 1]
  /\ callbacks \in [Ends -> [Ids -> Calls \cup {NoCall}]]
  /\ stage \in [Calls -> {"new", "posted", "failed"}]
  /\ callId \in [Calls -> Ids]
  /\ given \in [Calls -> Ids]
  /\ fired \in [Calls -> BOOLEAN]
  /\ runs \in [Calls -> Nat]
  /\ answers \in [Calls -> SUBSET BOOLEAN]
  /\ result \in [Calls -> SUBSET Outcomes]
  /\ completions \in [Calls -> Nat]

InPort(e, kind) == {m \in {port[e][i] : i \in DOMAIN port[e]} : m.kind = kind}

\* A Callback waits in its table, under the id its call carries, exactly from
\* the call to its completion: for good when the call could not be encoded or
\* read, when its answer could not be encoded, or when the other end is gone.
TableExact ==
  \A e \in Ends : \A i \in Ids : \A c \in Calls :
    callbacks[e][i] = c <=>
      Caller(c) = e /\ callId[c] = i /\ i # 0 /\ completions[c] = 0

\* Calls with a Callback run in the order they were made, in both directions.
CallsRunInOrder ==
  \A c, d \in Calls \ Unreadable :
    /\ Caller(c) = Caller(d) /\ stage[c] = "posted"
    /\ 0 < callId[c] /\ callId[c] < callId[d]
    /\ runs[d] > 0
    => runs[c] > 0

\* Every message posted is served: a call runs and an answer completes its
\* Callback, unless one of the ends goes.
Gone == \E e \in Ends : state[e] = "gone"
MessagesAreServed ==
  /\ \A c \in Calls \ Unreadable :
       stage[c] = "posted" ~> (runs[c] = 1 \/ Gone)
  /\ \A c \in Calls \ BadAnswer :
       answers[c] # {} ~> (completions[c] = 1 \/ Gone)

\* The two endpoints keep the promise of OneShotCalls.
Promise == INSTANCE OneShotCalls WITH made <- {c \in Calls : stage[c] # "new"}
PromiseKept == Promise!Spec
=============================================================================
