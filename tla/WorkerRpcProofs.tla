-------------------------- MODULE WorkerRpcProofs ---------------------------
(***************************************************************************)
(* Proofs about the calls between a page and a worker, for every set of    *)
(* calls.  As in WebSocketRpcProofs, an answer finds its own call because  *)
(* ids of one end are distinct and each copy of an id is the one its call  *)
(* was given.  The order of the calls rests on the queues: their           *)
(* invocations have growing ids, and a call that was posted has run, is    *)
(* on its way, or will never be served, for its callee is gone.            *)
(***************************************************************************)
EXTENDS WorkerRpc, TLAPS, SequenceTheorems

Message == RemoteInvocation \cup RemoteCallbackInvocation
At(e) == 1 .. Len(port[e])
IsInvocation(e, i) == port[e][i].kind = "invocation"

\* The ids one end handed out lie below its counter, and no two of its calls share one.
Fresh == \A c \in Calls : callId[c] < nextCallbackId[Caller(c)]
Distinct ==
  \A c, d \in Calls :
    callId[c] # 0 /\ callId[c] = callId[d] /\ Caller(c) = Caller(d) => c = d

\* A call has an id only once it was made.
Made == \A c \in Calls : stage[c] = "new" => callId[c] = 0

\* An invocation on its way carries its call's id, is the only one of its call there is,
\* and its body has not run.
Invocations ==
  \A e \in Ends : \A i \in At(e) :
    IsInvocation(e, i) =>
      /\ Callee(port[e][i].call) = e /\ stage[port[e][i].call] = "posted"
      /\ runs[port[e][i].call] = 0 /\ port[e][i].id = callId[port[e][i].call]
      /\ \A j \in At(e) : IsInvocation(e, j) /\ port[e][j].call = port[e][i].call => i = j

\* An answer on its way carries its call's id and an outcome its body gave.
Answers ==
  \A e \in Ends : \A i \in At(e) :
    ~IsInvocation(e, i) =>
      /\ Caller(port[e][i].call) = e /\ runs[port[e][i].call] = 1
      /\ port[e][i].id = callId[port[e][i].call] /\ port[e][i].id # 0
      /\ port[e][i].success \in answers[port[e][i].call]

\* A body runs once, for a call that was posted, and its Callback has the call's id.
Bodies ==
  \A c \in Calls :
    /\ runs[c] \in {0, 1} /\ (runs[c] = 1 => stage[c] = "posted")
    /\ given[c] # 0 => given[c] = callId[c] /\ runs[c] = 1
    /\ answers[c] # {} => runs[c] = 1

\* A Callback completes at most once, with an outcome its own body gave.
Completions ==
  \A c \in Calls :
    /\ completions[c] \in {0, 1}
    /\ completions[c] = 0 => result[c] = {}
    /\ completions[c] = 1 => runs[c] = 1
    /\ \A r \in result[c] : r.for = c /\ r.success \in answers[c]

\* Invocations with ids lie in a queue in the order of their ids.
Ordered ==
  \A e \in Ends : \A i, j \in At(e) :
    IsInvocation(e, i) /\ port[e][i].id # 0 /\ IsInvocation(e, j) /\ port[e][j].id # 0
      => (i < j => port[e][i].id < port[e][j].id)

\* What was posted has run, is on its way, or was lost with its receiver.
InvocationIn(c, e) == \E i \in At(e) : IsInvocation(e, i) /\ port[e][i].call = c
Served ==
  \A c \in Calls \ Unreadable :
    stage[c] = "posted" => \/ runs[c] = 1 \/ state[Callee(c)] = "gone"
                           \/ InvocationIn(c, Callee(c))

IdInv == Fresh /\ Distinct /\ Made
MessageInv == Invocations /\ Answers
CallInv == Bodies /\ Completions
OrderInv == Ordered /\ Served /\ CallsRunInOrder
IInv == IdInv /\ MessageInv /\ CallInv /\ TableExact /\ OrderInv

(***************************************************************************)
(* Ends, messages and queues.                                              *)
(***************************************************************************)
LEMMA EndFacts ==
  /\ \A e \in Ends : Peer(e) \in Ends /\ Peer(e) # e /\ Peer(Peer(e)) = e
  /\ \A c \in Calls : Caller(c) \in Ends /\ Callee(c) \in Ends /\ Callee(c) # Caller(c)
  /\ \A c, d \in Calls : Callee(c) = Callee(d) <=> Caller(c) = Caller(d)
  BY DEF Ends, Peer, Caller, Callee

LEMMA MessageFacts ==
  /\ \A c \in Calls, id \in Ids :
       /\ InvocationOf(c, id) \in Message /\ InvocationOf(c, id).kind = "invocation"
       /\ InvocationOf(c, id).call = c /\ InvocationOf(c, id).id = id
  /\ \A c \in Calls, id \in Ids, ok \in BOOLEAN :
       [kind |-> "callback", call |-> c, id |-> id, success |-> ok] \in Message
  /\ \A m \in Message :
       m.call \in Calls /\ m.id \in Ids /\ m.kind \in {"invocation", "callback"}
  /\ \A m \in Message : m.kind = "callback" => m.success \in BOOLEAN
  BY DEF Message, RemoteInvocation, RemoteCallbackInvocation, InvocationOf

LEMMA PortFacts ==
  ASSUME TypeOK, NEW e \in Ends
  PROVE  /\ port[e] \in Seq(Message) /\ Len(port[e]) \in Nat
         /\ \A i \in At(e) : port[e][i] \in Message
  BY ElementOfSeq, LenProperties DEF TypeOK, Message, At

\* What is posted is the last message of its queue, unless its receiver is gone.
LEMMA Posted ==
  ASSUME TypeOK, NEW e \in Ends, NEW m \in Message, PostMessage(e, m)
  PROVE  /\ port' \in [Ends -> Seq(Message)]
         /\ \A x \in Ends : \A i \in At(x)' :
              \/ i \in At(x) /\ port'[x][i] = port[x][i]
              \/ x = e /\ port'[x][i] = m /\ i = Len(port[e]) + 1
         /\ \A x \in Ends : \A i \in At(x) : i \in At(x)' /\ port'[x][i] = port[x][i]
         /\ state[e] # "gone" => \E i \in At(e)' : port'[e][i] = m
  <1>1. CASE state[e] = "gone"
    BY <1>1 DEF PostMessage, TypeOK, Message, At
  <1>2. CASE state[e] # "gone"
    <2>1. /\ port' = [port EXCEPT ![e] = Append(@, m)]
          /\ port \in [Ends -> Seq(Message)]
      BY <1>2 DEF PostMessage, TypeOK, Message
    <2>2. /\ port'[e] = Append(port[e], m) /\ port[e] \in Seq(Message)
          /\ \A x \in Ends \ {e} : port'[x] = port[x]
      BY <2>1
    <2>3. /\ Append(port[e], m) \in Seq(Message) /\ Len(port'[e]) = Len(port[e]) + 1
          /\ \A i \in 1 .. Len(port[e]) : port'[e][i] = port[e][i]
          /\ port'[e][Len(port[e]) + 1] = m
      BY <2>2, AppendProperties
    <2>4. Len(port[e]) \in Nat
      BY PortFacts
    <2>5. \A x \in Ends : At(x)' = IF x = e THEN 1 .. Len(port[e]) + 1 ELSE At(x)
      BY <2>2, <2>3 DEF At
    <2> QED
      BY <1>2, <2>1, <2>2, <2>3, <2>4, <2>5 DEF At
  <1> QED
    BY <1>1, <1>2

LEMMA TailAt ==
  ASSUME NEW S, NEW q \in Seq(S), q # <<>>
  PROVE  /\ Head(q) \in S /\ Head(q) = q[1]
         /\ Tail(q) \in Seq(S) /\ Len(q) \in Nat \ {0} /\ Len(Tail(q)) = Len(q) - 1
         /\ \A i \in 1 .. Len(Tail(q)) : Tail(q)[i] = q[i + 1]
  <1>1. Len(q) \in Nat \ {0}
    BY EmptySeq, LenProperties
  <1> QED
    BY <1>1, HeadTailProperties

\* Taking the oldest message moves the others up by one.
Before(x, e, i) == IF x = e THEN i + 1 ELSE i
LEMMA Taken ==
  ASSUME TypeOK, NEW e \in Ends, port[e] # <<>>, port' = [port EXCEPT ![e] = Tail(@)]
  PROVE  /\ port' \in [Ends -> Seq(Message)]
         /\ 1 \in At(e) /\ port[e][1] = Head(port[e]) /\ Head(port[e]) \in Message
         /\ \A x \in Ends : \A i \in At(x)' :
              Before(x, e, i) \in At(x) /\ port'[x][i] = port[x][Before(x, e, i)]
         /\ \A x \in Ends : \A i \in At(x) :
              (x = e /\ i = 1) \/ \E k \in At(x)' : port'[x][k] = port[x][i]
  <1>1. port \in [Ends -> Seq(Message)]
    BY DEF TypeOK, Message
  <1>2. /\ port[e] \in Seq(Message) /\ Len(port[e]) \in Nat \ {0}
        /\ port'[e] = Tail(port[e]) /\ \A x \in Ends \ {e} : port'[x] = port[x]
    BY <1>1, EmptySeq, LenProperties
  <1>3. /\ Tail(port[e]) \in Seq(Message) /\ Len(port'[e]) = Len(port[e]) - 1
        /\ \A i \in 1 .. Len(port'[e]) : port'[e][i] = port[e][i + 1]
        /\ Head(port[e]) = port[e][1] /\ Head(port[e]) \in Message
    <2>1. /\ Head(port[e]) \in Message /\ Head(port[e]) = port[e][1]
          /\ Tail(port[e]) \in Seq(Message) /\ Len(Tail(port[e])) = Len(port[e]) - 1
      BY <1>2, TailAt
    <2>2. \A i \in 1 .. Len(Tail(port[e])) : Tail(port[e])[i] = port[e][i + 1]
      BY <1>2, TailAt
    <2> QED
      BY <1>2, <2>1, <2>2
  <1>4. \A x \in Ends : At(x)' = IF x = e THEN 1 .. Len(port[e]) - 1 ELSE At(x)
    BY <1>2, <1>3 DEF At
  <1>5. ASSUME NEW i \in At(e), i # 1
        PROVE  \E k \in At(e)' : port'[e][k] = port[e][i]
    <2>1. i - 1 \in At(e)' /\ port'[e][i - 1] = port[e][(i - 1) + 1] /\ (i - 1) + 1 = i
      BY <1>2, <1>3, <1>4, <1>5 DEF At
    <2> QED
      BY <2>1
  <1>6. \A x \in Ends \ {e} : \A i \in At(x) : i \in At(x)' /\ port'[x][i] = port[x][i]
    BY <1>2, <1>4
  <1>7. port' \in [Ends -> Seq(Message)]
    BY <1>1, <1>3
  <1>8. ASSUME NEW x \in Ends, NEW i \in At(x)'
        PROVE  Before(x, e, i) \in At(x) /\ port'[x][i] = port[x][Before(x, e, i)]
    BY <1>2, <1>3, <1>4, <1>8 DEF At, Before
  <1>9. ASSUME NEW x \in Ends, NEW i \in At(x), ~(x = e /\ i = 1)
        PROVE  \E k \in At(x)' : port'[x][k] = port[x][i]
    BY <1>5, <1>6, <1>9
  <1>10. 1 \in At(e)
    BY <1>2 DEF At
  <1> QED
    BY <1>3, <1>7, <1>8, <1>9, <1>10

(***************************************************************************)
(* Types.                                                                  *)
(***************************************************************************)
LEMMA TypeInit == Init => TypeOK
  <1> SUFFICES ASSUME Init PROVE TypeOK
    OBVIOUS
  <1>1. port \in [Ends -> Seq(RemoteInvocation \cup RemoteCallbackInvocation)]
    BY DEF Init
  <1>2. 1 \in 1 .. MaxId + 1 /\ 0 \in Ids
    BY CallsAssumption DEF Ids
  <1>3. nextCallbackId \in [Ends -> 1 .. MaxId + 1]
    BY <1>2 DEF Init, FirstId
  <1>4. callbacks \in [Ends -> [Ids -> Calls \cup {NoCall}]]
    BY DEF Init
  <1> QED
    BY <1>1, <1>2, <1>3, <1>4 DEF Init, TypeOK

LEMMA TypeStep == TypeOK /\ [Next]_vars => TypeOK'
  <1> SUFFICES ASSUME TypeOK, [Next]_vars PROVE TypeOK'
    OBVIOUS
  <1> USE CallsAssumption DEF Ids
  <1>1. CASE UNCHANGED vars
    BY <1>1 DEF vars, TypeOK, tables, making, body, completed
  <1>2. ASSUME NEW e \in Ends, Create(e) PROVE TypeOK'
    BY <1>2 DEF Create, TypeOK, tables, making, body, completed
  <1>3. ASSUME NEW e \in Ends, Vanish(e) PROVE TypeOK'
    BY <1>3, EmptySeq DEF Vanish, TypeOK, tables, making, body, completed
  <1>4. ASSUME NEW e \in Ends, NEW c \in Calls, SendMessage(e, c) PROVE TypeOK'
    <2> DEFINE id == IF c \in WithCallback THEN nextCallbackId[e] ELSE 0
    <2>1. /\ id \in Ids
          /\ c \in WithCallback => id = nextCallbackId[e] /\ id + 1 \in 1 .. MaxId + 1
      BY <1>4 DEF SendMessage, TypeOK
    <2>2. /\ callId' = [callId EXCEPT ![c] = id]
          /\ stage' \in {[stage EXCEPT ![c] = "posted"], [stage EXCEPT ![c] = "failed"]}
          /\ UNCHANGED <<state, body, completed>>
      BY <1>4 DEF SendMessage
    <2>3. /\ nextCallbackId' \in [Ends -> 1 .. MaxId + 1]
          /\ callbacks' \in [Ends -> [Ids -> Calls \cup {NoCall}]]
      <3>1. CASE c \in WithCallback
        <4>1. /\ nextCallbackId' = [nextCallbackId EXCEPT ![e] = id + 1]
              /\ callbacks' = [callbacks EXCEPT ![e][id] = c]
          BY <1>4, <3>1 DEF SendMessage
        <4> QED
          BY <2>1, <3>1, <4>1 DEF TypeOK
      <3>2. CASE c \notin WithCallback
        BY <1>4, <3>2 DEF SendMessage, tables, TypeOK
      <3> QED
        BY <3>1, <3>2
    <2>4. UNCHANGED port \/ PostMessage(Peer(e), InvocationOf(c, id))
      BY <1>4 DEF SendMessage
    <2> HIDE DEF id
    <2>5. port' \in [Ends -> Seq(RemoteInvocation \cup RemoteCallbackInvocation)]
      <3>1. InvocationOf(c, id) \in Message /\ Peer(e) \in Ends
        BY <2>1, MessageFacts, EndFacts
      <3> QED
        BY <2>4, <3>1, Posted DEF TypeOK, Message
    <2> QED
      BY <2>1, <2>2, <2>3, <2>5 DEF TypeOK, body, completed
  <1>5. ASSUME NEW e \in Ends, OnMessage(e) PROVE TypeOK'
    <2> DEFINE m == Head(port[e])
               c == callbacks[e][m.id]
    <2>1. /\ m \in Message /\ m.call \in Calls /\ m.id \in Ids
          /\ port' \in [Ends -> Seq(Message)]
      BY <1>5, Taken, MessageFacts DEF OnMessage
    <2>2. /\ UNCHANGED <<state, stage, callId>>
          /\ port' \in [Ends -> Seq(RemoteInvocation \cup RemoteCallbackInvocation)]
      BY <1>5, <2>1 DEF OnMessage, making, Message
    <2>3. CASE m.kind = "callback" /\ c # NoCall
      <3>1. /\ callbacks' = [callbacks EXCEPT ![e][m.id] = NoCall]
            /\ result' = [result EXCEPT
                 ![c] = @ \cup {[for |-> m.call, success |-> m.success]}]
            /\ completions' = [completions EXCEPT ![c] = @ + 1]
            /\ UNCHANGED <<nextCallbackId, body>>
        BY <1>5, <2>3 DEF OnMessage, Handle, Complete
      <3>2. [for |-> m.call, success |-> m.success] \in Outcomes /\ c \in Calls
        BY <2>1, <2>3, MessageFacts DEF Outcomes, TypeOK
      <3> HIDE DEF m, c
      <3>3. result' \in [Calls -> SUBSET Outcomes]
        BY <3>1, <3>2 DEF TypeOK
      <3>4. completions' \in [Calls -> Nat]
        BY <3>1, <3>2 DEF TypeOK
      <3>5. callbacks' \in [Ends -> [Ids -> Calls \cup {NoCall}]]
        BY <3>1 DEF TypeOK
      <3> QED
        BY <2>2, <3>1, <3>3, <3>4, <3>5 DEF TypeOK, body
    <2>4. CASE m.kind = "invocation" /\ m.call \notin Unreadable
      <3>1. Invoke(m)
        BY <1>5, <2>4 DEF OnMessage, Handle
      <3> HIDE DEF m
      <3>2. runs' \in [Calls -> Nat]
        BY <2>1, <3>1 DEF Invoke, TypeOK
      <3>3. given' \in [Calls -> Ids]
        BY <2>1, <3>1 DEF Invoke, TypeOK
      <3>4. fired' \in [Calls -> BOOLEAN]
        BY <2>1, <3>1 DEF Invoke, TypeOK
      <3> QED
        BY <2>2, <3>1, <3>2, <3>3, <3>4 DEF Invoke, TypeOK, tables, completed
    <2>5. CASE ~(m.kind = "callback" /\ c # NoCall)
               /\ ~(m.kind = "invocation" /\ m.call \notin Unreadable)
      <3>1. UNCHANGED <<body, tables, completed>>
        BY <1>5, <2>1, <2>5, MessageFacts DEF OnMessage, Handle, Complete, tables
      <3> QED
        BY <2>2, <3>1 DEF TypeOK, body, tables, completed
    <2> QED
      BY <2>3, <2>4, <2>5
  <1>6. ASSUME NEW c \in Calls, NEW ok \in BOOLEAN, SendCallback(c, ok) PROVE TypeOK'
    <2> DEFINE m == [kind |-> "callback", call |-> c, id |-> given[c], success |-> ok]
    <2>1. m \in Message /\ Caller(c) \in Ends
      BY MessageFacts, EndFacts DEF TypeOK
    <2>2. UNCHANGED port \/ PostMessage(Caller(c), m)
      BY <1>6 DEF SendCallback
    <2> HIDE DEF m
    <2>3. port' \in [Ends -> Seq(RemoteInvocation \cup RemoteCallbackInvocation)]
      BY <2>1, <2>2, Posted DEF TypeOK, Message
    <2> QED
      BY <1>6, <2>3 DEF SendCallback, TypeOK, tables, making, completed
  <1> QED
    BY <1>1, <1>2, <1>3, <1>4, <1>5, <1>6 DEF Next

\* Every variable keeps its type, whichever end calls, answers or goes: ids and tables
\* stay within the ids there are.
THEOREM TypeCorrect == Spec => []TypeOK
  BY TypeInit, TypeStep, PTL DEF Spec

(***************************************************************************)
(* The invariant is inductive.                                             *)
(***************************************************************************)
LEMMA InvInit == Init => IInv
  <1> SUFFICES ASSUME Init PROVE IInv
    OBVIOUS
  <1>1. \A e \in Ends : At(e) = {}
    BY EmptySeq DEF Init, At
  <1>2. MessageInv /\ OrderInv
    BY <1>1
    DEF Init, MessageInv, Invocations, Answers, OrderInv, Ordered, Served, CallsRunInOrder
  <1>3. IdInv /\ CallInv
    BY EndFacts
    DEF Init, FirstId, IdInv, Fresh, Distinct, Made, CallInv, Bodies, Completions
  <1>4. TableExact
    BY CallsAssumption DEF Init, TableExact
  <1> QED
    BY <1>2, <1>3, <1>4 DEF IInv

\* An end that comes or goes touches no call; with it goes its queue.
LEMMA EndStep ==
  ASSUME TypeOK, IInv, UNCHANGED <<tables, making, body, completed>>,
         \/ /\ UNCHANGED port
            /\ \A e \in Ends : state[e] = "gone" => state'[e] = "gone"
         \/ \E e \in Ends : Vanish(e)
  PROVE  IInv'
  <1>1. UNCHANGED <<nextCallbackId, callbacks, stage, callId, given, fired, runs, answers,
                    result, completions>>
    BY DEF tables, making, body, completed
  <1>2. IdInv' /\ CallInv' /\ TableExact' /\ CallsRunInOrder'
    BY <1>1
    DEF IInv, IdInv, Fresh, Distinct, Made, CallInv, Bodies, Completions, TableExact,
                OrderInv, CallsRunInOrder
  <1>3. \A e \in Ends : \/ port'[e] = port[e] /\ (state[e] = "gone" => state'[e] = "gone")
                        \/ At(e)' = {} /\ state'[e] = "gone"
    BY EmptySeq DEF Vanish, TypeOK, At
  <1>4. \A e \in Ends : At(e)' # {} => At(e)' = At(e) /\ port'[e] = port[e]
    BY <1>3 DEF At
  <1>5. Invocations'
    BY <1>1, <1>4 DEF IInv, MessageInv, Invocations, IsInvocation
  <1>6. Answers' /\ Ordered'
    BY <1>1, <1>4 DEF IInv, MessageInv, Answers, OrderInv, Ordered, IsInvocation
  <1>7. Served'
    BY <1>1, <1>3, EndFacts DEF IInv, OrderInv, Served, InvocationIn, At, IsInvocation
  <1> QED
    BY <1>2, <1>5, <1>6, <1>7 DEF IInv, MessageInv, OrderInv

LEMMA SendMessageStep ==
  ASSUME TypeOK, IInv, NEW e \in Ends, NEW c \in Calls, SendMessage(e, c)
  PROVE  IInv'
  <1> DEFINE id == IF c \in WithCallback THEN nextCallbackId[e] ELSE 0
  <1>1. /\ Caller(c) = e /\ stage[c] = "new" /\ callId[c] = 0 /\ runs[c] = 0
        /\ answers[c] = {} /\ completions[c] = 0 /\ given[c] = 0
    BY DEF SendMessage, IInv, IdInv, Made, CallInv, Bodies, Completions, TypeOK
  <1>2. /\ id \in Ids
        /\ UNCHANGED <<state, given, fired, runs, answers, result, completions>>
        /\ callId' = [callId EXCEPT ![c] = id]
        /\ \/ /\ stage' = [stage EXCEPT ![c] = "posted"]
              /\ PostMessage(Peer(e), InvocationOf(c, id))
           \/ stage' = [stage EXCEPT ![c] = "failed"] /\ UNCHANGED port
    BY DEF SendMessage, TypeOK, Ids, body, completed
  <1>3. /\ id # 0 => /\ id = nextCallbackId[e]
                     /\ nextCallbackId' = [nextCallbackId EXCEPT ![e] = id + 1]
                     /\ callbacks' = [callbacks EXCEPT ![e][id] = c]
        /\ id = 0 => UNCHANGED <<nextCallbackId, callbacks>>
    BY DEF SendMessage, tables, TypeOK
  <1> HIDE DEF id
  <1>4. /\ callId'[c] = id /\ stage'[c] # "new"
        /\ \A d \in Calls \ {c} : stage'[d] = stage[d] /\ callId'[d] = callId[d]
    BY <1>2 DEF TypeOK
  <1>5. \A d \in Calls : Caller(d) = e => callId[d] < nextCallbackId[e]
    BY DEF IInv, IdInv, Fresh
  <1>6. \A d \in Calls : callId[d] \in Nat /\ (callId[d] # 0 => callId[d] > 0)
    BY DEF TypeOK, Ids
  <1>7. \A d \in Calls : id # 0 /\ Caller(d) = e => callId[d] < id
    BY <1>3, <1>5
  <1>8. IdInv'
    <2>1. Fresh'
      <3>1. \A x \in Ends : /\ nextCallbackId'[x] \in Nat /\ nextCallbackId[x] \in Nat
                            /\ nextCallbackId'[x] >= nextCallbackId[x]
        <4>1. CASE id = 0
          BY <1>3, <4>1 DEF TypeOK
        <4>2. CASE id # 0
          BY <1>3, <4>2 DEF TypeOK
        <4> QED
          BY <4>1, <4>2
      <3>2. id < nextCallbackId'[e]
        BY <1>2, <1>3 DEF TypeOK, Ids
      <3> QED
        BY <1>1, <1>4, <1>6, <3>1, <3>2, EndFacts DEF IInv, IdInv, Fresh
    <2>2. Distinct'
      BY <1>1, <1>4, <1>6, <1>7 DEF IInv, IdInv, Distinct
    <2>3. Made'
      BY <1>4 DEF IInv, IdInv, Made
    <2> QED
      BY <2>1, <2>2, <2>3 DEF IdInv
  <1>9. CallInv'
    BY <1>1, <1>2, <1>4 DEF IInv, CallInv, Bodies, Completions
  <1>10. TableExact'
    <2> SUFFICES ASSUME NEW x \in Ends, NEW i \in Ids, NEW d \in Calls
                 PROVE  callbacks'[x][i] = d <=>
                          Caller(d) = x /\ callId'[d] = i /\ i # 0 /\ completions'[d] = 0
      BY DEF TableExact
    <2>1. callbacks'[x][i] = IF id # 0 /\ x = e /\ i = id THEN c ELSE callbacks[x][i]
      BY <1>2, <1>3 DEF TypeOK
    <2>2. CASE id # 0 /\ x = e /\ i = id
      BY <1>1, <1>2, <1>4, <1>6, <1>7, <2>1, <2>2
    <2>3. CASE ~(id # 0 /\ x = e /\ i = id)
      BY <1>1, <1>2, <1>4, <2>1, <2>3 DEF IInv, TableExact
    <2> QED
      BY <2>2, <2>3
  <1>11. ASSUME NEW x \in Ends, NEW i \in At(x)
         PROVE  port[x][i].call \in Calls \ {c}
    BY <1>1, PortFacts, MessageFacts DEF IInv, MessageInv, Invocations, Answers
  <1>12. ASSUME stage' = [stage EXCEPT ![c] = "posted"],
                PostMessage(Peer(e), InvocationOf(c, id))
         PROVE  MessageInv' /\ Ordered' /\ Served'
    <2> DEFINE m == InvocationOf(c, id)
    <2>1. /\ m.kind = "invocation" /\ m.call = c /\ m.id = id /\ m \in Message
          /\ Callee(c) = Peer(e) /\ Peer(e) \in Ends /\ stage'[c] = "posted"
      BY <1>1, <1>2, <1>12, MessageFacts, EndFacts DEF Callee, TypeOK
    <2> HIDE DEF m
    <2>2. /\ \A x \in Ends : \A i \in At(x)' :
               \/ i \in At(x) /\ port'[x][i] = port[x][i]
               \/ x = Callee(c) /\ port'[x][i] = m /\ i = Len(port[x]) + 1
          /\ \A x \in Ends : \A i \in At(x) : i \in At(x)' /\ port'[x][i] = port[x][i]
          /\ state[Callee(c)] # "gone" => \E i \in At(Callee(c))' : port'[Callee(c)][i] = m
      BY <1>12, <2>1, Posted DEF m
    <2>3. Invocations'
      <3> SUFFICES ASSUME NEW x \in Ends, NEW i \in At(x)', IsInvocation(x, i)'
                   PROVE  /\ Callee(port'[x][i].call) = x
                          /\ stage'[port'[x][i].call] = "posted"
                          /\ runs[port'[x][i].call] = 0
                          /\ port'[x][i].id = callId'[port'[x][i].call]
                          /\ \A j \in At(x)' : IsInvocation(x, j)'
                               /\ port'[x][j].call = port'[x][i].call => i = j
        BY <1>2 DEF Invocations
      <3>1. CASE i \in At(x) /\ port'[x][i] = port[x][i]
        BY <1>4, <1>11, <2>1, <2>2, <3>1 DEF IInv, MessageInv, Invocations, IsInvocation
      <3>2. CASE x = Callee(c) /\ port'[x][i] = m /\ i = Len(port[x]) + 1
        <4>1. ASSUME NEW j \in At(x)', port'[x][j].call = c PROVE i = j
          BY <1>11, <2>2, <3>2, <4>1
        <4> QED
          BY <1>1, <1>4, <2>1, <3>2, <4>1
      <3> QED
        BY <2>2, <3>1, <3>2
    <2>4. Answers'
      BY <1>2, <1>4, <1>11, <2>1, <2>2 DEF IInv, MessageInv, Answers, IsInvocation
    <2>5. Ordered'
      <3> SUFFICES ASSUME NEW x \in Ends, NEW i \in At(x)', NEW j \in At(x)', i < j,
                          IsInvocation(x, i)', IsInvocation(x, j)',
                          port'[x][i].id # 0, port'[x][j].id # 0
                   PROVE  port'[x][i].id < port'[x][j].id
        BY DEF Ordered
      <3>1. CASE j \in At(x) /\ port'[x][j] = port[x][j]
        <4>1. i \in At(x) /\ port'[x][i] = port[x][i]
          BY <2>2, <3>1 DEF At
        <4> QED
          BY <3>1, <4>1 DEF IInv, OrderInv, Ordered, IsInvocation
      <3>2. CASE x = Callee(c) /\ port'[x][j] = m /\ i \in At(x) /\ port'[x][i] = port[x][i]
        <4>1. /\ port[x][i].id = callId[port[x][i].call] /\ Callee(port[x][i].call) = x
              /\ port[x][i].call \in Calls
          BY <1>11, <3>2 DEF IInv, MessageInv, Invocations, IsInvocation
        <4> QED
          BY <1>1, <1>7, <2>1, <3>2, <4>1, EndFacts
      <3> QED
        <4>1. Len(port[x]) \in Nat
          BY PortFacts
        <4> QED
          BY <2>2, <3>1, <3>2, <4>1 DEF At
    <2>6. Served'
      <3> SUFFICES ASSUME NEW d \in Calls \ Unreadable, stage'[d] = "posted"
                   PROVE  \/ runs[d] = 1 \/ state[Callee(d)] = "gone"
                          \/ InvocationIn(d, Callee(d))'
        BY <1>2 DEF Served
      <3>1. CASE d = c
        BY <2>1, <2>2, <3>1 DEF InvocationIn, IsInvocation
      <3>2. CASE d # c
        BY <1>4, <2>2, <3>2, EndFacts
        DEF IInv, OrderInv, Served, InvocationIn, IsInvocation
      <3> QED
        BY <3>1, <3>2
    <2> QED
      BY <2>3, <2>4, <2>5, <2>6 DEF MessageInv
  <1>13. ASSUME stage' = [stage EXCEPT ![c] = "failed"], UNCHANGED port
         PROVE  MessageInv' /\ Ordered' /\ Served'
    <2>1. stage'[c] = "failed"
      BY <1>13 DEF TypeOK
    <2>2. Invocations' /\ Answers'
      BY <1>2, <1>4, <1>11, <1>13
      DEF IInv, MessageInv, Invocations, Answers, At, IsInvocation
    <2>3. Ordered'
      BY <1>13 DEF IInv, OrderInv, Ordered, At, IsInvocation
    <2>4. Served'
      BY <1>2, <1>4, <1>13, <2>1
      DEF IInv, OrderInv, Served, InvocationIn, At, IsInvocation
    <2> QED
      BY <2>2, <2>3, <2>4 DEF MessageInv
  <1>14. CallsRunInOrder'
    <2> SUFFICES ASSUME NEW a \in Calls \ Unreadable, NEW b \in Calls \ Unreadable,
                        Caller(a) = Caller(b), stage'[a] = "posted",
                        0 < callId'[a], callId'[a] < callId'[b], runs[b] > 0
                 PROVE  runs[a] > 0
      BY <1>2 DEF CallsRunInOrder
    <2>1. b # c
      BY <1>1
    <2>2. ASSUME a = c PROVE FALSE
      <3>1. callId'[a] = id /\ callId'[b] = callId[b] /\ id \in Nat /\ callId[b] \in Nat
        BY <1>2, <1>4, <1>6, <2>1, <2>2 DEF Ids
      <3>2. id # 0 /\ Caller(b) = e
        BY <1>1, <2>2, <3>1
      <3>3. callId[b] < id
        BY <1>7, <3>2
      <3> QED
        BY <3>1, <3>3
    <2> QED
      BY <1>4, <2>1, <2>2 DEF IInv, OrderInv, CallsRunInOrder
  <1> QED
    BY <1>2, <1>8, <1>9, <1>10, <1>12, <1>13, <1>14 DEF IInv, OrderInv

\* An answer taken from a queue finds the Callback of its own call, or nothing.
LEMMA AnswerFindsItsCall ==
  ASSUME TypeOK, IInv, NEW e \in Ends, 1 \in At(e), ~IsInvocation(e, 1),
         callbacks[e][port[e][1].id] # NoCall
  PROVE  /\ callbacks[e][port[e][1].id] = port[e][1].call
         /\ completions[port[e][1].call] = 0
  <1> DEFINE m == port[e][1]
             c == callbacks[e][m.id]
  <1>1. m.call \in Calls /\ m.id \in Ids
    BY PortFacts, MessageFacts
  <1>2. c \in Calls
    BY <1>1 DEF TypeOK
  <1>3. Caller(m.call) = e /\ m.id = callId[m.call] /\ m.id # 0
    BY DEF IInv, MessageInv, Answers
  <1>4. Caller(c) = e /\ callId[c] = m.id /\ completions[c] = 0
    BY <1>1, <1>2 DEF IInv, TableExact
  <1> QED
    BY <1>1, <1>2, <1>3, <1>4 DEF IInv, IdInv, Distinct

\* What the handling of the oldest message does: it completes a Callback, runs a body, or
\* nothing.
First(e) == port[e][1]
Completes(e, c) ==
  /\ ~IsInvocation(e, 1) /\ UNCHANGED <<given, runs>>
  /\ callbacks[e][First(e).id] = c /\ completions[c] = 0 /\ result[c] = {}
  /\ First(e).success \in answers[c] \cap BOOLEAN
  /\ callbacks' = [callbacks EXCEPT ![e][First(e).id] = NoCall]
  /\ result' = [result EXCEPT ![c] = {[for |-> c, success |-> First(e).success]}]
  /\ completions' = [completions EXCEPT ![c] = 1]
Runs(e, c) ==
  /\ IsInvocation(e, 1) /\ c \notin Unreadable /\ Callee(c) = e
  /\ runs[c] = 0 /\ stage[c] = "posted"
  /\ runs' = [runs EXCEPT ![c] = 1] /\ given' = [given EXCEPT ![c] = callId[c]]
  /\ UNCHANGED <<callbacks, result, completions>>
Ignores(e, c) ==
  /\ IsInvocation(e, 1) => c \in Unreadable
  /\ UNCHANGED <<given, runs, callbacks, result, completions>>

LEMMA Handled ==
  ASSUME TypeOK, IInv, NEW e \in Ends, OnMessage(e)
  PROVE  /\ First(e) \in Message /\ First(e).call \in Calls /\ First(e).id \in Ids
         /\ 1 \in At(e) /\ UNCHANGED <<state, nextCallbackId, stage, callId, answers>>
         /\ \/ Completes(e, First(e).call) \/ Runs(e, First(e).call)
            \/ Ignores(e, First(e).call)
  <1> DEFINE m == Head(port[e])
             c == m.call
  <1>1. /\ 1 \in At(e) /\ First(e) = m /\ port[e][1] = m /\ m \in Message
        /\ c \in Calls /\ m.id \in Ids /\ m.kind \in {"invocation", "callback"}
    BY Taken, MessageFacts DEF OnMessage, First
  <1>2. UNCHANGED <<state, stage, callId>>
    BY DEF OnMessage, making
  <1>3. CASE m.kind = "callback" /\ callbacks[e][m.id] # NoCall
    <2>1. ~IsInvocation(e, 1)
      BY <1>1, <1>3 DEF IsInvocation
    <2>2. callbacks[e][m.id] = c /\ completions[c] = 0 /\ m.success \in answers[c]
      BY <1>1, <1>3, <2>1, AnswerFindsItsCall DEF IInv, MessageInv, Answers
    <2>3. /\ callbacks' = [callbacks EXCEPT ![e][m.id] = NoCall]
          /\ result' = [result EXCEPT ![c] = @ \cup {[for |-> c, success |-> m.success]}]
          /\ completions' = [completions EXCEPT ![c] = @ + 1]
          /\ UNCHANGED <<nextCallbackId, given, runs, answers>>
      BY <1>3, <2>2 DEF OnMessage, Handle, Complete, body
    <2>4. result[c] = {}
      BY <1>1, <2>2 DEF IInv, CallInv, Completions
    <2> HIDE DEF m, c
    <2>5. /\ result' = [result EXCEPT ![c] = {[for |-> c, success |-> m.success]}]
          /\ completions' = [completions EXCEPT ![c] = 1]
      BY <1>1, <2>2, <2>3, <2>4 DEF TypeOK
    <2>6. m.success \in BOOLEAN
      BY <1>1, <1>3, MessageFacts DEF m
    <2> QED
      BY <1>1, <1>2, <2>1, <2>2, <2>3, <2>4, <2>5, <2>6 DEF Completes, c
  <1>4. CASE m.kind = "invocation" /\ c \notin Unreadable
    <2>1. IsInvocation(e, 1)
      BY <1>1, <1>4 DEF IsInvocation
    <2>2. runs[c] = 0 /\ stage[c] = "posted" /\ m.id = callId[c] /\ Callee(c) = e
      BY <1>1, <2>1 DEF IInv, MessageInv, Invocations
    <2>3. /\ runs' = [runs EXCEPT ![c] = @ + 1]
          /\ given' = [given EXCEPT ![c] = m.id]
          /\ UNCHANGED <<nextCallbackId, answers, callbacks, result, completions>>
      BY <1>4 DEF OnMessage, Handle, Invoke, tables, completed
    <2> HIDE DEF m, c
    <2>4. runs' = [runs EXCEPT ![c] = 1]
      BY <1>1, <2>2, <2>3 DEF TypeOK
    <2> QED
      BY <1>1, <1>2, <1>4, <2>1, <2>2, <2>3, <2>4 DEF Runs, c
  <1>5. CASE ~(m.kind = "callback" /\ callbacks[e][m.id] # NoCall)
             /\ ~(m.kind = "invocation" /\ c \notin Unreadable)
    <2>1. UNCHANGED <<body, tables, completed>>
      BY <1>1, <1>5 DEF OnMessage, Handle, Complete, tables
    <2>2. IsInvocation(e, 1) => c \in Unreadable
      BY <1>1, <1>5 DEF IsInvocation
    <2> HIDE DEF m, c
    <2> QED
      BY <1>1, <1>2, <2>1, <2>2 DEF Ignores, body, tables, completed, c
  <1> QED
    BY <1>1, <1>3, <1>4, <1>5

LEMMA OnMessageStep ==
  ASSUME TypeOK, IInv, NEW e \in Ends, OnMessage(e)
  PROVE  IInv'
  <1> DEFINE m == First(e)
             c == First(e).call
  <1>1. /\ m \in Message /\ c \in Calls /\ m.id \in Ids /\ 1 \in At(e) /\ state[e] = "up"
        /\ UNCHANGED <<state, nextCallbackId, stage, callId, answers>>
        /\ Completes(e, c) \/ Runs(e, c) \/ Ignores(e, c)
    BY Handled DEF OnMessage
  <1>2. /\ \A x \in Ends : \A i \in At(x)' :
             Before(x, e, i) \in At(x) /\ port'[x][i] = port[x][Before(x, e, i)]
        /\ \A x \in Ends : \A i \in At(x) :
             (x = e /\ i = 1) \/ \E k \in At(x)' : port'[x][k] = port[x][i]
    BY Taken DEF OnMessage
  <1>3. \A x \in Ends : \A i \in At(x) : port[x][i].call \in Calls
    BY PortFacts, MessageFacts
  <1>4. IdInv'
    BY <1>1 DEF IInv, IdInv, Fresh, Distinct, Made
  <1> HIDE DEF c
  <1>5. \A d \in Calls :
          \/ runs'[d] = runs[d]
          \/ d = c /\ IsInvocation(e, 1) /\ runs[d] = 0 /\ runs'[d] = 1
    BY <1>1 DEF TypeOK, Completes, Runs, Ignores
  <1>6. CallInv'
    <2>1. CASE Completes(e, c)
      <3>1. Bodies'
        BY <1>1, <2>1 DEF Completes, IInv, CallInv, Bodies
      <3>2. runs[c] = 1
        BY <1>1, <2>1 DEF Completes, IInv, CallInv, Bodies
      <3>3. /\ result'[c] = {[for |-> c, success |-> m.success]} /\ completions'[c] = 1
            /\ \A d \in Calls \ {c} :
                 result'[d] = result[d] /\ completions'[d] = completions[d]
        BY <1>1, <2>1 DEF Completes, TypeOK
      <3>4. Completions'
        BY <1>1, <2>1, <3>2, <3>3 DEF Completes, IInv, CallInv, Completions
      <3> QED
        BY <3>1, <3>4 DEF CallInv
    <2>2. CASE Runs(e, c)
      BY <1>1, <2>2 DEF Runs, TypeOK, IInv, CallInv, Bodies, Completions
    <2>3. CASE Ignores(e, c)
      BY <1>1, <2>3 DEF Ignores, IInv, CallInv, Bodies, Completions
    <2> QED
      BY <1>1, <2>1, <2>2, <2>3
  <1>7. TableExact'
    <2>1. CASE Completes(e, c)
      <3>1. /\ completions'[c] = 1 /\ completions[c] = 0 /\ callbacks[e][m.id] = c
            /\ \A d \in Calls \ {c} : completions'[d] = completions[d]
            /\ \A x \in Ends : \A i \in Ids :
                 callbacks'[x][i] = IF x = e /\ i = m.id THEN NoCall ELSE callbacks[x][i]
        BY <1>1, <2>1 DEF Completes, TypeOK
      <3>2. Caller(c) = e /\ callId[c] = m.id /\ m.id # 0
        BY <1>1, <3>1 DEF IInv, TableExact
      <3>3. \A d \in Calls : d # NoCall
        BY CallsAssumption
      <3> QED
        BY <1>1, <3>1, <3>2, <3>3 DEF IInv, TableExact
    <2>2. CASE ~Completes(e, c)
      BY <1>1, <2>2 DEF Runs, Ignores, IInv, TableExact
    <2> QED
      BY <2>1, <2>2
  <1>8. ASSUME NEW x \in Ends, NEW i \in At(x)'
        PROVE  /\ Before(x, e, i) \in At(x) /\ port'[x][i] = port[x][Before(x, e, i)]
               /\ port'[x][i].call \in Calls
               /\ runs'[port'[x][i].call] = runs[port'[x][i].call]
    <2> DEFINE k == Before(x, e, i)
    <2>1. k \in At(x) /\ port'[x][i] = port[x][k] /\ port[x][k].call \in Calls
      BY <1>2, <1>3
    <2>2. ~(x = e /\ k = 1)
      BY DEF Before, At
    <2> HIDE DEF k
    <2>3. port[x][k].call = c /\ IsInvocation(e, 1) /\ runs[c] = 0 => FALSE
      <3> SUFFICES ASSUME port[x][k].call = c, IsInvocation(e, 1), runs[c] = 0 PROVE FALSE
        OBVIOUS
      <3>1. /\ Callee(c) = e
            /\ \A j \in At(e) : IsInvocation(e, j) /\ port[e][j].call = c => j = 1
        BY <1>1 DEF c, First, IInv, MessageInv, Invocations
      <3>2. CASE IsInvocation(x, k)
        BY <2>1, <2>2, <3>1, <3>2 DEF IInv, MessageInv, Invocations
      <3>3. CASE ~IsInvocation(x, k)
        BY <2>1, <3>3 DEF IInv, MessageInv, Answers
      <3> QED
        BY <3>2, <3>3
    <2> QED
      BY <1>5, <2>1, <2>3 DEF k
  <1>9. Invocations'
    <2> SUFFICES ASSUME NEW x \in Ends, NEW i \in At(x)', IsInvocation(x, i)'
                 PROVE  /\ Callee(port'[x][i].call) = x
                        /\ stage[port'[x][i].call] = "posted"
                        /\ runs'[port'[x][i].call] = 0
                        /\ port'[x][i].id = callId[port'[x][i].call]
                        /\ \A j \in At(x)' : IsInvocation(x, j)'
                             /\ port'[x][j].call = port'[x][i].call => i = j
      BY <1>1 DEF Invocations
    <2>1. Before(x, e, i) \in At(x) /\ IsInvocation(x, Before(x, e, i))
      BY <1>8 DEF IsInvocation
    <2>2. \A j \in At(x)' : IsInvocation(x, j)' /\ port'[x][j].call = port'[x][i].call
                              => Before(x, e, i) = Before(x, e, j)
      BY <1>8, <2>1 DEF IInv, MessageInv, Invocations, IsInvocation
    <2>3. \A j \in At(x)' : Before(x, e, i) = Before(x, e, j) => i = j
      BY DEF Before, At
    <2> QED
      BY <1>8, <2>1, <2>2, <2>3 DEF IInv, MessageInv, Invocations
  <1>10. Answers'
    BY <1>1, <1>8 DEF IInv, MessageInv, Answers, IsInvocation
  <1>11. Ordered'
    <2> SUFFICES ASSUME NEW x \in Ends, NEW i \in At(x)', NEW j \in At(x)', i < j,
                        IsInvocation(x, i)', IsInvocation(x, j)',
                        port'[x][i].id # 0, port'[x][j].id # 0
                 PROVE  port'[x][i].id < port'[x][j].id
      BY DEF Ordered
    <2>1. Before(x, e, i) < Before(x, e, j)
      BY DEF Before, At
    <2> QED
      BY <1>8, <2>1 DEF IInv, OrderInv, Ordered, IsInvocation
  <1>12. Served'
    <2> SUFFICES ASSUME NEW d \in Calls \ Unreadable, stage[d] = "posted"
                 PROVE  \/ runs'[d] = 1 \/ state[Callee(d)] = "gone"
                        \/ InvocationIn(d, Callee(d))'
      BY <1>1 DEF Served
    <2>1. CASE runs[d] = 1 \/ state[Callee(d)] = "gone"
      BY <1>5, <2>1
    <2>2. ASSUME NEW i \in At(Callee(d)), IsInvocation(Callee(d), i),
                 port[Callee(d)][i].call = d
          PROVE  runs'[d] = 1 \/ InvocationIn(d, Callee(d))'
      <3>1. CASE Callee(d) = e /\ i = 1
        <4>1. d = c /\ Runs(e, c)
          BY <1>1, <2>2, <3>1 DEF c, First, Completes, Ignores
        <4> QED
          BY <1>1, <4>1 DEF Runs, TypeOK
      <3>2. CASE ~(Callee(d) = e /\ i = 1)
        BY <1>2, <2>2, <3>2, EndFacts DEF InvocationIn, IsInvocation
      <3> QED
        BY <3>1, <3>2
    <2> QED
      BY <2>1, <2>2 DEF IInv, OrderInv, Served, InvocationIn
  <1>13. CallsRunInOrder'
    <2> SUFFICES ASSUME NEW a \in Calls \ Unreadable, NEW b \in Calls \ Unreadable,
                        Caller(a) = Caller(b), stage[a] = "posted",
                        0 < callId[a], callId[a] < callId[b], runs'[b] > 0
                 PROVE  runs'[a] > 0
      BY <1>1 DEF CallsRunInOrder
    <2>1. CASE runs[b] > 0
      <3>1. runs[a] > 0
        BY <2>1 DEF IInv, OrderInv, CallsRunInOrder
      <3> QED
        BY <1>5, <3>1
    <2>2. CASE ~(runs[b] > 0)
      <3>1. b = c /\ IsInvocation(e, 1) /\ port[e][1].call = b
        BY <1>5, <2>2 DEF c, First
      <3>2. Callee(b) = e /\ port[e][1].id = callId[b]
        BY <1>1, <3>1 DEF IInv, MessageInv, Invocations
      <3>3. Callee(a) = e
        BY <3>2, EndFacts
      <3>4. ASSUME NEW i \in At(e), IsInvocation(e, i), port[e][i].call = a PROVE FALSE
        <4>1. port[e][i].id = callId[a]
          BY <3>4 DEF IInv, MessageInv, Invocations
        <4>2. callId[a] \in Nat /\ callId[b] \in Nat
          BY DEF TypeOK, Ids
        <4>3. i # 1
          BY <3>2, <4>1, <4>2
        <4>4. 1 < i
          BY <4>3 DEF At
        <4> QED
          BY <1>1, <3>1, <3>2, <3>4, <4>1, <4>2, <4>4 DEF IInv, OrderInv, Ordered
      <3>5. runs[a] = 1
        BY <1>1, <3>3, <3>4 DEF IInv, OrderInv, Served, InvocationIn
      <3> QED
        BY <1>5, <3>5
    <2> QED
      BY <2>1, <2>2
  <1> QED
    BY <1>4, <1>6, <1>7, <1>9, <1>10, <1>11, <1>12, <1>13 DEF IInv, MessageInv, OrderInv

LEMMA SendCallbackStep ==
  ASSUME TypeOK, IInv, NEW c \in Calls, NEW ok \in BOOLEAN, SendCallback(c, ok)
  PROVE  IInv'
  <1> DEFINE m == [kind |-> "callback", call |-> c, id |-> given[c], success |-> ok]
  <1>1. /\ given[c] # 0 /\ given[c] = callId[c] /\ runs[c] = 1
        /\ answers' = [answers EXCEPT ![c] = @ \cup {ok}]
        /\ UNCHANGED <<state, nextCallbackId, callbacks, stage, callId, given, runs, result,
                       completions>>
        /\ UNCHANGED port \/ PostMessage(Caller(c), m)
    BY DEF SendCallback, IInv, CallInv, Bodies, tables, making, completed
  <1>2. /\ \A d \in Calls : /\ answers[d] \subseteq answers'[d]
                            /\ d # c => answers'[d] = answers[d]
        /\ ok \in answers'[c]
    BY <1>1 DEF TypeOK
  <1>3. IdInv' /\ TableExact' /\ CallsRunInOrder'
    BY <1>1 DEF IInv, IdInv, Fresh, Distinct, Made, TableExact, OrderInv, CallsRunInOrder
  <1>4. CallInv'
    BY <1>1, <1>2 DEF IInv, CallInv, Bodies, Completions
  <1>5. /\ m.kind = "callback" /\ m.call = c /\ m.id = callId[c] /\ m.success = ok
        /\ m \in Message /\ Caller(c) \in Ends
    BY <1>1, MessageFacts, EndFacts DEF TypeOK
  <1> HIDE DEF m
  <1>6. /\ \A x \in Ends : \A i \in At(x)' :
             \/ i \in At(x) /\ port'[x][i] = port[x][i]
             \/ x = Caller(c) /\ port'[x][i] = m
        /\ \A x \in Ends : \A i \in At(x) : i \in At(x)' /\ port'[x][i] = port[x][i]
    <2>1. CASE UNCHANGED port
      BY <2>1 DEF At
    <2>2. CASE PostMessage(Caller(c), m)
      BY <1>5, <2>2, Posted
    <2> QED
      BY <1>1, <2>1, <2>2
  <1>7. \A x \in Ends : \A i \in At(x) : port[x][i].call \in Calls
    BY PortFacts, MessageFacts
  <1>8. \A x \in Ends : \A i \in At(x)' :
          IsInvocation(x, i)' => /\ i \in At(x) /\ port'[x][i] = port[x][i]
                                 /\ IsInvocation(x, i)
    BY <1>5, <1>6 DEF IsInvocation
  <1>9. Invocations'
    BY <1>1, <1>8 DEF IInv, MessageInv, Invocations
  <1>10. Answers'
    BY <1>1, <1>2, <1>5, <1>6, <1>7 DEF IInv, MessageInv, Answers, IsInvocation
  <1>11. Ordered'
    BY <1>8 DEF IInv, OrderInv, Ordered
  <1>12. Served'
    BY <1>1, <1>6, EndFacts DEF IInv, OrderInv, Served, InvocationIn, IsInvocation
  <1> QED
    BY <1>3, <1>4, <1>9, <1>10, <1>11, <1>12 DEF IInv, MessageInv, OrderInv

LEMMA InvStep == TypeOK /\ IInv /\ [Next]_vars => IInv'
  <1> SUFFICES ASSUME TypeOK, IInv, [Next]_vars PROVE IInv'
    OBVIOUS
  <1>1. CASE UNCHANGED vars
    BY <1>1, EndStep DEF vars
  <1>2. ASSUME NEW e \in Ends, Create(e) PROVE IInv'
    BY <1>2, EndStep DEF Create, TypeOK
  <1>3. ASSUME NEW e \in Ends, Vanish(e) PROVE IInv'
    BY <1>3, EndStep DEF Vanish
  <1> QED
    BY <1>1, <1>2, <1>3, SendMessageStep, OnMessageStep, SendCallbackStep DEF Next

LEMMA Invariance == Spec => [](TypeOK /\ IInv)
  BY TypeInit, TypeStep, InvInit, InvStep, PTL DEF Spec

(***************************************************************************)
(* What the invariant gives.                                               *)
(***************************************************************************)

\* A Callback waits under its call's id from the call to its completion, and no failure
\* that was swallowed takes it out of its table, or another's.
THEOREM TableIsExact == Spec => []TableExact
  <1>1. IInv => TableExact
    BY DEF IInv
  <1> QED
    BY <1>1, Invariance, PTL

\* Calls with Callbacks run in the order they were made, both ways at once, whatever is
\* answered in between and whichever end goes.
THEOREM CallsAreRunInOrder == Spec => []CallsRunInOrder
  <1>1. IInv => CallsRunInOrder
    BY DEF IInv, OrderInv
  <1> QED
    BY <1>1, Invariance, PTL

(***************************************************************************)
(* The endpoints implement OneShotCalls.                                   *)
(***************************************************************************)
LEMMA PromiseInit == Init => Promise!Init
  BY DEF Init, Promise!Init

LEMMA PromiseStep == TypeOK /\ IInv /\ [Next]_vars => [Promise!Next]_(Promise!vars)
  <1> SUFFICES ASSUME TypeOK, IInv, [Next]_vars PROVE [Promise!Next]_(Promise!vars)
    OBVIOUS
  <1>1. ASSUME UNCHANGED <<stage, runs, answers, result, completions>>
        PROVE  [Promise!Next]_(Promise!vars)
    BY <1>1 DEF Promise!vars
  <1>2. CASE UNCHANGED vars \/ \E e \in Ends : Create(e) \/ Vanish(e)
    BY <1>1, <1>2 DEF vars, Create, Vanish, making, body, completed
  <1>3. ASSUME NEW e \in Ends, NEW c \in Calls, SendMessage(e, c)
        PROVE  [Promise!Next]_(Promise!vars)
    <2>1. /\ UNCHANGED <<runs, answers, result, completions>>
          /\ \E x \in {"posted", "failed"} : stage' = [stage EXCEPT ![c] = x]
      BY <1>3 DEF SendMessage, body, completed
    <2>2. {d \in Calls : stage'[d] # "new"} = {d \in Calls : stage[d] # "new"} \cup {c}
      BY <2>1 DEF TypeOK
    <2>3. Promise!Make(c)
      BY <2>1, <2>2 DEF Promise!Make
    <2> QED
      BY <2>3 DEF Promise!Next
  <1>4. ASSUME NEW e \in Ends, OnMessage(e) PROVE [Promise!Next]_(Promise!vars)
    <2> DEFINE c == First(e).call
    <2>1. /\ c \in Calls /\ UNCHANGED <<stage, answers>>
          /\ Completes(e, c) \/ Runs(e, c) \/ Ignores(e, c)
      BY <1>4, Handled
    <2> HIDE DEF c
    <2>2. CASE Completes(e, c)
      <3>1. Promise!Finish(c, First(e).success)
        BY <2>1, <2>2 DEF Completes, Promise!Finish
      <3> QED
        BY <2>1, <2>2, <3>1 DEF Completes, Promise!Next
    <2>3. CASE Runs(e, c)
      <3>1. Promise!Run(c)
        BY <2>1, <2>3 DEF Runs, Promise!Run
      <3> QED
        BY <2>1, <3>1 DEF Promise!Next
    <2>4. CASE Ignores(e, c)
      BY <1>1, <2>1, <2>4 DEF Ignores
    <2> QED
      BY <2>1, <2>2, <2>3, <2>4
  <1>5. ASSUME NEW c \in Calls, NEW ok \in BOOLEAN, SendCallback(c, ok)
        PROVE  [Promise!Next]_(Promise!vars)
    <2>1. /\ runs[c] = 1 /\ answers' = [answers EXCEPT ![c] = @ \cup {ok}]
          /\ UNCHANGED <<stage, runs, result, completions>>
      BY <1>5 DEF SendCallback, IInv, CallInv, Bodies, making, completed
    <2>2. Promise!Answer(c, ok)
      BY <2>1 DEF Promise!Answer
    <2> QED
      BY <2>2 DEF Promise!Next
  <1> QED
    BY <1>2, <1>3, <1>4, <1>5 DEF Next

\* Page and worker keep the promise of OneShotCalls, though every failure is swallowed and
\* either may go at any time: a body runs at most once, for a call that was made, and a
\* Callback completes at most once, with an outcome that body gave.
THEOREM EndsKeepThePromise == Spec => PromiseKept
  BY PromiseInit, PromiseStep, Invariance, PTL DEF Spec, PromiseKept, Promise!Spec
=============================================================================
