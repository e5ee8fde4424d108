------------------------- MODULE WebSocketRpcProofs -------------------------
(***************************************************************************)
(* Proofs about WebSocketRpc, for every set of calls and threads.          *)
(*                                                                         *)
(* None of the properties is inductive.  That an answer finds its own call *)
(* rests on ids: those of one end are pairwise distinct (Fresh, Distinct), *)
(* and every copy of an id - in a message, in the Callback of a body -     *)
(* is the one its call was given (Invocations, Answers, Bodies).  That the *)
(* page's calls run in order rests on the queue to the server: it has them *)
(* in the order of their ids, and what is no longer in it has run.         *)
(***************************************************************************)
EXTENDS WebSocketRpc, TLAPS, SequenceTheorems

\* The ids one end handed out lie below its counter ...
Fresh == \A c \in Calls : callId[c] < nextId[Caller(c)]

\* ... and no two of its calls share one.
Distinct ==
  \A c, d \in Calls :
    callId[c] # 0 /\ callId[c] = callId[d] /\ Caller(c) = Caller(d) => c = d

\* A call has an id only once it was begun.
Begun ==
  \A c \in Calls :
    /\ stage[c] = "new" => callId[c] = 0
    /\ stage[c] = "allocated" => callId[c] # 0

\* An invocation on its way carries its call's id, is the only one of its call
\* there is, and its body has not run.
Invocations ==
  \A s \in Sides : \A i \in 1 .. Len(wire[s]) :
    wire[s][i].kind = "invocation" =>
      /\ Caller(wire[s][i].call) = Peer(s)
      /\ stage[wire[s][i].call] = "sent"
      /\ runs[wire[s][i].call] = 0
      /\ wire[s][i].id = callId[wire[s][i].call]
      /\ \A j \in 1 .. Len(wire[s]) :
           wire[s][j].kind = "invocation" /\ wire[s][j].call = wire[s][i].call
             => i = j

\* An answer on its way carries its call's id and an outcome its body gave.
Answers ==
  \A s \in Sides : \A i \in 1 .. Len(wire[s]) :
    wire[s][i].kind = "callback" =>
      /\ Caller(wire[s][i].call) = s
      /\ wire[s][i].id = callId[wire[s][i].call]
      /\ wire[s][i].id # 0
      /\ wire[s][i].success \in answers[wire[s][i].call]
      /\ runs[wire[s][i].call] = 1

\* A body runs once, for a call that was sent, and its Callback has the call's id.
Bodies ==
  \A c \in Calls :
    /\ runs[c] \in {0, 1}
    /\ runs[c] = 1 => stage[c] = "sent"
    /\ given[c] # 0 => given[c] = callId[c] /\ runs[c] = 1
    /\ answers[c] # {} => runs[c] = 1

\* A Callback has completed as often as it has an outcome, at most once.
Completions ==
  /\ RightAnswer
  /\ \A c \in Calls :
       /\ completions[c] \in {0, 1}
       /\ completions[c] = 0 => result[c] = {}
       /\ completions[c] = 1 => runs[c] = 1

IInv ==
  /\ Fresh
  /\ Distinct
  /\ Begun
  /\ Invocations
  /\ Answers
  /\ Bodies
  /\ TableExact
  /\ Completions

(***************************************************************************)
(* Sequences, and the shape of a step.                                     *)
(***************************************************************************)
LEMMA AppendAt ==
  ASSUME NEW S, NEW q \in Seq(S), NEW m \in S
  PROVE  /\ Append(q, m) \in Seq(S)
         /\ Len(Append(q, m)) = Len(q) + 1
         /\ \A i \in 1 .. Len(q) : Append(q, m)[i] = q[i]
         /\ Append(q, m)[Len(q) + 1] = m
  BY AppendProperties

LEMMA TailAt ==
  ASSUME NEW S, NEW q \in Seq(S), q # <<>>
  PROVE  /\ Head(q) \in S
         /\ Head(q) = q[1]
         /\ Tail(q) \in Seq(S)
         /\ Len(q) \in Nat \ {0}
         /\ Len(Tail(q)) = Len(q) - 1
         /\ \A i \in 1 .. Len(Tail(q)) : Tail(q)[i] = q[i + 1]
  <1>1. Len(q) \in Nat \ {0}
    BY EmptySeq, LenProperties
  <1> QED
    BY <1>1, HeadTailProperties

LEMMA SideFacts ==
  /\ \A s \in Sides : Peer(s) \in Sides /\ Peer(s) # s /\ Peer(Peer(s)) = s
  /\ \A c \in Calls : Caller(c) \in Sides
  /\ \A c \in ClientCalls : Caller(c) = "client"
  /\ \A c \in ServerCalls : Caller(c) = "server"
  BY CallsAssumption DEF Sides, Peer, Caller, Calls

LEMMA MessageFacts ==
  /\ \A c \in Calls, id \in Ids : InvocationOf(c, id) \in Message
  /\ \A c \in Calls, id \in Ids, ok \in BOOLEAN :
       [kind |-> "callback", call |-> c, id |-> id, success |-> ok] \in Message
  /\ \A m \in Message : m.call \in Calls /\ m.id \in Ids
  /\ \A m \in Message : m.kind = "callback" => m.success \in BOOLEAN
  /\ \A m \in Message : m.kind \in {"invocation", "callback"}
  BY DEF Message, Invocation, CallbackInvocation, InvocationOf

\* What is transmitted is a message at the end of the peer's queue, or nothing.
LEMMA TransmitFacts ==
  ASSUME TypeOK, NEW s \in Sides, NEW m \in Message, Transmit(s, m)
  PROVE  /\ wire' \in [Sides -> Seq(Message)]
         /\ \/ wire' = wire
            \/ wire' = [wire EXCEPT ![Peer(s)] = Append(@, m)]
  BY AppendProperties, SideFacts DEF Transmit, TypeOK

(***************************************************************************)
(* Types.                                                                  *)
(***************************************************************************)
LEMMA TypeInit == Init => TypeOK
  <1> SUFFICES ASSUME Init PROVE TypeOK
    OBVIOUS
  <1>1. wire \in [Sides -> Seq(Message)]
    BY DEF Init
  <1>2. 1 \in 1 .. MaxId + 1 /\ 0 \in Ids
    BY CallsAssumption DEF Ids
  <1>3. nextId \in [Sides -> 1 .. MaxId + 1]
    BY <1>2 DEF Init, FirstId
  <1>4. callbacks \in [Sides -> [Ids -> Calls \cup {NoCall}]]
    BY DEF Init
  <1> QED
    BY <1>1, <1>2, <1>3, <1>4 DEF Init, TypeOK

LEMMA TypeStep == TypeOK /\ [Next]_vars => TypeOK'
  <1> SUFFICES ASSUME TypeOK, [Next]_vars PROVE TypeOK'
    OBVIOUS
  <1> USE CallsAssumption DEF Ids
  <1>1. ASSUME NEW present \in BOOLEAN, SetClient(present) PROVE TypeOK'
    BY <1>1 DEF SetClient, TypeOK, tables, making, body, completed
  <1>2. CASE ClientOnOpen
    BY <1>2 DEF ClientOnOpen, TypeOK, tables, making, body, completed
  <1>3. CASE ClientClose
    BY <1>3 DEF ClientClose, TypeOK, tables, making, body, completed
  <1>4. CASE ClientOnClose
    <2>1. wire' \in [Sides -> Seq(Message)]
      BY <1>4, EmptySeq DEF ClientOnClose, TypeOK
    <2> QED
      BY <1>4, <2>1 DEF ClientOnClose, TypeOK, tables, making, body, completed
  <1>5. CASE ServerOnOpen
    BY <1>5 DEF ServerOnOpen, TypeOK, tables, making, body, completed
  <1>6. CASE ServerOnClose
    <2>1. wire' \in [Sides -> Seq(Message)]
      BY <1>6, EmptySeq DEF ServerOnClose, TypeOK
    <2> QED
      BY <1>6, <2>1 DEF ServerOnClose, TypeOK, tables, making, body, completed
  <1>7. ASSUME NEW s \in Sides, NEW runnable, Receive(s, runnable) PROVE TypeOK'
    <2> DEFINE m == Head(wire[s])
    <2>1. m \in Message /\ wire' \in [Sides -> Seq(Message)]
      BY <1>7, TailAt DEF Receive, TypeOK
    <2>2. CASE m.kind = "callback"
      <3>1. Complete(s, m)
        BY <1>7, <2>2 DEF Receive
      <3>2. callbacks[s][m.id] \in Calls \cup {NoCall}
        BY <2>1, MessageFacts DEF TypeOK
      <3>3. [for |-> m.call, success |-> m.success] \in Outcomes
        BY <2>1, <2>2, MessageFacts DEF Outcomes
      <3>4. nextId' = nextId /\ UNCHANGED <<connection, making, body>>
        BY <1>7, <3>1 DEF Complete, Receive
      <3>5. /\ callbacks' \in [Sides -> [Ids -> Calls \cup {NoCall}]]
            /\ result' \in [Calls -> SUBSET Outcomes]
            /\ completions' \in [Calls -> Nat]
        <4> DEFINE c == callbacks[s][m.id]
        <4>1. CASE c = NoCall
          BY <3>1, <4>1 DEF Complete, TypeOK, completed
        <4>2. CASE c # NoCall
          <5>1. /\ callbacks' = [callbacks EXCEPT ![s][m.id] = NoCall]
                /\ result' = [result EXCEPT
                     ![c] = @ \cup {[for |-> m.call, success |-> m.success]}]
                /\ completions' = [completions EXCEPT ![c] = @ + 1]
            BY <3>1, <4>2 DEF Complete
          <5>2. callbacks' \in [Sides -> [Ids -> Calls \cup {NoCall}]]
            BY <5>1 DEF TypeOK
          <5>3. result' \in [Calls -> SUBSET Outcomes]
            BY <5>1, <3>3 DEF TypeOK
          <5>4. completions' \in [Calls -> Nat]
            <6>1. c \in Calls /\ completions[c] + 1 \in Nat
              BY <3>2, <4>2 DEF TypeOK
            <6> HIDE DEF c
            <6> QED
              BY <5>1, <6>1 DEF TypeOK
          <5> QED
            BY <5>2, <5>3, <5>4
        <4> QED
          BY <4>1, <4>2
      <3> QED
        BY <2>1, <3>4, <3>5 DEF TypeOK, connection, making, body
    <2>3. CASE m.kind = "invocation" /\ m.call \in runnable
      <3>1. RunBody(m)
        BY <1>7, <2>3 DEF Receive
      <3> QED
        BY <1>7, <2>1, <3>1, MessageFacts
        DEF RunBody, Receive, TypeOK, connection, making, tables, completed
    <2>4. CASE m.kind = "invocation" /\ m.call \notin runnable
      <3>1. UNCHANGED <<body, tables, completed>>
        BY <1>7, <2>4 DEF Receive
      <3> QED
        BY <1>7, <2>1, <3>1
        DEF Receive, TypeOK, connection, making, body, tables, completed
    <2> QED
      BY <2>1, <2>2, <2>3, <2>4, MessageFacts
  <1>8. ASSUME NEW c \in Calls, ClientCall(c) PROVE TypeOK'
    <2> DEFINE id == IF c \in WithCallback THEN nextId["client"] ELSE 0
    <2>1. id \in Ids
      BY <1>8 DEF ClientCall, TypeOK, Sides
    <2>2. wire' \in [Sides -> Seq(Message)]
      BY <1>8, <2>1, TransmitFacts, MessageFacts DEF ClientCall, TypeOK, Sides
    <2>3. UNCHANGED <<connection, body, completed>>
      BY <1>8 DEF ClientCall
    <2>4. callId' = [callId EXCEPT ![c] = id]
      BY <1>8 DEF ClientCall
    <2>5. stage' \in {[stage EXCEPT ![c] = "sent"], [stage EXCEPT ![c] = "failed"]}
      BY <1>8 DEF ClientCall
    <2>6. /\ nextId' \in [Sides -> 1 .. MaxId + 1]
          /\ callbacks' \in [Sides -> [Ids -> Calls \cup {NoCall}]]
      <3>1. CASE c \in WithCallback
        <4>1. /\ nextId' = [nextId EXCEPT !["client"] = id + 1]
              /\ callbacks' = [callbacks EXCEPT !["client"][id] = c]
          BY <1>8, <3>1 DEF ClientCall
        <4>2. id + 1 \in 1 .. MaxId + 1
          BY <2>1
        <4> QED
          BY <4>1, <4>2 DEF TypeOK
      <3>2. CASE c \notin WithCallback
        BY <1>8, <3>2 DEF ClientCall, tables, TypeOK
      <3> QED
        BY <3>1, <3>2
    <2> HIDE DEF id
    <2> QED
      BY <2>1, <2>2, <2>3, <2>4, <2>5, <2>6
      DEF TypeOK, connection, body, completed
  <1>9. ASSUME NEW c \in Calls, ServerAllocate(c) PROVE TypeOK'
    <2>1. UNCHANGED <<connection, wire, callbacks, body, completed>>
      BY <1>9 DEF ServerAllocate
    <2>2. /\ nextId' \in [Sides -> 1 .. MaxId + 1]
          /\ callId' \in [Calls -> Ids]
      <3>1. CASE c \in WithCallback
        <4>1. nextId["server"] \in Ids /\ nextId["server"] + 1 \in 1 .. MaxId + 1
          BY <1>9, <3>1 DEF ServerAllocate, TypeOK, Sides
        <4>2. /\ callId' = [callId EXCEPT ![c] = nextId["server"]]
              /\ nextId' = [nextId EXCEPT !["server"] = @ + 1]
          BY <1>9, <3>1 DEF ServerAllocate
        <4>3. callId' \in [Calls -> Ids]
          BY <4>1, <4>2 DEF TypeOK
        <4>4. nextId' \in [Sides -> 1 .. MaxId + 1]
          BY <4>1, <4>2 DEF TypeOK, Sides
        <4> QED
          BY <4>3, <4>4
      <3> QED
        BY <1>9, <3>1 DEF ServerAllocate, TypeOK
    <2>3. stage' \in {[stage EXCEPT ![c] = "allocated"],
                      [stage EXCEPT ![c] = "registered"]}
      BY <1>9 DEF ServerAllocate
    <2> QED
      BY <2>1, <2>2, <2>3 DEF TypeOK, connection, body, completed
  <1>10. ASSUME NEW c \in Calls, ServerRegister(c) PROVE TypeOK'
    BY <1>10 DEF ServerRegister, TypeOK, Sides, connection, body, completed
  <1>11. ASSUME NEW c \in Calls, ServerSend(c) PROVE TypeOK'
    <2>1. callId[c] \in Ids
      BY DEF TypeOK
    <2>2. wire' \in [Sides -> Seq(Message)]
      BY <1>11, <2>1, TransmitFacts, MessageFacts DEF ServerSend, TypeOK, Sides
    <2> QED
      BY <1>11, <2>2
      DEF ServerSend, TypeOK, connection, tables, body, completed
  <1>12. ASSUME NEW s \in Sides, NEW u \in Threads \cup {Js}, NEW c \in Calls,
                NEW ok \in BOOLEAN, Respond(s, u, c, ok)
         PROVE TypeOK'
    <2>1. given[c] \in Ids
      BY DEF TypeOK
    <2>2. wire' \in [Sides -> Seq(Message)]
      BY <1>12, <2>1, TransmitFacts, MessageFacts DEF Respond, TypeOK
    <2> QED
      BY <1>12, <2>2
      DEF Respond, TypeOK, connection, tables, making, completed
  <1>13. CASE UNCHANGED vars
    BY <1>13 DEF vars, TypeOK, connection, tables, making, body, completed
  <1>14. CASE HandleMessage
    BY <1>14, <1>7 DEF HandleMessage, Sides
  <1>15. CASE OnMessage
    BY <1>15, <1>7 DEF OnMessage, Sides
  <1>16. ASSUME NEW c \in Calls, NEW ok \in BOOLEAN, ClientAnswer(c, ok)
         PROVE TypeOK'
    BY <1>16, <1>12 DEF ClientAnswer, Sides
  <1>17. ASSUME NEW c \in Calls, NEW ok \in BOOLEAN, NEW u \in Threads,
                ServerAnswer(u, c, ok)
         PROVE TypeOK'
    BY <1>17, <1>12 DEF ServerAnswer, Sides
  <1> QED
    BY <1>1, <1>2, <1>3, <1>4, <1>5, <1>6, <1>8, <1>9, <1>10, <1>11, <1>13,
       <1>14, <1>15, <1>16, <1>17 DEF Next

\* Every variable keeps its type, whatever calls are made and by whichever
\* threads: in particular ids and the tables stay within the ids there are.
THEOREM TypeCorrect == Spec => []TypeOK
  <1> QED
    BY TypeInit, TypeStep, PTL DEF Spec

(***************************************************************************)
(* The messages on their way.                                              *)
(***************************************************************************)

\* A call nothing was sent for yet can change its own state as it likes.
LEMMA NothingSent ==
  ASSUME TypeOK, Invocations, Answers, NEW c \in Calls,
         stage[c] # "sent", runs[c] = 0,
         UNCHANGED <<wire, runs, answers>>,
         \A d \in Calls \ {c} : stage'[d] = stage[d] /\ callId'[d] = callId[d]
  PROVE  Invocations' /\ Answers'
  <1> SUFFICES ASSUME NEW s \in Sides, NEW i \in 1 .. Len(wire[s])
               PROVE  wire[s][i].call \in Calls \ {c}
    BY DEF Invocations, Answers
  <1>1. wire[s][i] \in Message
    BY ElementOfSeq DEF TypeOK
  <1> QED
    BY <1>1, MessageFacts DEF Invocations, Answers

\* Sending the invocation of a call that was not sent.
LEMMA InvocationSent ==
  ASSUME TypeOK, Invocations, Answers, NEW s \in Sides, NEW c \in Calls,
         NEW id \in Ids, Caller(c) = s, stage[c] # "sent", runs[c] = 0,
         Transmit(s, InvocationOf(c, id)),
         UNCHANGED <<runs, answers>>,
         stage'[c] = "sent", callId'[c] = id,
         \A d \in Calls \ {c} : stage'[d] = stage[d] /\ callId'[d] = callId[d]
  PROVE  Invocations' /\ Answers'
  <1> DEFINE m == InvocationOf(c, id)
  <1>1. m \in Message /\ m.call = c /\ m.id = id /\ m.kind = "invocation"
    BY MessageFacts DEF InvocationOf
  <1>2. ASSUME NEW x \in Sides, NEW i \in 1 .. Len(wire[x])
        PROVE  wire[x][i].call \in Calls \ {c}
    <2>1. wire[x][i] \in Message
      BY ElementOfSeq DEF TypeOK
    <2> QED
      BY <2>1, MessageFacts DEF Invocations, Answers
  <1>3. CASE wire' = wire
    BY <1>2, <1>3 DEF Invocations, Answers
  <1>4. CASE wire' = [wire EXCEPT ![Peer(s)] = Append(@, m)]
    <2> DEFINE q == wire[Peer(s)]
    <2>1. Peer(s) \in Sides /\ q \in Seq(Message) /\ Peer(Peer(s)) = s
      BY SideFacts DEF TypeOK
    <2>2. wire'[Peer(s)] = Append(q, m)
      BY <1>4, <2>1 DEF TypeOK
    <2>3. /\ Len(wire'[Peer(s)]) = Len(q) + 1 /\ Len(q) \in Nat
          /\ \A i \in 1 .. Len(q) : wire'[Peer(s)][i] = wire[Peer(s)][i]
          /\ wire'[Peer(s)][Len(q) + 1] = m
      BY <1>1, <2>1, <2>2, AppendAt, LenProperties
    <2>4. \A x \in Sides \ {Peer(s)} : wire'[x] = wire[x]
      BY <1>4 DEF TypeOK
    <2> HIDE DEF q, m
    <2>5. ASSUME NEW x \in Sides, NEW i \in 1 .. Len(wire'[x])
          PROVE  \/ /\ i \in 1 .. Len(wire[x]) /\ wire'[x][i] = wire[x][i]
                    /\ wire[x][i].call \in Calls \ {c}
                 \/ x = Peer(s) /\ i = Len(q) + 1 /\ wire'[x][i] = m
      <3>1. CASE x = Peer(s)
        <4>1. i \in 1 .. Len(q) \/ i = Len(q) + 1
          BY <2>3, <3>1
        <4> QED
          BY <1>2, <2>3, <3>1, <4>1 DEF q
      <3>2. CASE x # Peer(s)
        BY <1>2, <2>4, <3>2
      <3> QED
        BY <3>1, <3>2
    <2>6. Invocations'
      <3> SUFFICES ASSUME NEW x \in Sides, NEW i \in 1 .. Len(wire'[x]),
                          wire'[x][i].kind = "invocation"
                   PROVE  /\ Caller(wire'[x][i].call) = Peer(x)
                          /\ stage'[wire'[x][i].call] = "sent"
                          /\ runs[wire'[x][i].call] = 0
                          /\ wire'[x][i].id = callId'[wire'[x][i].call]
                          /\ \A j \in 1 .. Len(wire'[x]) :
                               wire'[x][j].kind = "invocation"
                               /\ wire'[x][j].call = wire'[x][i].call => i = j
        BY DEF Invocations
      <3>1. CASE wire'[x][i] = m /\ x = Peer(s) /\ i = Len(q) + 1
        BY <1>1, <2>1, <2>5, <3>1
      <3>2. CASE /\ i \in 1 .. Len(wire[x]) /\ wire'[x][i] = wire[x][i]
                 /\ wire[x][i].call \in Calls \ {c}
        BY <1>1, <2>5, <3>2 DEF Invocations
      <3> QED
        BY <2>5, <3>1, <3>2
    <2>7. Answers'
      BY <1>1, <2>5 DEF Answers
    <2> QED
      BY <2>6, <2>7
  <1> QED
    BY <1>1, <1>3, <1>4, TransmitFacts

\* Sending an answer of a body that ran.
LEMMA AnswerSent ==
  ASSUME TypeOK, Invocations, Answers, NEW s \in Sides, NEW c \in Calls,
         NEW ok \in BOOLEAN,
         given[c] # 0, given[c] = callId[c], runs[c] = 1, Caller(c) = Peer(s),
         Transmit(s, [kind |-> "callback", call |-> c, id |-> given[c],
                      success |-> ok]) \/ wire' = wire,
         answers' = [answers EXCEPT ![c] = @ \cup {ok}],
         UNCHANGED <<stage, callId, runs>>
  PROVE  Invocations' /\ Answers'
  <1> DEFINE m == [kind |-> "callback", call |-> c, id |-> given[c], success |-> ok]
  <1>1. m \in Message
    <2>1. given[c] \in Ids
      BY DEF TypeOK
    <2> QED
      BY <2>1, MessageFacts
  <1>2. /\ \A d \in Calls : answers[d] \subseteq answers'[d]
        /\ ok \in answers'[c]
    BY DEF TypeOK
  <1>3. ASSUME NEW x \in Sides, NEW i \in 1 .. Len(wire[x])
        PROVE  wire[x][i].call \in Calls
    <2>1. wire[x][i] \in Message
      BY ElementOfSeq DEF TypeOK
    <2> QED
      BY <2>1, MessageFacts
  <1>4. CASE wire' = wire
    BY <1>2, <1>3, <1>4 DEF Invocations, Answers
  <1>5. CASE wire' = [wire EXCEPT ![Peer(s)] = Append(@, m)]
    <2> DEFINE q == wire[Peer(s)]
    <2>1. Peer(s) \in Sides /\ q \in Seq(Message)
      BY SideFacts DEF TypeOK
    <2>2. wire'[Peer(s)] = Append(q, m)
      BY <1>5, <2>1 DEF TypeOK
    <2>3. /\ Len(wire'[Peer(s)]) = Len(q) + 1 /\ Len(q) \in Nat
          /\ \A i \in 1 .. Len(q) : wire'[Peer(s)][i] = wire[Peer(s)][i]
          /\ wire'[Peer(s)][Len(q) + 1] = m
      BY <1>1, <2>1, <2>2, AppendAt, LenProperties
    <2>4. \A x \in Sides \ {Peer(s)} : wire'[x] = wire[x]
      BY <1>5 DEF TypeOK
    <2>5. ASSUME NEW x \in Sides, NEW i \in 1 .. Len(wire'[x])
          PROVE  \/ /\ i \in 1 .. Len(wire[x]) /\ wire'[x][i] = wire[x][i]
                    /\ wire[x][i].call \in Calls
                 \/ x = Peer(s) /\ wire'[x][i] = m
      <3> HIDE DEF q, m
      <3>1. CASE x = Peer(s)
        <4>1. i \in 1 .. Len(q) \/ i = Len(q) + 1
          BY <2>3, <3>1
        <4> QED
          BY <1>3, <2>3, <3>1, <4>1 DEF q
      <3>2. CASE x # Peer(s)
        BY <1>3, <2>4, <3>2
      <3> QED
        BY <3>1, <3>2
    <2>6. m.kind = "callback" /\ m.call = c /\ m.id = callId[c] /\ m.success = ok
      OBVIOUS
    <2> HIDE DEF q, m
    <2>7. Invocations'
      BY <2>5, <2>6 DEF Invocations
    <2>8. Answers'
      BY <1>2, <2>5, <2>6 DEF Answers
    <2> QED
      BY <2>7, <2>8
  <1> QED
    BY <1>1, <1>4, <1>5, TransmitFacts

\* Taking the oldest message: what is left is as it was, and if it was an
\* invocation no other one of its call is left, so the body may run.
LEMMA MessageTaken ==
  ASSUME TypeOK, Invocations, Answers, NEW s \in Sides, wire[s] # <<>>,
         wire' = [wire EXCEPT ![s] = Tail(@)],
         UNCHANGED <<stage, callId, answers>>,
         \/ runs' = runs
         \/ /\ Head(wire[s]).kind = "invocation"
            /\ runs' = [runs EXCEPT ![Head(wire[s]).call] = @ + 1]
  PROVE  Invocations' /\ Answers'
  <1> DEFINE m == Head(wire[s])
  <1>1. /\ wire[s] \in Seq(Message)
        /\ m \in Message /\ m = wire[s][1] /\ 1 \in 1 .. Len(wire[s])
        /\ wire'[s] = Tail(wire[s])
        /\ \A x \in Sides \ {s} : wire'[x] = wire[x]
    BY TailAt DEF TypeOK
  <1>2. /\ Len(wire[s]) \in Nat /\ Len(wire'[s]) = Len(wire[s]) - 1
        /\ \A i \in 1 .. Len(wire'[s]) : wire'[s][i] = wire[s][i + 1]
    <2>1. Len(wire[s]) \in Nat \ {0} /\ Len(Tail(wire[s])) = Len(wire[s]) - 1
      BY <1>1, TailAt
    <2>2. \A i \in 1 .. Len(Tail(wire[s])) : Tail(wire[s])[i] = wire[s][i + 1]
      BY <1>1, TailAt
    <2> QED
      BY <1>1, <2>1, <2>2
  <1> DEFINE at(x, i) == IF x = s THEN i + 1 ELSE i
  <1>3. ASSUME NEW x \in Sides, NEW i \in 1 .. Len(wire'[x])
        PROVE  /\ at(x, i) \in 1 .. Len(wire[x])
               /\ wire'[x][i] = wire[x][at(x, i)]
               /\ wire'[x][i].call \in Calls
    <2>1. at(x, i) \in 1 .. Len(wire[x]) /\ wire'[x][i] = wire[x][at(x, i)]
      BY <1>1, <1>2
    <2>2. wire[x][at(x, i)] \in Message
      BY <2>1, ElementOfSeq DEF TypeOK
    <2> QED
      BY <2>1, <2>2, MessageFacts
  <1>4. ASSUME NEW x \in Sides, NEW i \in 1 .. Len(wire'[x]),
               runs'[wire'[x][i].call] # runs[wire'[x][i].call]
        PROVE  wire'[x][i].kind = "callback" => FALSE
    <2>1. m.kind = "invocation" /\ m.call \in Calls /\ wire'[x][i].call = m.call
      BY <1>1, <1>3, <1>4, MessageFacts DEF TypeOK
    <2>2. runs[m.call] = 0
      BY <1>1, <2>1 DEF Invocations
    <2> QED
      BY <1>3, <2>1, <2>2 DEF Answers
  <1>5. ASSUME NEW x \in Sides, NEW i \in 1 .. Len(wire'[x]),
               wire'[x][i].kind = "invocation"
        PROVE  runs'[wire'[x][i].call] = runs[wire'[x][i].call]
    <2>1. SUFFICES ASSUME m.kind = "invocation", wire'[x][i].call = m.call
                   PROVE  FALSE
      BY <1>1, <1>3, MessageFacts DEF TypeOK
    <2>2. Caller(m.call) = Peer(s) /\ Caller(m.call) = Peer(x)
      BY <1>1, <1>3, <1>5, <2>1 DEF Invocations
    <2>3. x = s
      BY <2>2, SideFacts
    <2>4. at(x, i) = i + 1 /\ at(x, i) = 1
      BY <1>1, <1>3, <1>5, <2>1, <2>3 DEF Invocations
    <2> QED
      BY <2>4
  <1> HIDE DEF m
  <1>6. Invocations'
    <2> SUFFICES ASSUME NEW x \in Sides, NEW i \in 1 .. Len(wire'[x]),
                        wire'[x][i].kind = "invocation"
                 PROVE  /\ Caller(wire'[x][i].call) = Peer(x)
                        /\ stage'[wire'[x][i].call] = "sent"
                        /\ runs'[wire'[x][i].call] = 0
                        /\ wire'[x][i].id = callId'[wire'[x][i].call]
                        /\ \A j \in 1 .. Len(wire'[x]) :
                             wire'[x][j].kind = "invocation"
                             /\ wire'[x][j].call = wire'[x][i].call => i = j
      BY DEF Invocations
    <2> DEFINE a == at(x, i)
    <2>1. /\ a \in 1 .. Len(wire[x]) /\ wire'[x][i] = wire[x][a]
          /\ wire[x][a].kind = "invocation"
      BY <1>3
    <2>2. ASSUME NEW j \in 1 .. Len(wire'[x]), wire'[x][j].kind = "invocation",
                 wire'[x][j].call = wire'[x][i].call
          PROVE  i = j
      <3> DEFINE b == at(x, j)
      <3>1. /\ b \in 1 .. Len(wire[x]) /\ wire[x][b].kind = "invocation"
            /\ wire[x][b].call = wire[x][a].call
        BY <1>3, <2>1, <2>2
      <3>2. a = b
        <4> HIDE DEF a, b
        <4> QED
          BY <2>1, <3>1 DEF Invocations
      <3> QED
        BY <3>2
    <2> HIDE DEF a
    <2>3. /\ Caller(wire[x][a].call) = Peer(x)
          /\ stage[wire[x][a].call] = "sent"
          /\ runs[wire[x][a].call] = 0
          /\ wire[x][a].id = callId[wire[x][a].call]
      BY <2>1 DEF Invocations
    <2>4. stage' = stage /\ callId' = callId
      OBVIOUS
    <2>5. runs'[wire[x][a].call] = runs[wire[x][a].call]
      BY <1>5, <2>1
    <2> QED
      BY <2>1, <2>2, <2>3, <2>4, <2>5
  <1>7. Answers'
    <2> SUFFICES ASSUME NEW x \in Sides, NEW i \in 1 .. Len(wire'[x]),
                        wire'[x][i].kind = "callback"
                 PROVE  /\ Caller(wire'[x][i].call) = x
                        /\ wire'[x][i].id = callId'[wire'[x][i].call]
                        /\ wire'[x][i].id # 0
                        /\ wire'[x][i].success \in answers'[wire'[x][i].call]
                        /\ runs'[wire'[x][i].call] = 1
      BY DEF Answers
    <2>1. wire[x][at(x, i)].kind = "callback"
      BY <1>3
    <2>2. runs'[wire'[x][i].call] = runs[wire'[x][i].call]
      BY <1>4
    <2> HIDE DEF at
    <2> QED
      BY <1>3, <2>1, <2>2 DEF Answers
  <1> QED
    BY <1>6, <1>7

(***************************************************************************)
(* The tables.                                                             *)
(***************************************************************************)

\* Putting a call in its table under an id no other call of its end has.
LEMMA TablePut ==
  ASSUME TypeOK, TableExact, NEW c \in Calls, NEW id \in Ids \ {0},
         callbacks' = [callbacks EXCEPT ![Caller(c)][id] = c],
         \A d \in Calls \ {c} : callId[d] = id => Caller(d) # Caller(c),
         ~Waiting(c), completions[c] = 0, completions' = completions,
         callId'[c] = id, stage'[c] \in {"registered", "sent", "failed"},
         \A d \in Calls \ {c} : stage'[d] = stage[d] /\ callId'[d] = callId[d]
  PROVE  TableExact'
  <1> SUFFICES ASSUME NEW s \in Sides, NEW i \in Ids, NEW d \in Calls
               PROVE  callbacks'[s][i] = d
                        <=> Caller(d) = s /\ callId'[d] = i /\ Waiting(d)'
    BY DEF TableExact
  <1>1. Caller(c) \in Sides
    BY SideFacts
  <1>2. CASE s = Caller(c) /\ i = id
    <2>1. callbacks'[s][i] = c
      BY <1>1, <1>2 DEF TypeOK
    <2>2. Waiting(c)'
      BY DEF Waiting
    <2> QED
      BY <1>2, <2>1, <2>2
  <1>3. CASE ~(s = Caller(c) /\ i = id)
    <2>1. callbacks'[s][i] = callbacks[s][i]
      BY <1>1, <1>3 DEF TypeOK
    <2>2. CASE d = c
      BY <1>3, <2>1, <2>2 DEF TableExact
    <2>3. CASE d # c
      <3>1. Waiting(d)' <=> Waiting(d)
        BY <2>3 DEF Waiting
      <3> QED
        BY <2>1, <2>3, <3>1 DEF TableExact
    <2> QED
      BY <2>2, <2>3
  <1> QED
    BY <1>2, <1>3

\* A step that changes only a call which is not in its table and does not enter.
LEMMA TableKept ==
  ASSUME TypeOK, TableExact, NEW c \in Calls,
         UNCHANGED <<callbacks, completions>>, ~Waiting(c), ~Waiting(c)',
         \A d \in Calls \ {c} : stage'[d] = stage[d] /\ callId'[d] = callId[d]
  PROVE  TableExact'
  <1> SUFFICES ASSUME NEW s \in Sides, NEW i \in Ids, NEW d \in Calls
               PROVE  callbacks'[s][i] = d
                        <=> Caller(d) = s /\ callId'[d] = i /\ Waiting(d)'
    BY DEF TableExact
  <1>1. CASE d = c
    BY <1>1 DEF TableExact
  <1>2. CASE d # c
    BY <1>2 DEF TableExact, Waiting
  <1> QED
    BY <1>1, <1>2

\* The answer taken from the wire finds the Callback of its own call or nothing.
LEMMA AnswerFindsItsCall ==
  ASSUME TypeOK, IInv, NEW s \in Sides, wire[s] # <<>>,
         Head(wire[s]).kind = "callback",
         callbacks[s][Head(wire[s]).id] # NoCall
  PROVE  /\ callbacks[s][Head(wire[s]).id] = Head(wire[s]).call
         /\ Caller(Head(wire[s]).call) = s
         /\ Head(wire[s]).id = callId[Head(wire[s]).call]
         /\ Head(wire[s]).success \in answers[Head(wire[s]).call]
         /\ runs[Head(wire[s]).call] = 1
         /\ completions[Head(wire[s]).call] = 0
  <1> DEFINE m == Head(wire[s])
             c == callbacks[s][m.id]
  <1>1. /\ m \in Message /\ m = wire[s][1] /\ 1 \in 1 .. Len(wire[s])
        /\ m.call \in Calls /\ m.id \in Ids
    BY TailAt, MessageFacts DEF TypeOK
  <1>2. /\ Caller(m.call) = s /\ m.id = callId[m.call] /\ m.id # 0
        /\ m.success \in answers[m.call] /\ runs[m.call] = 1
    BY <1>1 DEF IInv, Answers
  <1>3. c \in Calls
    BY <1>1 DEF TypeOK
  <1>4. Caller(c) = s /\ callId[c] = m.id /\ completions[c] = 0
    BY <1>1, <1>3 DEF IInv, TableExact, Waiting
  <1>5. c = m.call
    BY <1>1, <1>2, <1>3, <1>4 DEF IInv, Distinct
  <1> QED
    BY <1>2, <1>4, <1>5

(***************************************************************************)
(* The invariant is inductive.                                             *)
(***************************************************************************)
LEMMA InvInit == Init => IInv
  <1> SUFFICES ASSUME Init PROVE IInv
    OBVIOUS
  <1>1. \A s \in Sides : Len(wire[s]) = 0
    BY EmptySeq DEF Init
  <1>2. Invocations /\ Answers
    BY <1>1 DEF Invocations, Answers
  <1>3. Fresh /\ Distinct /\ Begun /\ Bodies
    BY SideFacts DEF Init, FirstId, Fresh, Distinct, Begun, Bodies
  <1>4. TableExact
    BY CallsAssumption DEF Init, TableExact, Waiting
  <1>5. Completions
    BY DEF Init, Completions, RightAnswer
  <1> QED
    BY <1>2, <1>3, <1>4, <1>5 DEF IInv

\* Opening, closing or attaching touches no call; a close empties one queue.
LEMMA ConnectionStep ==
  ASSUME TypeOK, IInv, UNCHANGED <<tables, making, body, completed>>,
         \/ wire' = wire
         \/ \E s \in Sides : wire' = [wire EXCEPT ![s] = <<>>]
  PROVE  IInv'
  <1>1. UNCHANGED <<nextId, callbacks, stage, callId, given, fired, runs, answers,
                    result, completions>>
    BY DEF tables, making, body, completed
  <1>2. /\ Fresh' /\ Distinct' /\ Begun' /\ Bodies' /\ TableExact' /\ Completions'
    BY <1>1 DEF IInv, Fresh, Distinct, Begun, Bodies, TableExact, Waiting,
                Completions, RightAnswer
  <1>3. \A s \in Sides : Len(wire'[s]) = 0 \/ wire'[s] = wire[s]
    BY EmptySeq DEF TypeOK
  <1>4. Invocations' /\ Answers'
    BY <1>1, <1>3 DEF IInv, Invocations, Answers
  <1> QED
    BY <1>2, <1>4 DEF IInv

\* Taking the next id of an end for a call that has none.
LEMMA IdTaken ==
  ASSUME TypeOK, IInv, NEW c \in Calls, NEW s \in Sides, Caller(c) = s,
         callId'[c] = nextId[s],
         nextId' = [nextId EXCEPT ![s] = nextId[s] + 1],
         \A d \in Calls \ {c} : callId'[d] = callId[d]
  PROVE  /\ Fresh' /\ Distinct'
         /\ \A d \in Calls : callId[d] = nextId[s] => Caller(d) # s
  <1>1. \A d \in Calls : Caller(d) = s => callId[d] < nextId[s] /\ callId[d] # nextId[s]
    BY DEF IInv, Fresh, TypeOK, Ids
  <1>2. Fresh'
    <2> SUFFICES ASSUME NEW d \in Calls PROVE callId'[d] < nextId'[Caller(d)]
      BY DEF Fresh
    <2>1. /\ nextId'[s] = nextId[s] + 1 /\ nextId[s] \in Nat
          /\ \A x \in Sides \ {s} : nextId'[x] = nextId[x]
      BY DEF TypeOK
    <2>2. CASE d = c
      BY <2>1, <2>2
    <2>3. CASE d # c /\ Caller(d) = s
      BY <1>1, <2>1, <2>3 DEF TypeOK, Ids
    <2>4. CASE d # c /\ Caller(d) # s
      BY <2>1, <2>4, SideFacts DEF IInv, Fresh
    <2> QED
      BY <2>2, <2>3, <2>4
  <1>3. Distinct'
    BY <1>1 DEF IInv, Distinct
  <1> QED
    BY <1>1, <1>2, <1>3

LEMMA ClientCallStep ==
  ASSUME TypeOK, IInv, NEW c \in Calls, ClientCall(c)
  PROVE  IInv'
  <1> DEFINE id == IF c \in WithCallback THEN nextId["client"] ELSE 0
  <1>1. /\ Caller(c) = "client" /\ "client" \in Sides
        /\ stage[c] = "new" /\ callId[c] = 0 /\ runs[c] = 0
        /\ answers[c] = {} /\ completions[c] = 0 /\ given[c] = 0
    BY SideFacts DEF ClientCall, IInv, Begun, Bodies, Completions, TypeOK, Sides
  <1>2. /\ id \in Ids
        /\ UNCHANGED <<given, fired, runs, answers, result, completions>>
        /\ callId' = [callId EXCEPT ![c] = id]
        /\ stage' \in {[stage EXCEPT ![c] = "sent"], [stage EXCEPT ![c] = "failed"]}
    BY <1>1 DEF ClientCall, TypeOK, Ids, body, completed
  <1>3. /\ callId'[c] = id /\ stage'[c] \in {"sent", "failed"}
        /\ \A d \in Calls \ {c} : stage'[d] = stage[d] /\ callId'[d] = callId[d]
    BY <1>2 DEF TypeOK
  <1>4. ASSUME c \in WithCallback PROVE Fresh' /\ Distinct' /\ TableExact'
    <2>1. /\ id = nextId["client"] /\ id \in Ids \ {0}
          /\ nextId' = [nextId EXCEPT !["client"] = id + 1]
          /\ callbacks' = [callbacks EXCEPT !["client"][id] = c]
      BY <1>1, <1>2, <1>4 DEF ClientCall, TypeOK
    <2> HIDE DEF id
    <2>2. /\ Fresh' /\ Distinct'
          /\ \A d \in Calls : callId[d] = id => Caller(d) # "client"
      BY <1>1, <1>3, <2>1, IdTaken
    <2>3. TableExact'
      <3>1. ~Waiting(c) /\ TableExact
        BY <1>1 DEF Waiting, IInv
      <3>2. callbacks' = [callbacks EXCEPT ![Caller(c)][id] = c]
        BY <1>1, <2>1
      <3>3. \A d \in Calls \ {c} : callId[d] = id => Caller(d) # Caller(c)
        BY <1>1, <2>2
      <3>4. completions' = completions
        BY <1>2
      <3> QED
        BY <1>1, <1>3, <2>1, <3>1, <3>2, <3>3, <3>4, TablePut
    <2> QED
      BY <2>2, <2>3
  <1>5. ASSUME c \notin WithCallback PROVE Fresh' /\ Distinct' /\ TableExact'
    <2>1. id = 0 /\ UNCHANGED <<nextId, callbacks>>
      BY <1>5 DEF ClientCall, tables
    <2> HIDE DEF id
    <2>2. Fresh'
      BY <1>1, <1>3, <2>1 DEF IInv, Fresh, TypeOK
    <2>3. Distinct'
      BY <1>1, <1>3, <2>1 DEF IInv, Distinct
    <2>4. TableExact'
      <3>1. ~Waiting(c) /\ ~Waiting(c)'
        BY <1>1, <1>3, <2>1 DEF Waiting
      <3> QED
        BY <1>2, <1>3, <2>1, <3>1, TableKept DEF IInv
    <2> QED
      BY <2>2, <2>3, <2>4
  <1>6. Begun' /\ Bodies' /\ Completions'
    BY <1>1, <1>2, <1>3 DEF IInv, Begun, Bodies, Completions, RightAnswer
  <1>7. Invocations' /\ Answers'
    <2>1. CASE ws = "OPEN" /\ c \notin Unencodable
      <3>1. Transmit("client", InvocationOf(c, id)) /\ stage'[c] = "sent"
        BY <1>1, <2>1 DEF ClientCall, TypeOK
      <3> HIDE DEF id
      <3> QED
        BY <1>1, <1>2, <1>3, <3>1, InvocationSent DEF IInv
    <2>2. CASE ~(ws = "OPEN" /\ c \notin Unencodable)
      <3>1. wire' = wire
        BY <2>2 DEF ClientCall
      <3> HIDE DEF id
      <3> QED
        BY <1>1, <1>2, <1>3, <3>1, NothingSent DEF IInv
    <2> QED
      BY <2>1, <2>2
  <1> QED
    BY <1>4, <1>5, <1>6, <1>7 DEF IInv

LEMMA ServerAllocateStep ==
  ASSUME TypeOK, IInv, NEW c \in Calls, ServerAllocate(c)
  PROVE  IInv'
  <1>1. /\ Caller(c) = "server" /\ "server" \in Sides
        /\ stage[c] = "new" /\ callId[c] = 0 /\ runs[c] = 0
        /\ answers[c] = {} /\ completions[c] = 0 /\ given[c] = 0
    BY SideFacts DEF ServerAllocate, IInv, Begun, Bodies, Completions, TypeOK, Sides
  <1>2. UNCHANGED <<wire, callbacks, given, fired, runs, answers, result, completions>>
    BY DEF ServerAllocate, body, completed
  <1>3. ASSUME c \in WithCallback
        PROVE  /\ Fresh' /\ Distinct'
               /\ callId'[c] # 0 /\ stage'[c] = "allocated"
               /\ \A d \in Calls \ {c} :
                    stage'[d] = stage[d] /\ callId'[d] = callId[d]
    <2>1. /\ callId' = [callId EXCEPT ![c] = nextId["server"]]
          /\ nextId' = [nextId EXCEPT !["server"] = nextId["server"] + 1]
          /\ stage' = [stage EXCEPT ![c] = "allocated"]
      BY <1>3 DEF ServerAllocate
    <2>2. /\ callId'[c] = nextId["server"] /\ callId'[c] # 0
          /\ stage'[c] = "allocated"
          /\ \A d \in Calls \ {c} : stage'[d] = stage[d] /\ callId'[d] = callId[d]
      BY <1>1, <2>1 DEF TypeOK
    <2> QED
      BY <1>1, <2>1, <2>2, IdTaken
  <1>4. ASSUME c \notin WithCallback
        PROVE  /\ Fresh' /\ Distinct'
               /\ callId'[c] = 0 /\ stage'[c] = "registered"
               /\ \A d \in Calls \ {c} :
                    stage'[d] = stage[d] /\ callId'[d] = callId[d]
    <2>1. UNCHANGED <<nextId, callId>> /\ stage' = [stage EXCEPT ![c] = "registered"]
      BY <1>4 DEF ServerAllocate
    <2> QED
      BY <1>1, <2>1 DEF IInv, Fresh, Distinct, TypeOK
  <1>5. /\ \/ stage'[c] = "allocated" /\ callId'[c] # 0
           \/ stage'[c] = "registered" /\ callId'[c] = 0
        /\ \A d \in Calls \ {c} : stage'[d] = stage[d] /\ callId'[d] = callId[d]
        /\ Fresh' /\ Distinct'
    BY <1>3, <1>4
  <1>6. Begun' /\ Bodies' /\ Completions'
    BY <1>1, <1>2, <1>5 DEF IInv, Begun, Bodies, Completions, RightAnswer
  <1>7. Invocations' /\ Answers'
    BY <1>1, <1>2, <1>5, NothingSent DEF IInv
  <1>8. TableExact'
    <2>1. ~Waiting(c) /\ ~Waiting(c)'
      BY <1>1, <1>5 DEF Waiting
    <2> QED
      BY <1>2, <1>5, <2>1, TableKept DEF IInv
  <1> QED
    BY <1>5, <1>6, <1>7, <1>8 DEF IInv

LEMMA ServerRegisterStep ==
  ASSUME TypeOK, IInv, NEW c \in Calls, ServerRegister(c)
  PROVE  IInv'
  <1>1. /\ Caller(c) = "server" /\ "server" \in Sides
        /\ stage[c] = "allocated" /\ callId[c] \in Ids \ {0} /\ runs[c] = 0
        /\ completions[c] = 0 /\ answers[c] = {} /\ given[c] = 0
    BY SideFacts DEF ServerRegister, IInv, Begun, Bodies, Completions, TypeOK, Sides
  <1>2. UNCHANGED <<wire, nextId, callId, given, fired, runs, answers, result,
                    completions>>
    BY DEF ServerRegister, body, completed
  <1>3. /\ stage'[c] = "registered"
        /\ \A d \in Calls \ {c} : stage'[d] = stage[d]
    BY DEF ServerRegister, TypeOK
  <1>4. Fresh' /\ Distinct' /\ Begun' /\ Bodies' /\ Completions'
    BY <1>1, <1>2, <1>3
    DEF IInv, Fresh, Distinct, Begun, Bodies, Completions, RightAnswer
  <1>5. Invocations' /\ Answers'
    BY <1>1, <1>2, <1>3, NothingSent DEF IInv
  <1>6. TableExact'
    <2>1. callbacks' = [callbacks EXCEPT ![Caller(c)][callId[c]] = c]
      BY <1>1 DEF ServerRegister
    <2>2. \A d \in Calls \ {c} : callId[d] = callId[c] => Caller(d) # Caller(c)
      BY <1>1 DEF IInv, Distinct
    <2>3. ~Waiting(c) /\ TableExact
      BY <1>1 DEF Waiting, IInv
    <2> QED
      BY <1>1, <1>2, <1>3, <2>1, <2>2, <2>3, TablePut
  <1> QED
    BY <1>4, <1>5, <1>6 DEF IInv

LEMMA ServerSendStep ==
  ASSUME TypeOK, IInv, NEW c \in Calls, ServerSend(c)
  PROVE  IInv'
  <1>1. /\ Caller(c) = "server" /\ "server" \in Sides
        /\ stage[c] = "registered" /\ callId[c] \in Ids /\ runs[c] = 0
        /\ answers[c] = {} /\ given[c] = 0
    BY SideFacts DEF ServerSend, IInv, Bodies, TypeOK, Sides
  <1>2. UNCHANGED <<nextId, callbacks, callId, given, fired, runs, answers, result,
                    completions>>
    BY DEF ServerSend, tables, body, completed
  <1>3. /\ stage'[c] \in {"sent", "failed"}
        /\ \A d \in Calls \ {c} : stage'[d] = stage[d]
    BY DEF ServerSend, TypeOK
  <1>4. Fresh' /\ Distinct' /\ Begun' /\ Bodies' /\ Completions'
    BY <1>1, <1>2, <1>3
    DEF IInv, Fresh, Distinct, Begun, Bodies, Completions, RightAnswer
  <1>5. TableExact'
    BY <1>1, <1>2, <1>3 DEF IInv, TableExact, Waiting
  <1>6. Invocations' /\ Answers'
    <2>1. CASE session = "open" /\ c \notin Unencodable
      <3>1. Transmit("server", InvocationOf(c, callId[c])) /\ stage'[c] = "sent"
        BY <2>1 DEF ServerSend, TypeOK
      <3> QED
        BY <1>1, <1>2, <1>3, <3>1, InvocationSent DEF IInv
    <2>2. CASE ~(session = "open" /\ c \notin Unencodable)
      <3>1. wire' = wire
        BY <2>2 DEF ServerSend
      <3> QED
        BY <1>1, <1>2, <1>3, <3>1, NothingSent DEF IInv
    <2> QED
      BY <2>1, <2>2
  <1> QED
    BY <1>4, <1>5, <1>6 DEF IInv

LEMMA ReceiveStep ==
  ASSUME TypeOK, IInv, NEW s \in Sides, NEW runnable, Receive(s, runnable)
  PROVE  IInv'
  <1> DEFINE m == Head(wire[s])
  <1>1. /\ wire[s] # <<>> /\ wire' = [wire EXCEPT ![s] = Tail(@)]
        /\ UNCHANGED <<stage, callId>>
    BY DEF Receive, making
  <1>2. /\ m \in Message /\ m = wire[s][1] /\ 1 \in 1 .. Len(wire[s])
        /\ m.call \in Calls /\ m.id \in Ids
    BY <1>1, TailAt, MessageFacts DEF TypeOK
  <1>3. CASE m.kind = "callback"
    <2>1. Complete(s, m)
      BY <1>3 DEF Receive
    <2>2. UNCHANGED <<nextId, given, fired, runs, answers>>
      BY <2>1 DEF Complete, body
    <2>3. Fresh' /\ Distinct' /\ Begun' /\ Bodies'
      BY <1>1, <2>2 DEF IInv, Fresh, Distinct, Begun, Bodies
    <2>4. Invocations' /\ Answers'
      BY <1>1, <2>2, MessageTaken DEF IInv
    <2>5. CASE callbacks[s][m.id] = NoCall
      <3>1. UNCHANGED <<callbacks, result, completions>>
        BY <2>1, <2>5 DEF Complete, completed
      <3>2. TableExact' /\ Completions'
        BY <1>1, <2>2, <3>1
        DEF IInv, TableExact, Waiting, Completions, RightAnswer
      <3> QED
        BY <2>3, <2>4, <3>2 DEF IInv
    <2>6. CASE callbacks[s][m.id] # NoCall
      <3> DEFINE c == m.call
      <3>1. /\ callbacks[s][m.id] = c /\ Caller(c) = s /\ m.id = callId[c]
            /\ m.success \in answers[c] /\ runs[c] = 1 /\ completions[c] = 0
        BY <1>1, <1>3, <2>6, AnswerFindsItsCall
      <3>2. /\ callbacks' = [callbacks EXCEPT ![s][m.id] = NoCall]
            /\ result' = [result EXCEPT
                 ![c] = @ \cup {[for |-> c, success |-> m.success]}]
            /\ completions' = [completions EXCEPT ![c] = @ + 1]
        BY <2>1, <2>6, <3>1 DEF Complete
      <3>3. /\ result'[c] = {[for |-> c, success |-> m.success]}
            /\ completions'[c] = 1
            /\ \A d \in Calls \ {c} :
                 result'[d] = result[d] /\ completions'[d] = completions[d]
        BY <1>2, <3>1, <3>2 DEF TypeOK, IInv, Completions
      <3>4. Completions'
        <4> HIDE DEF m
        <4>1. \A d \in Calls : \A r \in result'[d] :
                r.for = d /\ r.success \in answers[d] /\ runs[d] = 1
          BY <1>2, <3>1, <3>3 DEF IInv, Completions, RightAnswer
        <4>2. \A d \in Calls : /\ completions'[d] \in {0, 1}
                               /\ completions'[d] = 0 => result'[d] = {}
                               /\ completions'[d] = 1 => runs[d] = 1
          BY <1>2, <3>1, <3>3 DEF IInv, Completions
        <4> QED
          BY <2>2, <4>1, <4>2 DEF Completions, RightAnswer
      <3>5. TableExact'
        <4> HIDE DEF m
        <4> SUFFICES ASSUME NEW x \in Sides, NEW i \in Ids, NEW d \in Calls
                     PROVE  callbacks'[x][i] = d
                              <=> Caller(d) = x /\ callId'[d] = i /\ Waiting(d)'
          BY DEF TableExact
        <4>1. CASE x = s /\ i = m.id
          <5>1. callbacks'[x][i] = NoCall
            BY <1>2, <3>2, <4>1 DEF TypeOK
          <5>2. callbacks'[x][i] # d
            BY <5>1, CallsAssumption
          <5>3. ASSUME Caller(d) = x, callId'[d] = i, Waiting(d)' PROVE FALSE
            <6>1. d # c /\ Waiting(d)
              BY <1>1, <3>3, <5>3 DEF Waiting
            <6> QED
              BY <1>1, <3>1, <4>1, <5>3, <6>1 DEF IInv, TableExact
          <5> QED
            BY <5>2, <5>3
        <4>2. CASE ~(x = s /\ i = m.id)
          <5>1. callbacks'[x][i] = callbacks[x][i]
            BY <3>2, <4>2 DEF TypeOK
          <5>2. CASE d = c
            BY <1>1, <3>1, <4>2, <5>1, <5>2 DEF IInv, TableExact
          <5>3. CASE d # c
            <6>1. Waiting(d)' <=> Waiting(d)
              BY <1>1, <3>3, <5>3 DEF Waiting
            <6> QED
              BY <1>1, <5>1, <6>1 DEF IInv, TableExact
          <5> QED
            BY <5>2, <5>3
        <4> QED
          BY <4>1, <4>2
      <3> QED
        BY <2>3, <2>4, <3>4, <3>5 DEF IInv
    <2> QED
      BY <2>5, <2>6
  <1>4. CASE m.kind = "invocation" /\ m.call \in runnable
    <2>1. /\ runs' = [runs EXCEPT ![m.call] = @ + 1]
          /\ given' = [given EXCEPT ![m.call] = m.id]
          /\ UNCHANGED <<nextId, callbacks, answers, result, completions>>
      BY <1>4 DEF Receive, RunBody, tables, completed
    <2>2. /\ runs[m.call] = 0 /\ stage[m.call] = "sent"
          /\ m.id = callId[m.call]
      BY <1>2, <1>4 DEF IInv, Invocations
    <2>3. Invocations' /\ Answers'
      BY <1>1, <1>4, <2>1, MessageTaken DEF IInv
    <2> HIDE DEF m
    <2>4. /\ runs'[m.call] = 1 /\ given'[m.call] = callId[m.call]
          /\ \A d \in Calls \ {m.call} : runs'[d] = runs[d] /\ given'[d] = given[d]
      BY <1>2, <2>1, <2>2 DEF TypeOK
    <2>5. Bodies'
      BY <1>1, <1>2, <2>1, <2>2, <2>4 DEF IInv, Bodies
    <2>6. Completions'
      BY <1>2, <2>1, <2>2, <2>4 DEF IInv, Completions, RightAnswer
    <2>7. Fresh' /\ Distinct' /\ Begun' /\ TableExact'
      BY <1>1, <1>2, <2>1, <2>2, <2>4
      DEF IInv, Fresh, Distinct, Begun, TableExact, Waiting
    <2> QED
      BY <2>3, <2>5, <2>6, <2>7 DEF IInv
  <1>5. CASE m.kind = "invocation" /\ m.call \notin runnable
    <2>1. UNCHANGED <<nextId, callbacks, given, fired, runs, answers, result,
                      completions>>
      BY <1>5 DEF Receive, body, tables, completed
    <2>2. Invocations' /\ Answers'
      BY <1>1, <2>1, MessageTaken DEF IInv
    <2>3. /\ Fresh' /\ Distinct' /\ Begun' /\ Bodies' /\ TableExact'
          /\ Completions'
      BY <1>1, <2>1 DEF IInv, Fresh, Distinct, Begun, Bodies, TableExact, Waiting,
                        Completions, RightAnswer
    <2> QED
      BY <2>2, <2>3 DEF IInv
  <1> QED
    BY <1>2, <1>3, <1>4, <1>5, MessageFacts

LEMMA RespondStep ==
  ASSUME TypeOK, IInv, NEW s \in Sides, NEW u, NEW c \in Calls,
         NEW ok \in BOOLEAN, Caller(c) = Peer(s), Respond(s, u, c, ok)
  PROVE  IInv'
  <1>1. /\ given[c] # 0 /\ given[c] = callId[c] /\ runs[c] = 1
        /\ answers' = [answers EXCEPT ![c] = @ \cup {ok}]
        /\ UNCHANGED <<nextId, callbacks, stage, callId, given, runs, result,
                       completions>>
    BY DEF Respond, IInv, Bodies, tables, making, completed
  <1>2. \/ Transmit(s, [kind |-> "callback", call |-> c, id |-> given[c],
                        success |-> ok])
        \/ wire' = wire
    BY DEF Respond
  <1>3. Invocations' /\ Answers'
    BY <1>1, <1>2, AnswerSent DEF IInv
  <1>4. \A d \in Calls : /\ answers[d] \subseteq answers'[d]
                         /\ d # c => answers'[d] = answers[d]
    BY <1>1 DEF TypeOK
  <1>5. Bodies' /\ Completions'
    BY <1>1, <1>4 DEF IInv, Bodies, Completions, RightAnswer
  <1>6. Fresh' /\ Distinct' /\ Begun' /\ TableExact'
    BY <1>1 DEF IInv, Fresh, Distinct, Begun, TableExact, Waiting
  <1> QED
    BY <1>3, <1>5, <1>6 DEF IInv

LEMMA InvStep == TypeOK /\ IInv /\ [Next]_vars => IInv'
  <1> SUFFICES ASSUME TypeOK, IInv, [Next]_vars PROVE IInv'
    OBVIOUS
  <1>1. ASSUME NEW present \in BOOLEAN, SetClient(present) PROVE IInv'
    BY <1>1, ConnectionStep DEF SetClient
  <1>2. CASE ClientOnOpen \/ ClientClose \/ ServerOnOpen
    BY <1>2, ConnectionStep DEF ClientOnOpen, ClientClose, ServerOnOpen
  <1>3. CASE ClientOnClose \/ ServerOnClose
    BY <1>3, ConnectionStep DEF ClientOnClose, ServerOnClose, Sides
  <1>4. CASE UNCHANGED vars
    BY <1>4, ConnectionStep DEF vars
  <1>5. CASE HandleMessage \/ OnMessage
    BY <1>5, ReceiveStep DEF HandleMessage, OnMessage, Sides
  <1>6. ASSUME NEW c \in Calls,
               \/ ClientCall(c)
               \/ ServerAllocate(c) \/ ServerRegister(c) \/ ServerSend(c)
        PROVE  IInv'
    BY <1>6, ClientCallStep, ServerAllocateStep, ServerRegisterStep, ServerSendStep
  <1>7. ASSUME NEW c \in Calls, NEW ok \in BOOLEAN, ClientAnswer(c, ok)
        PROVE  IInv'
    <2>1. Caller(c) = Peer("client") /\ "client" \in Sides
      BY <1>7, SideFacts DEF ClientAnswer, Peer, Sides
    <2> QED
      BY <1>7, <2>1, RespondStep DEF ClientAnswer
  <1>8. ASSUME NEW c \in Calls, NEW ok \in BOOLEAN, NEW u \in Threads,
               ServerAnswer(u, c, ok)
        PROVE  IInv'
    <2>1. Caller(c) = Peer("server") /\ "server" \in Sides
      BY <1>8, SideFacts DEF ServerAnswer, Peer, Sides
    <2> QED
      BY <1>8, <2>1, RespondStep DEF ServerAnswer
  <1> QED
    BY <1>1, <1>2, <1>3, <1>4, <1>5, <1>6, <1>7, <1>8 DEF Next

THEOREM Invariance == Spec => [](TypeOK /\ IInv)
  <1> QED
    BY TypeInit, TypeStep, InvInit, InvStep, PTL DEF Spec

(***************************************************************************)
(* What the invariant gives.                                               *)
(***************************************************************************)

\* A Callback is in its end's table, under its call's id, exactly from put to
\* completion.
THEOREM TableIsExact == Spec => []TableExact
  <1>1. IInv => TableExact
    BY DEF IInv
  <1> QED
    BY <1>1, Invariance, PTL

\* Whatever threads of the server call meanwhile, an answer that arrives finds
\* the Callback of its own call, unless that was completed before.
THEOREM NoAnswerIsLost == Spec => []NoLostAnswer
  <1>1. TypeOK /\ IInv => NoLostAnswer
    <2> SUFFICES ASSUME TypeOK, IInv, NEW s \in Sides, NEW i \in 1 .. Len(wire[s]),
                        wire[s][i].kind = "callback",
                        completions[wire[s][i].call] = 0
                 PROVE  callbacks[s][wire[s][i].id] = wire[s][i].call
      <3>1. \A s \in Sides : DOMAIN wire[s] = 1 .. Len(wire[s])
        BY LenProperties DEF TypeOK
      <3> QED
        BY <3>1 DEF NoLostAnswer, InFlight
    <2>1. wire[s][i].call \in Calls /\ wire[s][i].id \in Ids
      BY ElementOfSeq, MessageFacts DEF TypeOK
    <2>2. /\ Caller(wire[s][i].call) = s
          /\ wire[s][i].id = callId[wire[s][i].call] /\ wire[s][i].id # 0
          /\ stage[wire[s][i].call] = "sent"
      BY <2>1 DEF IInv, Answers, Bodies
    <2> QED
      BY <2>1, <2>2 DEF IInv, TableExact, Waiting
  <1> QED
    BY <1>1, Invariance, PTL

\* A Callback is completed only with an outcome the body of its own call gave.
THEOREM AnswersAreRight == Spec => []RightAnswer
  <1>1. IInv => RightAnswer
    BY DEF IInv, Completions
  <1> QED
    BY <1>1, Invariance, PTL

\* A Callback completes at most once, however many threads of the server got
\* past the unsynchronized `fired` flag of the one that answers it.
THEOREM CompletesAtMostOnce == Spec => []CompletedAtMostOnce
  <1>1. IInv => CompletedAtMostOnce
    BY DEF IInv, Completions, CompletedAtMostOnce
  <1> QED
    BY <1>1, Invariance, PTL

\* No close, failed send, ignored message or later call takes a Callback out of
\* its table or replaces it: only its completion removes it.
THEOREM OnlyCompletionRemovesIt == Spec => OnlyCompletionRemoves
  <1> DEFINE Removal ==
        \A s \in Sides : \A i \in Ids :
          callbacks[s][i] \notin {NoCall, callbacks'[s][i]} =>
            /\ callbacks'[s][i] = NoCall
            /\ completions'[callbacks[s][i]] = completions[callbacks[s][i]] + 1
  <1>1. callbacks' = callbacks => Removal
    OBVIOUS
  <1>2. ASSUME TypeOK, IInv, NEW s \in Sides, NEW runnable, Receive(s, runnable)
        PROVE  Removal
    <2> DEFINE m == Head(wire[s])
    <2>1. m.id \in Ids
      BY <1>2, TailAt, MessageFacts DEF Receive, TypeOK
    <2>2. CASE m.kind = "callback" /\ callbacks[s][m.id] # NoCall
      <3> DEFINE c == callbacks[s][m.id]
      <3>1. /\ c \in Calls
            /\ callbacks' = [callbacks EXCEPT ![s][m.id] = NoCall]
            /\ completions' = [completions EXCEPT ![c] = @ + 1]
        BY <1>2, <2>1, <2>2 DEF Receive, Complete, TypeOK
      <3>2. completions'[c] = completions[c] + 1
        BY <1>2, <3>1 DEF TypeOK
      <3>3. \A x \in Sides : \A i \in Ids :
              callbacks'[x][i] = IF x = s /\ i = m.id THEN NoCall ELSE callbacks[x][i]
        BY <1>2, <2>1, <3>1 DEF TypeOK
      <3> HIDE DEF m
      <3> QED
        BY <3>2, <3>3
    <2>3. CASE ~(m.kind = "callback" /\ callbacks[s][m.id] # NoCall)
      <3>1. callbacks' = callbacks
        BY <1>2, <2>3 DEF Receive, Complete, RunBody, tables
      <3> QED
        BY <1>1, <3>1
    <2> QED
      BY <2>2, <2>3
  <1>3. ASSUME TypeOK, IInv, NEW c \in Calls,
               \/ ClientCall(c) /\ c \in WithCallback
               \/ ServerRegister(c)
        PROVE  Removal
    <2>1. PICK s \in Sides, i \in Ids :
            /\ callbacks' = [callbacks EXCEPT ![s][i] = c]
            /\ \A d \in Calls \ {c} : callId[d] = i => Caller(d) # s
      <3>1. CASE ClientCall(c) /\ c \in WithCallback
        <4> DEFINE i == nextId["client"]
        <4>1. /\ callbacks' = [callbacks EXCEPT !["client"][i] = c]
              /\ i \in Ids /\ "client" \in Sides
          BY <1>3, <3>1 DEF ClientCall, TypeOK, Sides, Ids
        <4>2. \A d \in Calls : callId[d] = i => Caller(d) # "client"
          BY <1>3 DEF IInv, Fresh, TypeOK, Ids
        <4> QED
          BY <4>1, <4>2
      <3>2. CASE ServerRegister(c)
        <4>1. /\ callbacks' = [callbacks EXCEPT !["server"][callId[c]] = c]
              /\ callId[c] \in Ids /\ callId[c] # 0 /\ Caller(c) = "server"
          BY <1>3, <3>2, SideFacts DEF ServerRegister, IInv, Begun, TypeOK
        <4>2. \A d \in Calls \ {c} : callId[d] = callId[c] => Caller(d) # "server"
          BY <1>3, <4>1 DEF IInv, Distinct
        <4> QED
          BY <4>1, <4>2 DEF Sides
      <3> QED
        BY <1>3, <3>1, <3>2
    <2>2. \A d \in Calls \ {c} : callbacks[s][i] # d
      BY <1>3, <2>1 DEF IInv, TableExact
    <2>3. callbacks[s][i] \in {NoCall, c}
      BY <1>3, <2>2 DEF TypeOK
    <2>4. \A x \in Sides : \A j \in Ids :
            callbacks'[x][j] = IF x = s /\ j = i THEN c ELSE callbacks[x][j]
      BY <1>3, <2>1 DEF TypeOK
    <2> QED
      BY <2>3, <2>4
  <1> HIDE DEF Removal
  <1>4. ASSUME TypeOK, IInv, [Next]_vars PROVE Removal
    <2>1. CASE HandleMessage \/ OnMessage
      BY <1>2, <1>4, <2>1 DEF HandleMessage, OnMessage, Sides
    <2>2. ASSUME NEW c \in Calls, ClientCall(c) \/ ServerRegister(c) PROVE Removal
      BY <1>1, <1>3, <1>4, <2>2 DEF ClientCall, tables
    <2>3. ASSUME UNCHANGED callbacks PROVE Removal
      BY <1>1, <2>3
    <2> QED
      BY <1>4, <2>1, <2>2, <2>3
      DEF Next, SetClient, ClientOnOpen, ClientClose, ClientOnClose, ServerOnOpen,
          ServerOnClose, ServerAllocate, ServerSend, ClientAnswer, ServerAnswer,
          Respond, tables, vars
  <1>5. TypeOK /\ IInv /\ [Next]_vars => [Removal]_vars
    BY <1>4
  <1> QED
    BY <1>5, Invariance, PTL DEF Spec, OnlyCompletionRemoves, Removal

\* A client object that was told onClose has no method called any more.
THEOREM NoMethodAfterOnClose == Spec => NothingAfterOnClose
  <1> DEFINE Closed == life = "closed" => ws = "CLOSED"
             Quiet == \A c \in ServerCalls : runs'[c] # runs[c] => life # "closed"
  <1>1. Init => Closed
    BY DEF Init
  <1>2. Closed /\ [Next]_vars => Closed'
    BY DEF Next, SetClient, ClientOnOpen, ClientClose, ClientOnClose, ServerOnOpen,
           ServerOnClose, HandleMessage, OnMessage, Receive, ClientCall,
           ServerAllocate, ServerRegister, ServerSend, ClientAnswer, ServerAnswer,
           Respond, connection, vars
  <1>3. TypeOK /\ IInv /\ Closed /\ [Next]_vars => [Quiet]_vars
    <2> SUFFICES ASSUME TypeOK, IInv, Closed, [Next]_vars PROVE Quiet
      OBVIOUS
    <2>1. CASE OnMessage
      BY <2>1 DEF OnMessage
    <2>2. CASE HandleMessage
      <3> DEFINE m == Head(wire["server"])
      <3>1. /\ m \in Message /\ m = wire["server"][1]
            /\ 1 \in 1 .. Len(wire["server"]) /\ "server" \in Sides
        BY <2>2, TailAt DEF HandleMessage, Receive, TypeOK, Sides
      <3>2. \/ runs' = runs
            \/ m.kind = "invocation" /\ runs' = [runs EXCEPT ![m.call] = @ + 1]
        BY <2>2, <3>1, MessageFacts
        DEF HandleMessage, Receive, Complete, RunBody, body
      <3>3. m.kind = "invocation" => Caller(m.call) = "client"
        BY <3>1 DEF IInv, Invocations, Peer
      <3>4. \A c \in ServerCalls : c \in Calls /\ Caller(c) = "server"
        BY SideFacts DEF Calls
      <3> QED
        BY <3>2, <3>3, <3>4 DEF TypeOK
    <2>3. ASSUME UNCHANGED runs PROVE Quiet
      BY <2>3
    <2> HIDE DEF Quiet
    <2> QED
      BY <2>1, <2>2, <2>3
      DEF Next, SetClient, ClientOnOpen, ClientClose, ClientOnClose, ServerOnOpen,
          ServerOnClose, ClientCall, ServerAllocate, ServerRegister, ServerSend,
          ClientAnswer, ServerAnswer, Respond, body, vars
  <1> HIDE DEF Closed
  <1> QED
    BY <1>1, <1>2, <1>3, Invariance, PTL DEF Spec, NothingAfterOnClose, Quiet

(***************************************************************************)
(* The page's calls run in the order they were made.                       *)
(***************************************************************************)
OrderedCalls == ClientCalls \cap WithCallback
ToServer == 1 .. Len(wire["server"])
IsInvocation(i) == wire["server"][i].kind = "invocation"

\* A call of the page that takes a Callback has an id from the moment it is made.
Numbered == \A c \in OrderedCalls : stage[c] # "new" => callId[c] # 0

\* Invocations with ids wait for the server in the order of their ids.
Ordered ==
  \A i, j \in ToServer :
    /\ IsInvocation(i) /\ wire["server"][i].id # 0
    /\ IsInvocation(j) /\ wire["server"][j].id # 0
    /\ i < j
    => wire["server"][i].id < wire["server"][j].id

\* What the page sent has run or is on its way, while the session can still run it.
Queued(c) == \E i \in ToServer : IsInvocation(i) /\ wire["server"][i].call = c
Served ==
  \A c \in OrderedCalls \ Unknown :
    stage[c] = "sent" => runs[c] = 1 \/ session = "closed" \/ Queued(c)

OrderInv == Numbered /\ Ordered /\ Served /\ ClientCallsRunInOrder

LEMMA OrderInit == Init => OrderInv
  <1> SUFFICES ASSUME Init PROVE OrderInv
    OBVIOUS
  <1>1. wire["server"] = <<>>
    BY DEF Init, Sides
  <1>2. ToServer = {}
    BY <1>1, EmptySeq DEF ToServer
  <1>3. \A c \in OrderedCalls : c \in Calls /\ stage[c] = "new"
    BY DEF Init, OrderedCalls, Calls
  <1> QED
    BY <1>2, <1>3
    DEF OrderInv, Numbered, Ordered, Served, ClientCallsRunInOrder, OrderedCalls

\* A step that touches neither the queue to the server nor a call of the page.
LEMMA OrderKept ==
  ASSUME OrderInv, wire'["server"] = wire["server"],
         session' = session \/ session = "none",
         \A c \in OrderedCalls :
           stage'[c] = stage[c] /\ callId'[c] = callId[c] /\ runs'[c] = runs[c]
  PROVE  OrderInv'
  BY DEF OrderInv, Numbered, Ordered, Served, ClientCallsRunInOrder, OrderedCalls,
         ToServer, IsInvocation, Queued

\* A message of the page goes behind those that wait, or the session is closed.
LEMMA QueueGrows ==
  ASSUME TypeOK, NEW m \in Message, Transmit("client", m), ws = "OPEN"
  PROVE  \/ wire'["server"] = wire["server"] /\ session = "closed"
         \/ /\ Len(wire'["server"]) = Len(wire["server"]) + 1
            /\ Len(wire["server"]) \in Nat
            /\ \A i \in ToServer : wire'["server"][i] = wire["server"][i]
            /\ wire'["server"][Len(wire["server"]) + 1] = m
  <1>1. wire["server"] \in Seq(Message)
    BY DEF TypeOK, Sides
  <1>2. \/ session = "closed" /\ wire' = wire
        \/ wire'["server"] = Append(wire["server"], m)
    BY DEF Transmit, CanSend, Reachable, Peer, TypeOK, Sides
  <1> QED
    BY <1>1, <1>2, AppendAt, LenProperties DEF ToServer

\* The page makes a call: its id is above all those given before.
LEMMA ClientCallOrder ==
  ASSUME TypeOK, TypeOK', IInv, OrderInv, NEW c \in Calls, ClientCall(c)
  PROVE  OrderInv'
  <1> DEFINE id == IF c \in WithCallback THEN nextId["client"] ELSE 0
             m == InvocationOf(c, id)
  <1>1. /\ c \in ClientCalls /\ stage[c] = "new" /\ Caller(c) = "client"
        /\ callId' = [callId EXCEPT ![c] = id]
        /\ stage' \in {[stage EXCEPT ![c] = "sent"], [stage EXCEPT ![c] = "failed"]}
        /\ runs' = runs /\ session' = session /\ id \in Ids
    BY SideFacts DEF ClientCall, body, connection, TypeOK, Ids, Sides
  <1>2. /\ \A d \in OrderedCalls : d \in Calls /\ callId[d] \in Nat
        /\ \A d \in OrderedCalls \ {c} : stage'[d] = stage[d] /\ callId'[d] = callId[d]
        /\ \A d \in Calls : Caller(d) = "client" => callId[d] < nextId["client"]
        /\ nextId["client"] \in Nat \ {0}
    BY <1>1 DEF OrderedCalls, Calls, IInv, Fresh, TypeOK, Ids, Sides
  <1>3. /\ callId'[c] = id /\ stage'[c] # "new" /\ runs[c] = 0
        /\ (c \in WithCallback => id # 0 /\ \A d \in OrderedCalls : callId[d] < id)
    BY <1>1, <1>2, SideFacts DEF IInv, Bodies, TypeOK, OrderedCalls
  <1>4. m \in Message /\ m.kind = "invocation" /\ m.call = c /\ m.id = id
    BY <1>1, MessageFacts DEF InvocationOf
  <1>5. \A i \in ToServer : /\ IsInvocation(i) => /\ wire["server"][i].call # c
                                                  /\ wire["server"][i].call \in ClientCalls
                                                  /\ wire["server"][i].id < nextId["client"]
                            /\ wire["server"][i].id \in Ids
    <2> SUFFICES ASSUME NEW i \in ToServer
                 PROVE  /\ IsInvocation(i) => /\ wire["server"][i].call # c
                                              /\ wire["server"][i].call \in ClientCalls
                                              /\ wire["server"][i].id < nextId["client"]
                        /\ wire["server"][i].id \in Ids
      OBVIOUS
    <2>1. wire["server"][i] \in Message /\ "server" \in Sides
      BY ElementOfSeq DEF TypeOK, Sides, ToServer
    <2>2. wire["server"][i].call \in Calls /\ wire["server"][i].id \in Ids
      BY <2>1, MessageFacts
    <2>3. IsInvocation(i) => /\ Caller(wire["server"][i].call) = "client"
                             /\ stage[wire["server"][i].call] = "sent"
                             /\ wire["server"][i].id = callId[wire["server"][i].call]
      BY <2>1 DEF IInv, Invocations, ToServer, IsInvocation, Peer, Sides
    <2> QED
      BY <1>1, <1>2, <2>2, <2>3 DEF Caller
  <1> HIDE DEF id, m
  <1>6. \/ wire'["server"] = wire["server"] /\ (stage'[c] = "sent" => session = "closed")
        \/ /\ Len(wire'["server"]) = Len(wire["server"]) + 1
           /\ Len(wire["server"]) \in Nat
           /\ \A i \in ToServer : wire'["server"][i] = wire["server"][i]
           /\ wire'["server"][Len(wire["server"]) + 1] = m
    <2>1. CASE ws = "OPEN" /\ c \notin Unencodable
      <3>1. Transmit("client", m)
        BY <2>1 DEF ClientCall, id, m
      <3> QED
        BY <1>4, <2>1, <3>1, QueueGrows
    <2>2. CASE ~(ws = "OPEN" /\ c \notin Unencodable)
      <3>1. wire' = wire /\ stage' = [stage EXCEPT ![c] = "failed"]
        BY <2>2 DEF ClientCall
      <3> QED
        BY <3>1 DEF TypeOK
    <2> QED
      BY <2>1, <2>2
  <1>7. Numbered'
    BY <1>1, <1>2, <1>3 DEF OrderInv, Numbered, OrderedCalls
  <1>8. ClientCallsRunInOrder'
    <2> SUFFICES ASSUME NEW d \in OrderedCalls, NEW e \in OrderedCalls,
                        stage'[d] = "sent", stage'[e] = "sent", callId'[d] < callId'[e],
                        runs[e] > 0
                 PROVE  runs[d] > 0 \/ d \in Unknown
      BY <1>1 DEF ClientCallsRunInOrder, OrderedCalls
    <2>1. e # c
      BY <1>3
    <2>2. CASE d = c
      BY <1>1, <1>2, <1>3, <2>1, <2>2 DEF OrderedCalls, Ids
    <2>3. CASE d # c
      BY <1>2, <2>1, <2>3 DEF OrderInv, ClientCallsRunInOrder, OrderedCalls
    <2> QED
      BY <2>2, <2>3
  <1>9. CASE wire'["server"] = wire["server"] /\ (stage'[c] = "sent" => session = "closed")
    <2>1. Ordered'
      BY <1>9 DEF OrderInv, Ordered, ToServer, IsInvocation
    <2>2. Served'
      BY <1>1, <1>2, <1>9 DEF OrderInv, Served, Queued, ToServer, IsInvocation
    <2> QED
      BY <1>7, <1>8, <2>1, <2>2 DEF OrderInv
  <1>10. CASE /\ Len(wire'["server"]) = Len(wire["server"]) + 1
              /\ Len(wire["server"]) \in Nat
              /\ \A i \in ToServer : wire'["server"][i] = wire["server"][i]
              /\ wire'["server"][Len(wire["server"]) + 1] = m
    <2>1. \A i \in ToServer' : \/ i \in ToServer /\ wire'["server"][i] = wire["server"][i]
                               \/ i = Len(wire["server"]) + 1 /\ wire'["server"][i] = m
      BY <1>10 DEF ToServer
    <2>2. ToServer \subseteq ToServer' /\ Len(wire["server"]) + 1 \in ToServer'
      BY <1>10 DEF ToServer
    <2>3. Ordered'
      <3> SUFFICES ASSUME NEW i \in ToServer', NEW j \in ToServer',
                          IsInvocation(i)', wire'["server"][i].id # 0,
                          IsInvocation(j)', wire'["server"][j].id # 0, i < j
                   PROVE  wire'["server"][i].id < wire'["server"][j].id
        BY DEF Ordered
      <3>1. i \in ToServer /\ wire'["server"][i] = wire["server"][i]
        BY <1>10, <2>1 DEF ToServer
      <3>2. CASE j \in ToServer /\ wire'["server"][j] = wire["server"][j]
        BY <3>1, <3>2 DEF OrderInv, Ordered, IsInvocation
      <3>3. CASE wire'["server"][j] = m
        <4>1. id = nextId["client"]
          BY <1>4, <3>3 DEF id
        <4> QED
          BY <1>4, <1>5, <3>1, <3>3, <4>1 DEF IsInvocation
      <3> QED
        BY <2>1, <3>2, <3>3
    <2>4. Served'
      <3> SUFFICES ASSUME NEW d \in OrderedCalls \ Unknown, stage'[d] = "sent"
                   PROVE  runs'[d] = 1 \/ session' = "closed" \/ Queued(d)'
        BY DEF Served, OrderedCalls
      <3>1. CASE d = c
        BY <1>4, <1>10, <2>2, <3>1 DEF Queued, IsInvocation
      <3>2. CASE d # c
        BY <1>1, <1>2, <1>10, <2>2, <3>2 DEF OrderInv, Served, Queued, IsInvocation
      <3> QED
        BY <3>1, <3>2
    <2> QED
      BY <1>7, <1>8, <2>3, <2>4 DEF OrderInv
  <1> QED
    BY <1>6, <1>9, <1>10

\* An answer of the page is no invocation.
LEMMA ClientAnswerOrder ==
  ASSUME TypeOK, OrderInv, NEW c \in Calls, NEW ok \in BOOLEAN, ClientAnswer(c, ok)
  PROVE  OrderInv'
  <1> DEFINE m == [kind |-> "callback", call |-> c, id |-> given[c], success |-> ok]
  <1>1. /\ UNCHANGED <<stage, callId, runs, session>>
        /\ wire' = wire \/ Transmit("client", m)
    BY DEF ClientAnswer, Respond, making, connection
  <1>2. m \in Message /\ m.kind = "callback"
    <2>1. given[c] \in Ids
      BY DEF TypeOK
    <2> QED
      BY <2>1, MessageFacts
  <1> HIDE DEF m
  <1>3. CASE wire'["server"] = wire["server"]
    BY <1>1, <1>3, OrderKept
  <1>4. CASE Transmit("client", m) /\ ws = "OPEN"
    <2>1. CASE wire'["server"] = wire["server"]
      BY <1>1, <2>1, OrderKept
    <2>2. CASE /\ Len(wire'["server"]) = Len(wire["server"]) + 1
               /\ Len(wire["server"]) \in Nat
               /\ \A i \in ToServer : wire'["server"][i] = wire["server"][i]
               /\ wire'["server"][Len(wire["server"]) + 1] = m
      <3>1. \A i \in ToServer' : IsInvocation(i)' =>
              i \in ToServer /\ wire'["server"][i] = wire["server"][i]
        BY <1>2, <2>2 DEF ToServer, IsInvocation
      <3>2. ToServer \subseteq ToServer'
        BY <2>2 DEF ToServer
      <3> QED
        BY <1>1, <2>2, <3>1, <3>2
        DEF OrderInv, Numbered, Ordered, Served, ClientCallsRunInOrder, OrderedCalls,
            IsInvocation, Queued
    <2> QED
      BY <1>2, <1>4, <2>1, <2>2, QueueGrows
  <1>5. CASE Transmit("client", m) /\ ws # "OPEN"
    BY <1>3, <1>5 DEF Transmit, CanSend
  <1> QED
    BY <1>1, <1>3, <1>4, <1>5

\* The server takes the oldest message: no older call is still to come.
LEMMA HandleMessageOrder ==
  ASSUME TypeOK, IInv, OrderInv, HandleMessage
  PROVE  OrderInv'
  <1> DEFINE q == wire["server"]
             m == Head(q)
  <1>1. /\ session = "open" /\ q # <<>> /\ wire' = [wire EXCEPT !["server"] = Tail(@)]
        /\ UNCHANGED <<stage, callId, session>>
        /\ \/ /\ m.kind = "invocation" /\ m.call \notin Unknown
              /\ runs' = [runs EXCEPT ![m.call] = @ + 1]
           \/ /\ m.kind # "invocation" \/ m.call \in Unknown \/ m.call \notin Calls
              /\ runs' = runs
    BY DEF HandleMessage, Receive, Complete, RunBody, body, connection, making
  <1>2. /\ m \in Message /\ m = q[1] /\ Len(q) \in Nat \ {0}
        /\ wire'["server"] = Tail(q) /\ Len(Tail(q)) = Len(q) - 1
        /\ \A i \in 1 .. Len(Tail(q)) : Tail(q)[i] = q[i + 1]
    BY <1>1, TailAt DEF TypeOK, Sides
  <1>3. m.call \in Calls
    BY <1>2, MessageFacts
  <1>4. /\ 1 \in ToServer
        /\ \A i \in ToServer' :
             i + 1 \in ToServer /\ wire'["server"][i] = wire["server"][i + 1]
        /\ \A i \in ToServer \ {1} :
             i - 1 \in ToServer' /\ wire'["server"][i - 1] = wire["server"][i]
    BY <1>2 DEF ToServer
  <1>5. \A i \in ToServer : IsInvocation(i) =>
          /\ wire["server"][i].id = callId[wire["server"][i].call]
          /\ runs[wire["server"][i].call] = 0
          /\ stage[wire["server"][i].call] = "sent"
    BY DEF IInv, Invocations, ToServer, IsInvocation, Sides
  <1>6. \A d \in OrderedCalls : d \in Calls /\ runs[d] \in {0, 1} /\ callId[d] \in Nat
    BY DEF IInv, Bodies, OrderedCalls, Calls, TypeOK, Ids
  <1>7. m = wire["server"][1] /\ (IsInvocation(1) <=> m.kind = "invocation")
    BY <1>2 DEF IsInvocation
  <1>8. \A d \in Calls : \/ runs'[d] = runs[d]
                         \/ /\ d = m.call /\ IsInvocation(1) /\ d \notin Unknown
                            /\ runs'[d] = 1
    BY <1>1, <1>3, <1>4, <1>5, <1>7 DEF TypeOK
  <1>9. IsInvocation(1) /\ m.call \notin Unknown => runs'[m.call] = 1
    BY <1>1, <1>3, <1>4, <1>5, <1>7 DEF TypeOK
  <1> HIDE DEF q, m
  <1>10. Numbered'
    BY <1>1 DEF OrderInv, Numbered, OrderedCalls
  <1>11. Ordered'
    <2> SUFFICES ASSUME NEW i \in ToServer', NEW j \in ToServer',
                        IsInvocation(i)', wire'["server"][i].id # 0,
                        IsInvocation(j)', wire'["server"][j].id # 0, i < j
                 PROVE  wire'["server"][i].id < wire'["server"][j].id
      BY DEF Ordered
    <2>1. /\ i + 1 \in ToServer /\ wire'["server"][i] = wire["server"][i + 1]
          /\ j + 1 \in ToServer /\ wire'["server"][j] = wire["server"][j + 1]
          /\ i + 1 < j + 1
      BY <1>4 DEF ToServer
    <2> QED
      BY <2>1 DEF OrderInv, Ordered, IsInvocation
  <1>12. Served'
    <2> SUFFICES ASSUME NEW d \in OrderedCalls \ Unknown, stage[d] = "sent"
                 PROVE  runs'[d] = 1 \/ Queued(d)'
      BY <1>1 DEF Served, OrderedCalls
    <2>1. CASE runs[d] = 1
      BY <1>6, <1>8, <2>1
    <2>2. CASE Queued(d)
      <3>1. PICK i \in ToServer : IsInvocation(i) /\ wire["server"][i].call = d
        BY <2>2 DEF Queued
      <3>2. CASE i = 1
        BY <1>7, <1>9, <3>1, <3>2
      <3>3. CASE i # 1
        BY <1>4, <3>1, <3>3 DEF Queued, IsInvocation
      <3> QED
        BY <3>2, <3>3
    <2> QED
      BY <1>1, <2>1, <2>2 DEF OrderInv, Served
  <1>13. ClientCallsRunInOrder'
    <2> SUFFICES ASSUME NEW c \in OrderedCalls, NEW d \in OrderedCalls,
                        stage[c] = "sent", stage[d] = "sent", callId[c] < callId[d],
                        runs'[d] > 0, c \notin Unknown
                 PROVE  runs'[c] > 0
      BY <1>1 DEF ClientCallsRunInOrder, OrderedCalls
    <2>1. CASE runs[d] > 0
      <3>1. runs[c] > 0
        BY <2>1 DEF OrderInv, ClientCallsRunInOrder, OrderedCalls
      <3> QED
        BY <1>6, <1>8, <3>1
    <2>2. CASE ~(runs[d] > 0)
      <3>1. /\ IsInvocation(1) /\ wire["server"][1].call = d
            /\ wire["server"][1].id = callId[d]
        BY <1>4, <1>5, <1>6, <1>7, <1>8, <2>2
      <3>2. runs[c] = 1 \/ Queued(c)
        BY <1>1 DEF OrderInv, Served
      <3>3. ~Queued(c)
        <4> SUFFICES ASSUME NEW i \in ToServer, IsInvocation(i), wire["server"][i].call = c
                     PROVE  FALSE
          BY DEF Queued
        <4>1. wire["server"][i].id = callId[c] /\ i # 1
          BY <1>5, <1>6, <3>1
        <4>2. callId[c] # 0 /\ callId[d] # 0 /\ 1 < i
          BY <1>6, <4>1 DEF OrderInv, Numbered, ToServer
        <4>3. callId[d] < callId[c]
          BY <1>4, <3>1, <4>1, <4>2 DEF OrderInv, Ordered
        <4> QED
          BY <1>6, <4>3
      <3> QED
        BY <1>6, <1>8, <3>2, <3>3
    <2> QED
      BY <2>1, <2>2
  <1> QED
    BY <1>10, <1>11, <1>12, <1>13 DEF OrderInv

LEMMA OrderStep == TypeOK /\ TypeOK' /\ IInv /\ OrderInv /\ [Next]_vars => OrderInv'
  <1> SUFFICES ASSUME TypeOK, TypeOK', IInv, OrderInv, [Next]_vars PROVE OrderInv'
    OBVIOUS
  <1>1. \A c \in OrderedCalls : c \in Calls /\ c \notin ServerCalls /\ Caller(c) = "client"
    BY CallsAssumption, SideFacts DEF OrderedCalls, Calls
  <1>2. ASSUME UNCHANGED <<wire, session, making, runs>> PROVE OrderInv'
    BY <1>2, OrderKept DEF making
  <1>3. ASSUME NEW present \in BOOLEAN, SetClient(present) PROVE OrderInv'
    BY <1>2, <1>3 DEF SetClient, body
  <1>4. CASE ClientOnOpen \/ ClientClose \/ UNCHANGED vars
    BY <1>2, <1>4 DEF ClientOnOpen, ClientClose, body, vars, connection
  <1>5. CASE ClientOnClose
    <2>1. wire'["server"] = wire["server"]
      BY <1>5 DEF ClientOnClose, TypeOK, Sides
    <2> QED
      BY <1>5, <2>1, OrderKept DEF ClientOnClose, making, body
  <1>6. CASE ServerOnOpen
    BY <1>6, OrderKept DEF ServerOnOpen, making, body
  <1>7. CASE ServerOnClose
    <2>1. wire'["server"] = <<>> /\ session' = "closed" /\ UNCHANGED <<stage, callId, runs>>
      BY <1>7 DEF ServerOnClose, TypeOK, Sides, making, body
    <2>2. ToServer' = {}
      BY <2>1, EmptySeq DEF ToServer
    <2> QED
      BY <2>1, <2>2
      DEF OrderInv, Numbered, Ordered, Served, ClientCallsRunInOrder, OrderedCalls
  <1>8. CASE HandleMessage
    BY <1>8, HandleMessageOrder
  <1>9. CASE OnMessage
    <2> DEFINE m == Head(wire["client"])
    <2>1. /\ m \in Message /\ m = wire["client"][1] /\ 1 \in 1 .. Len(wire["client"])
          /\ "client" \in Sides /\ wire'["server"] = wire["server"]
      BY <1>9, TailAt DEF OnMessage, Receive, TypeOK, Sides
    <2>2. /\ UNCHANGED <<stage, callId, session>>
          /\ \/ runs' = runs
             \/ m.kind = "invocation" /\ runs' = [runs EXCEPT ![m.call] = @ + 1]
      BY <1>9, <2>1, MessageFacts
      DEF OnMessage, Receive, Complete, RunBody, body, making, connection
    <2>3. m.kind = "invocation" => Caller(m.call) = "server"
      BY <2>1 DEF IInv, Invocations, Peer
    <2>4. \A c \in OrderedCalls : runs'[c] = runs[c]
      BY <1>1, <2>2, <2>3 DEF TypeOK
    <2> QED
      BY <2>1, <2>2, <2>4, OrderKept
  <1>10. ASSUME NEW c \in Calls, ClientCall(c) PROVE OrderInv'
    BY <1>10, ClientCallOrder
  <1>11. ASSUME NEW c \in Calls, ServerAllocate(c) \/ ServerRegister(c) \/ ServerSend(c)
         PROVE  OrderInv'
    <2>1. /\ c \in ServerCalls /\ session' = session /\ runs' = runs
          /\ \/ callId' = callId
             \/ callId' = [callId EXCEPT ![c] = nextId["server"]]
          /\ \E x : stage' = [stage EXCEPT ![c] = x]
      BY <1>11 DEF ServerAllocate, ServerRegister, ServerSend, connection, body
    <2>2. wire'["server"] = wire["server"]
      BY <1>11 DEF ServerAllocate, ServerRegister, ServerSend, Transmit, Peer, TypeOK, Sides
    <2>3. \A d \in OrderedCalls : stage'[d] = stage[d] /\ callId'[d] = callId[d]
      BY <1>1, <2>1 DEF TypeOK
    <2> QED
      BY <2>1, <2>2, <2>3, OrderKept
  <1>12. ASSUME NEW c \in Calls, NEW ok \in BOOLEAN, ClientAnswer(c, ok) PROVE OrderInv'
    BY <1>12, ClientAnswerOrder
  <1>13. ASSUME NEW c \in Calls, NEW ok \in BOOLEAN, NEW u \in Threads,
                ServerAnswer(u, c, ok)
         PROVE  OrderInv'
    <2>1. wire'["server"] = wire["server"]
      BY <1>13 DEF ServerAnswer, Respond, Transmit, Peer, TypeOK, Sides
    <2> QED
      BY <1>13, <2>1, OrderKept DEF ServerAnswer, Respond, making, connection
  <1> QED
    BY <1>3, <1>4, <1>5, <1>6, <1>7, <1>8, <1>9, <1>10, <1>11, <1>12, <1>13 DEF Next

\* The server runs the page's calls in the order they were made, in spite of answers
\* between them, calls it has no method for, and a session that ends.
THEOREM CallsAreRunInOrder == Spec => []ClientCallsRunInOrder
  <1>1. OrderInv => ClientCallsRunInOrder
    BY DEF OrderInv
  <1> QED
    BY <1>1, OrderInit, OrderStep, Invariance, PTL DEF Spec

(***************************************************************************)
(* The endpoints implement OneShotCalls.                                   *)
(***************************************************************************)
Made == {c \in Calls : stage[c] # "new"}

LEMMA PromiseInit == Init => Promise!Init
  BY DEF Init, Promise!Init

\* A step that runs no body, gives no answer and completes nothing makes a call
\* or is a stutter.
LEMMA MakingStep ==
  ASSUME TypeOK, UNCHANGED <<runs, answers, result, completions>>,
         NEW c \in Calls,
         \/ stage' = stage
         \/ \E x : x # "new" /\ stage' = [stage EXCEPT ![c] = x]
  PROVE  [Promise!Next]_(Promise!vars)
  <1>1. Made' = Made \/ Made' = Made \cup {c}
    BY DEF Made, TypeOK
  <1>2. CASE Made' = Made
    BY <1>2 DEF Promise!vars, Made
  <1>3. CASE Made' = Made \cup {c}
    <2>1. Promise!Make(c)
      BY <1>3 DEF Promise!Make, Made
    <2> QED
      BY <2>1 DEF Promise!Next
  <1> QED
    BY <1>1, <1>2, <1>3

LEMMA ReceivePromise ==
  ASSUME TypeOK, IInv, NEW s \in Sides, NEW runnable, Receive(s, runnable)
  PROVE  [Promise!Next]_(Promise!vars)
  <1> DEFINE m == Head(wire[s])
             c == m.call
  <1>1. /\ wire[s] # <<>> /\ UNCHANGED stage
        /\ m \in Message /\ m = wire[s][1] /\ 1 \in 1 .. Len(wire[s]) /\ c \in Calls
    BY TailAt, MessageFacts DEF Receive, making, TypeOK
  <1>2. CASE m.kind = "callback" /\ callbacks[s][m.id] # NoCall
    <2>1. /\ callbacks[s][m.id] = c /\ m.success \in answers[c]
          /\ completions[c] = 0
      BY <1>1, <1>2, AnswerFindsItsCall
    <2>2. /\ result' = [result EXCEPT
               ![c] = @ \cup {[for |-> c, success |-> m.success]}]
          /\ completions' = [completions EXCEPT ![c] = @ + 1]
          /\ UNCHANGED <<runs, answers>>
      BY <1>2, <2>1 DEF Receive, Complete, body
    <2>3. result[c] = {} /\ result \in [Calls -> SUBSET Outcomes]
      BY <1>1, <2>1 DEF IInv, Completions, TypeOK
    <2>4. m.success \in BOOLEAN
      BY <1>1, <1>2, MessageFacts
    <2> HIDE DEF m, c
    <2>5. /\ result' = [result EXCEPT ![c] = {[for |-> c, success |-> m.success]}]
          /\ completions' = [completions EXCEPT ![c] = 1]
      BY <1>1, <2>1, <2>2, <2>3 DEF TypeOK
    <2>6. Promise!Finish(c, m.success)
      BY <1>1, <2>1, <2>2, <2>5 DEF Promise!Finish
    <2> QED
      BY <1>1, <2>4, <2>6 DEF Promise!Next
  <1>3. CASE m.kind = "invocation" /\ c \in runnable
    <2>1. /\ runs' = [runs EXCEPT ![c] = @ + 1]
          /\ UNCHANGED <<answers, result, completions>>
      BY <1>3 DEF Receive, RunBody, completed
    <2>2. runs[c] = 0 /\ stage[c] = "sent"
      BY <1>1, <1>3 DEF IInv, Invocations
    <2> HIDE DEF m, c
    <2>3. runs' = [runs EXCEPT ![c] = 1]
      BY <1>1, <2>1, <2>2 DEF TypeOK
    <2>4. Promise!Run(c)
      BY <1>1, <2>1, <2>2, <2>3 DEF Promise!Run
    <2> QED
      BY <1>1, <2>4 DEF Promise!Next
  <1>4. CASE \/ m.kind = "callback" /\ callbacks[s][m.id] = NoCall
             \/ m.kind = "invocation" /\ c \notin runnable
    <2>1. UNCHANGED <<runs, answers, result, completions>>
      BY <1>4 DEF Receive, Complete, body, completed
    <2> QED
      BY <1>1, <2>1, MakingStep
  <1> QED
    BY <1>1, <1>2, <1>3, <1>4, MessageFacts

LEMMA RespondPromise ==
  ASSUME TypeOK, IInv, NEW s, NEW u, NEW c \in Calls, NEW ok \in BOOLEAN,
         Respond(s, u, c, ok)
  PROVE  [Promise!Next]_(Promise!vars)
  <1>1. /\ runs[c] = 1
        /\ answers' = [answers EXCEPT ![c] = @ \cup {ok}]
        /\ UNCHANGED <<stage, runs, result, completions>>
    BY DEF Respond, IInv, Bodies, making, completed
  <1>2. Promise!Answer(c, ok)
    BY <1>1 DEF Promise!Answer
  <1> QED
    BY <1>2 DEF Promise!Next

LEMMA PromiseStep ==
  TypeOK /\ IInv /\ [Next]_vars => [Promise!Next]_(Promise!vars)
  <1> SUFFICES ASSUME TypeOK, IInv, [Next]_vars
               PROVE  [Promise!Next]_(Promise!vars)
    OBVIOUS
  <1>1. ASSUME UNCHANGED <<stage, runs, answers, result, completions>>
        PROVE  [Promise!Next]_(Promise!vars)
    BY <1>1 DEF Promise!vars
  <1>2. ASSUME NEW present \in BOOLEAN, SetClient(present)
        PROVE  [Promise!Next]_(Promise!vars)
    BY <1>1, <1>2 DEF SetClient, making, body, completed
  <1>3. CASE ClientOnOpen \/ ClientClose \/ ClientOnClose \/ ServerOnOpen \/ ServerOnClose
    BY <1>1, <1>3 DEF ClientOnOpen, ClientClose, ClientOnClose, ServerOnOpen,
                      ServerOnClose, making, body, completed
  <1>4. CASE UNCHANGED vars
    BY <1>1, <1>4 DEF vars, making, body, completed
  <1>5. CASE HandleMessage \/ OnMessage
    BY <1>5, ReceivePromise DEF HandleMessage, OnMessage, Sides
  <1>6. ASSUME NEW c \in Calls,
               \/ ClientCall(c)
               \/ ServerAllocate(c) \/ ServerRegister(c) \/ ServerSend(c)
        PROVE  [Promise!Next]_(Promise!vars)
    <2>1. UNCHANGED <<runs, answers, result, completions>>
      BY <1>6 DEF ClientCall, ServerAllocate, ServerRegister, ServerSend, body,
                  completed
    <2>2. \E x : x # "new" /\ stage' = [stage EXCEPT ![c] = x]
      BY <1>6 DEF ClientCall, ServerAllocate, ServerRegister, ServerSend
    <2> QED
      BY <2>1, <2>2, MakingStep
  <1>7. ASSUME NEW c \in Calls, NEW ok \in BOOLEAN,
               ClientAnswer(c, ok) \/ \E u \in Threads : ServerAnswer(u, c, ok)
        PROVE  [Promise!Next]_(Promise!vars)
    BY <1>7, RespondPromise DEF ClientAnswer, ServerAnswer
  <1> QED
    BY <1>2, <1>3, <1>4, <1>5, <1>6, <1>7 DEF Next

\* The two endpoints over one connection keep the promise of OneShotCalls: a
\* body runs at most once and for a call that was made, and the caller's
\* Callback completes at most once, with an outcome that body gave.
THEOREM EndpointsKeepThePromise == Spec => PromiseKept
  <1> QED
    BY PromiseInit, PromiseStep, Invariance, PTL
    DEF Spec, PromiseKept, Promise!Spec
=============================================================================
