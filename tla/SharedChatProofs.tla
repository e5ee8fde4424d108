-------------------------- MODULE SharedChatProofs --------------------------
(***************************************************************************)
(* Proofs about the shared chat sample, for any number of pages, users,    *)
(* clicks and messages.  What a page will show is a fold over the calls on *)
(* its port: the first part, by induction along the queue, says what the   *)
(* fold makes of a call put in at one end and of a call taken out at the   *)
(* other, and the invariant's proof then goes by the actions.              *)
(***************************************************************************)
EXTENDS SharedChat, FoldFacts

(***************************************************************************)
(* What a page shows after one call, and after several.                    *)
(***************************************************************************)
LEMMA ShownFacts ==
  ASSUME NEW v \in View, NEW m \in PageCall
  PROVE  /\ Shown(v, m) \in View
         /\ m.method = "init" =>
              /\ Shown(v, m).screen = IF m.user = NoUser THEN "login" ELSE m.user
              /\ Shown(v, m).panel = m.events
         /\ m.method = "event" =>
              /\ Shown(v, m).screen = v.screen
              /\ Shown(v, m).panel = Append(v.panel, m.event)
         /\ m.method \in {"connected", "disconnected"} =>
              Shown(v, m).screen = v.screen /\ Shown(v, m).panel = v.panel
  <1>1. CASE m.method = "init"
    <2>1. m.user \in Users \cup {NoUser} /\ m.events \in Seq(ChatEvent)
      BY <1>1 DEF PageCall
    <2> QED
      BY <1>1, <2>1 DEF Shown, View
  <1>2. CASE m.method = "event"
    <2>1. m.event \in ChatEvent
      BY <1>2 DEF PageCall
    <2>2. Append(v.panel, m.event) \in Seq(ChatEvent)
      BY <2>1, AppendProperties DEF View
    <2> QED
      BY <1>2, <2>2 DEF Shown, View
  <1>3. CASE m.method \in {"connected", "disconnected"}
    BY <1>3 DEF Shown, View
  <1> QED
    BY <1>1, <1>2, <1>3 DEF PageCall

\* Shown as a function, so that Seen is the end of a run through the calls.
ShownOn == [v \in View |-> [m \in PageCall |-> Shown(v, m)]]

LEMMA ShownActs == Acts(ShownOn, View, PageCall)
  BY ShownFacts DEF Acts, ShownOn

LEMMA SeenIsFinal ==
  ASSUME NEW v \in View, NEW q \in Seq(PageCall)
  PROVE  Seen(v, q) = Final(ShownOn, View, v, q)
  <1> DEFINE n == Len(q)
             Next1(g, s) == IF s = {} THEN v ELSE Shown(g[s \ {Max(s)}], q[Max(s)])
  <1>1. n \in Nat /\ DOMAIN q = 1 .. n /\ \A i \in 1 .. n : q[i] \in PageCall
    BY LenProperties, ElementOfSeq
  <1>2. ASSUME NEW s \in SUBSET (1 .. n), s # {}
        PROVE  Max(s) \in 1 .. n /\ s \ {Max(s)} \in SUBSET (1 .. n)
    BY <1>1, <1>2, MaxInUpTo
  <1>3. PICK h \in [SUBSET (1 .. n) -> View] : FoldsTo(ShownOn, v, q, n, h)
    BY ShownActs, FoldExists
  <1>4. h = [s \in SUBSET (1 .. n) |-> Next1(h, s)]
    <2>1. ASSUME NEW s \in SUBSET (1 .. n) PROVE h[s] = Next1(h, s)
      BY <1>1, <1>2, <1>3 DEF FoldsTo, ShownOn
    <2> QED
      BY <1>3, <2>1
  <1>5. PICK g : g = [s \in SUBSET (1 .. n) |-> Next1(g, s)] /\ Seen(v, q) = g[1 .. n]
    BY <1>1, <1>4 DEF Seen, FoldLeft, MapThenFoldSet
  <1>6. g[{}] = v
    BY <1>5
  <1>7. ASSUME NEW s \in SUBSET (1 .. n), s # {}, g[s \ {Max(s)}] \in View
        PROVE  g[s] = ShownOn[g[s \ {Max(s)}]][q[Max(s)]]
    BY <1>1, <1>2, <1>5, <1>7 DEF ShownOn
  <1>8. FoldsIn(ShownOn, View, v, q, Len(q), g)
    BY <1>6, <1>7 DEF FoldsIn
  <1>9. g[1 .. Len(q)] = Final(ShownOn, View, v, q)
    BY <1>8, ShownActs, FoldIsFinal
  <1> QED
    BY <1>5, <1>9

\* What is seen of a queue that changes at one of its ends.
LEMMA SeenEmpty ==
  ASSUME NEW v \in View
  PROVE  Seen(v, <<>>) = v
  <1>1. <<>> \in Seq(PageCall)
    BY EmptySeq
  <1> QED
    BY <1>1, SeenIsFinal, ShownActs, FinalOfEmpty

LEMMA SeenIsAView ==
  ASSUME NEW v \in View, NEW q \in Seq(PageCall)
  PROVE  Seen(v, q) \in View
  BY SeenIsFinal, ShownActs, FinalIsIn

LEMMA SeenAppend ==
  ASSUME NEW v \in View, NEW q \in Seq(PageCall), NEW m \in PageCall
  PROVE  Seen(v, Append(q, m)) = Shown(Seen(v, q), m)
  <1>1. Append(q, m) \in Seq(PageCall)
    BY AppendProperties
  <1>2. Final(ShownOn, View, v, Append(q, m)) = ShownOn[Final(ShownOn, View, v, q)][m]
    BY ShownActs, FinalOfAppend
  <1> QED
    BY <1>1, <1>2, SeenIsFinal, SeenIsAView DEF ShownOn

LEMMA SeenTail ==
  ASSUME NEW v \in View, NEW q \in Seq(PageCall), q # <<>>
  PROVE  Seen(Shown(v, Head(q)), Tail(q)) = Seen(v, q)
  <1>1. Head(q) \in PageCall /\ Tail(q) \in Seq(PageCall)
    BY HeadTailProperties
  <1>2. ShownOn[v][Head(q)] = Shown(v, Head(q)) /\ Shown(v, Head(q)) \in View
    BY <1>1, ShownFacts DEF ShownOn
  <1>3. Final(ShownOn, View, Shown(v, Head(q)), Tail(q)) = Final(ShownOn, View, v, q)
    BY <1>2, ShownActs, FinalOfTail
  <1> QED
    BY <1>1, <1>2, <1>3, SeenIsFinal

(***************************************************************************)
(* Suffixes, element by element.                                           *)
(***************************************************************************)
LEMMA SuffixByElement ==
  ASSUME NEW S, NEW s \in Seq(S), NEW t \in Seq(S)
  PROVE  IsSuffix(s, t) <=>
           Len(s) <= Len(t) /\ \A i \in 1 .. Len(s) : s[i] = t[Len(t) - Len(s) + i]
  <1>1. /\ Len(s) \in Nat /\ DOMAIN s = 1 .. Len(s)
        /\ Len(t) \in Nat /\ DOMAIN t = 1 .. Len(t)
    BY LenProperties
  <1>2. /\ Reverse(s) = [i \in 1 .. Len(s) |-> s[Len(s) - i + 1]]
        /\ Reverse(t) = [i \in 1 .. Len(t) |-> t[Len(t) - i + 1]]
    BY DEF Reverse
  <1>3. Reverse(s) \in Seq(S) /\ Reverse(t) \in Seq(S)
    BY <1>1, <1>2, ElementOfSeq, IsASeq
  <1>4. Len(Reverse(s)) = Len(s) /\ Len(Reverse(t)) = Len(t)
    BY <1>1, <1>2, <1>3, LenProperties
  <1>5. ASSUME Len(s) <= Len(t)
        PROVE  /\ SubSeq(Reverse(t), 1, Len(s)) \in Seq(S)
               /\ Len(SubSeq(Reverse(t), 1, Len(s))) = Len(s)
               /\ \A i \in 1 .. Len(s) :
                    SubSeq(Reverse(t), 1, Len(s))[i] = Reverse(t)[i]
    BY <1>1, <1>3, <1>4, <1>5, SubSeqProperties
  <1>6. IsSuffix(s, t) <=>
          Len(s) <= Len(t) /\ SubSeq(Reverse(s), 1, Len(s)) = SubSeq(Reverse(t), 1, Len(s))
    BY <1>4 DEF IsSuffix, IsPrefix
  <1>7. CASE Len(s) <= Len(t)
    <2>1. SubSeq(Reverse(s), 1, Len(s)) = Reverse(s)
      <3>1. /\ SubSeq(Reverse(s), 1, Len(s)) \in Seq(S)
            /\ Len(SubSeq(Reverse(s), 1, Len(s))) = Len(s)
            /\ \A i \in 1 .. Len(s) :
                 SubSeq(Reverse(s), 1, Len(s))[i] = Reverse(s)[i]
        BY <1>1, <1>3, <1>4, SubSeqProperties
      <3> QED
        BY <1>3, <1>4, <3>1, SeqEqual
    <2>2. IsSuffix(s, t) <=> \A i \in 1 .. Len(s) : Reverse(s)[i] = Reverse(t)[i]
      <3>1. (\A i \in 1 .. Len(s) : Reverse(s)[i] = Reverse(t)[i])
              => Reverse(s) = SubSeq(Reverse(t), 1, Len(s))
        BY <1>3, <1>4, <1>5, <1>7, SeqEqual
      <3> QED
        BY <1>5, <1>6, <1>7, <2>1, <3>1
    <2>3. \A i \in 1 .. Len(s) :
            Reverse(s)[i] = s[Len(s) - i + 1] /\ Reverse(t)[i] = t[Len(t) - i + 1]
      BY <1>1, <1>2, <1>7
    <2>4. ASSUME \A i \in 1 .. Len(s) : Reverse(s)[i] = Reverse(t)[i],
                 NEW i \in 1 .. Len(s)
          PROVE  s[i] = t[Len(t) - Len(s) + i]
      <3> DEFINE k == Len(s) - i + 1
      <3>1. k \in 1 .. Len(s) /\ Len(s) - k + 1 = i
              /\ Len(t) - k + 1 = Len(t) - Len(s) + i
        BY <1>1
      <3> HIDE DEF k
      <3>2. Reverse(s)[k] = s[i] /\ Reverse(t)[k] = t[Len(t) - Len(s) + i]
        BY <2>3, <3>1
      <3> QED
        BY <2>4, <3>1, <3>2
    <2>5. ASSUME \A i \in 1 .. Len(s) : s[i] = t[Len(t) - Len(s) + i],
                 NEW i \in 1 .. Len(s)
          PROVE  Reverse(s)[i] = Reverse(t)[i]
      <3> DEFINE k == Len(s) - i + 1
      <3>1. k \in 1 .. Len(s) /\ Len(t) - Len(s) + k = Len(t) - i + 1
        BY <1>1
      <3>2. Reverse(s)[i] = s[k] /\ Reverse(t)[i] = t[Len(t) - Len(s) + k]
        BY <2>3, <3>1
      <3> HIDE DEF k
      <3> QED
        BY <2>5, <3>1, <3>2
    <2> QED
      BY <1>7, <2>2, <2>4, <2>5
  <1> QED
    BY <1>6, <1>7

LEMMA SuffixFacts ==
  ASSUME NEW S, NEW s \in Seq(S), NEW t \in Seq(S)
  PROVE  /\ IsSuffix(t, t) /\ IsSuffix(<<>>, t)
         /\ \A e \in S : IsSuffix(s, t) => IsSuffix(Append(s, e), Append(t, e))
         /\ IsSuffix(s, <<>>) => s = <<>>
  <1>1. Len(s) \in Nat /\ Len(t) \in Nat
    BY LenProperties
  <1>2. IsSuffix(t, t)
    BY <1>1, SuffixByElement
  <1>3. <<>> \in Seq(S) /\ Len(<<>>) = 0
    BY EmptySeq
  <1>4. IsSuffix(<<>>, t)
    <2> DEFINE none == <<>>
    <2>1. none \in Seq(S) /\ Len(none) = 0
      BY <1>3
    <2> HIDE DEF none
    <2>2. Len(none) <= Len(t) /\ \A i \in 1 .. Len(none) : none[i] = t[Len(t) - Len(none) + i]
      BY <1>1, <2>1
    <2>3. IsSuffix(none, t)
      BY <2>1, <2>2, SuffixByElement
    <2> QED
      BY <2>3 DEF none
  <1>5. ASSUME NEW e \in S, IsSuffix(s, t) PROVE IsSuffix(Append(s, e), Append(t, e))
    <2>1. /\ Append(s, e) \in Seq(S) /\ Len(Append(s, e)) = Len(s) + 1
          /\ Append(s, e)[Len(s) + 1] = e
          /\ \A i \in 1 .. Len(s) : Append(s, e)[i] = s[i]
      BY AppendProperties
    <2>2. /\ Append(t, e) \in Seq(S) /\ Len(Append(t, e)) = Len(t) + 1
          /\ Append(t, e)[Len(t) + 1] = e
          /\ \A i \in 1 .. Len(t) : Append(t, e)[i] = t[i]
      BY AppendProperties
    <2>3. Len(s) <= Len(t) /\ \A i \in 1 .. Len(s) : s[i] = t[Len(t) - Len(s) + i]
      BY <1>5, SuffixByElement
    <2>4. ASSUME NEW i \in 1 .. Len(s) + 1
          PROVE  Append(s, e)[i] = Append(t, e)[Len(t) - Len(s) + i]
      <3>1. CASE i = Len(s) + 1
        BY <1>1, <2>1, <2>2, <3>1
      <3>2. CASE i \in 1 .. Len(s)
        <4>1. Len(t) - Len(s) + i \in 1 .. Len(t)
          BY <1>1, <2>3, <3>2
        <4> QED
          BY <2>1, <2>2, <2>3, <3>2, <4>1
      <3>3. i = Len(s) + 1 \/ i \in 1 .. Len(s)
        BY <1>1
      <3> QED
        BY <3>1, <3>2, <3>3
    <2> DEFINE sn == Append(s, e)
               tn == Append(t, e)
    <2>5. sn \in Seq(S) /\ tn \in Seq(S) /\ Len(sn) = Len(s) + 1 /\ Len(tn) = Len(t) + 1
      BY <2>1, <2>2
    <2>6. \A i \in 1 .. Len(s) + 1 : sn[i] = tn[Len(t) - Len(s) + i]
      BY <2>4
    <2> HIDE DEF sn, tn
    <2>7. Len(sn) <= Len(tn) /\ \A i \in 1 .. Len(sn) : sn[i] = tn[Len(tn) - Len(sn) + i]
      <3>1. Len(tn) - Len(sn) = Len(t) - Len(s)
        BY <1>1, <2>5
      <3> QED
        BY <1>1, <2>3, <2>5, <2>6, <3>1
    <2>8. IsSuffix(sn, tn)
      BY <2>5, <2>7, SuffixByElement
    <2> QED
      BY <2>8 DEF sn, tn
  <1>6. ASSUME IsSuffix(s, <<>>) PROVE s = <<>>
    <2>1. Len(s) <= 0
      BY <1>3, <1>6, SuffixByElement
    <2> QED
      BY <1>1, <2>1, EmptySeq
  <1> QED
    BY <1>2, <1>4, <1>5, <1>6

(***************************************************************************)
(* Types.                                                                  *)
(***************************************************************************)
ServerCall == [method : {"login"}, user : Users] \cup [method : {"say"}]

LEMMA CallTypes ==
  /\ \A u \in Users \cup {NoUser}, h \in Seq(ChatEvent) : InitCall(u, h) \in PageCall
  /\ \A e \in ChatEvent : EventCall(e) \in PageCall
  /\ [method |-> "connected"] \in PageCall /\ [method |-> "disconnected"] \in PageCall
  /\ \A u \in Users : [method |-> "login", user |-> u] \in ServerCall
  /\ [method |-> "say"] \in ServerCall
  BY DEF InitCall, EventCall, PageCall, ServerCall

LEMMA WorkerCalls ==
  ASSUME NEW call \in WorkerCall
  PROVE  /\ call.method \in {"login", "logout", "send"}
         /\ call.method = "login" => call.user \in Users
  BY DEF WorkerCall

\* Sequences of at most one element.
LEMMA ShortSequences ==
  ASSUME NEW S
  PROVE  /\ <<>> \in Seq(S) /\ Len(<<>>) = 0
         /\ \A a \in S : <<a>> \in Seq(S)
         /\ \A q \in Seq(S), a \in S : q \o <<a>> = Append(q, a)
         /\ \A q \in Seq(S) : q \o <<>> = q
         /\ \A q \in Seq(S), a \in S, b \in S :
              q \o (<<a>> \o <<b>>) = Append(Append(q, a), b)
  <1>1. <<>> \in Seq(S) /\ Len(<<>>) = 0
    BY EmptySeq
  <1>2. \A a \in S : <<a>> \in Seq(S)
    OBVIOUS
  <1>3. \A q \in Seq(S), a \in S : q \o <<a>> = Append(q, a)
    BY AppendIsConcat
  <1>4. \A q \in Seq(S) : q \o <<>> = q
    BY ConcatEmptySeq
  <1>5. ASSUME NEW q \in Seq(S), NEW a \in S, NEW b \in S
        PROVE  q \o (<<a>> \o <<b>>) = Append(Append(q, a), b)
    <2>1. q \o (<<a>> \o <<b>>) = (q \o <<a>>) \o <<b>>
      BY <1>2, ConcatAssociative
    <2>2. Append(q, a) \in Seq(S)
      BY AppendProperties
    <2> QED
      BY <1>3, <2>1, <2>2
  <1> QED
    BY <1>1, <1>2, <1>3, <1>4, <1>5

LEMMA TypeInit == Init => TypeOK
  <1> SUFFICES ASSUME Init PROVE TypeOK
    OBVIOUS
  <1>1. view \in [Pages -> View]
    BY EmptySeq DEF Init, View
  <1>2. clicks \in 0 .. MaxClicks /\ news \in 0 .. MaxNews
    BY ChatAssumption DEF Init
  <1>3. cut \in BOOLEAN
    BY DEF Init
  <1> QED
    BY <1>1, <1>2, <1>3, EmptySeq DEF Init, WorkerReset, TypeOK

LEMMA BroadcastType ==
  ASSUME TypeOK, NEW calls \in Seq(PageCall), Broadcast(calls)
  PROVE  toPage' \in [Pages -> Seq(PageCall)]
  BY ConcatProperties DEF TypeOK, Broadcast

\* What Login broadcasts: at most two calls.
LEMMA LoginCalls ==
  ASSUME TypeOK, NEW user \in Users
  PROVE  /\ LogoutFirst(user) \in {<<>>, <<InitCall(NoUser, <<>>)>>}
         /\ LogoutFirst(user) \in Seq(PageCall)
         /\ <<InitCall(user, <<>>)>> \in Seq(PageCall)
         /\ LogoutFirst(user) \o <<>> \in Seq(PageCall)
         /\ LogoutFirst(user) \o <<InitCall(user, <<>>)>> \in Seq(PageCall)
  <1>1. InitCall(NoUser, <<>>) \in PageCall /\ InitCall(user, <<>>) \in PageCall
    BY CallTypes, EmptySeq
  <1>2. LogoutFirst(user) \in {<<>>, <<InitCall(NoUser, <<>>)>>}
    BY DEF LogoutFirst
  <1>3. /\ LogoutFirst(user) \in Seq(PageCall) /\ <<>> \in Seq(PageCall)
        /\ <<InitCall(user, <<>>)>> \in Seq(PageCall)
    BY <1>1, <1>2, ShortSequences
  <1> QED
    BY <1>2, <1>3, ConcatProperties

LEMMA SendType ==
  ASSUME TypeOK, NEW m \in ServerCall, Send(m)
  PROVE  toServer' \in Seq(ServerCall)
  BY AppendProperties DEF TypeOK, Send, ServerCall

LEMMA WorkerReceiveType ==
  ASSUME TypeOK, NEW p \in Pages, WorkerReceive(p)
  PROVE  TypeOK'
  <1> DEFINE call == Head(toWorker[p])
  <1>1. /\ p \in connectedPages /\ toWorker[p] # <<>>
        /\ toWorker' = [toWorker EXCEPT ![p] = Tail(@)]
        /\ UNCHANGED <<socket, connectedPages, pageVars, serverVars>>
    BY DEF WorkerReceive
  <1>2. \/ call.method = "login" /\ Login(call.user)
        \/ call.method = "logout" /\ Logout
        \/ call.method = "send" /\ SendMessage
    BY DEF WorkerReceive
  <1>3. call \in WorkerCall /\ Tail(toWorker[p]) \in Seq(WorkerCall)
    BY <1>1, HeadTailProperties DEF TypeOK
  <1> HIDE DEF call
  <1>4. toWorker' \in [Pages -> Seq(WorkerCall)]
    BY <1>1, <1>3 DEF TypeOK
  <1>5. /\ username' \in Users \cup {NoUser} /\ events' \in Seq(ChatEvent)
        /\ toServer' \in Seq(ServerCall) /\ toPage' \in [Pages -> Seq(PageCall)]
    <2>1. CASE call.method = "login" /\ Login(call.user)
      <3>1. call.user \in Users
        BY <1>3, <2>1, WorkerCalls
      <3>2. /\ username' = call.user /\ events' = <<>>
            /\ Send([method |-> "login", user |-> call.user])
        BY <2>1 DEF Login
      <3>3. toServer' \in Seq(ServerCall)
        BY <3>1, <3>2, CallTypes, SendType
      <3>4. toPage' \in [Pages -> Seq(PageCall)]
        <4>1. CASE socket = "connecting"
          BY <2>1, <3>1, <4>1, LoginCalls, BroadcastType DEF Login
        <4>2. CASE socket # "connecting"
          BY <2>1, <3>1, <4>2, LoginCalls, BroadcastType DEF Login
        <4> QED
          BY <4>1, <4>2
      <3> QED
        BY <3>1, <3>2, <3>3, <3>4, EmptySeq
    <2>2. CASE call.method = "logout" /\ Logout
      <3>1. <<InitCall(NoUser, <<>>)>> \in Seq(PageCall)
        BY CallTypes, ShortSequences
      <3>2. toPage' \in [Pages -> Seq(PageCall)]
        BY <2>2, <3>1, BroadcastType DEF Logout
      <3> QED
        BY <2>2, <3>2 DEF Logout, TypeOK, ServerCall
    <2>3. CASE call.method = "send" /\ SendMessage
      <3>1. toServer' \in Seq(ServerCall)
        BY <2>3, CallTypes, SendType DEF SendMessage
      <3> QED
        BY <2>3, <3>1 DEF SendMessage, TypeOK
    <2> QED
      BY <1>2, <2>1, <2>2, <2>3
  <1> QED
    BY <1>1, <1>4, <1>5 DEF TypeOK, pageVars, serverVars, ServerCall

LEMMA ServerReceiveType ==
  ASSUME TypeOK, ServerReceive
  PROVE  TypeOK'
  <1> DEFINE m == Head(toServer)
  <1>1. /\ toServer # <<>> /\ toServer' = Tail(toServer)
        /\ UNCHANGED <<pageVars, workerVars, news, toWorker, toPage>>
    BY DEF ServerReceive
  <1>2. \/ m.method = "login" /\ (ServerLogin(m.user) \/ ServerLoginThrows(m.user))
        \/ m.method = "say" /\ ServerSay
    BY DEF ServerReceive
  <1>3. m \in ServerCall /\ toServer' \in Seq(ServerCall)
    BY <1>1, HeadTailProperties DEF TypeOK, ServerCall
  <1> HIDE DEF m
  <1>4. ASSUME NEW kind \in {"join", "say"}, NEW user \in Users
        PROVE  Told([kind |-> kind, user |-> user]) \in Seq(ChatEvent)
    <2>1. [kind |-> kind, user |-> user] \in ChatEvent
      BY DEF ChatEvent
    <2> QED
      BY <2>1, AppendProperties DEF TypeOK, Told
  <1>5. /\ fromServer' \in Seq(ChatEvent) /\ loggedIn' \in Users \cup {NoUser}
        /\ cut' \in BOOLEAN
    <2>1. CASE m.method = "login" /\ (ServerLogin(m.user) \/ ServerLoginThrows(m.user))
      <3>1. m.user \in Users
        BY <1>3, <2>1 DEF ServerCall
      <3>2. Told([kind |-> "join", user |-> m.user]) \in Seq(ChatEvent)
        BY <1>4, <3>1
      <3> QED
        BY <2>1, <3>1, <3>2 DEF TypeOK, ServerLogin, ServerLoginThrows
    <2>2. CASE m.method = "say" /\ ServerSay
      <3>1. Told([kind |-> "say", user |-> loggedIn]) \in Seq(ChatEvent)
        <4>1. CASE loggedIn = NoUser
          BY <4>1 DEF Told, TypeOK
        <4>2. CASE loggedIn # NoUser
          BY <1>4, <4>2 DEF TypeOK
        <4> QED
          BY <4>1, <4>2
      <3> QED
        BY <2>2, <3>1 DEF TypeOK, ServerSay
    <2> QED
      BY <1>2, <2>1, <2>2
  <1> QED
    BY <1>1, <1>3, <1>5 DEF TypeOK, pageVars, workerVars, ServerCall

LEMMA TypeStep ==
  ASSUME TypeOK, [Next]_vars
  PROVE  TypeOK'
  <1> USE DEF pageVars, workerVars, serverVars
  <1>1. ASSUME NEW p \in Pages, OpenPage(p) PROVE TypeOK'
    BY <1>1 DEF OpenPage, TypeOK
  <1>2. ASSUME NEW p \in Pages, LeavePage(p) PROVE TypeOK'
    BY <1>2, EmptySeq DEF LeavePage, TypeOK
  <1>3. ASSUME NEW p \in Pages, Click(p) PROVE TypeOK'
    <2>1. PICK call \in Offered(p) : toWorker' = [toWorker EXCEPT ![p] = Append(@, call)]
      BY <1>3 DEF Click
    <2>2. call \in WorkerCall
      BY DEF Offered, WorkerCall
    <2>3. toWorker' \in [Pages -> Seq(WorkerCall)]
      BY <2>1, <2>2, AppendProperties DEF TypeOK
    <2>4. clicks' \in 0 .. MaxClicks
      BY <1>3, ChatAssumption DEF Click, TypeOK
    <2> QED
      BY <1>3, <2>3, <2>4 DEF Click, TypeOK
  <1>4. ASSUME NEW p \in Pages, PageReceive(p) PROVE TypeOK'
    <2>1. /\ toPage[p] # <<>> /\ view[p] \in View /\ toPage[p] \in Seq(PageCall)
          /\ view' = [view EXCEPT ![p] = Shown(@, Head(toPage[p]))]
          /\ toPage' = [toPage EXCEPT ![p] = Tail(@)]
      BY <1>4 DEF PageReceive, TypeOK
    <2>2. Shown(view[p], Head(toPage[p])) \in View /\ Tail(toPage[p]) \in Seq(PageCall)
      BY <2>1, HeadTailProperties, ShownFacts
    <2>3. view' \in [Pages -> View] /\ toPage' \in [Pages -> Seq(PageCall)]
      BY <2>1, <2>2 DEF TypeOK
    <2> QED
      BY <1>4, <2>3 DEF PageReceive, TypeOK
  <1>5. ASSUME NEW p \in Pages, OnConnect(p) PROVE TypeOK'
    <2>1. InitCall(username, events) \in PageCall
      BY CallTypes DEF TypeOK
    <2>2. toPage' \in [Pages -> Seq(PageCall)]
      BY <1>5, <2>1, AppendProperties DEF OnConnect, TypeOK
    <2> QED
      BY <1>5, <2>2 DEF OnConnect, TypeOK
  <1>6. ASSUME NEW p \in Pages, WorkerReceive(p) PROVE TypeOK'
    BY <1>6, WorkerReceiveType
  <1>7. CASE StartWorker
    BY <1>7 DEF StartWorker, TypeOK
  <1>8. CASE StopWorker
    BY <1>8, EmptySeq DEF StopWorker, WorkerReset, TypeOK
  <1>9. CASE OnOpen
    <2>1. <<[method |-> "connected"]>> \in Seq(PageCall)
      BY CallTypes, ShortSequences
    <2>2. toPage' \in [Pages -> Seq(PageCall)]
      BY <1>9, <2>1, BroadcastType DEF OnOpen
    <2> QED
      BY <1>9, <2>2 DEF OnOpen, TypeOK
  <1>10. CASE OnClose
    <2>1. <<[method |-> "disconnected"]>> \in Seq(PageCall)
      BY CallTypes, ShortSequences
    <2>2. toPage' \in [Pages -> Seq(PageCall)]
      BY <1>10, <2>1, BroadcastType DEF OnClose
    <2> QED
      BY <1>10, <2>2, EmptySeq DEF OnClose, TypeOK
  <1>11. CASE HandleEvent
    <2>1. Head(fromServer) \in ChatEvent /\ Tail(fromServer) \in Seq(ChatEvent)
      BY <1>11, HeadTailProperties DEF HandleEvent, TypeOK
    <2>2. <<EventCall(Head(fromServer))>> \in Seq(PageCall)
      BY <2>1, CallTypes, ShortSequences
    <2>3. toPage' \in [Pages -> Seq(PageCall)]
      BY <1>11, <2>2, BroadcastType DEF HandleEvent
    <2> QED
      BY <1>11, <2>1, <2>3, AppendProperties DEF HandleEvent, TypeOK
  <1>12. CASE ServerReceive
    BY <1>12, ServerReceiveType
  <1>13. CASE OtherSession
    <2>1. PICK kind \in {"join", "leave", "say"} :
            fromServer' = Append(fromServer, [kind |-> kind, user |-> Stranger])
      BY <1>13 DEF OtherSession
    <2>2. [kind |-> kind, user |-> Stranger] \in ChatEvent
      BY DEF ChatEvent
    <2>3. fromServer' \in Seq(ChatEvent) /\ news' \in 0 .. MaxNews
      BY <1>13, <2>1, <2>2, AppendProperties, ChatAssumption DEF OtherSession, TypeOK
    <2> QED
      BY <1>13, <2>3 DEF OtherSession, TypeOK
  <1>14. CASE UNCHANGED vars
    BY <1>14 DEF vars, TypeOK
  <1> QED
    BY <1>1, <1>2, <1>3, <1>4, <1>5, <1>6, <1>7, <1>8, <1>9, <1>10, <1>11, <1>12,
       <1>13, <1>14 DEF Next, PageStep

\* Every variable of the worker, its pages and its session keeps its type.
THEOREM TypeCorrect == Spec => []TypeOK
  BY TypeInit, TypeStep, PTL DEF Spec

(***************************************************************************)
(* What a page shows against what the worker holds.                        *)
(***************************************************************************)
\* A view of which CaughtUp holds, against a name and messages of the worker.
Agrees(v, name, history) ==
  IF v.screen \in Users THEN v.screen = name /\ v.panel = history
                        ELSE IsSuffix(v.panel, history)

LEMMA CaughtUpAgrees ==
  CaughtUp <=> \A p \in ConnectedAndOpen : Agrees(Later(p), username, events)
  BY DEF CaughtUp, Agrees

LEMMA CaughtUpNext ==
  ASSUME \A p \in ConnectedAndOpen' : Agrees(Later(p), username, events)'
  PROVE  CaughtUp'
  BY DEF CaughtUp, Agrees

\* What each call of the worker makes of a view that agrees with it.
LEMMA AgreesInit ==
  ASSUME NEW v \in View, NEW user \in Users \cup {NoUser},
         NEW history \in Seq(ChatEvent)
  PROVE  Agrees(Shown(v, InitCall(user, history)), user, history)
  <1> DEFINE m == InitCall(user, history)
  <1>1. /\ m \in PageCall /\ m.method = "init"
        /\ m.user = user /\ m.events = history
    BY CallTypes DEF InitCall
  <1> HIDE DEF m
  <1>2. /\ Shown(v, m).screen = IF user = NoUser THEN "login" ELSE user
        /\ Shown(v, m).panel = history
    BY <1>1, ShownFacts
  <1>3. IsSuffix(history, history)
    BY SuffixFacts
  <1>4. Agrees(Shown(v, m), user, history)
    BY <1>2, <1>3, ChatAssumption DEF Agrees
  <1> QED
    BY <1>4 DEF m

LEMMA AgreesLogout ==
  ASSUME NEW v \in View, NEW user \in Users \cup {NoUser},
         NEW history \in Seq(ChatEvent)
  PROVE  Agrees(Shown(v, InitCall(NoUser, <<>>)), user, history)
  <1> DEFINE m == InitCall(NoUser, <<>>)
  <1>1. m \in PageCall /\ m.method = "init" /\ m.user = NoUser /\ m.events = <<>>
    BY CallTypes, EmptySeq DEF InitCall
  <1> HIDE DEF m
  <1>2. Shown(v, m).screen = "login" /\ Shown(v, m).panel = <<>>
    BY <1>1, ShownFacts
  <1>3. IsSuffix(<<>>, history)
    BY SuffixFacts
  <1>4. Agrees(Shown(v, m), user, history)
    BY <1>2, <1>3, ChatAssumption DEF Agrees
  <1> QED
    BY <1>4 DEF m

LEMMA AgreesEvent ==
  ASSUME NEW v \in View, NEW user \in Users \cup {NoUser},
         NEW history \in Seq(ChatEvent), NEW e \in ChatEvent,
         Agrees(v, user, history)
  PROVE  Agrees(Shown(v, EventCall(e)), user, Append(history, e))
  <1> DEFINE m == EventCall(e)
  <1>1. m \in PageCall /\ m.method = "event" /\ m.event = e
    BY CallTypes DEF EventCall
  <1> HIDE DEF m
  <1>2. Shown(v, m).screen = v.screen /\ Shown(v, m).panel = Append(v.panel, e)
    BY <1>1, ShownFacts
  <1>3. IsSuffix(v.panel, history) => IsSuffix(Append(v.panel, e), Append(history, e))
    BY SuffixFacts DEF View
  <1>4. Agrees(Shown(v, m), user, Append(history, e))
    BY <1>2, <1>3 DEF Agrees
  <1> QED
    BY <1>4 DEF m

LEMMA AgreesMask ==
  ASSUME NEW v \in View, NEW user, NEW history, NEW m \in PageCall,
         m.method \in {"connected", "disconnected"}, Agrees(v, user, history)
  PROVE  Agrees(Shown(v, m), user, history)
  BY ShownFacts DEF Agrees

\* With no messages, a name may be taken: no page in the chat shows another.
LEMMA AgreesFirstName ==
  ASSUME NEW v, NEW name \in Users \cup {NoUser}, NEW user \in Users,
         name \in {NoUser, user}, NEW history, Agrees(v, name, history)
  PROVE  Agrees(v, user, history)
  BY ChatAssumption DEF Agrees

\* The connected pages that are open; the session where there is none.
PagesOfWorker == \A p \in connectedPages : page[p] # "none"

SessionOfSocket ==
  /\ socket \in {"none", "connecting"} => events = <<>>
  /\ socket # "open" => toServer = <<>> /\ loggedIn = NoUser

\* The inductive invariant.
ChatInv == TypeOK /\ PagesOfWorker /\ SessionOfSocket /\ CaughtUp /\ ServerHasTheName

LEMMA ChatInit == Init => ChatInv
  <1> SUFFICES ASSUME Init PROVE ChatInv
    OBVIOUS
  <1>1. TypeOK
    BY TypeInit
  <1>2. connectedPages = {} /\ toServer = <<>> /\ loggedIn = NoUser /\ events = <<>>
    BY DEF Init, WorkerReset
  <1>3. PagesOfWorker /\ SessionOfSocket /\ CaughtUp
    BY <1>2 DEF PagesOfWorker, SessionOfSocket, CaughtUp, ConnectedAndOpen
  <1>4. ServerHasTheName
    BY <1>2 DEF ServerHasTheName
  <1> QED
    BY <1>1, <1>3, <1>4 DEF ChatInv

\* A page whose queue and view stay, or whose queue is handled by one call.
LEMMA LaterKept ==
  ASSUME NEW p, view'[p] = view[p], toPage'[p] = toPage[p]
  PROVE  Later(p)' = Later(p)
  BY DEF Later

LEMMA LaterTyped ==
  ASSUME TypeOK, NEW p \in Pages
  PROVE  Later(p) \in View /\ view[p] \in View /\ toPage[p] \in Seq(PageCall)
  BY SeenIsAView DEF Later, TypeOK

LEMMA LaterOneMore ==
  ASSUME TypeOK, NEW p \in Pages, NEW m \in PageCall,
         view'[p] = view[p], toPage'[p] = Append(toPage[p], m)
  PROVE  Later(p)' = Shown(Later(p), m)
  BY LaterTyped, SeenAppend DEF Later

LEMMA LaterTwoMore ==
  ASSUME TypeOK, NEW p \in Pages, NEW m \in PageCall, NEW n \in PageCall,
         view'[p] = view[p], toPage'[p] = Append(Append(toPage[p], m), n)
  PROVE  Later(p)' = Shown(Shown(Later(p), m), n)
  <1>1. Append(toPage[p], m) \in Seq(PageCall)
    BY LaterTyped, AppendProperties
  <1> QED
    BY <1>1, LaterTyped, SeenAppend DEF Later

\* A step that leaves the name, the messages and every page in the chat alone.
LEMMA CaughtUpKept ==
  ASSUME CaughtUp, UNCHANGED <<username, events>>,
         ConnectedAndOpen' \subseteq ConnectedAndOpen,
         \A p \in ConnectedAndOpen' : view'[p] = view[p] /\ toPage'[p] = toPage[p]
  PROVE  CaughtUp'
  <1>1. ASSUME NEW p \in ConnectedAndOpen' PROVE Agrees(Later(p), username, events)'
    <2>1. Later(p)' = Later(p)
      BY <1>1, LaterKept
    <2>2. Agrees(Later(p), username, events)
      BY <1>1, CaughtUpAgrees
    <2> QED
      BY <2>1, <2>2 DEF Agrees
  <1> QED
    BY <1>1, CaughtUpNext

LEMMA NameKept ==
  ASSUME ServerHasTheName, UNCHANGED <<toServer, username, loggedIn, cut>>
  PROVE  ServerHasTheName'
  BY DEF ServerHasTheName, IsLastLogin, IsLogin

\* The pages of the worker, and the queue of each after one broadcast call.
LEMMA SamePages ==
  ASSUME UNCHANGED <<connectedPages, page>>
  PROVE  ConnectedAndOpen' = ConnectedAndOpen
  BY DEF ConnectedAndOpen

LEMMA BroadcastOne ==
  ASSUME TypeOK, NEW m \in PageCall, Broadcast(<<m>>), NEW p \in ConnectedAndOpen
  PROVE  p \in Pages /\ toPage'[p] = Append(toPage[p], m)
  <1>1. p \in Pages /\ p \in connectedPages /\ page[p] = "open"
    BY DEF ConnectedAndOpen, TypeOK
  <1>2. toPage'[p] = toPage[p] \o <<m>>
    BY <1>1 DEF Broadcast
  <1> QED
    BY <1>1, <1>2, LaterTyped, ShortSequences

LEMMA CaughtUpConnect ==
  ASSUME ChatInv, NEW q \in Pages, OnConnect(q)
  PROVE  CaughtUp'
  <1> DEFINE m == InitCall(username, events)
  <1>1. /\ connectedPages' = connectedPages \cup {q}
        /\ toPage' = [toPage EXCEPT ![q] = IF page[q] = "open" THEN Append(@, m) ELSE @]
        /\ UNCHANGED <<username, events, page, view>>
    BY DEF OnConnect, pageVars
  <1>2. TypeOK /\ m \in PageCall
    BY CallTypes DEF ChatInv, TypeOK
  <1>3. ASSUME NEW p \in ConnectedAndOpen' PROVE Agrees(Later(p), username, events)'
    <2>1. p \in Pages /\ page[p] = "open" /\ (p = q \/ p \in ConnectedAndOpen)
      BY <1>1, <1>2 DEF ConnectedAndOpen, TypeOK
    <2>2. CASE p = q
      <3>1. toPage'[p] = Append(toPage[p], m) /\ view'[p] = view[p]
        BY <1>1, <1>2, <2>1, <2>2 DEF TypeOK
      <3>2. Later(p)' = Shown(Later(p), m)
        BY <1>2, <2>1, <3>1, LaterOneMore
      <3>3. Agrees(Shown(Later(p), m), username, events)
        BY <1>2, <2>1, LaterTyped, AgreesInit DEF TypeOK
      <3> QED
        BY <1>1, <3>2, <3>3 DEF Agrees
    <2>3. CASE p # q
      <3>1. toPage'[p] = toPage[p] /\ view'[p] = view[p]
        BY <1>1, <1>2, <2>1, <2>3 DEF TypeOK
      <3>2. Agrees(Later(p), username, events)
        BY <2>1, <2>3, CaughtUpAgrees DEF ChatInv
      <3> QED
        BY <1>1, <3>1, <3>2, LaterKept DEF Agrees
    <2> QED
      BY <2>2, <2>3
  <1> QED
    BY <1>3, CaughtUpNext

\* A broadcast of one call, whose effect on each view is known.
LEMMA CaughtUpBroadcast ==
  ASSUME ChatInv, NEW m \in PageCall, Broadcast(<<m>>),
         UNCHANGED <<connectedPages, page, view>>,
         \A v \in View : Agrees(v, username, events)
                           => Agrees(Shown(v, m), username', events')
  PROVE  CaughtUp'
  <1>1. ASSUME NEW p \in ConnectedAndOpen' PROVE Agrees(Later(p), username, events)'
    <2>1. p \in ConnectedAndOpen /\ TypeOK
      BY <1>1, SamePages DEF ChatInv
    <2>2. p \in Pages /\ toPage'[p] = Append(toPage[p], m)
      BY <2>1, BroadcastOne
    <2>3. Later(p)' = Shown(Later(p), m)
      BY <2>1, <2>2, LaterOneMore
    <2>4. Agrees(Later(p), username, events) /\ Later(p) \in View
      BY <2>1, <2>2, CaughtUpAgrees, LaterTyped DEF ChatInv
    <2> QED
      BY <2>3, <2>4 DEF Agrees
  <1> QED
    BY <1>1, CaughtUpNext

\* login: what it broadcasts ends with a call of init, unless the socket is
\* connecting, and there are no messages yet then.
LEMMA CaughtUpLogin ==
  ASSUME ChatInv, NEW user \in Users, Login(user),
         UNCHANGED <<connectedPages, page, view>>
  PROVE  CaughtUp'
  <1> DEFINE out == InitCall(NoUser, <<>>)
             in == InitCall(user, <<>>)
  <1>1. TypeOK /\ out \in PageCall /\ in \in PageCall /\ <<>> \in Seq(ChatEvent)
    BY CallTypes, EmptySeq DEF ChatInv
  <1>2. username' = user /\ events' = <<>> /\ username \in Users \cup {NoUser}
    BY <1>1 DEF Login, TypeOK
  <1>3. ASSUME NEW p \in ConnectedAndOpen' PROVE Agrees(Later(p), user, <<>>)'
    <2>1. p \in ConnectedAndOpen /\ p \in Pages /\ view'[p] = view[p]
      BY <1>1, SamePages DEF ConnectedAndOpen, TypeOK
    <2>2. /\ toPage[p] \in Seq(PageCall) /\ Later(p) \in View
          /\ Agrees(Later(p), username, events)
      BY <1>1, <2>1, LaterTyped, CaughtUpAgrees DEF ChatInv
    <2>3. toPage'[p] = toPage[p] \o
            (LogoutFirst(user) \o IF socket = "connecting" THEN <<>> ELSE <<in>>)
      BY <2>1 DEF Login, Broadcast, ConnectedAndOpen
    <2>4. CASE socket # "connecting" /\ username \in {NoUser, user}
      <3>1. LogoutFirst(user) = <<>>
        BY <2>4 DEF LogoutFirst
      <3>2. toPage'[p] = Append(toPage[p], in)
        BY <1>1, <2>2, <2>3, <2>4, <3>1, ShortSequences
      <3>3. Later(p)' = Shown(Later(p), in)
        BY <1>1, <2>1, <3>2, LaterOneMore
      <3>4. Agrees(Shown(Later(p), in), user, <<>>)
        BY <1>1, <2>2, AgreesInit
      <3> QED
        BY <3>3, <3>4 DEF Agrees
    <2>5. CASE socket # "connecting" /\ username \notin {NoUser, user}
      <3>1. LogoutFirst(user) = <<out>>
        BY <2>5 DEF LogoutFirst
      <3>2. toPage'[p] = Append(Append(toPage[p], out), in)
        BY <1>1, <2>2, <2>3, <2>5, <3>1, ShortSequences
      <3>3. Later(p)' = Shown(Shown(Later(p), out), in)
        BY <1>1, <2>1, <3>2, LaterTwoMore
      <3>4. Shown(Later(p), out) \in View
        BY <1>1, <2>2, ShownFacts
      <3>5. Agrees(Shown(Shown(Later(p), out), in), user, <<>>)
        BY <1>1, <3>4, AgreesInit
      <3> QED
        BY <3>3, <3>5 DEF Agrees
    <2>6. CASE socket = "connecting" /\ username \notin {NoUser, user}
      <3>1. LogoutFirst(user) = <<out>>
        BY <2>6 DEF LogoutFirst
      <3>2. toPage'[p] = Append(toPage[p], out)
        BY <1>1, <2>2, <2>3, <2>6, <3>1, ShortSequences
      <3>3. Later(p)' = Shown(Later(p), out)
        BY <1>1, <2>1, <3>2, LaterOneMore
      <3>4. Agrees(Shown(Later(p), out), user, <<>>)
        BY <1>1, <2>2, AgreesLogout
      <3> QED
        BY <3>3, <3>4 DEF Agrees
    <2>7. CASE socket = "connecting" /\ username \in {NoUser, user}
      <3>1. LogoutFirst(user) = <<>> /\ events = <<>>
        BY <2>7 DEF LogoutFirst, ChatInv, SessionOfSocket
      <3>2. <<>> \o <<>> = <<>>
        BY <1>1, ConcatEmptySeq
      <3>3. toPage'[p] = toPage[p]
        BY <2>2, <2>3, <2>7, <3>1, <3>2, ShortSequences
      <3>4. Later(p)' = Later(p)
        BY <2>1, <3>3, LaterKept
      <3>5. Agrees(Later(p), user, <<>>)
        BY <1>2, <2>2, <2>7, <3>1, AgreesFirstName
      <3> QED
        BY <3>4, <3>5 DEF Agrees
    <2> QED
      BY <2>4, <2>5, <2>6, <2>7
  <1>4. ASSUME NEW p \in ConnectedAndOpen' PROVE Agrees(Later(p), username, events)'
    BY <1>2, <1>3, <1>4 DEF Agrees
  <1> QED
    BY <1>4, CaughtUpNext

LEMMA CaughtUpStep ==
  ASSUME ChatInv, Next
  PROVE  CaughtUp'
  <1> USE DEF pageVars, workerVars, serverVars
  <1>0. TypeOK /\ CaughtUp /\ PagesOfWorker
    BY DEF ChatInv
  <1>1. ASSUME NEW p \in Pages, OpenPage(p) PROVE CaughtUp'
    <2>1. p \notin connectedPages
      BY <1>0, <1>1 DEF OpenPage, PagesOfWorker
    <2>2. ConnectedAndOpen' \subseteq ConnectedAndOpen
      BY <1>0, <1>1, <2>1 DEF OpenPage, ConnectedAndOpen, TypeOK
    <2> QED
      BY <1>0, <1>1, <2>2, CaughtUpKept DEF OpenPage
  <1>2. ASSUME NEW p \in Pages, LeavePage(p) PROVE CaughtUp'
    <2>1. ConnectedAndOpen' \subseteq ConnectedAndOpen \ {p}
      BY <1>0, <1>2 DEF LeavePage, ConnectedAndOpen, TypeOK
    <2>2. \A q \in ConnectedAndOpen' : view'[q] = view[q] /\ toPage'[q] = toPage[q]
      BY <1>0, <1>2, <2>1 DEF LeavePage, ConnectedAndOpen, TypeOK
    <2> QED
      BY <1>0, <1>2, <2>1, <2>2, CaughtUpKept DEF LeavePage
  <1>3. ASSUME NEW p \in Pages, Click(p) PROVE CaughtUp'
    BY <1>0, <1>3, SamePages, CaughtUpKept DEF Click
  <1>4. ASSUME NEW q \in Pages, PageReceive(q) PROVE CaughtUp'
    <2>1. /\ toPage[q] # <<>>
          /\ view' = [view EXCEPT ![q] = Shown(@, Head(toPage[q]))]
          /\ toPage' = [toPage EXCEPT ![q] = Tail(@)]
          /\ UNCHANGED <<connectedPages, page, username, events>>
      BY <1>4 DEF PageReceive
    <2>2. ASSUME NEW p \in ConnectedAndOpen' PROVE Agrees(Later(p), username, events)'
      <3>1. p \in ConnectedAndOpen /\ p \in Pages
        BY <1>0, <2>1, SamePages DEF ConnectedAndOpen, TypeOK
      <3>2. Later(p)' = Later(p)
        <4>1. CASE p = q
          <5>1. view'[p] = Shown(view[p], Head(toPage[p])) /\ toPage'[p] = Tail(toPage[p])
            BY <1>0, <2>1, <3>1, <4>1 DEF TypeOK
          <5>2. view[p] \in View /\ toPage[p] \in Seq(PageCall)
            BY <1>0, <3>1, LaterTyped
          <5> QED
            BY <2>1, <4>1, <5>1, <5>2, SeenTail DEF Later
        <4>2. CASE p # q
          <5>1. view'[p] = view[p] /\ toPage'[p] = toPage[p]
            BY <1>0, <2>1, <3>1, <4>2 DEF TypeOK
          <5> QED
            BY <5>1, LaterKept
        <4> QED
          BY <4>1, <4>2
      <3> QED
        BY <1>0, <2>1, <3>1, <3>2, CaughtUpAgrees DEF Agrees
    <2> QED
      BY <2>2, CaughtUpNext
  <1>5. ASSUME NEW p \in Pages, OnConnect(p) PROVE CaughtUp'
    BY <1>5, CaughtUpConnect
  <1>6. ASSUME NEW p \in Pages, WorkerReceive(p) PROVE CaughtUp'
    <2> DEFINE call == Head(toWorker[p])
    <2>1. /\ call \in WorkerCall
          /\ UNCHANGED <<connectedPages, page, view>>
      BY <1>0, <1>6, HeadTailProperties DEF WorkerReceive, TypeOK
    <2>2. \/ call.method = "login" /\ Login(call.user)
          \/ call.method = "logout" /\ Logout
          \/ call.method = "send" /\ SendMessage
      BY <1>6 DEF WorkerReceive
    <2> HIDE DEF call
    <2>3. CASE call.method = "login" /\ Login(call.user)
      BY <2>1, <2>3, WorkerCalls, CaughtUpLogin
    <2>4. CASE call.method = "logout" /\ Logout
      <3>1. InitCall(NoUser, <<>>) \in PageCall
        BY CallTypes, EmptySeq
      <3>2. \A v \in View : Agrees(Shown(v, InitCall(NoUser, <<>>)), username', events')
        BY <1>0, <2>4, AgreesLogout DEF Logout, TypeOK
      <3> QED
        BY <2>1, <2>4, <3>1, <3>2, CaughtUpBroadcast DEF Logout
    <2>5. CASE call.method = "send" /\ SendMessage
      BY <1>0, <2>1, <2>5, SamePages, CaughtUpKept DEF SendMessage
    <2> QED
      BY <2>2, <2>3, <2>4, <2>5
  <1>7. CASE StartWorker
    BY <1>0, <1>7, SamePages, CaughtUpKept DEF StartWorker
  <1>8. CASE StopWorker
    <2>1. ConnectedAndOpen' = {}
      BY <1>8 DEF StopWorker, WorkerReset, ConnectedAndOpen
    <2> QED
      BY <2>1, CaughtUpNext
  <1>9. CASE OnOpen
    <2> DEFINE m == [method |-> "connected"]
    <2>1. m \in PageCall /\ m.method \in {"connected", "disconnected"}
      BY CallTypes
    <2>2. Broadcast(<<m>>) /\ UNCHANGED <<connectedPages, page, view, username, events>>
      BY <1>9 DEF OnOpen
    <2> HIDE DEF m
    <2>3. \A v \in View : Agrees(v, username, events)
                            => Agrees(Shown(v, m), username', events')
      BY <2>1, <2>2, AgreesMask
    <2> QED
      BY <2>1, <2>2, <2>3, CaughtUpBroadcast
  <1>10. CASE OnClose
    <2> DEFINE m == [method |-> "disconnected"]
    <2>1. m \in PageCall /\ m.method \in {"connected", "disconnected"}
      BY CallTypes
    <2>2. Broadcast(<<m>>) /\ UNCHANGED <<connectedPages, page, view, username, events>>
      BY <1>10 DEF OnClose
    <2> HIDE DEF m
    <2>3. \A v \in View : Agrees(v, username, events)
                            => Agrees(Shown(v, m), username', events')
      BY <2>1, <2>2, AgreesMask
    <2> QED
      BY <2>1, <2>2, <2>3, CaughtUpBroadcast
  <1>11. CASE HandleEvent
    <2> DEFINE e == Head(fromServer)
    <2>1. e \in ChatEvent
      BY <1>0, <1>11, HeadTailProperties DEF HandleEvent, TypeOK
    <2>2. /\ Broadcast(<<EventCall(e)>>) /\ events' = Append(events, e)
          /\ UNCHANGED <<connectedPages, page, view, username>>
      BY <1>11 DEF HandleEvent
    <2> HIDE DEF e
    <2>3. \A v \in View : Agrees(v, username, events)
                            => Agrees(Shown(v, EventCall(e)), username', events')
      BY <1>0, <2>1, <2>2, AgreesEvent DEF TypeOK
    <2> QED
      BY <2>1, <2>2, <2>3, CallTypes, CaughtUpBroadcast
  <1>12. CASE ServerReceive
    BY <1>0, <1>12, SamePages, CaughtUpKept DEF ServerReceive
  <1>13. CASE OtherSession
    BY <1>0, <1>13, SamePages, CaughtUpKept DEF OtherSession
  <1> QED
    BY <1>1, <1>2, <1>3, <1>4, <1>5, <1>6, <1>7, <1>8, <1>9, <1>10, <1>11, <1>12,
       <1>13 DEF Next, PageStep

(***************************************************************************)
(* The name the server has.                                                *)
(***************************************************************************)
LEMMA NameSent ==
  ASSUME TypeOK, NEW m \in ServerCall, toServer' = Append(toServer, m),
         UNCHANGED <<loggedIn, cut>>, ServerHasTheName,
         \/ m.method = "login" /\ m.user = username'
         \/ m.method = "say" /\ username' = username
  PROVE  ServerHasTheName'
  <1>1. PICK n \in Nat : n = Len(toServer) /\ DOMAIN toServer = 1 .. n
    BY LenProperties DEF TypeOK
  <1>2. /\ DOMAIN toServer' = 1 .. n + 1 /\ toServer'[n + 1] = m
        /\ \A i \in 1 .. n : toServer'[i] = toServer[i]
    <2>1. toServer \in Seq(ServerCall)
      BY DEF TypeOK, ServerCall
    <2> QED
      BY <1>1, <2>1, AppendProperties, LenProperties
  <1>3. CASE m.method = "login" /\ m.user = username'
    <2>1. IsLogin(n + 1)'
      BY <1>2, <1>3 DEF IsLogin
    <2>2. ASSUME NEW i \in DOMAIN toServer', IsLastLogin(i)'
          PROVE  toServer'[i].user = username'
      <3>1. i = n + 1
        BY <1>1, <1>2, <2>1, <2>2 DEF IsLastLogin
      <3> QED
        BY <1>2, <1>3, <3>1
    <2>3. ~(\A i \in DOMAIN toServer' : ~IsLogin(i)')
      BY <1>1, <1>2, <2>1
    <2> QED
      BY <2>2, <2>3 DEF ServerHasTheName
  <1>4. CASE m.method = "say" /\ username' = username
    <2>1. \A i \in 1 .. n : IsLogin(i)' <=> IsLogin(i)
      BY <1>2 DEF IsLogin
    <2>2. ~IsLogin(n + 1)'
      BY <1>2, <1>4 DEF IsLogin
    <2>3. ASSUME NEW i \in DOMAIN toServer', IsLastLogin(i)'
          PROVE  toServer'[i].user = username'
      <3>1. IsLogin(i)' /\ i \in 1 .. n
        BY <1>1, <1>2, <2>2, <2>3 DEF IsLastLogin
      <3>2. IsLastLogin(i)
        BY <1>1, <1>2, <2>1, <2>3, <3>1 DEF IsLastLogin
      <3> QED
        BY <1>1, <1>2, <1>4, <3>1, <3>2 DEF ServerHasTheName
    <2>4. (\A i \in DOMAIN toServer' : ~IsLogin(i)') /\ ~cut'
            => loggedIn' \in {NoUser, username'}
      BY <1>1, <1>2, <1>4, <2>1 DEF ServerHasTheName
    <2> QED
      BY <2>3, <2>4 DEF ServerHasTheName
  <1> QED
    BY <1>3, <1>4

\* With no session on the socket there is nothing to be of another name.
LEMMA NameNoSession ==
  ASSUME toServer' = <<>>, loggedIn' = NoUser
  PROVE  ServerHasTheName'
  BY DEF ServerHasTheName

LEMMA NameReceived ==
  ASSUME TypeOK, ServerHasTheName, ServerReceive
  PROVE  ServerHasTheName'
  <1> DEFINE n == Len(toServer)
             m == Head(toServer)
  <1>1. n \in Nat /\ DOMAIN toServer = 1 .. n /\ n > 0 /\ m = toServer[1]
    BY LenProperties, EmptySeq DEF TypeOK, ServerReceive
  <1>2. /\ DOMAIN toServer' = 1 .. n - 1
        /\ \A i \in 1 .. n - 1 : toServer'[i] = toServer[i + 1]
    <2>1. toServer \in Seq(ServerCall)
      BY DEF TypeOK, ServerCall
    <2> QED
      BY <2>1, HeadTailProperties, LenProperties DEF ServerReceive
  <1>3. username' = username
    BY DEF ServerReceive, workerVars
  <1>4. \/ m.method = "login" /\ loggedIn' = m.user
        \/ m.method = "login" /\ cut'
        \/ m.method = "say" /\ UNCHANGED <<loggedIn, cut>>
    BY DEF ServerReceive, ServerLogin, ServerLoginThrows, ServerSay
  <1> HIDE DEF n, m
  <1>5. \A i \in 1 .. n - 1 : IsLogin(i)' <=> IsLogin(i + 1)
    BY <1>2 DEF IsLogin
  <1>6. ASSUME NEW i \in DOMAIN toServer', IsLastLogin(i)'
        PROVE  toServer'[i].user = username'
    <2>1. i \in 1 .. n - 1 /\ i + 1 \in 1 .. n
      BY <1>1, <1>2
    <2>2. IsLogin(i + 1)
      BY <1>5, <1>6, <2>1 DEF IsLastLogin
    <2>3. ASSUME NEW j \in 1 .. n, i + 1 < j PROVE ~IsLogin(j)
      <3>1. j - 1 \in 1 .. n - 1 /\ i < j - 1 /\ (j - 1) + 1 = j
        BY <1>1, <2>1, <2>3
      <3>2. ~IsLogin(j - 1)'
        BY <1>2, <1>6, <3>1 DEF IsLastLogin
      <3> QED
        BY <1>5, <3>1, <3>2
    <2>4. IsLastLogin(i + 1)
      BY <1>1, <2>2, <2>3 DEF IsLastLogin
    <2> QED
      BY <1>1, <1>2, <1>3, <2>1, <2>4 DEF ServerHasTheName
  <1>7. ASSUME \A i \in DOMAIN toServer' : ~IsLogin(i)', ~cut'
        PROVE  loggedIn' \in {NoUser, username'}
    <2>1. ASSUME NEW j \in 1 .. n, j # 1 PROVE ~IsLogin(j)
      <3>1. j - 1 \in 1 .. n - 1 /\ (j - 1) + 1 = j
        BY <1>1, <2>1
      <3> QED
        BY <1>2, <1>5, <1>7, <3>1
    <2>2. CASE m.method = "login" /\ loggedIn' = m.user
      <3>1. IsLastLogin(1)
        BY <1>1, <2>1, <2>2 DEF IsLastLogin, IsLogin
      <3> QED
        BY <1>1, <1>3, <2>2, <3>1 DEF ServerHasTheName
    <2>3. CASE m.method = "say" /\ UNCHANGED <<loggedIn, cut>>
      <3>1. ~IsLogin(1)
        BY <1>1, <2>3 DEF IsLogin
      <3> QED
        BY <1>1, <1>3, <1>7, <2>1, <2>3, <3>1 DEF ServerHasTheName
    <2> QED
      BY <1>4, <1>7, <2>2, <2>3
  <1> QED
    BY <1>6, <1>7 DEF ServerHasTheName

LEMMA NameStep ==
  ASSUME ChatInv, Next
  PROVE  ServerHasTheName'
  <1> USE DEF pageVars, workerVars, serverVars
  <1>0. TypeOK /\ ServerHasTheName /\ SessionOfSocket
    BY DEF ChatInv
  <1>1. ASSUME NEW p \in Pages,
               OpenPage(p) \/ LeavePage(p) \/ Click(p) \/ PageReceive(p) \/ OnConnect(p)
        PROVE  ServerHasTheName'
    <2>1. UNCHANGED <<toServer, username, loggedIn, cut>>
      BY <1>1 DEF OpenPage, LeavePage, Click, PageReceive, OnConnect
    <2> QED
      BY <1>0, <2>1, NameKept
  <1>2. ASSUME NEW p \in Pages, WorkerReceive(p) PROVE ServerHasTheName'
    <2> DEFINE call == Head(toWorker[p])
    <2>1. call \in WorkerCall /\ UNCHANGED <<loggedIn, cut>>
      BY <1>0, <1>2, HeadTailProperties DEF WorkerReceive, TypeOK
    <2>2. \/ call.method = "login" /\ Login(call.user)
          \/ call.method = "logout" /\ Logout
          \/ call.method = "send" /\ SendMessage
      BY <1>2 DEF WorkerReceive
    <2> HIDE DEF call
    <2>3. ASSUME socket # "open" PROVE ServerHasTheName'
      <3>1. toServer' = toServer
        BY <2>2, <2>3 DEF Login, Logout, SendMessage, Send
      <3>2. toServer' = <<>> /\ loggedIn' = NoUser
        BY <1>0, <2>1, <2>3, <3>1 DEF SessionOfSocket
      <3> QED
        BY <3>2, NameNoSession
    <2>4. ASSUME socket = "open" PROVE ServerHasTheName'
      <3>1. CASE call.method = "login" /\ Login(call.user)
        <4> DEFINE m == [method |-> "login", user |-> call.user]
        <4>1. m \in ServerCall /\ m.method = "login" /\ m.user = call.user
          BY <2>1, <3>1, WorkerCalls, CallTypes
        <4>2. toServer' = Append(toServer, m) /\ username' = call.user
          BY <2>4, <3>1 DEF Login, Send
        <4> HIDE DEF m
        <4> QED
          BY <1>0, <2>1, <4>1, <4>2, NameSent
      <3>2. CASE call.method = "logout" /\ Logout
        BY <1>0, <2>1, <3>2, NameKept DEF Logout
      <3>3. CASE call.method = "send" /\ SendMessage
        <4> DEFINE m == [method |-> "say"]
        <4>1. m \in ServerCall /\ m.method = "say"
          BY CallTypes
        <4>2. toServer' = Append(toServer, m) /\ username' = username
          BY <2>4, <3>3 DEF SendMessage, Send
        <4> HIDE DEF m
        <4> QED
          BY <1>0, <2>1, <4>1, <4>2, NameSent
      <3> QED
        BY <2>2, <3>1, <3>2, <3>3
    <2> QED
      BY <2>3, <2>4
  <1>3. CASE StopWorker \/ OnClose
    BY <1>3, NameNoSession DEF StopWorker, OnClose
  <1>4. CASE ServerReceive
    BY <1>0, <1>4, NameReceived
  <1>5. CASE StartWorker \/ OnOpen \/ HandleEvent \/ OtherSession
    <2>1. UNCHANGED <<toServer, username, loggedIn, cut>>
      BY <1>5 DEF StartWorker, OnOpen, HandleEvent, OtherSession
    <2> QED
      BY <1>0, <2>1, NameKept
  <1> QED
    BY <1>1, <1>2, <1>3, <1>4, <1>5 DEF Next, PageStep

(***************************************************************************)
(* The rest of the invariant, and what follows from it.                    *)
(***************************************************************************)
LEMMA SessionStep ==
  ASSUME ChatInv, Next
  PROVE  PagesOfWorker' /\ SessionOfSocket'
  <1> USE DEF pageVars, workerVars, serverVars
  <1>0. TypeOK /\ PagesOfWorker /\ SessionOfSocket
    BY DEF ChatInv
  <1>1. ASSUME NEW p \in Pages, PageStep(p)
        PROVE  PagesOfWorker' /\ SessionOfSocket'
    <2>1. CASE OpenPage(p) \/ LeavePage(p)
      BY <1>0, <2>1 DEF OpenPage, LeavePage, PagesOfWorker, SessionOfSocket, TypeOK
    <2>2. CASE Click(p) \/ PageReceive(p)
      BY <1>0, <2>2 DEF Click, PageReceive, PagesOfWorker, SessionOfSocket
    <2>3. CASE OnConnect(p)
      BY <1>0, <2>3 DEF OnConnect, PagesOfWorker, SessionOfSocket
    <2>4. CASE WorkerReceive(p)
      <3>1. UNCHANGED <<connectedPages, page, socket, loggedIn>>
        BY <2>4 DEF WorkerReceive
      <3>2. (events' = <<>> \/ events' = events) /\ (socket # "open" => toServer' = toServer)
        BY <2>4 DEF WorkerReceive, Login, Logout, SendMessage, Send
      <3> QED
        BY <1>0, <3>1, <3>2 DEF PagesOfWorker, SessionOfSocket
    <2> QED
      BY <1>1, <2>1, <2>2, <2>3, <2>4 DEF PageStep
  <1>2. CASE StartWorker
    BY <1>0, <1>2 DEF StartWorker, PagesOfWorker, SessionOfSocket
  <1>3. CASE StopWorker
    BY <1>3 DEF StopWorker, WorkerReset, PagesOfWorker, SessionOfSocket
  <1>4. CASE OnOpen \/ OnClose
    BY <1>0, <1>4 DEF OnOpen, OnClose, PagesOfWorker, SessionOfSocket
  <1>5. CASE HandleEvent \/ ServerReceive \/ OtherSession
    BY <1>0, <1>5
    DEF HandleEvent, ServerReceive, OtherSession, PagesOfWorker, SessionOfSocket
  <1> QED
    BY <1>1, <1>2, <1>3, <1>4, <1>5 DEF Next

LEMMA ChatStep ==
  ASSUME ChatInv, [Next]_vars
  PROVE  ChatInv'
  <1>1. CASE Next
    BY <1>1, TypeStep, CaughtUpStep, NameStep, SessionStep DEF ChatInv
  <1>2. CASE UNCHANGED vars
    <2>1. UNCHANGED <<page, view, toPage, username, events, connectedPages, toServer,
                      socket, loggedIn, cut>>
      BY <1>2 DEF vars, pageVars, workerVars, serverVars
    <2>2. CaughtUp'
      BY <2>1, SamePages, CaughtUpKept DEF ChatInv
    <2>3. ServerHasTheName'
      BY <2>1, NameKept DEF ChatInv
    <2> QED
      BY <1>2, <2>1, <2>2, <2>3, TypeStep DEF ChatInv, PagesOfWorker, SessionOfSocket
  <1> QED
    BY <1>1, <1>2

LEMMA ChatInvariant == Spec => []ChatInv
  BY ChatInit, ChatStep, PTL DEF Spec

\* A page in the chat, whenever it was opened and however the broadcasts to it and
\* the call of its setRemote interleave, comes to show the worker's name and exactly
\* the worker's messages.
THEOREM PagesCatchUp == Spec => []CaughtUp
  BY ChatInvariant, PTL DEF ChatInv

\* Once it has handled the logins on their way, the server has the name that the
\* worker shows its pages, or none, unless the last of them threw.
THEOREM ServerKnowsTheName == Spec => []ServerHasTheName
  BY ChatInvariant, PTL DEF ChatInv
=============================================================================
