------------------------- MODULE EasyChatRoomProofs -------------------------
(***************************************************************************)
(* Proofs about the easy chat room, for any number of sessions, names and  *)
(* logins: what the map promises although the threads iterate it without   *)
(* its lock.                                                               *)
(***************************************************************************)
EXTENDS EasyChatRoom, TLAPS

Closing == {"leave", "part", "closed"}

\* The Callback of a login has answered at most once, and not unless its flag is set.
Answered == \A s \in Sessions : answers[s] <= IF fired[s] THEN 1 ELSE 0

\* While a login runs the page is not in the room, and a name that has not been
\* refused is a name.
LoggingIn ==
  \A s \in Sessions :
    pc[s] \in {"check", "join", "success"} =>
      dialog[s] # "in" /\ (fired[s] \/ username[s] \in Names)

\* A login that reached onSuccess has put the session.
HasPut ==
  \A s \in Sessions : pc[s] = "success" => s \in loggedIn /\ name[s] = username[s]

\* Sessions that are in the room or have been: iterators meet no others, and no others
\* are told anything.
Been(s) == s \in loggedIn \/ pc[s] \in Closing
MeetsThoseBeen == \A s \in Sessions : \A t \in todo[s] : Been(t)
TellsThoseBeen == \A s \in Sessions : ~Been(s) => knows[s] = {}

\* Nobody has heard of a session before its login reaches the broadcast, unless an
\* earlier one was cut short.
NotHeardOf ==
  \A t \in Sessions :
    t \notin cut /\ t \notin loggedIn /\ pc[t] \in {"idle", "check"} =>
      \A s \in Sessions : t \notin knows[s]

\* Those in the room who know of a session that leaves are still to be told.
StillToTell ==
  \A t \in Sessions :
    pc[t] = "part" /\ t \notin cut =>
      \A s \in loggedIn \ lost : t \in knows[s] => s \in todo[t]

\* What relates a session to its own login.
SessionInv == Answered /\ LoggingIn /\ HasPut /\ ClosedIsOut /\ AcceptedIsIn

\* What relates sessions to each other.
RoomInv == MeetsThoseBeen /\ TellsThoseBeen /\ NotHeardOf /\ StillToTell /\ NoGhosts

-----------------------------------------------------------------------------
\* A structural change by s leaves iterators that have ended as they are, and all
\* others but for s.
Changed(s, keys) ==
  /\ loggedIn' = keys /\ stale' \subseteq Sessions
  /\ todo' \in [Sessions -> SUBSET Sessions]
  /\ todo'[s] = todo[s]
  /\ \A t \in Sessions : /\ todo[t] = {} => todo'[t] = {}
                         /\ todo'[t] \subseteq todo[t] \cup {s}
                         /\ todo[t] \ {s} \subseteq todo'[t]

LEMMA StructuralChange ==
  ASSUME TypeOK, NEW s \in Sessions, NEW keys \in SUBSET Sessions, Structural(s, keys)
  PROVE  Changed(s, keys)
  BY DEF TypeOK, Structural, Changed

\* A loop that is cut short was running, and nothing but its thread, its page and what
\* is told of it has changed.
LEMMA CutShortFacts ==
  ASSUME TypeOK, NEW s \in Sessions, Throw(s) \/ SendThrows(s)
  PROVE  /\ pc[s] \in {"check", "join", "part"} /\ CutShort(s) /\ Abort(s)
         /\ UNCHANGED <<lost, username, fired, answers, logins, loggedIn, name, knows>>
  BY DEF TypeOK, Throw, SendThrows, CutShort, call, map

\* What an answer changes of the session's own state.
LEMMA AnswerFacts ==
  ASSUME TypeOK, NEW s \in Sessions, NEW shown \in {"ready", "in"}, Answer(s, shown)
  PROVE  /\ fired' = [fired EXCEPT ![s] = TRUE] /\ fired' \in [Sessions -> BOOLEAN]
         /\ answers' \in [Sessions -> Nat] /\ answers'[s] <= answers[s] + 1
         /\ \A t \in Sessions \ {s} : answers'[t] = answers[t] /\ dialog'[t] = dialog[t]
         /\ dialog' \in [Sessions -> {"ready", "waiting", "in", "stuck"}]
         /\ dialog'[s] \in {dialog[s], shown}
  BY DEF TypeOK, Answer

\* A turn of the loop over the names: the thread goes on to the next, or is aborted, and
\* the Callback may be used for the first time.
LEMMA CheckFacts ==
  ASSUME TypeOK, NEW s \in Sessions, Check(s)
  PROVE  /\ pc[s] = "check" /\ UNCHANGED <<username, logins, lost, loggedIn, name, knows, cut>>
         /\ fired' \in [Sessions -> BOOLEAN]
         /\ \A t \in Sessions : fired[t] => fired'[t]
         /\ \/ Abort(s) /\ UNCHANGED answers
            \/ /\ \E t \in todo[s] : Visit(s, t)
               /\ UNCHANGED <<pc, stale>>
               /\ UNCHANGED <<dialog, fired, answers>> \/ (~fired[s] /\ Answer(s, "ready"))
  <1>1. pc[s] = "check" /\ UNCHANGED <<username, logins, lost, loggedIn, name, knows, cut>>
    BY DEF Check, map
  <1>2. \/ UNCHANGED fired
        \/ fired' = [fired EXCEPT ![s] = TRUE]
    BY DEF Check, Fail, Answer
  <1>3. fired' \in [Sessions -> BOOLEAN] /\ \A t \in Sessions : fired[t] => fired'[t]
    <2>1. fired \in [Sessions -> BOOLEAN]
      BY DEF TypeOK
    <2> QED
      BY <1>2, <2>1
  <1>4. \/ Abort(s) /\ UNCHANGED answers
        \/ /\ \E t \in todo[s] : Visit(s, t)
           /\ UNCHANGED <<pc, stale>>
           /\ UNCHANGED <<dialog, fired, answers>> \/ (~fired[s] /\ Answer(s, "ready"))
    BY DEF Check, Fail
  <1> QED
    BY <1>1, <1>3, <1>4

\* The types hold at the start.
LEMMA TypeInit == Init => TypeOK
<1> SUFFICES ASSUME Init PROVE TypeOK
  OBVIOUS
<1>1. logins \in 0 .. MaxLogins
  BY RoomAssumption DEF Init
<1>2. answers \in [Sessions -> Nat]
  BY DEF Init
<1> QED
  BY <1>1, <1>2 DEF Init, TypeOK, Typed

\* No login has been answered, and nobody is in the room.
LEMMA SessionInit == Init => SessionInv
  BY DEF Init, SessionInv, Answered, LoggingIn, HasPut, ClosedIsOut, AcceptedIsIn

\* Nobody has been told of anybody.
LEMMA RoomInit == Init => RoomInv
  BY DEF Init, RoomInv, MeetsThoseBeen, TellsThoseBeen, NotHeardOf, StillToTell, NoGhosts,
         Been, Closing

\* Every action of a session keeps the types.
LEMMA TypeStep == TypeOK /\ [Next]_vars => TypeOK'
<1> SUFFICES ASSUME TypeOK, [Next]_vars PROVE TypeOK'
  OBVIOUS
<1> USE DEF TypeOK, Typed, Goto, call, map, iterators
<1>1. CASE UNCHANGED vars
  BY <1>1 DEF vars
<1>2. ASSUME NEW s \in Sessions, Step(s) PROVE TypeOK'
  <2>1. CASE Login(s)
    <3>1. PICK u \in Typed : LoginAs(s, u)
      BY <2>1 DEF Login
    <3>2. logins' \in 0 .. MaxLogins
      BY <3>1, RoomAssumption DEF LoginAs
    <3>3. answers' \in [Sessions -> Nat]
      BY <3>1 DEF LoginAs
    <3>4. fired' \in [Sessions -> BOOLEAN]
      BY <3>1 DEF LoginAs
    <3> QED
      BY <3>1, <3>2, <3>3, <3>4 DEF LoginAs, Iterate
  <2>2. CASE Throw(s) \/ SendThrows(s)
    <3>1. Abort(s) /\ CutShort(s)
      BY <2>2, CutShortFacts
    <3>2. cut' \subseteq Sessions
      BY <3>1 DEF CutShort
    <3> QED
      BY <2>2, <3>1, <3>2, CutShortFacts DEF Abort
  <2>3. CASE Check(s)
    <3>1. CASE Abort(s) /\ UNCHANGED answers
      BY <2>3, <3>1, CheckFacts DEF Abort
    <3>2. CASE /\ \E t \in todo[s] : Visit(s, t)
               /\ UNCHANGED <<pc, stale>>
               /\ UNCHANGED <<dialog, fired, answers>> \/ (~fired[s] /\ Answer(s, "ready"))
      <4>1. /\ fired' \in [Sessions -> BOOLEAN] /\ answers' \in [Sessions -> Nat]
            /\ dialog' \in [Sessions -> {"ready", "waiting", "in", "stuck"}]
        <5>1. CASE UNCHANGED <<dialog, fired, answers>>
          BY <5>1
        <5>2. CASE Answer(s, "ready")
          BY <5>2, AnswerFacts
        <5> QED
          BY <3>2, <5>1, <5>2
      <4>2. /\ todo' \in [Sessions -> SUBSET Sessions]
            /\ \A r \in Sessions : todo[r] = {} => todo'[r] = {}
        BY <3>2 DEF Visit
      <4> QED
        BY <2>3, <3>2, <4>1, <4>2, CheckFacts
    <3> QED
      BY <2>3, <3>1, <3>2, CheckFacts
  <2>4. CASE Checked(s)
    BY <2>4 DEF Checked, Iterate
  <2>5. CASE Join(s)
    <3>1. PICK t \in todo[s] : Visit(s, t) /\ Tell(t, knows[t] \cup {s})
      BY <2>5 DEF Join
    <3>2. knows' \in [Sessions -> SUBSET Sessions]
      BY <3>1 DEF Tell
    <3> QED
      BY <2>5, <3>1, <3>2 DEF Join, Visit
  <2>6. CASE Put(s)
    <3>1. CASE s \notin loggedIn
      <4>1. Changed(s, loggedIn \cup {s})
        BY <2>6, <3>1, StructuralChange DEF Put
      <4> QED
        BY <2>6, <3>1, <4>1 DEF Put, Changed
    <3>2. CASE ~(s \notin loggedIn)
      BY <2>6, <3>2 DEF Put
    <3> QED
      BY <3>1, <3>2
  <2>7. CASE Success(s)
    <3>1. CASE fired[s]
      BY <2>7, <3>1 DEF Success
    <3>2. CASE ~fired[s]
      <4>1. Answer(s, "in")
        BY <2>7, <3>2 DEF Success
      <4> QED
        BY <2>7, <3>2, <4>1, AnswerFacts DEF Success
    <3> QED
      BY <3>1, <3>2
  <2>8. CASE OnClose(s)
    <3>1. CASE s \in loggedIn
      <4>1. Changed(s, loggedIn \ {s})
        BY <2>8, <3>1, StructuralChange DEF OnClose
      <4> QED
        BY <2>8, <3>1, <4>1 DEF OnClose, Changed
    <3>2. CASE ~(s \in loggedIn)
      BY <2>8, <3>2 DEF OnClose
    <3> QED
      BY <3>1, <3>2
  <2>9. CASE Leave(s)
    BY <2>9 DEF Leave, Iterate
  <2>10. CASE Part(s)
    <3>1. CASE todo[s] = {}
      BY <2>10, <3>1 DEF Part, Visit
    <3>2. CASE todo[s] # {}
      <4>1. PICK t \in todo[s] : Visit(s, t) /\ Tell(t, knows[t] \ {s}) /\ UNCHANGED pc
        BY <2>10, <3>2 DEF Part
      <4>2. knows' \in [Sessions -> SUBSET Sessions]
        BY <4>1 DEF Tell
      <4> QED
        BY <2>10, <4>1, <4>2 DEF Part, Visit
    <3> QED
      BY <3>1, <3>2
  <2>11. CASE Lose(s)
    BY <2>11 DEF Lose
  <2> QED
    BY <1>2, <2>1, <2>2, <2>3, <2>4, <2>5, <2>6, <2>7, <2>8, <2>9, <2>10, <2>11 DEF Step
<1> QED
  BY <1>1, <1>2 DEF Next

\* What a session did is in step with its login: only its own actions write its state,
\* its Callback and its key.
LEMMA SessionStep == TypeOK /\ SessionInv /\ [Next]_vars => SessionInv'
<1> SUFFICES ASSUME TypeOK, SessionInv, [Next]_vars PROVE SessionInv'
  OBVIOUS
<1> USE DEF SessionInv, Answered, LoggingIn, HasPut, ClosedIsOut, AcceptedIsIn, TypeOK, Typed,
         Goto, call, map, iterators
<1>1. CASE UNCHANGED vars
  BY <1>1 DEF vars
<1>2. ASSUME NEW s \in Sessions, Step(s) PROVE SessionInv'
  <2>1. CASE Login(s)
    <3>1. PICK u \in Typed : LoginAs(s, u)
      BY <2>1 DEF Login
    <3>2. Refusals(s, u) = 0 => u \in Names
      BY <3>1 DEF Refusals
    <3>3. Answered'
      <4> SUFFICES ASSUME NEW t \in Sessions
                   PROVE  answers'[t] <= IF fired'[t] THEN 1 ELSE 0
        OBVIOUS
      <4>1. CASE t = s
        <5>1. answers'[s] = IF Refusals(s, u) > 0 /\ s \notin lost THEN 1 ELSE 0
          BY <3>1 DEF LoginAs
        <5>2. Refusals(s, u) > 0 => fired'[s]
          BY <3>1 DEF LoginAs
        <5>3. answers'[s] = 0 \/ (answers'[s] = 1 /\ fired'[s])
          BY <5>1, <5>2
        <5> QED
          BY <4>1, <5>3
      <4>2. CASE t # s
        BY <3>1, <4>2 DEF LoginAs
      <4> QED
        BY <4>1, <4>2
    <3>4. LoggingIn'
      <4> SUFFICES ASSUME NEW t \in Sessions, pc'[t] \in {"check", "join", "success"}
                   PROVE  dialog'[t] # "in" /\ (fired'[t] \/ username'[t] \in Names)
        OBVIOUS
      <4>1. CASE t = s
        <5>1. Refusals(s, u) > 0 \/ Refusals(s, u) = 0
          BY DEF Refusals
        <5>2. fired'[s] = (Refusals(s, u) > 0) /\ username'[s] = u /\ dialog'[s] # "in"
          BY <3>1 DEF LoginAs
        <5> QED
          BY <3>2, <4>1, <5>1, <5>2
      <4>2. CASE t # s
        BY <3>1, <4>2 DEF LoginAs
      <4> QED
        BY <4>1, <4>2
    <3>5. (HasPut /\ ClosedIsOut /\ AcceptedIsIn)'
      BY <3>1 DEF LoginAs
    <3> QED
      BY <3>3, <3>4, <3>5
  <2>2. CASE Throw(s) \/ SendThrows(s)
    BY <2>2, CutShortFacts DEF Abort
  <2>3. CASE Check(s)
    <3>1. CASE Abort(s) /\ UNCHANGED answers
      <4>1. Answered'
        <5>1. \A t \in Sessions : fired[t] => fired'[t]
          BY <2>3, CheckFacts
        <5> QED
          BY <3>1, <5>1
      <4>2. (LoggingIn /\ HasPut /\ ClosedIsOut /\ AcceptedIsIn)'
        BY <2>3, <3>1, CheckFacts DEF Abort
      <4> QED
        BY <4>1, <4>2
    <3>2. CASE UNCHANGED <<pc, stale>> /\ UNCHANGED <<dialog, fired, answers>>
      BY <2>3, <3>2, CheckFacts
    <3>3. CASE UNCHANGED <<pc, stale>> /\ ~fired[s] /\ Answer(s, "ready")
      <4>1. Answered'
        BY <3>3, AnswerFacts
      <4>2. (LoggingIn /\ HasPut /\ ClosedIsOut /\ AcceptedIsIn)'
        BY <2>3, <3>3, CheckFacts, AnswerFacts
      <4> QED
        BY <4>1, <4>2
    <3> QED
      BY <2>3, <3>1, <3>2, <3>3, CheckFacts
  <2>4. CASE Checked(s)
    BY <2>4 DEF Checked, Iterate
  <2>5. CASE Join(s)
    BY <2>5 DEF Join, Visit
  <2>6. CASE Put(s)
    <3>1. CASE s \notin loggedIn
      <4>1. Changed(s, loggedIn \cup {s})
        BY <2>6, <3>1, StructuralChange DEF Put
      <4> QED
        BY <2>6, <3>1, <4>1 DEF Put, Changed
    <3>2. CASE ~(s \notin loggedIn)
      BY <2>6, <3>2 DEF Put
    <3> QED
      BY <3>1, <3>2
  <2>7. CASE Success(s)
    <3>1. CASE fired[s]
      BY <2>7, <3>1 DEF Success
    <3>2. CASE ~fired[s]
      <4>1. Answer(s, "in")
        BY <2>7, <3>2 DEF Success
      <4>2. Answered'
        BY <3>2, <4>1, AnswerFacts
      <4>3. (LoggingIn /\ HasPut /\ ClosedIsOut /\ AcceptedIsIn)'
        BY <2>7, <3>2, <4>1, AnswerFacts DEF Success
      <4> QED
        BY <4>2, <4>3
    <3> QED
      BY <3>1, <3>2
  <2>8. CASE OnClose(s)
    <3>1. CASE s \in loggedIn
      <4>1. Changed(s, loggedIn \ {s})
        BY <2>8, <3>1, StructuralChange DEF OnClose
      <4> QED
        BY <2>8, <3>1, <4>1 DEF OnClose, Changed
    <3>2. CASE ~(s \in loggedIn)
      BY <2>8, <3>2 DEF OnClose
    <3> QED
      BY <3>1, <3>2
  <2>9. CASE Leave(s)
    BY <2>9 DEF Leave, Iterate
  <2>10. CASE Part(s)
    BY <2>10 DEF Part, Visit
  <2>11. CASE Lose(s)
    BY <2>11 DEF Lose
  <2> QED
    BY <1>2, <2>1, <2>2, <2>3, <2>4, <2>5, <2>6, <2>7, <2>8, <2>9, <2>10, <2>11 DEF Step
<1> QED
  BY <1>1, <1>2 DEF Next

\* The threads that share the map keep what the room knows true.  A put or remove
\* under a running iterator only adds or drops the key of its own session.
LEMMA RoomStep == TypeOK /\ SessionInv /\ RoomInv /\ [Next]_vars => RoomInv'
<1> SUFFICES ASSUME TypeOK, SessionInv, RoomInv, [Next]_vars PROVE RoomInv'
  OBVIOUS
<1> USE DEF RoomInv, MeetsThoseBeen, TellsThoseBeen, NotHeardOf, StillToTell, NoGhosts, Been,
         Closing, SessionInv, HasPut, ClosedIsOut, TypeOK, Goto, call, map, iterators
<1>1. CASE UNCHANGED vars
  BY <1>1 DEF vars
<1>2. ASSUME NEW s \in Sessions, Step(s) PROVE RoomInv'
  <2>1. CASE Login(s)
    BY <2>1 DEF Login, LoginAs, Iterate
  <2>2. CASE Throw(s) \/ SendThrows(s)
    <3>1. /\ pc[s] \in {"check", "join", "part"} /\ Abort(s)
          /\ UNCHANGED <<lost, loggedIn, name, knows>>
      BY <2>2, CutShortFacts
    <3>2. cut' = IF pc[s] = "part" \/ (pc[s] = "join" /\ s \notin loggedIn)
                  THEN cut \cup {s} ELSE cut
      BY <2>2, CutShortFacts DEF CutShort
    <3>3. (MeetsThoseBeen /\ TellsThoseBeen)'
      BY <3>1 DEF Abort
    <3>4. (NotHeardOf /\ StillToTell /\ NoGhosts)'
      BY <3>1, <3>2 DEF Abort
    <3> QED
      BY <3>3, <3>4
  <2>3. CASE Check(s)
    <3>1. CASE Abort(s)
      <4>1. /\ pc[s] = "check" /\ pc' = [pc EXCEPT ![s] = "idle"]
            /\ todo' = [todo EXCEPT ![s] = {}]
        BY <2>3, <3>1, CheckFacts DEF Abort
      <4>2. UNCHANGED <<lost, loggedIn, name, knows, cut>>
        BY <2>3, CheckFacts
      <4> QED
        BY <4>1, <4>2
    <3>2. CASE (\E t \in todo[s] : Visit(s, t)) /\ UNCHANGED pc
      BY <2>3, <3>2, CheckFacts DEF Visit
    <3> QED
      BY <2>3, <3>1, <3>2, CheckFacts
  <2>4. CASE Checked(s)
    BY <2>4 DEF Checked, Iterate
  <2>5. CASE Join(s)
    BY <2>5 DEF Join, Visit, Tell
  <2>6. CASE Put(s)
    <3>1. CASE s \notin loggedIn
      <4>1. Changed(s, loggedIn \cup {s})
        BY <2>6, <3>1, StructuralChange DEF Put
      <4> QED
        BY <2>6, <3>1, <4>1 DEF Put, Changed
    <3>2. CASE ~(s \notin loggedIn)
      BY <2>6, <3>2 DEF Put
    <3> QED
      BY <3>1, <3>2
  <2>7. CASE Success(s)
    BY <2>7 DEF Success
  <2>8. CASE OnClose(s)
    <3>1. CASE s \in loggedIn
      <4>1. Changed(s, loggedIn \ {s})
        BY <2>8, <3>1, StructuralChange DEF OnClose
      <4> QED
        BY <2>8, <3>1, <4>1 DEF OnClose, Changed
    <3>2. CASE ~(s \in loggedIn)
      BY <2>8, <3>2 DEF OnClose
    <3> QED
      BY <3>1, <3>2
  <2>9. CASE Leave(s)
    BY <2>9 DEF Leave, Iterate
  <2>10. CASE Part(s)
    BY <2>10 DEF Part, Visit, Tell
  <2>11. CASE Lose(s)
    BY <2>11 DEF Lose
  <2> QED
    BY <1>2, <2>1, <2>2, <2>3, <2>4, <2>5, <2>6, <2>7, <2>8, <2>9, <2>10, <2>11 DEF Step
<1> QED
  BY <1>1, <1>2 DEF Next

-----------------------------------------------------------------------------
\* Every variable has its type, however the threads interleave.
THEOREM TypeCorrect == Spec => []TypeOK
  BY TypeInit, TypeStep, PTL DEF Spec

\* SessionInv and RoomInv hold in every reachable state.
LEMMA InvariantsHold == Spec => [](TypeOK /\ SessionInv /\ RoomInv)
<1>1. Spec => []TypeOK
  BY TypeCorrect
<1>2. TypeOK /\ SessionInv /\ [Next]_vars => SessionInv'
  BY SessionStep
<1>3. TypeOK /\ SessionInv /\ RoomInv /\ [Next]_vars => RoomInv'
  BY RoomStep
<1> QED
  BY <1>1, <1>2, <1>3, SessionInit, RoomInit, PTL DEF Spec

\* onClose takes a session out of the map for good, whatever other threads do with it.
THEOREM ClosedSessionsAreOut == Spec => []ClosedIsOut
<1>1. SessionInv => ClosedIsOut
  BY DEF SessionInv
<1> QED
  BY <1>1, InvariantsHold, PTL

\* A login is answered at most once, for its Callback is one-time.
THEOREM LoginsAreAnsweredOnce == Spec => []OneAnswer
<1>1. TypeOK /\ SessionInv => OneAnswer
  <2> SUFFICES ASSUME TypeOK, SessionInv, NEW s \in Sessions PROVE answers[s] <= 1
    BY DEF OneAnswer
  <2>1. answers[s] \in Nat /\ answers[s] <= IF fired[s] THEN 1 ELSE 0
    BY DEF TypeOK, SessionInv, Answered
  <2> QED
    BY <2>1
<1> QED
  BY <1>1, InvariantsHold, PTL

\* Who was let in is in the map, under the name that was asked for.
THEOREM AcceptedUsersAreIn == Spec => []AcceptedIsIn
<1>1. SessionInv => AcceptedIsIn
  BY DEF SessionInv
<1> QED
  BY <1>1, InvariantsHold, PTL

\* Nobody who is there is left with a user who has gone, unless the broadcast of that
\* very user's login or onClose was cut short or the name is null.
THEOREM NobodySeesGhosts == Spec => []NoGhosts
<1>1. RoomInv => NoGhosts
  BY DEF RoomInv
<1> QED
  BY <1>1, InvariantsHold, PTL

=============================================================================
