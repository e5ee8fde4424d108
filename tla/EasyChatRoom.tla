---------------------------- MODULE EasyChatRoom ----------------------------
(***************************************************************************)
(* The easy chat room sample: ChatServerImpl, whose sessions each run on a *)
(* thread of their own over one map, and the page's login dialog.  The map *)
(* is a synchronized HashMap that is iterated without its lock: after a    *)
(* change by another thread, an iterator may throw, or go on and see the   *)
(* change or not.  A connection may go at any time, and its session is in  *)
(* the map until its onClose has run: to send to it throws, or fails a     *)
(* future that nobody looks at, as the container has it.                   *)
(***************************************************************************)
EXTENDS Integers, FiniteSets

CONSTANTS
  Sessions,
  Names,                \* names that are not empty
  Empty, Null,          \* what a dialog returns that is left empty or cancelled
  MaxLogins             \* bound: logins the pages try, all together

ASSUME RoomAssumption ==
  /\ Empty # Null /\ {Empty, Null} \cap Names = {}
  /\ MaxLogins \in Nat

Typed == Names \cup {Empty, Null}

VARIABLES
  pc,                   \* where the thread of a session is
  dialog,               \* the page: "ready" to log in, "waiting", "in", "stuck"
  username,             \* parameter of the login a session runs
  fired,                \* flag of that login's Callback
  answers,              \* history: answers that Callback gave
  lost,                 \* sessions that are closed, whether or not onClose has run
  loggedIn, name,       \* the map: its keys, and the value of each
  todo,                 \* keys the iterator of a session has not visited
  stale,                \* sessions whose iterator the map was changed under
  knows,                \* knows[s]: sessions s was told have joined and not left
  cut,                  \* history: sessions that came or left, as only some were told
  logins                \* counter for the bound

map == <<loggedIn, name>>
iterators == <<todo, stale>>
call == <<username, fired, answers, logins>>
vars == <<pc, dialog, lost, call, map, iterators, knows, cut>>

Init ==
  /\ pc = [s \in Sessions |-> "idle"]
  /\ dialog = [s \in Sessions |-> "ready"]
  /\ username = [s \in Sessions |-> Null]
  /\ fired = [s \in Sessions |-> FALSE]
  /\ answers = [s \in Sessions |-> 0]
  /\ lost = {}
  /\ loggedIn = {} /\ name = [s \in Sessions |-> Null]
  /\ todo = [s \in Sessions |-> {}] /\ stale = {}
  /\ knows = [s \in Sessions |-> {}] /\ cut = {}
  /\ logins = 0

-----------------------------------------------------------------------------

Goto(s, label) == pc' = [pc EXCEPT ![s] = label]

Iterate(s) ==
  /\ todo' = [todo EXCEPT ![s] = loggedIn]
  /\ stale' = stale \ {s}

\* A key is put or removed by s: any other iterator that has not ended becomes
\* stale, and whether it meets that key is open.
Structural(s, keys) ==
  LET running == {t \in Sessions \ {s} : todo[t] # {}}
  IN  /\ loggedIn' = keys
      /\ stale' = stale \cup running
      /\ \E meets \in SUBSET running :
           todo' = [t \in Sessions |->
                      IF t \notin running THEN todo[t]
                      ELSE IF t \in meets THEN todo[t] \cup {s} ELSE todo[t] \ {s}]

\* The Callback of s is used for the first time: the page hears of it while it is
\* there.
Answer(s, shown) ==
  /\ fired' = [fired EXCEPT ![s] = TRUE]
  /\ IF s \in lost THEN UNCHANGED <<answers, dialog>>
     ELSE /\ answers' = [answers EXCEPT ![s] = @ + 1]
          /\ dialog' = [dialog EXCEPT ![s] = shown]

\* Callback.onFailure returns to its caller the first time, and so does not end
\* the login; the page asks for another name.
Fail(s) == Answer(s, "ready")

\* An exception ends the handler; RpcEndpoint hands it to onError, which prints it.
Abort(s) ==
  /\ Goto(s, IF pc[s] = "part" THEN "closed" ELSE "idle")
  /\ dialog' = IF dialog[s] = "waiting" /\ ~fired[s]
                 THEN [dialog EXCEPT ![s] = "stuck"] ELSE dialog
  /\ todo' = [todo EXCEPT ![s] = {}]
  /\ stale' = stale \ {s}

Refusals(s, u) ==
  (IF u \in {Empty, Null} THEN 1 ELSE 0) + (IF s \in loggedIn THEN 1 ELSE 0)

\* login up to its first loop: the tests of the name and of the own key, of which
\* the second to fail throws, and the first may if the page has gone.
LoginAs(s, u) ==
  /\ pc[s] = "idle" /\ dialog[s] = "ready" /\ logins < MaxLogins
  /\ logins' = logins + 1
  /\ username' = [username EXCEPT ![s] = u]
  /\ fired' = [fired EXCEPT ![s] = Refusals(s, u) > 0]
  /\ LET told == Refusals(s, u) > 0 /\ s \notin lost
     IN  /\ answers' = [answers EXCEPT ![s] = IF told THEN 1 ELSE 0]
         /\ dialog' = [dialog EXCEPT ![s] = IF told THEN "ready" ELSE "waiting"]
  /\ \/ /\ Refusals(s, u) > 1 \/ (Refusals(s, u) = 1 /\ s \in lost)
        /\ UNCHANGED <<pc, iterators>>
     \/ /\ Refusals(s, u) <= 1
        /\ Goto(s, "check") /\ Iterate(s)
  /\ UNCHANGED <<lost, map, knows, cut>>
Login(s) == \E u \in Typed : LoginAs(s, u)

\* A broadcast of s ends early.  Who comes and is not in the map yet, or leaves, was
\* announced to some only.
CutShort(s) ==
  /\ Abort(s)
  /\ cut' = IF pc[s] = "part" \/ (pc[s] = "join" /\ s \notin loggedIn)
              THEN cut \cup {s} ELSE cut
  /\ UNCHANGED <<lost, call, map, knows>>

\* ConcurrentModificationException.
Throw(s) == s \in stale /\ todo[s] # {} /\ CutShort(s)

\* connected.join or connected.part throws, for sendText does.
SendThrows(s) == pc[s] \in {"join", "part"} /\ todo[s] \cap lost # {} /\ CutShort(s)

Visit(s, t) == t \in todo[s] /\ todo' = [todo EXCEPT ![s] = @ \ {t}]

\* A turn of the loop over the names: null has no equals, and a second refusal
\* throws, or the first if the page has gone.
Check(s) ==
  /\ pc[s] = "check"
  /\ \E t \in todo[s] :
       IF name[t] = Null \/ (name[t] = username[s] /\ fired[s])
         THEN Abort(s) /\ UNCHANGED <<fired, answers>>
       ELSE IF name[t] # username[s]
         THEN Visit(s, t) /\ UNCHANGED <<pc, dialog, fired, answers, stale>>
       ELSE \/ Visit(s, t) /\ Fail(s) /\ UNCHANGED <<pc, stale>>
            \/ /\ s \in lost /\ Abort(s)
               /\ fired' = [fired EXCEPT ![s] = TRUE] /\ UNCHANGED answers
  /\ UNCHANGED <<username, logins, lost, map, knows, cut>>

Checked(s) ==
  /\ pc[s] = "check" /\ todo[s] = {}
  /\ Goto(s, "join") /\ Iterate(s)
  /\ UNCHANGED <<dialog, lost, call, map, knows, cut>>

\* What t knows once it is sent that, unless its connection has gone.
Tell(t, known) == knows' = IF t \in lost THEN knows ELSE [knows EXCEPT ![t] = known]

\* A turn of the loop in login that returns.
Join(s) ==
  /\ pc[s] = "join"
  /\ \E t \in todo[s] : Visit(s, t) /\ Tell(t, knows[t] \cup {s})
  /\ UNCHANGED <<pc, dialog, lost, call, map, stale, cut>>

\* Mutation of Put: those who were refused are put, the others are not.
Put_Refused(s) ==
  /\ pc[s] = "join" /\ todo[s] = {}
  /\ name' = [name EXCEPT ![s] = username[s]]
  /\ IF s \in loggedIn \/ ~fired[s] THEN UNCHANGED <<loggedIn, iterators>>
     ELSE Structural(s, loggedIn \cup {s})
  /\ Goto(s, "success")
  /\ cut' = cut \ {s}
  /\ UNCHANGED <<dialog, lost, call, knows>>

\* Mutation of Put: the loop before it is left after any turn.
Put_LeavesLoop(s) ==
  /\ pc[s] = "join"
  /\ name' = [name EXCEPT ![s] = username[s]]
  /\ loggedIn' = loggedIn \cup {s}
  /\ Goto(s, "success")
  /\ cut' = cut \ {s}
  /\ UNCHANGED <<iterators, dialog, lost, call, knows>>

\* A value put for a key that is there is no structural change.
Put(s) ==
  /\ pc[s] = "join" /\ todo[s] = {}
  /\ name' = [name EXCEPT ![s] = username[s]]
  /\ IF s \in loggedIn THEN UNCHANGED <<loggedIn, iterators>>
     ELSE Structural(s, loggedIn \cup {s})
  /\ cut' = cut \ {s}
  /\ Goto(s, "success")
  /\ UNCHANGED <<dialog, lost, call, knows>>

\* Mutation of Success: it answers a login that was refused too.
Success_Always(s) ==
  /\ pc[s] = "success"
  /\ answers' = [answers EXCEPT ![s] = @ + 1]
  /\ dialog' = [dialog EXCEPT ![s] = "in"]
  /\ Goto(s, "idle")
  /\ UNCHANGED <<username, fired, logins, lost, map, iterators, knows, cut>>

\* callback.onSuccess throws if the login was refused, or may if the page has gone;
\* the ping after it is sent otherwise, and its answer changes nothing.
Success(s) ==
  /\ pc[s] = "success"
  /\ IF fired[s] THEN UNCHANGED <<dialog, fired, answers>> ELSE Answer(s, "in")
  /\ Goto(s, "idle")
  /\ UNCHANGED <<username, logins, lost, map, iterators, knows, cut>>

\* The page is left, or the connection breaks, whatever the thread of s is doing.
Lose(s) ==
  /\ s \notin lost
  /\ lost' = lost \cup {s}
  /\ UNCHANGED <<pc, dialog, call, map, iterators, knows, cut>>

\* Mutation of OnClose: the room is not told.
OnClose_TellsNobody(s) ==
  /\ pc[s] = "idle" /\ s \in lost
  /\ IF s \in loggedIn THEN Structural(s, loggedIn \ {s}) ELSE UNCHANGED <<loggedIn, iterators>>
  /\ Goto(s, "closed")
  /\ UNCHANGED <<name, dialog, lost, call, knows, cut>>

\* Mutation of OnClose: the session stays in the map.
OnClose_Stays(s) ==
  /\ pc[s] = "idle" /\ s \in lost
  /\ IF s \in loggedIn /\ name[s] # Null THEN Goto(s, "leave") ELSE Goto(s, "closed")
  /\ UNCHANGED <<map, iterators, dialog, lost, call, knows, cut>>

\* loggedIn.remove of onClose, once the handler before it has returned; a user
\* whose name is null is taken for one who is not in the room.
OnClose(s) ==
  /\ pc[s] = "idle" /\ s \in lost
  /\ IF s \in loggedIn THEN Structural(s, loggedIn \ {s})
     ELSE UNCHANGED <<loggedIn, iterators>>
  /\ IF s \in loggedIn /\ name[s] # Null THEN Goto(s, "leave") ELSE Goto(s, "closed")
  /\ UNCHANGED <<name, dialog, lost, call, knows, cut>>

Leave(s) ==
  /\ pc[s] = "leave"
  /\ Goto(s, "part") /\ Iterate(s)
  /\ UNCHANGED <<dialog, lost, call, map, knows, cut>>

\* A turn of the loop in onClose that returns, or its end.
Part(s) ==
  /\ pc[s] = "part"
  /\ \/ \E t \in todo[s] :
          /\ Visit(s, t) /\ Tell(t, knows[t] \ {s})
          /\ UNCHANGED pc
     \/ todo[s] = {} /\ Goto(s, "closed") /\ UNCHANGED <<todo, knows>>
  /\ UNCHANGED <<dialog, lost, call, map, stale, cut>>

Step(s) ==
  Login(s) \/ Throw(s) \/ SendThrows(s) \/ Check(s) \/ Checked(s) \/ Join(s) \/ Put(s)
    \/ Success(s) \/ Lose(s) \/ OnClose(s) \/ Leave(s) \/ Part(s)

Next == \E s \in Sessions : Step(s)

Spec == Init /\ [][Next]_vars

-----------------------------------------------------------------------------
(* Properties.                                                             *)

\* Every variable has its type; an iterator runs only in a loop.
TypeOK ==
  /\ pc \in [Sessions -> {"idle", "check", "join", "success", "leave", "part", "closed"}]
  /\ dialog \in [Sessions -> {"ready", "waiting", "in", "stuck"}]
  /\ username \in [Sessions -> Typed] /\ name \in [Sessions -> Typed]
  /\ fired \in [Sessions -> BOOLEAN] /\ answers \in [Sessions -> Nat]
  /\ loggedIn \subseteq Sessions /\ stale \subseteq Sessions /\ lost \subseteq Sessions
  /\ todo \in [Sessions -> SUBSET Sessions] /\ knows \in [Sessions -> SUBSET Sessions]
  /\ cut \subseteq Sessions /\ logins \in 0 .. MaxLogins
  /\ \A s \in Sessions : pc[s] \notin {"check", "join", "part"} => todo[s] = {}

\* A login is answered at most once, though login goes on after each refusal and
\* ends with onSuccess: the one-time Callback is what makes up for it.
OneAnswer == \A s \in Sessions : answers[s] <= 1

\* A user who was let in is in the room under the name that was asked for, and the
\* name is neither empty nor null, until the session closes: say finds it.
AcceptedIsIn ==
  \A s \in Sessions :
    dialog[s] = "in" /\ pc[s] \notin {"leave", "part", "closed"} =>
      s \in loggedIn /\ name[s] = username[s] /\ name[s] \in Names

\* Once a session is closed, the room has forgotten it, whatever other threads did
\* with the map meanwhile, and it is never put back.
ClosedIsOut ==
  \A s \in Sessions : pc[s] \in {"leave", "part", "closed"} => s \notin loggedIn

\* Everybody in the room who was told that a user came is told that the user left,
\* unless the name is null, or a broadcast about this very user was cut short: by
\* another thread that changed the map, or by a session that was closed and not yet
\* out of it.
NoGhosts ==
  \A s \in loggedIn \ lost, t \in Sessions :
    t \in knows[s] /\ pc[t] = "closed" => name[t] = Null \/ t \in cut
=============================================================================
