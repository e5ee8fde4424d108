---------------------------- MODULE SharedChat -----------------------------
(***************************************************************************)
(* The shared chat sample: pages of one browser, the shared worker that    *)
(* keeps the chat for all of them (AppWorker), and the worker's session    *)
(* with the server.  Ports and the socket are queues in order, which is    *)
(* what WorkerRpc and WebSocketRpc say of them; a method call is one       *)
(* message.                                                                *)
(***************************************************************************)
EXTENDS Integers, Sequences, SequencesExt

CONSTANTS
  Pages,                \* pages that may be opened, each once
  Users,                \* names somebody may log in with
  Stranger,             \* a user of another browser
  NoUser,               \* Java's null
  MaxClicks,            \* bound: calls made by users of the pages
  MaxNews               \* bound: events caused by other browsers

ASSUME ChatAssumption ==
  /\ {Stranger, NoUser} \cap Users = {} /\ Stranger # NoUser
  /\ {"blank", "login"} \cap (Users \cup {NoUser}) = {}
  /\ MaxClicks \in Nat /\ MaxNews \in Nat

\* The text of a message is left out.
ChatEvent == [kind : {"join", "leave", "say"}, user : Users \cup {Stranger}]

VARIABLES
  page,                 \* "none", "open", "gone"
  view,                 \* what a page shows: screen, lines of the panel, mask
  toWorker,             \* toWorker[p]: calls of page p on its port
  toPage,               \* toPage[p]: calls of the worker on the port of p
  socket,               \* the worker's, "none" while no worker runs
  username, events, connectedPages,
  toServer, fromServer, \* the two directions of the socket
  loggedIn,             \* the name the server has for the worker's session
  cut,                  \* history: the server's last login for it threw
  clicks, news          \* counters for the bounds

pageVars == <<page, view, clicks>>
workerVars == <<socket, username, events, connectedPages>>
serverVars == <<fromServer, loggedIn, cut, news>>
vars == <<pageVars, workerVars, serverVars, toWorker, toPage, toServer>>

\* The worker as it is before onModuleLoad.
WorkerReset ==
  [username |-> NoUser, events |-> <<>>, connectedPages |-> {}]

Init ==
  /\ page = [p \in Pages |-> "none"]
  /\ view = [p \in Pages |-> [screen |-> "blank", panel |-> <<>>, masked |-> TRUE]]
  /\ toWorker = [p \in Pages |-> <<>>] /\ toPage = [p \in Pages |-> <<>>]
  /\ socket = "none"
  /\ username = WorkerReset.username /\ events = WorkerReset.events
  /\ connectedPages = WorkerReset.connectedPages
  /\ toServer = <<>> /\ fromServer = <<>> /\ loggedIn = NoUser /\ cut = FALSE
  /\ clicks = 0 /\ news = 0

-----------------------------------------------------------------------------
(* Pages: AppUI.                                                           *)

OpenPage(p) ==
  /\ page[p] = "none"
  /\ page' = [page EXCEPT ![p] = "open"]
  /\ UNCHANGED <<view, clicks, workerVars, serverVars, toWorker, toPage, toServer>>

\* The worker is not told.
LeavePage(p) ==
  /\ page[p] = "open"
  /\ page' = [page EXCEPT ![p] = "gone"]
  /\ toPage' = [toPage EXCEPT ![p] = <<>>]
  /\ UNCHANGED <<view, clicks, workerVars, serverVars, toWorker, toServer>>

\* The popup with the login button is shown on the login screen only, the widget
\* with the send button in the chat only, the logout button always.
Offered(p) ==
  LET screen == view[p].screen
  IN  {[method |-> "logout"]}
        \cup (IF screen = "login" THEN [method : {"login"}, user : Users] ELSE {})
        \cup (IF screen \in Users THEN {[method |-> "send"]} ELSE {})

Click(p) ==
  /\ page[p] = "open" /\ clicks < MaxClicks
  /\ \E call \in Offered(p) : toWorker' = [toWorker EXCEPT ![p] = Append(@, call)]
  /\ clicks' = clicks + 1
  /\ UNCHANGED <<page, view, workerVars, serverVars, toPage, toServer>>

\* Mutation of Shown: init does not test for null.
Shown_NoNullTest(v, m) ==
  CASE m.method = "init" -> [v EXCEPT !.screen = m.user, !.panel = m.events]
    [] m.method = "connected" -> [v EXCEPT !.masked = FALSE]
    [] m.method = "disconnected" -> [v EXCEPT !.masked = TRUE]
    [] m.method = "event" -> [v EXCEPT !.panel = Append(@, m.event)]

\* What a call of the worker makes of a page's view: the methods of its ChatPage.
Shown(v, m) ==
  CASE m.method = "init" ->
         [v EXCEPT !.screen = IF m.user = NoUser THEN "login" ELSE m.user,
                   !.panel = m.events]
    [] m.method = "connected" -> [v EXCEPT !.masked = FALSE]
    [] m.method = "disconnected" -> [v EXCEPT !.masked = TRUE]
    [] m.method = "event" -> [v EXCEPT !.panel = Append(@, m.event)]

PageReceive(p) ==
  /\ page[p] = "open" /\ toPage[p] # <<>>
  /\ view' = [view EXCEPT ![p] = Shown(@, Head(toPage[p]))]
  /\ toPage' = [toPage EXCEPT ![p] = Tail(@)]
  /\ UNCHANGED <<page, clicks, workerVars, serverVars, toWorker, toServer>>

-----------------------------------------------------------------------------
(* The worker: AppWorker.                                                  *)

\* broadcastToPages: posting never throws, so no page is ever removed from
\* connectedPages, and what is posted to a page that is gone is lost.
Broadcast(calls) ==
  toPage' = [p \in Pages |->
               IF p \in connectedPages /\ page[p] = "open"
                 THEN toPage[p] \o calls ELSE toPage[p]]

InitCall(user, history) == [method |-> "init", user |-> user, events |-> history]

\* The browser runs the worker's script once the first page asks for it.
StartWorker ==
  /\ socket = "none" /\ \E p \in Pages : page[p] = "open"
  /\ socket' = "connecting"
  /\ UNCHANGED <<username, events, connectedPages, pageVars, serverVars,
                 toWorker, toPage, toServer>>

\* The browser ends a shared worker that no page is left to use.
StopWorker ==
  /\ socket # "none" /\ \A p \in Pages : page[p] # "open"
  /\ socket' = "none"
  /\ username' = WorkerReset.username /\ events' = WorkerReset.events
  /\ connectedPages' = WorkerReset.connectedPages
  /\ toServer' = <<>> /\ fromServer' = <<>> /\ loggedIn' = NoUser /\ cut' = FALSE
  /\ toWorker' = [p \in Pages |-> <<>>]
  /\ UNCHANGED <<pageVars, news, toPage>>

\* Mutation of OnConnect: a page that comes later gets no messages.
OnConnect_NoHistory(p) ==
  /\ socket # "none" /\ page[p] # "none" /\ p \notin connectedPages
  /\ connectedPages' = connectedPages \cup {p}
  /\ toPage' = [toPage EXCEPT ![p] =
                  IF page[p] = "open" THEN Append(@, InitCall(username, <<>>)) ELSE @]
  /\ UNCHANGED <<socket, username, events, pageVars, serverVars, toWorker, toServer>>

\* onconnect, down to the setRemote of the new ChatWorker.
OnConnect(p) ==
  /\ socket # "none" /\ page[p] # "none" /\ p \notin connectedPages
  /\ connectedPages' = connectedPages \cup {p}
  /\ toPage' = [toPage EXCEPT ![p] =
                  IF page[p] = "open" THEN Append(@, InitCall(username, events)) ELSE @]
  /\ UNCHANGED <<socket, username, events, pageVars, serverVars, toWorker, toServer>>

\* WebSocket.send: dropped without an error once the socket is closed.
Send(m) == toServer' = IF socket = "open" THEN Append(toServer, m) ELSE toServer

LogoutFirst(user) ==
  IF username \notin {NoUser, user} THEN <<InitCall(NoUser, <<>>)>> ELSE <<>>

\* Mutation of Login: a name that is set is kept.
Login_KeepsName(user) ==
  /\ username' = IF username = NoUser THEN user ELSE username
  /\ events' = <<>>
  /\ Send([method |-> "login", user |-> user])
  /\ Broadcast(LogoutFirst(user) \o
               IF socket = "connecting" THEN <<>> ELSE <<InitCall(username', <<>>)>>)

\* While the socket is connecting, send throws: name and events are changed by
\* then, and the exception ends login before its broadcast.
Login(user) ==
  /\ username' = user
  /\ events' = <<>>
  /\ Send([method |-> "login", user |-> user])
  /\ Broadcast(LogoutFirst(user) \o
               IF socket = "connecting" THEN <<>> ELSE <<InitCall(user, <<>>)>>)

Logout ==
  /\ Broadcast(<<InitCall(NoUser, <<>>)>>)
  /\ UNCHANGED <<username, events, toServer>>

SendMessage ==
  /\ Send([method |-> "say"])
  /\ UNCHANGED <<username, events, toPage>>

WorkerReceive(p) ==
  /\ p \in connectedPages /\ toWorker[p] # <<>>
  /\ LET call == Head(toWorker[p])
     IN  \/ call.method = "login" /\ Login(call.user)
         \/ call.method = "logout" /\ Logout
         \/ call.method = "send" /\ SendMessage
  /\ toWorker' = [toWorker EXCEPT ![p] = Tail(@)]
  /\ UNCHANGED <<socket, connectedPages, pageVars, serverVars>>

OnOpen ==
  /\ socket = "connecting"
  /\ socket' = "open"
  /\ Broadcast(<<[method |-> "connected"]>>)
  /\ UNCHANGED <<username, events, connectedPages, pageVars, serverVars,
                 toWorker, toServer>>

\* The connection is refused, lost or closed by the server.  Nothing reconnects.
OnClose ==
  /\ socket \in {"connecting", "open"}
  /\ socket' = "closed"
  /\ toServer' = <<>> /\ fromServer' = <<>> /\ loggedIn' = NoUser /\ cut' = FALSE
  /\ Broadcast(<<[method |-> "disconnected"]>>)
  /\ UNCHANGED <<username, events, connectedPages, pageVars, news, toWorker>>

EventCall(event) == [method |-> "event", event |-> event]

\* Mutation of HandleEvent: the event is not kept for later pages.
HandleEvent_NotKept ==
  /\ socket = "open" /\ fromServer # <<>>
  /\ Broadcast(<<EventCall(Head(fromServer))>>)
  /\ events' = events
  /\ fromServer' = Tail(fromServer)
  /\ UNCHANGED <<socket, username, connectedPages, pageVars, loggedIn, cut, news,
                 toWorker, toServer>>

\* say, join and part of the ChatClient, and handleEvent.
HandleEvent ==
  /\ socket = "open" /\ fromServer # <<>>
  /\ Broadcast(<<EventCall(Head(fromServer))>>)
  /\ events' = Append(events, Head(fromServer))
  /\ fromServer' = Tail(fromServer)
  /\ UNCHANGED <<socket, username, connectedPages, pageVars, loggedIn, cut, news,
                 toWorker, toServer>>

-----------------------------------------------------------------------------
(* The server, as far as this session goes: ChatServerImpl of the sample.  *)

\* What this session is sent by a loop over the room that gets to it.
Told(event) == IF loggedIn = NoUser THEN fromServer ELSE Append(fromServer, event)

\* login tells those in the room, this session too if it is already in, and puts the
\* name.
ServerLogin(user) ==
  /\ fromServer' = Told([kind |-> "join", user |-> user])
  /\ loggedIn' = user
  /\ cut' = FALSE

\* It throws at a session, of another browser or this one, that is closed and whose
\* onClose has not taken it out of the map yet: the name is not put, and those behind
\* it are not told.
ServerLoginThrows(user) ==
  /\ fromServer' \in {fromServer, Told([kind |-> "join", user |-> user])}
  /\ cut' = TRUE
  /\ UNCHANGED loggedIn

\* say tells those in the room who said it, down to such a session.
ServerSay ==
  /\ fromServer' \in {fromServer, Told([kind |-> "say", user |-> loggedIn])}
  /\ UNCHANGED <<loggedIn, cut>>

ServerReceive ==
  /\ socket = "open" /\ toServer # <<>>
  /\ LET m == Head(toServer)
     IN  \/ m.method = "login" /\ (ServerLogin(m.user) \/ ServerLoginThrows(m.user))
         \/ m.method = "say" /\ ServerSay
  /\ toServer' = Tail(toServer)
  /\ UNCHANGED <<pageVars, workerVars, news, toWorker, toPage>>

\* The handlers of other sessions tell this one what they do, once it is in.
OtherSession ==
  /\ socket = "open" /\ loggedIn # NoUser /\ news < MaxNews
  /\ \E kind \in {"join", "leave", "say"} :
       fromServer' = Append(fromServer, [kind |-> kind, user |-> Stranger])
  /\ news' = news + 1
  /\ UNCHANGED <<pageVars, workerVars, loggedIn, cut, toWorker, toPage, toServer>>

-----------------------------------------------------------------------------

PageStep(p) ==
  OpenPage(p) \/ LeavePage(p) \/ Click(p) \/ PageReceive(p)
    \/ OnConnect(p) \/ WorkerReceive(p)

Next ==
  \/ \E p \in Pages : PageStep(p)
  \/ StartWorker \/ StopWorker \/ OnOpen \/ OnClose \/ HandleEvent
  \/ ServerReceive \/ OtherSession

Spec == Init /\ [][Next]_vars

\* Event loops dispatch what arrived, and the browser runs the script a page asks
\* for.  Nobody has to open a page, click or send, and the socket may never open.
Fairness ==
  /\ WF_vars(StartWorker) /\ WF_vars(HandleEvent)
  /\ \A p \in Pages :
       WF_vars(PageReceive(p)) /\ WF_vars(OnConnect(p)) /\ WF_vars(WorkerReceive(p))

FairSpec == Spec /\ Fairness

-----------------------------------------------------------------------------
(* Properties.                                                             *)

PageCall ==
  [method : {"init"}, user : Users \cup {NoUser}, events : Seq(ChatEvent)]
    \cup [method : {"connected", "disconnected"}]
    \cup [method : {"event"}, event : ChatEvent]

WorkerCall == [method : {"login"}, user : Users] \cup [method : {"logout", "send"}]

View == [screen : {"blank", "login"} \cup Users, panel : Seq(ChatEvent),
         masked : BOOLEAN]

\* Every variable has its type.
TypeOK ==
  /\ page \in [Pages -> {"none", "open", "gone"}]
  /\ view \in [Pages -> View]
  /\ toWorker \in [Pages -> Seq(WorkerCall)] /\ toPage \in [Pages -> Seq(PageCall)]
  /\ socket \in {"none", "connecting", "open", "closed"}
  /\ username \in Users \cup {NoUser} /\ events \in Seq(ChatEvent)
  /\ connectedPages \subseteq Pages
  /\ toServer \in Seq([method : {"login"}, user : Users] \cup [method : {"say"}])
  /\ fromServer \in Seq(ChatEvent) /\ loggedIn \in Users \cup {NoUser}
  /\ cut \in BOOLEAN
  /\ clicks \in 0 .. MaxClicks /\ news \in 0 .. MaxNews

\* What a page will show once it has handled what is on its way to it.
Seen(v, calls) == FoldLeft(Shown, v, calls)
Later(p) == Seen(view[p], toPage[p])

ConnectedAndOpen == {p \in connectedPages : page[p] = "open"}

\* A page in the chat shows the worker's name and, when it has handled what was
\* sent to it, exactly the worker's messages in their order, whenever it was
\* opened (setRemote, handleEvent and login of AppWorker); the hidden panel of a
\* page on the login screen holds the last of those messages and no others.
CaughtUp ==
  \A p \in ConnectedAndOpen :
    LET v == Later(p)
    IN  IF v.screen \in Users
          THEN v.screen = username /\ v.panel = events
          ELSE IsSuffix(v.panel, events)

IsLogin(i) == toServer[i].method = "login"
IsLastLogin(i) == IsLogin(i) /\ \A j \in DOMAIN toServer : i < j => ~IsLogin(j)

\* The name the server will have for the session, once it has handled every login
\* sent to it, is the one the worker shows, however often pages log in again while
\* earlier logins are on their way or come to nothing; unless the last login it
\* handled threw, and so left the name as it was.
ServerHasTheName ==
  /\ \A i \in DOMAIN toServer : IsLastLogin(i) => toServer[i].user = username
  /\ (\A i \in DOMAIN toServer : ~IsLogin(i)) /\ ~cut => loggedIn \in {NoUser, username}

\* What pages in the chat show comes to agree with the worker and stays so, once
\* nobody clicks any more and the room is quiet.
PagesComeToAgree ==
  \A p \in Pages :
    <>[](page[p] = "open" =>
           /\ p \in connectedPages /\ view[p].screen # "blank"
           /\ view[p].screen \in Users =>
                view[p].screen = username /\ view[p].panel = events)
=============================================================================
