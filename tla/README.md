# TLA+ models of webbit-gwt

webbit-gwt lets a page and its server, or a page and a web worker, call each
other's methods over a message channel. This directory models the two RPC endpoints, the
worker's stream format, the compression it uses (`pako.js`, deflate and inflate) and the
two chat samples in TLA+, checks them with TLC, and proves with TLAPS what the WebSocket and
worker endpoints, the stream format and both chat rooms promise, and that `inflate()`
keeps its place in a stream.

    tlc -workers 2 -config WebSocketRpc_main.cfg WebSocketRpc
    tlapm WebSocketRpcProofs.tla

Paths below are shortened: `client/impl/ServerImpl.java` is in `rpc-client-common`,
`server/RpcEndpoint.java` in `javaee-websocket-gwt-rpc`, `worker/...` in `workers`.

## The system

| part | state it keeps | operations | correct when |
|---|---|---|---|
| Page endpoint, `ServerImpl` | client object, WebSocket, `nextCallbackId`, `callbacks` | generated call methods (`__sendMessage`), `onopen`, `onclose`, `onmessage`, `setClient`, `close`, the Callbacks given to methods | an answer completes the Callback of its own call, once; nothing runs after `onClose` |
| Container endpoint, `RpcEndpoint` and `AbstractServerImpl` | client proxy, `callbacks` (synchronized map), `nextCallbackId` (atomic), method cache | `@OnOpen`, `@OnMessage`, `@OnClose`, `@OnError`, the client proxy `IH.invoke`, the Callbacks given to methods | as above, with calls made by any thread |
| Messages, `shared/impl` | - | an invocation (method, parameters, id) and a callback invocation (id, value, success) for each direction | id 0 means no Callback |
| Worker endpoint, `AbstractWorkerEndpointImpl` and factories | port, remote, `nextCallbackId`, `callbacks` | `__sendMessage`, `__onMessage`, the Callbacks given to methods | as above, same code at both ends |
| Worker stream format, `StreamWriter`, `StreamReader` | an int buffer that doubles, string table | write and read of values, `getWorkerData`, `getSocketData` | what was written is read |
| Generators, `rebind` | - | proxies and `__invoke` by name and number of parameters | a call reaches its method |
| `ServerBuilder` | url parts | setters, `start` | an explicit url wins |
| Base classes and events | an event bus | forward lifecycle calls | - |
| Easy chat room sample | `loggedIn`, one map for all sessions | `login`, `say`, `onClose` on one thread per session | names are unique, the room knows who is in |
| Shared chat sample | worker: username, events, pages; server: `loggedIn` | pages log in, say, log out through one shared worker | each page sees the room's events |
| `pako.Deflate` and `deflate()` | the text's window and its hash chains, tokens of the block, trees, pending output, the flush asked for last | `push`, five ways to find matches, slide, flush a block, mark a flush, trailer | a reader gets the text; a flush brings all of it out; `push` returns |
| `pako.Inflate` and `inflate()` | mode, bit accumulator, tables, the text's window, check value | `push`, one step for each mode, `inflate_fast`, `updatewindow` | the text comes out however the stream is cut; only a whole and sound stream ends well |
| Linker, JavaScript wrappers | - | - | - |

How they interact. The page's proxy stores the Callback under a fresh id and sends
the id with the invocation; the other end finds the method, runs it, and hands it a
one-time Callback bound to that id; using it sends a callback message; the caller
takes the id out of its table and completes the Callback. Both directions share one
socket (or port), and both ends number their calls from 1, so equal ids of different
calls are common. The page and the worker are single-threaded. The container calls
the handlers of one session one at a time, but the client proxy and a Callback are
objects any server thread may hold.

What is hard: three-step calls on server threads against answers handled on another
thread; the unsynchronized `fired` flag; answers crossing calls with the same id;
encoding that fails after the Callback was stored or the flag set; a close, a lost
connection, a late `@OnOpen` or a missing client object with calls in flight; sessions
that close while other threads still broadcast to them; errors the worker endpoint
swallows. In pako: input and room that end at any bit, so that a decoder is left and
entered in every state; windows that slide or wrap under what still refers to them;
arrays reused from block to block; codes cut to a length; one buffer for tokens and
their codes. PROJECT.json lists these hazards by line.

## Modules

- `OneShotCalls`: the promise, whatever carries the messages. A method runs at most
  once and only if called; the caller's Callback completes at most once, and only
  with an outcome the method gave for that very call. It does not say that a call is
  answered.
- `WebSocketRpc`: one connection between `ServerImpl` and `RpcEndpoint`.
- `WebSocketRpcProofs`: the inductive invariant and the theorems.
- `WorkerRpc`: one port between two `AbstractWorkerEndpointImpl`.
- `WorkerRpcProofs`: its inductive invariant and theorems.
- `LongLimbs`: a long as three ints.
- `StreamCodec`: one `StreamWriter` and the `StreamReader` of what it hands out, in the
  format for a port or for a socket. It extends `LongLimbs`.
- `StreamCodecProofs`: its inductive invariant and theorems, and that of `LongLimbs`.
- `MCStreamCodec`: values and strings for TLC.
- `HuffmanTrees`: how deflate builds the trees of a block and sends them; operators only.
- `InflateTables`: how inflate reads the trees and builds its tables; operators only,
  over the constants of `HuffmanTrees`.
- `HuffmanBlocks`, `MCHuffmanBlocks`: blocks that go through both, one after the other,
  with the arrays that both ends keep from block to block.
- `InflateStream`: `pako.Inflate` and `inflate()`, over a stream of fields that is cut
  anywhere.
- `InflateFormat`: what those streams may be, as the formats have it: which field follows
  which, and where, and what text they say. `MCInflateStream` has streams for TLC, which
  are such streams.
- `InflateStreamProofs`: that it keeps its place in the stream.
- `InflateTextProofs`: that it puts out what the stream says; it extends the proofs about
  the place.
- `DeflateStream`, `MCDeflateStream`: `pako.Deflate` and `deflate()`, over a text that is
  cut anywhere.
- `SharedChat`, `MCSharedChat`: pages, shared worker and server session of the shared
  chat sample, over ports and a socket that are queues in order, as `WorkerRpc` and
  `WebSocketRpc` show them to be.
- `SharedChatProofs`: its inductive invariant and theorems.
- `EasyChatRoom`, `MCEasyChatRoom`: the sessions of the easy chat room, each on its
  thread, over the map they share.
- `EasyChatRoomProofs`: its inductive invariants and theorems.
- `FoldFacts`: induction on numbers, and what the folds of the community modules make of
  a sequence; lemmas only, for `SharedChatProofs`, `StreamCodecProofs` and
  `InflateStreamProofs`.

The message that `WorkerRpc` posts as a record is one that `StreamCodec` writes and
reads; its sets `Unencodable` and `Unreadable` stand for the failures in between. The
socket format of `StreamCodec` is what `DeflateStream` takes and `InflateStream` gives
back; `StreamCodec` relies on what those show. The two stream modules leave the bits of
a code to `HuffmanBlocks`: a token has a width there, and `HuffmanBlocks` shows that a
token is read from just the bits it was given, in any place and before anything.

A call is a constant. Its method and values are left out, and constant sets say which
paths it takes: `WithCallback`, `Unencodable` (serializing the parameters throws),
`Unknown` or `Unreadable` (no method, or decoding fails), `BadAnswer` (serializing
the answer throws). Messages carry the call's identity for the properties alone; the
actions look things up by id, as the code does. Definitions whose comment starts with
"Mutation of" are faulty variants of the definition below them. They are no part of
the specification; they serve to confirm that each property notices a plausible bug.

### WebSocketRpc and the code

| code | model |
|---|---|
| `ServerImpl.__sendMessage` 225-262 | `ClientCall`, one step |
| `ServerImpl.__onMessage` 135-185, `onmessage` 88-106 | `OnMessage`, `Receive`, `RunBody`, `Complete` |
| Callback of `ServerImpl` 145-166, `__sendCallback` 187-217 | `ClientAnswer`, `Respond` |
| `onopen`, `onclose`, `close`, `setClient` | `ClientOnOpen`, `ClientOnClose`, `ClientClose`, `SetClient` |
| `RpcEndpoint.onOpen`, `onClose`, `Jsr356Connection.close` | `ServerOnOpen`, `ServerOnClose` |
| `RpcEndpoint.handleMessage` 107-169 | `HandleMessage` |
| `IH.invoke` 264-304 | `ServerAllocate` (`getAndIncrement`), `ServerRegister` (`callbacks.put`), `ServerSend` |
| `addCallbackToArgs` 171-196, `callback` 198-210 | `ServerAnswer`, `Respond` |

`fired[c]` is the set of threads that have set the flag of the Callback. The field is
plain and read without a lock, so a thread is only sure to read true after it has
set it itself: this is all the Java memory model gives.

What a method does in its body is not in the model: calls it makes and Callbacks it
uses are later steps. That only adds behaviours, since in the code they happen in the
same turn.

The socket is external. The model takes each direction as a queue in order, which the
connection or its end may empty; a message sent past OPEN is dropped; concurrent
`sendText` calls are taken to be queued by the container.

### WorkerRpc and the code

`Create` is the constructor and the factory (50-73), `SendMessage` is `__sendMessage`
(160-181), `OnMessage` with `Handle`, `Invoke` and `Complete` is `__onMessage` and
`__callback` (78-132, 149-158), `SendCallback` is the Callback and `__sendCallback`
(93-147). A port queues what was posted before its end was created. `Vanish` is a page
that goes, a worker that is terminated or a script that does not load; the other end
is not told.

### StreamCodec and the code

The buffer is a sequence of words of four bytes. `Put` is `writeInt` and `writeFloat`
after `MaybeGrow` (187-214), `PutAll` several of them; `Cells` says which words a value is
written as: one for an int, a float or a string's index in the table, three for a long
(and so a double). Booleans, bytes, chars and shorts are written as ints. `GetWorkerData`
hands out the whole buffer (87-106), `GetSocketData` a sequence of bytes, `SocketBytes`
(108-146); `OpenWorkerData` and `OpenSocketData` are the reader's constructors (40-51,
53-87), with the offset of each view, `StringRead` one turn of the loop over the strings;
`Read` is one `readX`. A byte is a record of what it is part of, so a reader that is out
of step is noticed. A string is a name with two lengths, in chars and in bytes. Deflate
and Inflate are taken to be inverse to each other, except that a push of an empty string
that is not the last ends the Deflate object (`PushesNothing`) and leaves no result
(`Undefined`). The emulated `java.nio` buffers are taken to slice and share as those of
Java do.

### HuffmanTrees, InflateTables, HuffmanBlocks and the code

All line numbers from here to SharedChat are of `pako.js`.

| code | model |
|---|---|
| `build_tree`, `pqdownheap`, `smaller` 5733-5928 | `BuildTree`, `Heapify`, `Combine`, `PqDownHeap` |
| `gen_bitlen`, `gen_codes` 5438-5567 | `GenBitlen`, `Repair`, `GenCodes` |
| `scan_tree`, `send_tree`, `build_bl_tree`, `send_all_trees` 5935-6132 | `ScanTree`, `SendTree`, `BuildBlTree`, `SendAllTrees` |
| `init_block`, `_tr_tally`, `_tr_flush_block`, `compress_block` | `InitBlock`, `Tally`, `FlushBlock`, `TokenBits` |
| `inflate_table` 4959-5174, modes TABLE to CODELENS | `InflateTable`, `ReadTables` |
| modes LEN to DISTEXT 4445-4620 | `ReadToken` |

A tree is a function from node numbers to pairs of numbers, as the flat array of the
code is. A field has two names in the code and two here, `fc` (frequency, then code) and
`dl` (father, then length), since the phases read what an earlier one left. Bits are
sequences of 0 and 1. The tokens of a block are a bag: their order is no concern of the
trees. What the arrays hold where nothing wrote, and whether `old` text makes a stored
block impossible, is left open. The sizes are constants, those of the code in comments.

### InflateStream and the code

`inflate()` is one step per mode: `ReadHead` (HEAD) to `ReadLength` (LENGTH), `Copy`
(COPY), `CopyMatch` (MATCH), `CopyLit` (LIT), and `LeaveInflate` is what follows the label
`inf_leave`, with `updatewindow` (`WindowAfter`). `Pull` is a byte taken by the
`NEEDBITS` loops, `ByteBits` the `BYTEBITS` before stored bytes. `EnterFast`,
`FastToken` and `LeaveFast` are `inflate_fast` (3003-3330), which takes input for a whole
token (`Refill`) and gives the bytes it did not use back. `Push`, `PushLoops`, `PushFails`
and `PushEnds` are `Inflate.push` with `onData` and `onEnd` (552-680).

A stream is a sequence of fields; a mode reads one. The bits of `hold` are numbers of
bits of the stream, so that a bit that is lost, or read twice, makes a mode look for its
field where there is none, which `InSync` notices. What a field says is a value; `wrong`
is one that the mode refuses. A check value is the text it was computed of: two texts
never agree in it by chance.

`InflateFormat` describes streams without reference to the decoder's buffers. A `Reader`
is someone who has the whole stream: `Settled` is the mode that reads the next field,
`AfterField` what follows a field from what it says, `Fits` which fields may stand there.
`IsReading(s, r)` says that `r` is such a reader's way through the fields of `s`, up to the
end or to one that is wrong; the constant `Streams` must have one each. What is read is
the text, written field by field: `WrittenAfter` counts the bytes that are said so far and
keeps the length and the distance of the match whose fields are read, and what a check of
the gzip header is computed of; `IsText` says that the text has the bytes a field stands
for. A field is sound (`IsSound`) if it is neither `wrong` nor a check that disagrees with
what was written, nor a match that reaches before the text. `IsFault` says what `fault`
means: a stream with none is sound and its trailer, if it is reached, comes after the whole
text; one that needs a `dictionary` does not get to its end with all of it sound, and one
that is `broken` neither to its end nor to where a dictionary is due. A distance is at least 1.

### DeflateStream and the code

`Begin` is `deflate()` up to the choice of a function (2690-2830), `Deflate_stored` to
`Deflate_huff` a turn of the loop of each, `FillWindow` a turn of `fill_window`
(1510-1690), `NeedMore` and `EndLoop` the ways out of the loop, `BeforeSlide` and
`FlushBlock` a `FLUSH_BLOCK` with `flush_pending`, `BlockDone` the mark of a flush and
`Tail_` the trailer. `Push`, `PushLoops`, `PushFails` and `PushEnds` are `Deflate.push`
with `onData` (197-265). `InsertString`, `LongestMatch`, `SlowMatch`, `Skip` and `Take` do what
the code does with the arrays `window`, `head` and `prev`.

Bits of a block are counted, with what a code takes chosen from `Codes`. `said` is what a
reader makes of the blocks that were sent and the tokens tallied since: `-1` for a
distance that leads nowhere, and for a token whose place in `pending_buf` was written
over before `compress_block` read it (`OverlayOk`). A block that is stored says what the
window has when it is sent, whatever its tokens were.

### SharedChat and the code

`OnConnect` is `AppWorker`'s onconnect with `setRemote` (77-116), `WorkerReceive` one
call of a page (`Login`, `Logout`, `SendMessage`: 81-108), `OnOpen`, `OnClose` and
`HandleEvent` the `ChatClient` (126-169). `Shown` is what the page's `ChatPage` does
to its view (`AppUI` 61-121), `Offered` which buttons it shows. `ServerReceive` and
`OtherSession` are `ChatServerImpl` as this session sees it. A session that is closed is in
the map until its `onClose` has run, and `sendText` (`RpcEndpoint`:298) may throw for it: `login`
then ends before its `put` (`ServerLoginThrows`, `ChatServerImpl`:57-60), and the loops of
`login` and `say` do not get to everybody. Whose session that is and when it closes is not
modelled, so this may happen to any login or message. Posting to a port does not
throw, so `broadcastToPages` never removes a page; `send` on a socket that is
connecting throws, and one that is closed drops the message. A worker ends when no
page is left.

### EasyChatRoom and the code

`pc` says where the thread of a session is in `login` (53-86) or `onClose` (41-50).
`Login`, that is `LoginAs` some name, is login up to the loop over the names, `Check` a turn of that loop, `Checked`
its end, `Join` a turn of the loop that tells the others, `Put` and `Success` what
follows; `OnClose` is the remove, `Leave` and `Part` the loop after it. `Lose` closes the
session of a page, whatever its thread is doing: it is `lost`, and stays in the map until
its `OnClose`. To send to it throws or fails a future nobody looks at, as the container
has it: so a broadcast may end at it (`SendThrows`), or go on without telling it (`Tell`),
and the same holds of an answer to a login whose page has gone (`Answer`). A step touches
the shared map at most once, except that `Login` combines the look for the own key,
which no other thread puts or removes, with the creation of the iterator. An iterator
whose map was changed by another thread may throw (`Throw`) or go on, with or without
the change. `cut` is a history variable: who came and is not in the map, or left, in a
broadcast that ended before all were told. `say` changes nothing and is left out:
`AcceptedIsIn` says what it finds.

## What the runs show

| run | instance | states | shows |
|---|---|---|---|
| `WebSocketRpc_main` | 2 page calls, 3 server calls, each on another path, 1 server thread | 316,738 | types; the table is exact, also after failures; the page's calls run in order; a burnt Callback stays burnt; only a completion clears an entry; nothing runs after `onClose`; the promise; sent calls run and answers complete, unless the connection goes |
| `WebSocketRpc_onetime` | 1 page call, 2 threads | stops at the violation | see Findings |
| `WorkerRpc` | 4 and 2 calls, 1 not encodable, 1 not readable, 1 with a bad answer | 199,727 | as `WebSocketRpc_main`, both directions alike; which entries swallowed failures leave behind; later messages are still served |
| `StreamCodec_main` | up to 4 ints, floats, longs and ASCII strings, both formats | 90,369 | what is read is what was written, and the length in the header is right |
| `StreamCodec_utf8`, `_empty` | up to 2 writes | stop at the violation | see Findings |
| `SharedChat_main` | 2 pages, 2 users, 2 clicks, 1 event from others | 417,297 | every page comes to show what the worker keeps; worker and server agree on the name, unless the last login threw at the server |
| `EasyChatRoom_main` | 3 sessions, 1 name, 3 logins | 1,921,892 | a closed session is out of the room; the only ghosts are those whose own broadcast was cut short; one answer per login; who is let in is in the room |
| `HuffmanBlocks` | up to 2 blocks, 49 bags of tokens | 9,555 | each token is read back by the tables made of what was sent; the codes are complete, within the limit, and short for what is frequent; the sums that choose the kind of block are right |
| `InflateStream` | 22 streams, 2 sizes of buffer | 345,056 | no bit is lost or read twice; the text comes out; the window has its last bytes; only a whole and sound stream ends well; `push` returns |
| `DeflateStream` | 2 texts, 6 rows of the configuration table, 1 flush, 2 formats | 345,913 | the blocks say the text; the chains hold what `longest_match` relies on; a flush or the end brings all out; `push` returns |
| `DeflateStream_overlay` | 1 text that repeats after 4 bytes, 24 bits to each match | stops at the violation | see Findings |

Bounds. `MaxId` is the last id an end hands out and never stops a call here: every
call of an end gets an id. Two page calls with Callbacks let one answer overtake, cross
or be mistaken for another of the same end; server calls with the same ids let the two
directions be mixed up, and each of the three takes another of the paths that fail. The
instance has one server thread, which still leaves the steps of `IH.invoke` of one
call between those of another and the handlers; the race of two threads on `fired` is
in `WebSocketRpc_onetime`, and the theorems hold for any number of calls and threads.
The queues need no bound: an invocation is sent once, and an answer at most once per
thread.

`MaxWrites` is the number of values written. The buffer starts with 4 words instead of
8 in the passing StreamCodec run, 3 of them the header, so that four values make it
grow twice, also between the words of a long. Limbs have 2 bits; the three longs are
the least, another negative one and a positive one of two limbs. The theorem holds for
all longs and limbs of any width.

In SharedChat, `MaxClicks` and `MaxNews` bound what users do: two clicks are a login and
a logout, a login and a message, or logins under two names; two pages let one be
opened, left or served at each point of the other's session. With three clicks and
symmetry the invariants hold in 2,261,762 states. In EasyChatRoom, three sessions let
two threads change the map, or lose their connections, under the loop of a third; three
logins in all let every session in, or a refused page try again while another logs in.

HuffmanBlocks has 7 literals, 4 length codes and 14 distance codes, in codes of at most 4
bits (3 for the code of lengths), so that Fibonacci frequencies overflow each limit; with
14 distances the tree of lengths overflows, too, and both tables have
sub-tables, for their roots are 3 and 2 bits. Two blocks are enough for an array to
be used again, whichever kind the first is.

In InflateStream the window has 4 bytes, so it wraps within a text of 10 to 30 bytes;
matches have up to 5 and reach back 4. The 22 streams have each kind of block and header,
codes of 15 bits and as many extra bits as there are (5 and 13), and every place at which a
stream is refused. `Pieces` are of no byte, one byte, or all the rest, `SyncPieces` of
7: so a stream is cut after each byte, and `inflate_fast`, which wants `FAST_IN` bytes, is
entered at each of them. Buffers of 3 bytes are smaller than a match; those of 7 let
`inflate_fast` run. `allowBufError` and the output that is just full happen with both.

In DeflateStream the window has 16 bytes and slides once or twice in texts of 32 and 34,
a hash has 3 bits, so that chains mix strings, `lit_bufsize` is 12, so that a block is full
after 11 tokens, and matches have 3 to 5 bytes. The rows stand for the five functions and
for `Z_FILTERED`. The text is pushed in pieces of 0 bytes, 11, or all the rest, with one
flush of any kind at any cut; buffers of 9 bytes are less than a header or a block.
`Codes` are of 8 and 12 bits, which are never stored, and of 15 and 16, which make
stored blocks likely, and both stay clear of the overlay of `DeflateStream_overlay`.

The chat runs do not check for deadlock: users may stop.
The runs of pako do not check for deadlock: nobody has to push more.
The StreamCodec runs do not check for deadlock: it stops when all is read.
The WorkerRpc runs do not check for deadlock: when both ends are gone, the system has
stopped. In WebSocketRpc `SetClient` may always happen.

Fairness. In `WebSocketRpc` the browser and the container dispatch messages that have
arrived (`OnMessage`, `HandleMessage`); the container runs `@OnOpen` for a handshake
it answered, and the browser fires `onopen` for it. In `WorkerRpc` the event loop
dispatches posted messages, and an end gets to be created. Nothing makes an application
call, use its Callback, set a client or close, and a connection may always be lost, so
the liveness properties end in "or the connection goes". In `SharedChat` the event loops
of pages and worker dispatch what was posted, and the browser starts a worker a page
asks for; nobody has to click, and the socket may never open. In `InflateStream` and
`DeflateStream` a call of `push` is a call of a function: its steps follow each other until it
returns (`WF_vars(Step)`). Nobody has to push.

## What is proved

### WebSocketRpc

TLAPS proves, for all sets of calls and threads and every `MaxId`, from
`CallsAssumption` alone (the two ends' calls are disjoint, `NoCall` is not a call,
`MaxId` is a natural number):

| theorem | property |
|---|---|
| `TypeCorrect` | `TypeOK` |
| `TableIsExact` | `TableExact` |
| `NoAnswerIsLost` | `NoLostAnswer` |
| `AnswersAreRight` | `RightAnswer` |
| `CompletesAtMostOnce` | `CompletedAtMostOnce` |
| `OnlyCompletionRemovesIt` | `OnlyCompletionRemoves` |
| `NoMethodAfterOnClose` | `NothingAfterOnClose` |
| `CallsAreRunInOrder` | `ClientCallsRunInOrder` |
| `EndpointsKeepThePromise` | `PromiseKept`, the refinement of `OneShotCalls` |

`NoLostAnswer`, `RightAnswer` and `CompletedAtMostOnce` are proved, and no run checks
them.

None of these but the first is inductive. An answer finds its own call because ids of one
end are pairwise distinct (`Distinct`, kept by `Fresh`: they lie below the counter) and
every copy of an id is the one its call was given: in an invocation on its way
(`Invocations`), in the Callback a body holds (`Bodies`), in an answer on its way
(`Answers`). `Invocations` also says that an invocation is the only one of its call and
that the body has not run, so a body runs once. With `TableExact` and `Completions` these
form `IInv`. The proof has a lemma for what sending and taking one message does to the
queues (`NothingSent`, `InvocationSent`, `AnswerSent`, `MessageTaken`), one for the table
(`TablePut`, `TableKept`), and one for each action. For the order, `OrderInv` adds that
what waits for the server has growing ids (`Ordered`), and that a call the page sent has
run or is on its way as long as the session can still run it (`Served`): a message is only
dropped when nothing after it will be handled, so that no older call is still to come when
one runs. For the refinement, each step makes a call, runs a body, answers, finishes, or
leaves the abstract variables alone.

### WorkerRpc

For all sets of calls and every `MaxId`, from `CallsAssumption` alone:

| theorem | property |
|---|---|
| `TypeCorrect` | `TypeOK` |
| `TableIsExact` | `TableExact` |
| `CallsAreRunInOrder` | `CallsRunInOrder` |
| `EndsKeepThePromise` | `PromiseKept`, the refinement of `OneShotCalls` |

Ids (`IdInv`), messages (`MessageInv`) and calls (`CallInv`) are related as in
`WebSocketRpc`. A port does not lose one message of several, so that order can be proved,
too, and `OrderInv` has what it takes: in a queue the invocations have growing
ids (`Ordered`; calls without a Callback have the id 0 and are left out), and a call that
was posted has run, is on its way, cannot be read, or its callee is gone (`Served`). So when
the oldest message is run, no older call of its end is still to come. The lemmas `Posted`
and `Taken` say what the queues are after a message was added or taken, `Handled` what
handling the oldest one does: it runs a body, completes a Callback, or is ignored with
everything left as it was.

### EasyChatRoom

For all sessions, names and logins, from `RoomAssumption` alone:

| theorem | property |
|---|---|
| `TypeCorrect` | `TypeOK` |
| `ClosedSessionsAreOut` | `ClosedIsOut` |
| `LoginsAreAnsweredOnce` | `OneAnswer` |
| `AcceptedUsersAreIn` | `AcceptedIsIn` |
| `NobodySeesGhosts` | `NoGhosts` |

`SessionInv` relates a session to its own login: the flag of its Callback counts its
answers, a login under way has not let its page in, and one that reached `onSuccess` has
put its key. It is inductive alone, because no other thread writes any of this. `RoomInv`
is about sessions and each other: an iterator meets only who is or was in the map, whoever
was never in was told nothing, nobody is told of a session before its login broadcasts,
and, but for sessions in `cut`, those in the room who know of one that leaves are still to
be told. A session leaves `cut` when it is put: from then on its `onClose` finds it, and
those who were told of it are in the map. What makes this hold with iterators whose map is changed under them is
`StructuralChange`: a change by one thread adds or takes only its own key from what
another has still to visit, and starts no iterator that has ended.

### SharedChat

For all pages, users, messages and numbers of clicks, from `ChatAssumption` alone:

| theorem | property |
|---|---|
| `TypeCorrect` | `TypeOK` |
| `PagesCatchUp` | `CaughtUp` |
| `ServerKnowsTheName` | `ServerHasTheName` |

`CaughtUp` says what a page will show when it has received the calls on their way to it
(`Later`, a fold over its port); `ServerHasTheName` looks at the last login on its way to
the server, and says nothing of the name while the last login that the server handled threw:
then the name is the one before. Both are inductive with little else: connected pages are open (`PagesOfWorker`),
and there is nothing on the way, and no name, where there is no open socket
(`SessionOfSocket`). What the proofs take is to follow a fold through a queue that grows at
one end and shrinks at the other: `FinalOfAppend` says what a broadcast adds to what a page
will show, `FinalOfTail` that receiving a call changes nothing of it. What a page is told
when it connects and what is broadcast to it then agree, in any order in which pages
connect, users click and the server's events arrive.

### StreamCodec

For all values, strings, formats, sizes of the buffer and widths of limbs, from
`StreamAssumption` and `LimbAssumption`:

| theorem | property |
|---|---|
| `TypeCorrect` | `TypeOK` |
| `EndIsWhereItIsSaid` | `EndsAtLength` |
| `PlainMessagesAreReadBack` | `ReadsWhatWasWritten`, of a message that is `Plain` |
| `AllIsReadBack` | `ReadsWhatWasWritten`, if strings have as many bytes as chars or go by ports |

A message is `Plain` if it goes by a port, or if each of its strings has as many bytes as
chars; `StreamCodec_utf8` shows that no other message need be read back. A message
of the socket that has an empty string before another is `Undefined` and never opened:
nothing is read, and the properties are about what is read. The assumptions say that a value
is an int, a long, a float or a string of those the format knows, and that only one
string has no bytes.

`CodecInv` has the offsets `o` of the values in the buffer, which no variable of the code
holds: each value begins where the one before ends (`Placed`), its words are in the buffer
and its string in the table (`Held`), and a reader that has read n values stands at `o[n]`,
over the same words (`ReaderAt`). That growing keeps the words below the position
(`GrownBuffer`), also between the words of a long, and that a string keeps its index in a
table that grows, is what `Held` needs to be kept. In the socket's format the header says
where the strings begin; a byte sequence is the concatenation of one piece for each
word and string, and `FlattenPieces` finds each of them, so that the loop over the
strings meets the length of each where the one before has ended. A long is read
back by `LimbsCarryLongs`.

### InflateStream

For all streams, pieces and sizes of buffer and window, from `StreamAssumption` and
`FormatAssumption`:

| theorem | property |
|---|---|
| `TypeCorrect` | `TypeOK` |
| `NoBitIsLost` | `InSync` |

The assumptions say that a stream has a reading (above), with codes of at most 15 bits and
as many extra bits as the format has (5 and 13), that matches have at most `MAX_MATCH`
bytes, and that `FAST_IN` is at least 6. They leave open what a stream says otherwise, where
it is wrong, and whether it goes on after its end.

Neither property is inductive: that the next field is where the decoder looks for it
follows from what it has read before. `InflateInv` has a reader `r` of the whole stream and
keeps the decoder in step with it (`Synced`). `Stands(r, i)` says that the mode and what
goes with it (the table, the counters of lengths and bytes, the flags of the gzip header)
are what the reader knows before field `i`, and that the first bit not used is where this
field begins. `HoldOK` says that `hold` has the bits right before the next byte of the
input, so that it is determined by how many there are, and `Bounded` how many these are:
fewer than 8 or than the next field needs, or a byte more where `inflate()` has just pulled
one, and in `inflate_fast` fewer than were taken from this piece and a byte more, or as
before, so that giving back whole bytes never goes behind where the piece of input begins. `Rest`
has the numbers: what was pushed is within the stream, room and window are within their
sizes. `TypeOK` of `strm.next_in` is `Bounded` of what `inflate_fast` gives back.

There is one lemma for each mode: for those that read a field, that the field is the one
the reader is at (`FieldComes`), and that the state afterwards agrees with what the reader
then knows (`FieldIsUsed`, `ByteIsTaken`). `FastReadIsToken` shows that a turn of
`inflate_fast`, which reads up to four fields, ends where the reader does after as many
steps, and that `FAST_IN` bytes are enough for it. `UpdateWindowIsOne` shows that the
window stays one whichever of the three copies `updatewindow` takes.

### What InflateStream puts out

For the same streams, pieces and sizes, from `TextAssumption` as well:

| theorem | property |
|---|---|
| `TextIsRight` | `TextComesOut` |
| `EndsAreRight` | `EndsAsItShould` |

`TextAssumption` says that the text of each stream is one of bytes and that a reader of the
stream writes it: the `w` of `IsWriting` and `IsFault` (above), which is unique. Nothing
is said of how inflate gets there. The properties say that what is put out is at any time the
beginning of the text, that the window has the last of it, and with which result push may
end for which streams.

`TextInv` has the reader `r` of `InflateInv` and the writer `w` beside it. `Right` says that
what was handed out and what is in the buffer are the bytes of the text, one after the
other. `Tells(w[i])` relates what is put out to what is written before the field `i` at
which the decoder stands: as much, but for a literal that waits for room, and for a match,
where `Pending` says that so many bytes more are to be copied from so far back, and that
this gives the text. A match that reaches before the text makes `w` unsound, and the decoder
must notice before it copies a byte: from `dmax` and `whave`, by way of `Windows` and
`Limits`. `Windows` says where in the ring each of the last bytes of the text is, as of the
beginning of this call (`Earlier`): `updatewindow` has not copied the output of the call
itself. `ChecksSay` is about the check value, which also lags behind by this call's output
until the trailer; `Buffers` about the room that is left. `Goes` says that a decoder in `BAD`
has a broken stream, and that any other is at a field where all this holds. `Returned`
keeps what a return code says about the state it was returned in, for `Status` and push to
decide by, and `Dictless` that after `Z_NEED_DICT` nothing is done but fail.

The proof has a lemma for each mode, as the one on places has. Most modes write nothing
(`DullPassSays`, `DullFieldSays`, `TokenPassSays`). `WindowIsPiece` shows that the two runs
a match is copied from, behind and before the place where the window is written next, are
pieces of the text; `MatchIsPiece` that a match which overlaps itself repeats just the bytes
before it, by induction over its length; `RunSays` and `CopyMatchSays` that a match that is
interrupted for want of room or at the window's edge is one still. `BytesAreSaid` is the
induction over the bytes of a stored block, and `FastTokenSays` joins the four fields of a
token of `inflate_fast` with the match it makes of them. `WindowGrows` is `updatewindow`:
whichever of its copies it takes, the ring has the last bytes again.

### FoldFacts

The theorems of the library on induction take a predicate, and a fold takes an
operator, which the provers cannot instantiate. `NatInductionBySet` therefore has a set of
numbers in place of the predicate, and comes from the well-foundedness of `<`
(`NatLessThanWellFounded`, `WFMin`). `Final` is a fold whose operator is given as a
function on its types; `FoldIsFinal` says that `FoldLeft` computes it, by way of the values
in between (`IsRun`), and `FlattenIsRun` that `FlattenSeq` does.

### LongLimbs

`LimbsCarryLongs` (in `StreamCodecProofs`) proves `LongsSurvive` for limbs of any width
from `LimbAssumption` (the widths are positive, that of the high limb even): what
`writeLong` writes lies in the ranges `readLong` asserts, and `readLong` gets the long
back. `HighLimb` shows that a shift by two limbs is two shifts by one and bounds the
high limb from both sides; the proof then distinguishes its sign, where masking adds
exactly what the wrapping sum takes away. `Division` to `Smaller` are the facts about
quotients this needs.

### Only model-checked

`CallbacksAreOneTimeUse` and `AlwaysAMessage`, which are violated; of pako the trees and
tables, and deflate; the liveness properties. The run
`InflateStream` evaluates `TextAssumption` for the streams it uses, with the one `w` there
is (`Writing`). Liveness, ENABLED and RECURSIVE operators are out of this prover's reach:
`HuffmanTrees` and `InflateTables` have RECURSIVE operators, `DeflateStream` uses `Bitwise`,
and both keep theorems out of the modules that reach them. Induction is possible as in
`FoldFacts`, but the trees, tables and chains would have to be written as functions first.

## Findings

README.md:18 of the repository says that "callbacks are one-time use, and cannot be
invoked multiple times". `RpcEndpoint`'s Callback tests and sets `fired` without a lock
(175, 188-193). In `WebSocketRpc_onetime` two threads use one Callback, both pass the
test, and both outcomes are sent. `CompletesAtMostOnce` shows that the page is not
harmed: it completes with the first and ignores the second.

`GwtTestStream.testStringCompressed` (272) reads each string as it was written. In
`StreamCodec_utf8` the length written is in chars (`StreamWriter`:139) and read as
bytes (`StreamReader`:80-82), so a string that is not ASCII is cut.

`pako.js`:61-63 says that deflate errors "are possible only on wrong options or bad
`onData` / `onEnd` custom handlers". `getSocketData` pushes each string on its own
(`StreamWriter`:139-141); for one that is empty and not the last, `deflate()` has nothing to do
and returns `Z_BUF_ERROR` (2819-2823), `push` ends the object, and the message is
`undefined` (`StreamCodec_empty`).

`pako.js`:5820 says "Check that the overlay between pending_buf and d_buf+l_buf is ok". It is
not: `d_buf` is `lit_bufsize >> 1` (2567), an index of bytes, where zlib has a
pointer to words of two. In `DeflateStream_overlay` the codes of a block of matches, 24 bits
each, are written over distances that are still to be coded, and the block says another
text. The matches of the run reach back 4 bytes, and `Codes` gives each 24 bits; in the
code that many bits are taken by long and distant matches whose codes are rare. With 16K tokens to a block this takes an average above 20 bits for its first few
thousand tokens, and a block that is not shorter stored.

Also seen while modelling, without a run: `StreamReader`:48 asserts that the length in the
header is what remains of the buffer, but the writer sends the whole buffer (101), so
that in a build with assertions a message passes only if it fills its buffer. After
`logout` the worker keeps the name and the events, so that a page opened later shows the
chat while the others show the login screen, although `AppWorker`:114 says that it is
told "our username if any". In the easy chat room `login` goes on after `onFailure`, which
"passes back an error message" (`shared/ChatServer.java`:35): a refused user is announced, put
in the map, and refused again for being there; and "Username already in use" (65) does
not keep two logins at the same time from being let in under one name. An `Inflate` whose last
piece is pushed as such but whose stream is not at its end has `err` 0 and returns
true, although its documentation has the caller look at `err` for what went wrong. A
`Deflate` with a `chunkSize` of 5 or less fills it with the mark of a sync flush for ever;
`DeflateAssumption` leaves such sizes out.
`StreamWriter` writes the flags before the
version (95-96, 117-118), `StreamReader` reads the version first (45-46). A page that
connects to the worker after `onOpen` is never told `connected`. A login while the
worker's socket is connecting throws after the name was set, and the server is never
told. A login that throws at a closed session leaves the server with the name before
(shared chat), or the user out of the room and unanswered, but known to some (easy chat
room). A cancelled dialog of the easy chat room puts a null name in the map, at which
the logins of others throw and are not answered. Two users who log in at the same
time may not be told of each other.

## Not modelled

- A null Callback, the wrap of the int id, `Jsr356Connection.data`, the proxy's guards
  against `Object` and `Client` methods, the text handed to error handlers.
- Object graphs and type names of the stream format (GWT's superclasses), the narrowing
  of bytes, chars and shorts, and the assertion that ends `writeLong` (170), which
  fails for every long in a build with assertions.
- Builder and dispatch by name: see the plan. The simple worker sample keeps no state.
- The other sessions of the shared chat's server, but for what they make this one see; `say` of the easy chat room.
- Of pako: strings as input or output (`to: 'string'`), a gzip header given by the caller
  (`gzhead`), `detect_data_type`, preset dictionaries, `Z_TREES` and `Z_BLOCK` of inflate, a window size
  in the header that exceeds `windowBits`, the arithmetic of CRC-32 and Adler-32 (a
  check value is the text itself), the bits of the codes in the two stream modules
  (`HuffmanBlocks` has them), and raw deflate without a trailer in the run.
- Generators and linker work at compile time; the JavaScript wrappers have no code; the
  base classes forward to an event bus.

## Plan

Done: `OneShotCalls`, `WebSocketRpc`, `WorkerRpc`, `EasyChatRoom`, `SharedChat`,
`LongLimbs` and `StreamCodec` with their proofs, `HuffmanTrees`, `InflateTables`,
`HuffmanBlocks`, `InflateStream` with the proofs that it keeps its place and puts out the
right text, `DeflateStream`.
Next, in order:

1. `Dispatch` and `ServerBuilder`: name and arity against the server's search by name
   only; which url wins.
2. A null Callback and the session data of `Jsr356Connection` in `WebSocketRpc`.
3. The shared chat's server with several sessions over its `ConcurrentHashMap`.
4. What is left of pako: dictionaries, and `Z_BLOCK` and `Z_TREES` of inflate.
5. Proofs: the chains of `DeflateStream`, once `Bitwise` is replaced there.
