# Verification of the chat room server

TLA+ models of the Go program in `src/` (a TCP chat server with rooms and a
console client), TLC configurations that check them on small instances, and
proofs that TLAPS checks for every value of the constants. `PROJECT.json` maps
every definition to the lines it models and lists the runs, the mutants of the
properties, the findings, the hazards and the theorems.

    tlc -workers 2 -config Membership.cfg MCChatServer.tla
    tlc -workers 2 -config Endpoints.cfg MCEndpoints.tla
    tlapm ChatServerProofs.tla

## The system

| part | code | state it keeps | operations |
|---|---|---|---|
| room manager | `internal/logic/room.go` | `allUsersMap` (nickname → user), `roomsMap` | Login, Logout, EnterRoom, LeaveRoom, ChatInRoom, GetRoomPopularWord, GetUserStats, Close |
| room | `internal/logic/room.go` | `usersMap`, history, word counts, four channels | one goroutine: entering, leaving, message and close cases of a select |
| users and handlers | `internal/logic/user.go`, `internal/handler/server.go` | `User.Nickname`, `User.RoomId` | CMLogin, CMEnter, CMLeave, CMChat, CMCommandGM, OnConnect, OnClose |
| history | `internal/logic/offline.go` | a ring of 50 chats | Save, Send |
| popular words | `pkg/popular/popular.go` | queue, counts, cached answer | Record, GetTopWord |
| connection | `pkg/tcp/tcp_conn.go` | closeFlag, four channels, two buffers | readLoop, writeLoop, handleLoop, Close, AsyncSendPacket, AsyncSendBuff |
| console client | `internal/handler/client.go` | what it waits for | login, enter, type, leave, and the SM handlers |
| server process | `cmd/server/main.go` | – | serve, signal, close the rooms, exit |
| TCP server | `pkg/tcp/tcp_server.go` | listener, `conns`, two wait groups | ListenAndServe, Serve, Close |
| TCP client | `pkg/tcp/tcp_client.go` | closeFlag, `conns`, a wait group | Start, dial, connect, Close |
| TCP options | `pkg/tcp/tcp_option.go` | limits | NewTCPOption |
| framing and codec | `pkg/tcp/tcp_parser.go`, `pkg/tcp/protocol/gob.go`, `internal/proto/reg.go` | table of message types | read, write and build a frame, Marshal, Unmarshal, Route |
| word filter | `pkg/acascii/actrie.go` | the automaton | AddKeyWord, createFailureStates, Filter, HasBlackWord |
| benchmark, path helper | `internal/handler/bench.go`, `cmd/benchmark`, `pkg/pathmap` | – | load generation |

How they interact. A connection has three goroutines. readLoop puts messages
into packetRecvChan; handleLoop takes them one at a time and runs the handler
in its own goroutine; writeLoop drains packetSendChan (answers, history) and
buffSendChan (broadcasts). Handlers call the room manager directly: the two
user maps are `sync.Map`s, shared by all goroutines. To enter or leave, a
handler sends its user on a channel without a buffer and goes on as soon as the
room's goroutine has *received* it, so the room's work and the handler's
assignments to the user run side by side. When a loop ends, it calls Close; the
first of them runs OnClose, hence Logout, in *its* goroutine, beside the handle
loop, which may be in the middle of a handler. GetTopWord is the exception to
the design "everything through channels": the handler calls it on the room's
data.

At either end a set of connections (`conns`) and a wait group stand for what
Close has to end. A dialer of TCPClient and the accept loop of TCPServer put
connections in while Close walks over the set: the server stops its loop first,
the client only sets a plain boolean. The server starts in a goroutine of its
own, so Close may come before there is a loop to stop; and the client's
handlers wait for lines of the console in goroutines that its Close waits for.
The framing layer reads a frame from the
1024 bytes of a bufio.Reader if the network has delivered all of it, and from a
copy if not. The filter keeps its place in the text in three counters that
failure links and skipped symbols move.

What is hard here: a handler, the closer of the same connection and the room
goroutine act on one user (nickname, room id, map entry) in no fixed order;
the entry of a nickname outlives or precedes the field that holds it; answers
share a bounded, dropping queue with history; one room goroutine serves many
blocked senders; Close takes the channels and buffers away from loops that have
just checked that they are open. Correctness of the parts:

- room manager: a nickname belongs to one user; a user is in at most one room,
  knows which, and is in no room when its name is released;
- handlers: every request is answered, every wait for a room ends;
- history and broadcast: a member gets every chat once and in order;
- popular words: the answer is the most frequent word of the window;
- connection: OnClose once, nothing left unflushed, all loops end, no panic;
- shutdown: all rooms close and the process exits;
- endpoints: when Close has returned, nothing of the endpoint is left; Close
  returns, but for what it waits for by design; a dialer ends with its client;
- framing: what is read is what was written, however the stream is cut up;
- word filter: it finds what a plain search finds, and writes inside the text.

## The modules

| module | models | checked by |
|---|---|---|
| `ChatServer` | rooms, room manager, users, handlers, console client, history, shutdown | `MCChatServer` with four configurations |
| `Lobby` | abstract specification of the room manager | `ImplementsLobby` in run Membership |
| `ChatFeed` | `ChatServer` with history variables for what each user is sent | `MCChatFeed` |
| `MostPopular` | popular words | `MCMostPopular` |
| `TCPConn` | the inside of a connection, with its options | `MCTCPConn`, two configurations |
| `Sockets`, `ConnServe` | the two ends of each connection; its goroutines at one end | through `Endpoints` |
| `TCPClient`, `TCPServer` | the two endpoints | through `Endpoints` |
| `Endpoints` | a client and the server it dials | `MCEndpoints` |
| `Framing` | frames and messages as bytes | `MCFraming` |
| `WordFilter` | the automaton of black words | `MCWordFilter`, two configurations |
| `ChatServerProofs`, `ChatRoomsProofs`, `ChatFeedProofs` | theorems about ChatServer and ChatFeed, each module on top of the one before | tlapm |
| `MostPopularProofs`, `FramingProofs`, `WordFilterProofs`, `TCPConnProofs`, `EndpointsProofs` | theorems about the module they are named after | tlapm |

### ChatServer

A process is a goroutine. `hpc[c]` is where connection c's handle loop is: at
its select (`idle`), or inside a handler, between two things another goroutine
can tell apart. CMEnter, for example, is `CMEnter` (look the room up, block in
UserEntering), `RoomEntering` (the rendezvous with the room's select) and
`CMEntered` (store RoomId, answer). `closer[c]` is where the goroutine that
won Close is: `logout`, `leaving` (blocked in UserLeaving), `delete`, `done`;
`croom[c]` is the RoomId it read. `room[r]` is the pc of Room.Start and
`job[r]` the user or chat it has received. `usersMap`, `allUsersMap`,
`offlineMsg` and `messageChannel` are the code's; a map from nickname gives
`NoUser` where it has no key. `nick` and `roomId` are the fields of the server
side `*User`. `recvChan`, `sendChan` and `buffChan` are the streams of the
connection; what is between the client's send channel and the server's
packetRecvChan is one queue of `PipeCap` places, and broadcasts are only
counted, since no handler of the client reacts to them.

The console client (`Users \ Foreign`) follows client.go: login until accepted,
enter until accepted, type until /leave, enter again. A client of `Foreign`
sends any registered message at any time (`ClientAny`), up to MaxChat messages
in all, counted by `lastId` with the chats of everybody.

Abstractions: the text of a chat is an identifier; what the word filter does to
it is the matter of WordFilter; a nickname of `LongNames` is one with which a notice or a
chat exceeds the 65535 bytes of a frame, which makes BuildMessageBuf fail
(room.go:190, 229, 245); `SetLinger`, wording and logging are left out. A
connection connects once: a client that reconnects is another member of `Users`.

### ChatFeed

It adds no behaviour: every step is a step of ChatServer that also records the
chats each room has broadcast (`aired`), the position at which each user
entered (`since`), and the chats that its two queues took during its stay
(`got`), with a flag for a drop (`lost`). A stay (`Stays`) begins when the
room's entering case ends and lasts until the room receives the leave. From
then on the user may enter another room, while the first still lists it: its
streams belong to the new stay, and of the old one nothing is promised. What a
user should have got is a set of positions of `aired` (`Due`), and `At` takes
the elements of a sequence at a set of positions, in order.

### Lobby

Two variables: who owns a name, which room a user is in. ChatServer implements
it with `owner <- allUsersMap` and `where[c]` the room for which `In(c, r)`:
c has been received by the entering case or is in usersMap, and its leave has
not been received. Take is the step of CMLogin, Join that of RoomEntering, Part
that of RoomLeaving, Release that of LogoutDelete. RoomLeave of a user that is
in no room any more stutters, unless it removes the nickname's new owner, a
Part of that user. Lobby makes no promise about where a client of `Foreign` is,
which may ask for two rooms at once; it has such a client's names only, and its
place is `NoRoom` in the mapping.

### MostPopular

One action per method; checkPos is the operators `Expired`, `QueueAfter`,
`FreqAfter` and `TopHit`, which say what the loop does to the queue, the counts
and needCalc. The loop over the Go map in GetTopWord has a random order, so any
word of the largest count may be the answer. `recorded` and `horizon` are
history variables. Time stands still during a call.

### TCPConn

Each look at the flag and each use of a channel or a buffer is a step of its
own, and `stage` counts the statements of Close (tcp_conn.go:70-81) that have
been executed. A send on a closed channel and a call on a nil buffer, with
nothing to recover them, set `crashed`, after which the process takes no step.
A send that was blocked when the channel was closed panics as well. What the
handler does is not in this module, and what the loops do is one step in
ChatServer (`Disconnect`, `WriteBuff`, `TakeReply`): the two modules split
the connection at packetRecvChan, packetSendChan and OnClose. The capacities
are those that NewTCPOption makes of the limits it is given (`Limits`): without
a limit the receiving side gets none of its default, since the test of
tcp_option.go:103 looks at the sending side, so that packetRecvChan has no
buffer and readLoop hands each message to handleLoop (`Handover`).

### Sockets, ConnServe, TCPClient, TCPServer, Endpoints

`Sockets` has what both endpoints see: whether the port listens, and the state
of each end of each connection; a server end is in the `backlog` from the time
the kernel answers the dialer until Accept returns it. `ConnServe` is the goroutine that
`connect` and `Serve` start for a connection and the loops it starts in turn
(TCPConn.serve), with the deferred clean-up; `TCPClient` and `TCPServer` each
instantiate it with their own variables. A sync.WaitGroup is the set of what it
counts. readLoop and writeLoop are one element `io`, since nothing but the wait
group tells them apart here; their inside is TCPConn's.

`dialer[d]` is the pc of `connect`: `dial` (with its retries), `check` (before
closeFlag is read), `store` (after it). `cowner` and `sowner` are the pcs of the
two Close functions. sync.Map.Range visits what was stored when it began and
may visit what is stored meanwhile (`RangeClose`, `RangeEnd`). closeFlag is an
unsynchronised boolean: a read may come from before the write (the reading
dialer is then earlier in the interleaving); that a dialer never sees the write
is not assumed. `Restless` names the connections that may fail by themselves,
at either end, and those of the client whose handlers ask the console.

`accept` is where ListenAndServe is: `off`, `bound` (ListenTCP has opened the
port), `stored` (`server.ln` is set, tcp_server.go:44), and with wgLn.Add(1) in
the accept loop. It runs in a goroutine of its own (cmd/server/main.go:40), and
Close has no guard on it. A Close that comes before `stored` closes the zero
listener and the server goes on accepting; Close itself returns, or, if the loop
is counted before it looks at wgLn, or connections have come before it looks at
wgConns, waits for these. `Missed` is this state, of which `ServerQuiet` and
`ServerCloseReturns` promise nothing. A Close between `stored` and the count
closes the port and may not wait for the loop, which then ends at its first
AcceptTCP.

The client's OnConnect asks for a nickname before it returns (client.go:29),
and its handlers for a room or another nickname (171, 180, 203, 219), in
handleLoop. `asking` has the connections whose handler waits for a line; these
waits and OnConnect (`ClientConsole`) are no part of what goes on by itself.
Meanwhile nobody takes from packetRecvChan, so readLoop may or may not notice
that the socket is closed. What is asked after an end of the connection was
closed is taken as asked before it. The reader of chats (`procEnterText`) is a
goroutine that no wait group counts, and is left out here. A server's OnConnect
and handlers wait for nobody at a console, and those that wait for a room are
the matter of ConnectionSettles, with the room that has died as the exception.

### Framing

One direction of a connection. The sender writes frames, the network delivers
any number of bytes at a time and may cut the stream anywhere (`CloseSender`
with the bytes that SetLinger(0) gives up); the reader is `io.ReadFull` byte
by byte over `inBuf` or past it, then ReadBufPacket with both branches, or
ReadPacket (`plain`). Lengths are 16 bit numbers of two bytes in base `Base`,
and LEN_BYTES is added to them modulo Base squared, as `uint16` does. The output of
encoding/gob is external: a length and as many bytes, which is what the code
relies on when a decoder reads from a stream that goes on. `Base` 4 makes a
length at most 15, so that every limit is within reach. Route, which finds the
handler of a message, is the `Handle` of ChatServer.

### WordFilter

A node of the trie is the word that leads to it, so the tree's pointers need no
variables; `failure`, `isEmit` and `hasEmit` are those of acState.
`AddLeaf`/`AddKeyWord` load a dictionary, letter by letter, `Pop`, `LinkFall`,
`Link`, `LinkHead` are the breadth first loop of createFailureStates, and the
rest is one call of Filter or HasBlackWord, one turn of a loop a step. pos is
the code's index plus one and `masked` the set of places overwritten by `*`:
the step back goes on at the character after the last one masked, so Filter
never reads a place that it has overwritten. Words may be added after links have
been built, which the code then builds anew over the old ones.

### Slips

An operator named in a comment "Slip of ..." is the definition that follows it
with a mistake a change of the code might make (Store for LoadOrStore, a
missing answer, a ring that does not advance, ...). It is in no next-state
relation. `PROJECT.json` pairs each property of each run with a slip that
makes TLC find it violated.

## Runs

Passing:

| run | question | bounds | distinct states |
|---|---|---|---|
| Membership | names, rooms and answers stay consistent in every interleaving; Lobby is implemented | 2 console clients, 2 names, 2 rooms and an unknown one, 1 chat, PipeCap 1, SendCap 3, BuffCap 0; symmetric | 488 000 |
| Feed | history and broadcasts fit together | 2 clients, 1 room, 3 chats, ring of 2, SendCap 4, BuffCap 1 | 302 000 |
| Liveness | handlers, logouts and enters end | 2 clients, 1 name, 1 room, 2 chats, messageChannel of 1 | 86 000 |
| Shutdown | closing the rooms ends, whatever a client sends | 1 foreign client with 3 messages, a long and a short name and the empty one, 2 rooms, every command | 186 000 |
| Popular | counts, cache and answers | 2 words, 5 records, clock to 5, windows 0–3, hold 2, check gap 1 | 97 000 |
| Conn | OnClose, flush, panics, end of the loops | 1 sender, with no limits given and with limits of 1 | 137 000 |
| Endpoints | what Close leaves behind, and whether it returns | 2 dialers, one whose connection may fail at either end and whose handler may ask the console | 939 000 |
| Framing | what is read is what was written | 3 calls of a sender, 6 messages, Base 4, a buffer of 10 bytes | 217 000 |
| Filter | the automaton against plain search | 106 dictionaries, texts of up to 5 characters | 262 000 |

Why the bounds are enough. Two connections are what the races about a name or a
room entry need (an old and a new owner); a third adds only another independent
user. Two rooms are needed for OneRoom. One name suffices where the contest for
it is the point. Every queue is small enough to fill: `MsgQueueLen` 1 stands
for 40960, `SendCap` is above `MaxOffline` as in the code (100 and 50), and
the ring of 2 wraps with 3 chats. BuffCap 0 in two runs makes every broadcast
a drop, which is one of the code's behaviours and the smallest; Feed and
Shutdown use 1. In MostPopular the times fall before, on and after both edges
(Hold, CheckGap). In Endpoints a connection interacts with another one only
through the sets and the wait groups; `MCRestless` lets one of the two fail by
itself at each end while the other only reacts, so that both of Close's cases,
a connection that ends before it is visited and one that does not, occur.
In Framing the messages have data of 5, 7 and 15 bytes (the longest there
can be), of 16 (refused), a name of 14 bytes to which adding LEN_BYTES would
wrap, and an unregistered type; 10 bytes of buffer are more than one short
frame with the length of the next and less than the longest frame. The
dictionaries of Filter have words that are prefixes, suffixes and inner parts of each
other, capitals, symbols, an empty word, and one that is refused; a word has up
to four letters and a text is longer than the longest word, or has room for two of
them. Deadlock checking is off in all of them: users may stop typing, connections
end, a call returns, and the process may exit or panic.

What the runs show, by property:

- `NickUnique`: a connected user that has a nickname is the one in allUsersMap.
  The entry exists before the field is set and is deleted in another goroutine.
- `OneRoom`, `MemberKnows`, `MemberOwnsName`, of console clients beside clients
  of any make: memberships, the room id and the
  ownership of names agree, although each is set at its own time in its own
  goroutine. `In` counts a user from the rendezvous of its enter to the
  rendezvous of its leave.
- `LeftBehind`: a user whose goroutines have ended and whose Logout found a room
  id is in no room and owns no name, however its enter, its leave and
  its disconnection were interleaved. The condition is the code's: Logout deletes the
  nickname only if LeaveRoom succeeded (room.go:50), so a user without a room id
  keeps its name, and one whose enter was still being handled stays a member.
- `OneOutstanding`: a console never waits for a login or enter answer that is
  not on its way, never has two, and is never told NOT_IN_ROOM. It needs
  SendCap > MaxOffline, which the server has.
- `ImplementsLobby`: all of this is one owner for a name and one room for a user.
- `FedExactly`, of console clients: the last chats before an enter, then every
  later chat of the others, once each and in order and none of another room,
  unless a queue was full. Run Feed has one room and no /leave, with a ring that
  wraps. Moves between two rooms are covered by the theorem; an instance of them
  (two rooms, chat and /leave, one chat, a ring of 1) has two million states and
  holds too. Without `Stays`, for any user that a room lists, it would be false.
- `ConnectionSettles` (handlers and OnClose come to an end), `CleanLogout`,
  `EnterAnswered`, `ShutdownCompletes`, `LoopsEnd`: what must happen does.
- `CountsWindow`, `CacheSound`, `TopOfWindow`, `BoundedQueue`: popular words.
- `OnCloseOnce`, `FlushedWhenWaiting`, `QuietForGood`: the connection.
- `ClientQuiet`, `ServerQuiet`: when Close has returned, no dialer and no loop
  of a connection is left at that end, no connection is open, and the accept
  loop gets none any more. The server's Close promises this only if it found
  the listener stored (`Missed` is the other case); if Serve was not yet counted,
  its loop may still be about to end.
- `ClientCloseReturns`, `ServerCloseReturns`: Close returns. The server's
  does if it found the listener. The client's has two exceptions, which the
  property names: a line that the user owes to OnConnect or a handler
  (`Prompted`), so that a client that gets its signal at the prompt hangs in
  wg.Wait until a line is entered; and a connection it has overlooked
  (`Overlooked`), stored after the walk by a dialer that had read closeFlag
  before it was set, which lasts until the server closes it.
- `DialerSettles`, `GoneIsDropped`: a dialer retries no longer than its client is
  open; the server ends its side of every connection whose client has gone,
  also when it went before Accept.
- `ReceivedInOrder`, `ReaderAccepts`, `AllReceived`: the messages received are a
  prefix of those written, none of them is refused (so the errors of Peek that
  ReadBufPacket ignores never occur, and no 16 bit sum wraps), and without a
  cut all of them arrive.
- `FailureLinks`, `HasBlackWordExact`: links are longest suffixes, and
  HasBlackWord answers as a search for each word does.
- `InBounds`, `MasksAllUnlessNested`, `Ends`: Filter writes inside the text,
  masks every word of a dictionary in which no word lies inside or at the end of
  another, and its loops end although one steps back.
- `MasksOnlyHits`: what Filter masks is, letter for letter, in a beginning of a
  word that stands in the text, and goes on masked to the end of a word. So a text
  without a word is left alone. It may still be more than words: with {abc, bd}
  the text abd becomes `***`, and with {aab} aaab becomes `****`, since n counts
  on over a failure link.

Violated, each a finding (the texts with the quoted lines are in `PROJECT.json`):

| run | what the code does |
|---|---|
| SettledIsMember | /leave and a disconnection send two leaves; the second one removes the next owner of the nickname from the room |
| FilterMasks | a word at the end of a beginning of a longer word is not masked when the text does not go on to a word: "pigfuck" passes because "pigfucker" is in the list |
| NoPanic | Close takes a channel or a buffer away from a loop that has just checked the flag; the panic is not recovered |

`MemberOwnsName` and `OneRoom` hold in spite of the first: the stale leave
removes an entry, it never leaves a wrong one.

## Fairness

`FairSpec` of ChatServer: weak fairness of what a scheduled goroutine does by
itself (handlers, closers, the bodies of a room's cases, the client's reaction
to an answer), since Go's scheduler runs every runnable goroutine. Strong
fairness of `BlockedSend` (a handler or closer blocked in a channel send) and of
`RoomMessage`: the room can take a sender only when it is at its select, so the
step is not continuously possible, but Go serves the blocked senders of a
channel first-in first-out and its select picks uniformly among the ready
cases, so one that is ready again and again is taken. Nothing is assumed of the
users (connecting, typing, disconnecting), nor of writeLoop's broadcasts.
`ShutdownSpec` assumes only what the shutdown depends on: the rooms, main, and
strong fairness of the rendezvous with closeChan. `FairSpec` of TCPConn: weak
fairness of each loop and of Close. `WriteClosed` and `HandleClosed` are not
preferred over the other ready cases; the queued messages run out.
`FairSpec` of Endpoints is weak fairness of `GoesOn`, the steps that goroutines
take by themselves, as one action: every step moves a pc, an end of a socket or
a set forward and none goes back (`OnwardAlways`), so "some goroutine that
can run does" is as much as "each does". Only a question to the console and its
answer may alternate for ever (the server may send as many answers as it likes),
and they keep nobody else from its step. Closing either endpoint, starting the
server, entering a line and failing by itself are not fair; that the server's
OnConnect and handlers return is taken from what ChatServer shows of them.
Framing assumes that bytes on the way arrive and readLoop runs (`WF_vars(Read)`),
and nothing of the sender; WordFilter that its one goroutine runs.

The liveness properties of ChatServer make one exception: a room whose goroutine
returned because a notice could not be built (room.go:232, 248) blocks everybody
who sends to it. The properties name this state (`Stopping`), and run Shutdown
reaches it.

## Proofs

`ChatServerProofs`, for all finite sets of names and any connections, rooms,
messages and capacities that the named assumptions of ChatServer allow:

- `TypeInvariant`: `Spec => []TypeOK`. TypeOK is not inductive: `hreq[c].room`
  is used when hpc is `entering`, `job[r]` as a user when the room enters or
  drops one and as a chat when it broadcasts. `Typed` adds `PcOK`, which ties
  each pc to what its goroutine holds. One lemma for each action that needs
  more than its definition, one for the handlers' common shape (`TurnTyped`,
  `NoTurnTyped`), then `TypedNext` by cases on Next.
- `NickUniqueness`: `Spec => []NickUnique`. The strengthening `Owns` says that a
  user keeps the entry of its nickname until its closer has deleted it
  (`Released`), and also covers a login between LoadOrStore and the assignment
  of Nickname. It is disturbed by three actions only (`CMLoginOwns`,
  `CMLoginStoredOwns`, `LogoutDeleteOwns`); `OwnsFrame` covers the others.

`ChatRoomsProofs`, under the same assumptions and with any set of `Foreign`
clients:

- `OneRoomAlways`, `MemberKnowsAlways`, `MemberOwnsNameAlways`,
  `LeftBehindAlways`: the four invariants of run Membership about where a
  console client is. None of them is inductive. Nothing in the server keeps a
  user out of a second room: CMEnter does not look at RoomId before it sends the
  user to a room. The properties hold because the client
  waits for its answers. So the invariant `Tracked` follows the conversation:
  `Conversation(c)` says, for each state of the client, which requests and
  answers may be in its two streams, how many, where the handle loop may be, and
  whether RoomId is set; `Place(c)` relates that to the rooms (a room that has
  c, or is about to, is the one of its RoomId, or of the enter in progress), to
  a closer with a room id, and to the names registered for c. `ActorSpares`
  and `RestSpares` say that a step of another goroutine leaves both alone; then
  one lemma per action (`...Tracked`).
- `LobbyImplemented`: `Spec => ImplementsLobby`, the refinement. Beside the
  invariant above it needs that the room shown for a user is the only one that
  has it (`Shown`). `...Step` lemmas say, action by action, which step of Lobby
  it is or that it changes neither variable; `LobbyStep` puts them together.

- `OneOutstandingAlways`: `Spec => []OneOutstanding`, with the hypothesis
  `SendSuffices`, `SendCap > MaxOffline` (100 in cmd/server/main.go:39 against
  50 in room.go:21). That there is no more than
  one request or answer follows from Conversation, by counting positions; that
  it is not lost is `Answered`: the request, its handler or its answer is there,
  and while an enter is being answered packetSendChan holds at most one history,
  so that ENTER_OK finds a place in it. Without the hypothesis it is false: the
  history fills the channel and the answer is dropped.

`ChatFeedProofs`, under the assumptions of ChatServer and nothing else: any
rooms, users, `Foreign` clients, queue lengths and size of the ring:

- `FedExactlyAlways`: `FeedSpec => []FedExactly`. `FeedInv` holds beside the
  invariant of ChatRoomsProofs. `Ring` says that place i of the ring has the
  i-th of the last `MaxOffline` chats of `aired`, and none if there were fewer;
  `Fed` is the property, and that a user cannot have entered after more chats
  than there are. Three things can disturb it. An enter (`EnterFeed`) needs that
  what Send visits is what is due (`HistoryIsDue`), and that packetSendChan took
  a beginning of it and said how much (`HistoryGrown`). A chat in the user's
  room (`ChatFed`) needs that the broadcast puts exactly one copy into its
  buffer (`OneCopy`: the room has the user under its nickname and no other), or
  none if the chat is its own. A chat in *another* room must put in none, which is
  why the proof stands on OneRoom: a room that still lists a user whose leave it
  has received is past its broadcast. The lemmas under it are about `At`:
  each of n places has a rank from 1 to n (`NthPlace`, by counting), an interval
  is in order (`NthInterval`), and a new last element is the new last element of
  the selection or not in it (`AtAppend`).

`MostPopularProofs`, for any words, Hold, CheckGap and windows:

- `PopularTypeCorrect`, `CacheSoundAlways`, `CountsWindowAlways`, and the action
  properties `TopOfWindowAlways` and `BoundedQueueAlways`: all that run Popular
  checks. The invariant `PopularInv`: the queue is the end of the record, from
  the horizon on (`Kept`, which needs that the record is in the order of time,
  `Chronicle`); the counts are those of the words in the queue (`Counted`); the
  cache is sound, and maxFreq bounds every count even when it is stale
  (`MaxBounds`), without which Record could not trust it. That checkPos evicts
  exactly the expired entries is an argument about the least entry that has not
  expired (`ExpiredType`, by the well-foundedness of the naturals); `Evicting`
  says what the eviction does to the queue, the counts and the cache, for both
  of its callers.

`FramingProofs`, for any messages, any base of at least 2 and any buffer that the
assumptions allow:

- `FramingTypeCorrect`, `ReceivedInOrderAlways`, `ReaderAcceptsAlways`: the three
  invariants of run Framing. `FramingInv` is an equation between sequences of
  bytes: what lies before readLoop (taken by a ReadFull, in inBuf, on the
  wire, in this order), followed by what a cut has lost, is what is left of the
  frame being read followed by the frames of the messages not yet received
  (`Position`). `Parse` is the lemma about the codec: if a frame of Marshal is at
  the front of the stream, both lengths and the name are read back from it,
  without a wrap of the 16 bit sum, and what is behind it is behind it still.
  `Split` and `Cancel` say that the cut between two known parts of a sequence
  is determined by their lengths; with them each action moves both sides of the
  equation alike.

`WordFilterProofs`, for any letters, symbols and other bytes, any dictionaries and
texts, and any `Lower` that maps letters to letters and leaves its own values
alone (toLowerASCII, actrie.go:117):

- `FilterTypeCorrect`, `FailureLinksAlways`, `InBoundsAlways`,
  `MasksOnlyHitsAlways`, and the action properties `HasBlackWordExactAlways` and
  `MasksAllUnlessNestedAlways`: all that run Filter checks but the end of the
  loops. No induction over words is needed: each step of the program is one
  step of the argument, and the invariant `FilterInv` has four parts.
- `TrieInv`, of loading and linking. While AddKeyWord runs, leaf is the node of
  what it has read (`Reading`); a link leads to a shorter suffix and HAS_EMIT has
  a reason (`Sound`). A node is `Final` when its link is the longest suffix in
  the trie and no word is missed. createFailureStates is at the children of
  some node p (`Building`): the queue is sorted by depth, spans two depths and
  holds final nodes only, and a node that is not final is below one of them
  (`Pending`). So every node of the depth of p or less is final (`Early`), which
  is what Link relies on when it copies the flags of the node it links to;
  LinkFall relies on preFail being the longest candidate (`Longest`). What a
  second run finds of the links and flags of the first does no harm: only
  isEmit can have grown.
- `CallInv`, of a call. The node is a suffix of the text read (`SoFar`), in
  HasBlackWord the longest in the trie (`Top`, `TopFor`), with no word ended
  before (`Unmatched`). Of Filter, after its step back, only the former holds. n
  counts the places since the last hit or head; it stays below the places in
  front of the node (`AtNext`, `AtFall`, `AtEmit`), so that pos - n is an index.
- `MaskInv`, in a vocabulary without nested words. There Filter never steps back
  (`NestedIn`: the node it would step to were a word inside another; it needs
  that every node leads to a word, `Needed`), so its node too is the longest;
  what ended is masked (`AllMasked`), and of the node that it is at so is
  every place before the last reset of n (`Behind`).
- `CoverInv`, for any vocabulary: from pos - n on, where the next hit would begin
  to mask, each place read lies in a beginning of a word that stands in the text,
  or only symbols follow it (`Trail`). FilterMove and FilterFall keep it because
  the node they come to stands in the text up to pos (`PlaceOf`), a head because
  n is counted from it anew.
- `CallBounded`, `TurnsCountAlways`: the loops of a call take at most
  6·Len(text) + 5 turns. The step back would make a count of the remaining text
  grow; `Turns` therefore lends three turns for every letter of the node, which
  a fall to a shorter link gives back. This is the part of `Ends` about a call
  that is not liveness.

The lemmas under it are about suffixes (`SuffixBoth`: of two suffixes of a word
the shorter is one of the longer) and about `Clean`, what the automaton sees of a
text: `Found` and `CountShift` count letters, `CleanPart` and `CleanCut` say that
the parts of a text that end at j are the suffixes of what is read up to j.

`TCPConnProofs`, for any senders and capacities, from `IInv`: the types with an
unbounded onClose, one closer (it won the compare-and-swap and has not called
OnClose before its last stage), bytes in outBuf only between write and flush:

- `TypeInvariant`, `ClosedOnce`, `Flushed`: the three invariants of run Conn;
- `NoLatePanic`: the action property QuietForGood. After the flag is set and the
  loops have left their windows, no step panics or reopens one: the panics
  of NoPanic are confined to the loops' last turn.

`EndpointsProofs`, for any set of dialers and any `Restless`:

- `Inductive`: `Spec => []IInv`, a part for each end. The argument is that of a
  wait group: `ClientCounts` and `ServerCounts` say that an element stands for
  each goroutine that runs; `ClientHolds` and `ServerHolds` say that an open
  connection is in the hands of one of them, and that one is counted before the
  one that starts it is not any more. On the server the accept loop is not
  counted there: `ServerWaited` and `ListenerHolds` say that it has no connection
  in hand when the walk of a Close that found the listener begins, and that no
  backlog outlives the listener. An end is
  disturbed by its own actions only; `ClientFrame` and `ServerFrame` cover the
  other's.
- `TypeInvariant`, `ClientQuietness`, `ServerQuietness`: the types, and the two
  invariants of run Endpoints.
- `NobodyStuck`: in a state in which nobody can go on (`ClientCan`, `ServerCan`,
  the guards of GoesOn written out), what the four liveness properties of the
  run promise for the end is true: ClientReturned, ServerReturned, Dialled,
  Dropped (`Prompted` and `Missed` are part of the first two). `LinkedInv` adds to IInv what the walks and the loops know of the
  other's state: what a walk has visited is closed, a connection that is served
  is in `sconns`, where the server's walk finds it, and has its handle loop, and
  when that walk is over no connection is open.
- `OnwardAlways`: `NeverBack`, no pc, end of a socket, set of visited connections
  or flag returns to an earlier value (`Age` orders them), and in each step one
  of them advances (`Moves`) or the console is asked or answers (`Talks`). With
  finitely many dialers a behaviour then comes to rest but for such talk, and
  NobodyStuck says where. What remains for TLC is the fairness
  itself, and that `ClientCan \/ ServerCan` is ENABLED GoesOn.

Only model-checked:

- liveness (ConnectionSettles, CleanLogout, EnterAnswered, ShutdownCompletes,
  LoopsEnd, ClientCloseReturns, ServerCloseReturns, DialerSettles, GoneIsDropped,
  AllReceived, and Ends of WordFilter): TLAPS does neither ENABLED nor
  fairness. For the endpoints and for a call of the filter, what these rest on
  apart from fairness is proved (NobodyStuck, OnwardAlways, TurnsCountAlways);
- the three violations, which are findings about instances.

## Not modelled

- The benchmark client (`bench.go`, `cmd/benchmark`) and the path helper: a load
  generator, whose conversation is part of what `ClientAny` sends and whose
  dialers are TCPClient's; what is its own promises nothing. Its one hazard, at
  the exit, is listed.
- Reading the dictionary file: `ReadBytes` returns the last line together with
  io.EOF when no newline ends it, and the loop drops it (actrie.go:73). The
  model starts with the words, so this is listed as a hazard without a property.
- The console's parsing of a line and what it displays; flags and profiling of
  the commands; the registration of messages and handlers, which is over before
  anything runs (`Registered` of Framing is its result); String methods.
- The undefined outcome of the race between Record in the room goroutine and
  GetTopWord in a handler. ChatServer has both at work at once (room pc
  `record` beside handler pc `popular`); MostPopular takes calls one at a time.
- Overflow of counters (`globalIdx`, `globalUID`, 32 and 64 bits), out of reach
  of any real run.
- TCPServer.Close and main: the deferred Close of the serving goroutine never
  runs (cmd/server/main.go:45), so Endpoints has the server's Close as a
  library function and ChatServer's main exits without it.
- The panics of a misused sync.WaitGroup (an Add that meets a Wait just being
  released): possible only after a server Close that missed the listener.

## Plan

Done: all components but the load generator are modelled; every invariant and
every action property that a passing run checks is proved for all values of the
constants, and so is the refinement of Lobby.

Left, with TLC: liveness. The arguments without fairness that stand behind the
properties of Endpoints could be given for ChatServer too, whose waits depend on
strong fairness of channels and on users.

And of the model: the three layers composed, TCPConn under ChatServer's queues,
for one connection, if an instance stays small enough.
