# A verification project for CustomersCardMS

CustomersCardMS is a Windows server for managing SIM cards. Clients keep a TCP
connection to port 7099 and send framed commands; an operator's platform sends
HTTP requests to port 80. All I/O is overlapped and is completed through one I/O
completion port that `2 * CPU` worker threads serve. This directory holds TLA+
modules that model the program, TLC configurations that check them on small
instances, and proofs for every instance.

The modules follow the sources in `src/CustomersCardMS` (the `Debug|x64`
configuration, the only one in which `TCHAR` is a byte, as the parser needs).
`src/卡管理系统.docx` is the protocol document. `CustomersCardMS.cpp`, `stdafx.h`, `stdafx.cpp` and
`targetver.h` are UTF-16 (`iconv -f utf-16 -t utf-8` shows them with the line numbers used
here); the comments in the other sources are GBK.

## The system

| Part | Sources | State | Operations | Talks to |
|---|---|---|---|---|
| Main loop and listeners | `CustomersCardMS.cpp`, `ms_initsock.cpp`, `LISTEN_SOCK` in `ms_data.h` | the single-instance event, listening sockets, `acceptPendingMap`, accept events | start-up, posting ten `AcceptEx` when an accept event fires, closing connections silent for 60 s when more than 100 are pending | allocates `RECV_SOCK`, `RECV_OBJ`, `BUFFER_SOCK`; shares the pending map and the socket handles with the workers |
| Workers | `worker_thread.cpp` | none | take a completion packet, call the object's `fpSuccess` or `fpFailed` | every handler below |
| Receive ring and parser | `_recv_sock` in `ms_data.h` | `buf`, `dwWritepos`, `dwReadpos`, `dwRightsize`, `dwLeftsize`, `bFull`, `bEmpty` | `InitWRpos`, `InitRLsize`, `GetCmdDataLength`, `Read` | called by the accept and receive handlers |
| Client session | `ms_client_request*.cpp`, `ms_cmd.cpp` | `nRef`, the socket, `lstSend`, which operation each object carries | accept, zero-byte receive, receive, command packet, send, each with success and failure | the ring, the pools, the completion port |
| Object pools | `ms_memory.cpp` | four vectors with a limit of 500 | `alloc*`, `free*` | all sessions |
| API (NC) session | `ms_nc_*.cpp` | one `BUFFER_SOCK` and `BUFFER_OBJ` per connection | accept, receive, `CheckNCData`, send | the pools |
| MySQL pool | `db_mysql.cpp` | `v_db`, `g_nCurrentLinkNumber` | `db_init`, `db_alloc`, `db_free`, `db_connect` | command handlers (absent) |
| Business commands | called in commented-out code only | - | - | - |

What is hard here is what the tests of such a program would hardly reach. The
ring wraps at any byte of a frame. A connection's receive operation, its command
packets and its replies are completed in different workers in any order, and the
last one to let go must be the one, and the only one, that closes and frees. A
reply can be queued while the last one is being taken off the list. Every system
call can fail, and each failure has a cleanup path of its own. `PROJECT.json`
lists these hazards line by line under `hazards`.

What makes each part correct: the ring never mixes up read and unread bytes, and
the parser delivers what was sent, whole, once and in order; `nRef` is the number
of those who have a reference to the connection, so that no worker, operation, packet or
reply refers to one that was freed, and none in use is left with nobody to come back to it;
each send list has exactly one sender; the link count of the
MySQL pool does not drift and stays under its limit; a client that waits to be
accepted is accepted, and no entry of the pending map is stale when the sweep reads it;
a handle that was read is still this connection's socket when it is used; a request of
the API is taken when it is whole, whatever its buffer held before; of the processes
that are started one serves, on both ports.

Not all of this is so. Commands and API requests that are never answered are never freed;
the sweep, the parser and `CheckNCData` close sockets that others are using; the sweep may
write to a RECV_SOCK that a worker has just freed. Where that is the case the properties
say exactly how far the damage goes, or a run shows them violated, or the deviation is listed
("What the violated runs show").

## The modules

**RecvRing** models the positions, flags and segment sizes of `_recv_sock`. A
variable is a field of the struct; `io` says where the connection's only receive
operation is (`accept`, `zero`, `recv`: with the kernel; `loop`: in the handler's
`while (len)`; `ended`). `InitWRpos`, `InitRLsize`, `Read` are the methods;
`AcceptData`, `RecvData`, `TakeFrame`, `LoopEnds`, `ZeroRecvDone`,
`CompletionFailed` are the handlers' steps. The bytes are left out: a frame of any
length that is in the ring may be found.

**FrameParser** extends RecvRing with the bytes. `GetCmdDataLength` keeps its
three branches, each with the view of the buffer it reads header and data
through; what they have in common is `CheckFrame`. A parse ends with `Wait`
(returns 0), `Close` (closes the socket, returns 0) or `Frame(n)`. `Scatter` is
what the kernel does: fill the right segment, then the left. The peer's stream is
fixed in the initial state and arrives in pieces of any size. `got` is what
`Read` copied out for the command layer. The base of a byte is a constant, so that
16 can stand for 256. `% Dword` keeps the width of `dwFrameLen + 8`, which wraps for
lengths within 8 of 2^32. No client sends such a frame, but a header that wraps and
has not arrived whole may show one, made of cells of an earlier lap. The code then
reads outside the frame, and closes or dies of it; the model closes.

**ClientSession** models all connections and all workers. `at` is where an object
is (heap, pool, with the kernel, on the completion port, in a send list, in a
worker's hands), `rel` its `pRelateSock`, `wk[w]` the program counter and locals of
a worker. A step ends where another thread can tell the difference: interlocked
operations, critical sections, posting an object, writing the socket handle. A
pool operation on an object that nobody else can reach is part of the step next to
it. What the parser finds is left open. The handlers' ends (`InterlockedDecrement`,
`CMCloseSocket`, `freeRSock`, then the object) are the same in every handler and
are modelled once, as `DropRef`, `CloseSock`, `FreeSock`, `FreeObj`. The sweep of
`main` is `SweepFinds` and `SweepCloses`, with anything in between. The command
handlers are not in the repository, so `Handlers` says what a command may meet: `"empty"`
is the program as it stands, where `Client_CmdCompletionSuccess` returns at once;
`"external"` is a handler that uses the sending code the way it is meant to be used
(`CheckSend`, then `CLient_PostSend`, and `Client_SendCompletionFailed` if that fails), or
gives up through `Client_CmdCompletionFailed`.

**SendQueue** and **SharedLife** say what the send list and the reference count
promise, without lists and counts: replies go out oldest first, one at a time; an object
lives while somebody owns it, a new owner comes in only through an old one, and it is
given back once. **SessionRefinement** instantiates both over ClientSession: the queue is
`lstSend` read from the back, the owners of a RECV_SOCK are the operations, packets,
queued replies and handlers that refer to it.

**SocketHandles** refines what ClientSession calls `open` and `invalid` to handle
numbers, which the kernel gives out again. Reading a handle, using it, closing it and
writing `INVALID_SOCKET` are separate steps of `main`, of the receive chain (`rx`) and of
the worker with a reply (`tx`). `owner` is the truth about a number. `CloseByCount` is
`CheckNCData`'s close of a BUFFER_OBJ: any number of the process may go, at any time. The
history variable `hurt` collects the connections that were harmed since their accept, and
there are three ways (`Harms`): an early close (one that does not ask `nRef`: the
sweep's, or the parser's on a damaged frame) overlapped with another handler of the
connection; `CloseByCount` took its socket; a thread of a connection that was harmed already
did. A connection that is not harmed is called sound.

**Listener** models `main`'s loop over its listeners, with the Winsock behaviour it
depends on: a client is taken by a posted `AcceptEx`, or waits in the backlog and sets
the event once; the next `AcceptEx` enables the event again. `acceptPendingMap` maps keys
to connections, `InsertIntoPendingMap` overwrites and `DeleteFromPendingMap` erases
whatever is under the key. The sweep reads an entry, asks `getsockopt` and closes in three
steps, and a worker may free the connection between any two of them. `clashed` is history: the connections that shared their key. A RECV_SOCK and a
BUFFER_SOCK are both a KEY_VALUE here.

**NcSession** models the API connections. A connection has one operation posted at a
time, so a handler is one step; `main`'s sweep (`SweepFinds`, `SweepCloses`) may close the
socket between two of them, also after the connection was freed, and `CheckNCData` may
close another connection's (`CloseByCount`): that one is then `stolen`. The buffers, with the bytes of their last use, are what
connections share, among themselves and with the client sessions (`CommandUses`). Text is
cells: a Content-Length line, the empty line, a zero byte, other text. `CheckNCData`
searches up to the first zero byte, as the code does, not up to `dwRecvedCount`.
`Replies = TRUE` puts in the answer that is commented out.

**Startup** models processes from `main`'s first line to its loop: the named event as the
set of processes that hold a handle of it, ports as the process they are bound to, one
step per call that may fail. A process dies at any point, and the system cleans up after
it some time later. `Leftovers` are the handle numbers that may lie in the memory whose
`sListenSock` `LISTEN_SOCK::Init` reads before anything wrote it.

**DbPool** models the MySQL pool with concurrent callers. A link is the character
set it works in; `cs_db` is held across `db_connect` only where the code holds it.

How they fit together: FrameParser refines RecvRing; ClientSession leaves open what the
parser finds, and FrameParser what happens to a frame it delivered. Listener ends where a
session begins (`AcceptCompletionSuccess`), and ClientSession and NcSession begin there,
with a pending map without keys. SocketHandles is ClientSession's life of a connection
seen through the handle.

**RecvRingProofs**, **FrameParserProofs**, **ClientSessionProofs** (with the refinements of
SessionRefinement), **SocketHandlesProofs**, **ListenerProofs**, **NcSessionProofs**,
**StartupProofs** and **DbPoolProofs** hold the theorems about the modules they are named
after. The MC modules give TLC streams, requests and symmetry.

Operators whose comment names a mistake (`ReadEndNoWrap`, `DropRefNeverCloses`, ...)
are variants of the definition after them. No specification uses them; they show
that the properties notice the mistake.

## The runs

| Run | Checks | Instance |
|---|---|---|
| `frame_parser` | of the ring `RingTypeOK`, `FlagsAgree`, `RecvNeverOverwrites`, `LoopConsumes`; of the parser `FrameIntegrity`, `PositionsMatchStream`, `NoFrameLeftBehind`, `ClosedOnlyAtSeam`, refinement of RecvRing (`RingRefined`), `BadFrameEndsSession` | 16-byte ring, up to three frames and two streams of four, then possibly a damaged or too long frame |
| `frame_at_seam` | `WellFormedNotClosed` is violated | the same ring, conforming clients |
| `client_session` | `TypeOK`, `RefCountExact`, `NoUseAfterFree`, `ForgottenOnlyIfDropped`, `ReclaimExclusive`, `HeldByOne`, `OneSenderPerList`, `OldestIsSent` | 2 connections, 3 buffers, 2 workers, pools of 1, both kinds of handler |
| `client_session_live` | `CommandFinishes`, `SessionReclaimed`, `ImplementsSendQueue`, `ImplementsSharedLife` | 1 connection, 2 buffers, 2 workers, replies sent in parts |
| `nc_session` | `NcTypeOK`, `NcPaired`, `RequestTakenWhole`, `ResponseInOrder`, `RequestSettled` | 2 connections, 2 buffers of 3 cells, pools of 1, 2 requests, responses of 3 cells, the sweep |
| `listener` | `EntriesAreLive`, `SweepFindsAll`, `SweepSparesUnconnected`, `PostsBounded`, `WaitingIsAccepted` | 2 listeners, 3 connection objects, 2 keys, 2 clients, 1 failing call |
| `sweep_traversal` | `TraversalUndisturbed` is violated | one connection object and one client more |
| `socket_handles` | `HandleStaysOurs`, `SocketStaysOpen`, `NoSocketLost` | 2 connections, 2 handle numbers, API requests that are too long |
| `reply_elsewhere` | `ReplyGoesHome` is violated | the same without such requests |
| `startup` | `ServingListens`, `OneServer`, `SomebodyServes` | 3 processes, 2 failures or crashes |
| `db_pool` | `LinksAccounted`, `NeverTooManyLinks` | 3 threads, at most 2 links |
| `db_charset` | `LinkUsable` is violated | the same |

Bounds. A ring of 16 bytes is enough for a frame to wrap in each of its parts and
for frames of 8 (the shortest), 13 and 16 (as long as the ring) bytes to begin at many
offsets; three of them go round it up to three times. One stream of four has frames that
end where the ring ends, lap after lap; the other leaves data bytes in cells 2 to 5,
where the next header that wraps there reads its length. Two connections are enough for an
object of one to be reused by the other, two workers for every pair of handlers to
overlap, three buffers for a send list with one reply in flight and two waiting.
Pools of one object make the pool limit and the heap happen. `MaxBatch` bounds the
frames of one completion, which the ring bounds in the program. Replies of two bytes in
`client_session_live` are sent in one or two parts; in `client_session` a reply is one
byte, which leaves room for both kinds of handler. With two buffers
the refinement of SendQueue is about two replies; that the oldest of several waiting ones is
next is `OldestIsSent`, with three.

In `listener` two keys for three connections make collisions common, and `SweepLimit = 0`
makes every batch end with a sweep. Clients may arrive while `main` still fills its
listeners, so two of them with batches of one are enough for one to wait in the backlog,
and to arrive before, during and after the call that takes the other. `WaitingIsAccepted`
asks that fewer calls fail than a batch has, and it has to: if all calls of
a batch fail, nothing enables FD_ACCEPT again and the listener is deaf.
With batches of one that is the case without failing calls; that unclaimed calls stay below
two batches is proved for batches of any size.
Two handle numbers for two connections mean that a number given back is the next one
given out, and every number is one that `CheckNCData` may close. A BUFFER_OBJ of three cells
holds a header and a body, or the end of an older request; the requests are a conforming one
and one that goes on after the end its header announces until it does not fit. Three
processes are enough for one to serve, one to die and one to start.

Runs turn deadlock checking off where the program may stop: a connection that has
ended, a listener whose calls all fail.

Fairness. In FrameParser a handler runs to its end and bytes the peer has sent
arrive; nobody has to close, so a session that ends has been ended by the program.
In ClientSession a handler runs to its end (weak fairness per worker: handlers do
not block), a packet of a buffer is taken in the end (strong fairness: the
completion queue is first in, first out) and a send completes, since keep-alive
(10 s) breaks a connection whose peer is gone. A receive need never complete.
In NcSession what the peer sent arrives, an operation on a socket that is gone fails, and
posted sends complete or fail, for the same reason; the peer need not close, and `main`
need not sweep. In Listener `main` and the workers run; that a call fails
(`MainFails`), what clients do, and the ends of sessions are not promised. In Startup a
process that was started runs; its calls need not fail, and it need not die.

## What the violated runs show

* `frame_at_seam`: when frames end exactly at the end of the buffer, `dwReadpos` is
  `dwBufsize`. If the first byte of the next frame then arrives alone, the branch
  for a wrapped header (`ms_data.h:199`) does not ask for 6 bytes, as the linear
  branch does, takes the second mark byte from a cell of an earlier lap and closes.
  It takes two laps: on the first, cell 1 still holds the mark of the first frame.
  `ClosedOnlyAtSeam` shows that there is one other way in which a conforming client is cut
  off: the same branch takes a length from such cells that is within 8 of 2^32.
* `reply_elsewhere`: the parser closes the socket of a damaged stream without asking `nRef`;
  `main` opens the next connection's socket under the same number; a worker that replies to
  an earlier command reads the handle before the parser overwrites it, and sends the reply to
  the next client. The sweep can bring this about for a receive, and a worker that tests the
  handle in `CMCloseSocket` before the sweep closes it may close a new connection's socket.
  `HandleStaysOurs` and `SocketStaysOpen` show that such damage begins only with these early
  closes and `CheckNCData`'s, and reaches a connection only through one that has been hit;
  `NoSocketLost` holds whatever happens.
* `sweep_traversal`: a worker erases the entry on which `main`'s iterator stands, and may
  free the connection `main` has in hand. `EntriesAreLive` and `SweepSparesUnconnected` show
  what still holds: at the moment the iterator reads an entry it is a posted connection, and
  `main` never closes a new one. `NoUseAfterFree` adds that when the sweep writes to a
  RECV_SOCK that was freed, the handle it finds there is invalid.
* `db_charset`: `mysql_set_character_set` returns 0 on success; `db_connect` closes
  the link in that case.

Other deviations met while modelling, which no run is about:

* `Client_CmdCompletionSuccess` has an empty body (`ms_cmd.cpp:19`), so a command is never
  answered and never freed, and neither is its connection. `CommandFinishes` and
  `SessionReclaimed` hold with an external handler in place; in `client_session` commands meet
  both, and `ForgottenOnlyIfDropped` shows that a dropped command is the only way in which a
  connection comes to be kept for ever.
* After a complete API request nothing is posted and nothing freed
  (`ms_nc_requestcompletion.cpp:110-115`, `189-194`). `RequestSettled` holds with the answer in
  place; with `Replies = FALSE` TLC refutes it.
* `CheckNCData` gives `CMCloseSocket` its BUFFER_OBJ instead of the BUFFER_SOCK
  (`ms_nc_requestcompletion.cpp:42`), so a request with more bytes than it announces does not
  end its connection: a receive is posted that nothing need ever complete. What that call
  does close is the handle whose number is the byte count, and that may be the socket of a
  client in mid-session. NcSession and SocketHandles have this close (`CloseByCount`).
* If all the calls of a batch fail the listener is deaf from then on.
* `OpenEvent` and `CreateEvent` are two steps, and nobody asks for `ERROR_ALREADY_EXISTS`, so
  two processes may both get past `UniqueInstance`. `OneServer` shows that `bind` is what
  keeps the second from serving, and `SomebodyServes` that they do not both give up.

`ServingListens` and `OneServer` name the one exception that reading `sListenSock`
uninitialised makes (`Robbed`, `Leftovers`), and so say nothing about that read itself.

## What is proved

`RecvRingProofs`, for every `Bufsize` and `AddrSpace` with room for a header
(`RingAssumption`): `RingTypeCorrect`, `RingFlagsAgree`, `RingRecvNeverOverwrites`,
`RingLoopConsumes`. The inductive invariant `RingInv` adds to types and flags that the
ring is clean before the first receive (`InitWRpos` works there only because
`dwRightsize` is 0) and that, while a receive is posted, the segment sizes are those of
the current positions: otherwise the number of received bytes would not bound the new
write position. `ReadFrame` is the lemma that carries the argument: from the guard
`frameLen + 8 <= Unread` it computes the read position in each of the linear, wrapped
and header-wrapped cases.

`FrameParserProofs`, for every buffer, base of a byte, set of streams and way they arrive
(`RingAssumption`, `FrameAssumption`, and `ScriptAssumption`: frames consist of bytes and
have lengths that are DWORDs): `ParserFrameIntegrity`, `ParserPositionsMatch`,
`ParserLeavesNoFrame`, `ParserClosedOnlyAtSeam`, and `ParserImplementsRing`, by which what
is proved of RecvRing holds of the parser. The four invariants say nothing about the cells
of the ring, and without that nothing follows about what the parser finds there. `FrameInv`
adds it (`Content`): the bytes of the frames not yet delivered are the unread cells, in the
order in which `Read` would copy them, and then what the kernel has not delivered.
`NextIncomplete` adds that before a receive the next frame is not in the ring whole.
`ParsedWhole` and `ParsedPart` make one function of the stream of the three branches of
`GetCmdDataLength`, depending on whether the header has arrived; `ParseHeader` and
`ParsePart` say what it decides about the next frame; `ArrivesKeeps` and `DeliverKeeps` are
the two steps that move bytes. The checksum and the stream are recursive functions; that
they exist and unfold (`SumFcnExists`, `StreamUnfolds`) is shown by taking the least
number for which it fails. The proof failed at first, for a good reason: `ClosedOnlyAtSeam`
named only the first of its two cases. A ring of 12 bytes has no room for the second, one
of 16 has, so the run has one of 16 now.

`DbPoolProofs`, for any finite set of threads and any limits (`DbAssumption`):
`DbLinksReal`, `DbLinksAccounted` and `DbNeverTooManyLinks`. `DbInv` adds that a thread that is
connecting is inside `cs_db` with room for its link, that a thread with a link really
has one, and that `db_init` runs before the others.

`ListenerProofs`, for any number of listeners, connections and keys and any batch
(`ListenerAssumption`): `SweepReadsLiveEntries`, `SweepMissesClashesOnly` and
`SweepSparesNewCalls`. That an entry is live is nearly inductive by itself, because a
connection's entry is under its own listener and key, where `DeleteFromPendingMap` looks.
`SweepFindsAll` is not: a worker that finishes one connection erases whatever has its key.
`ListenerInv` adds that posted connections with the same listener and key are all known to
clash (`SharersClashed`), and starts the claim when the entry is made, before `AcceptEx`
(`FoundUnlessClashed`). For the sweep it adds that a connection `main` has in hand between
`InsertIntoPendingMap` and `AcceptEx` is still `posting`, so that no worker can have moved
it. Three lemmas, `MapKept`, `MapInserts` and `MapDeletes`, say what each way of treating the
map does to it; every step of `main`, worker or client is an instance of one.

`PostsAreBounded` needs a second invariant on top of this one, `PostInv`: what a set event
means. While `main` posts for a listener, it stands for clients in the backlog or for fewer
unclaimed calls than this batch has posted; otherwise for fewer than `Batch`. So a batch
begins below `Batch` and ends below `2 * Batch`. `PostsKept` shows that steps that claim
calls or touch other listeners keep this, and the lemmas after it take the steps that
begin, fill and end a batch.

`ClientSessionProofs`, for any number of connections, buffers and workers, pools of any
size and any mix of handlers (`SessionAssumption`): `SessionTypes`, `SessionRefCount`,
`SessionNoUseAfterFree`, `SessionForgottenOnlyIfDropped`, `SessionReclaimExclusive`,
`SessionHeldByOne`, `SessionOneSender`, `SessionOldestIsSent`. None of these is inductive
alone: that a decrement reaches 0 only for the last owner is the count, that the count is
right needs that no object is in two places, and that needs the send list. `SessionInv` is
stated per worker (`WorkerOK`: what a handler has in hand at each program counter), per
object (`ObjOK`) and per RECV_SOCK (`SockOK`, four parts: the count is the number of owners,
who the owners are, whoever closes is alone, the list with its one sender). A step changes
at most one of each (`Touches`), so `OtherWorkers`, `OtherObjects` and `OtherSocks` dispose of
all the others once (`Here`) and the proof of an action is about three things. Along with
the invariant each action is shown to do one of a few things to the owners and the list of
its RECV_SOCK (`SessionStep`). A second invariant on top, `SideInv`, carries what the two
statements about freed and forgotten connections need beside the count: a freed RECV_SOCK
has no open socket (`ClosedOK`), a command that was made is with a worker that is about to
post it, and a queued reply is in its list, which has a sender (`BusyOK`). From that follow the refinements `SessionIsSharedLife` and
`SessionIsSendQueue`: an owner comes, goes, creates or reclaims; a reply is listed, is sent,
or leaves.

`SocketHandlesProofs`, for any number of connections and handle numbers, with
`CheckNCData` closing any of them at any time or not (`HandleAssumption`): `HandleNeverLost`,
`HandleIsOurs`, `HandleSocketOpen`. `HandleInv` says who can have a reference to a connection
(`RefOK`), and from it follows that a thread that closes a connection is alone with it
(`CloserIsAlone`) unless it closes early. So between a sound connection's reading a handle
and closing it no thread of a sound connection gives the number back, and only `main` could
open another socket under it, which is busy if it is the one that closes. That no step of
somebody else's takes a sound connection's socket is then by the definition of `hurt` for
three kinds of step (an overlap, `CheckNCData`, a thread of a harmed connection), and by the
invariant for all others, which are nearly all.

`NcSessionProofs`, for any requests, buffer length, pool limits and number of connections
(`NcAssumption`): `NcTypes`, `NcSocketsPaired`, `NcRequestTakenWhole`, `NcResponseInOrder`.
`NcInv` says of each BUFFER_OBJ what its state promises: a free one is as `Init` left it
except for its bytes, the buffer of one that receives begins with the part of the request
that has arrived, and the posted operation covers the rest. The lemma that carries
`RequestTakenWhole` is `CheckNCDataIs`: whatever lies beyond the received part, the end of
the header and the length that `CheckNCData` finds are those of the request, or it waits.

`StartupProofs`, for any number of processes and listeners (`StartupAssumption`):
`StartupServingListens` and `StartupOneServer`. `StartupInv` says what a process has at
each stage: the listeners before the current one are ready, the current one is as far as
the program counter says. Two serving processes would both have the first port. The proof
failed at first, for a good reason: `RegisterListener` let the stale handle in fresh memory
be that of a listener whose socket had been taken already, so that it could be closed
twice and free a port some other process had bound meanwhile. TLC confirms it with three
listeners (there is no room for it with two). In the program the number of a socket that has
been closed is no longer the process's, so the stale handle is now one that still listens.

Only model-checked: liveness (`CommandFinishes`, `SessionReclaimed`, `RequestSettled`,
`WaitingIsAccepted`, `SomebodyServes`, `BadFrameEndsSession`), which this prover cannot reason about.

## Plan

Done: all components that are in the repository, their runs, the two abstract
specifications of a session, and proofs of every safety invariant, of the action property
of the ring and of the three refinements. Left: liveness stays with TLC; the proofs of the
sessions can still be made shorter.

## Not modelled

`msgpack-c` and TBB, which are nearly all of the lines under `src/`, are third-party: no
source file uses msgpack, and of TBB the program uses `concurrent_hash_map`, which Listener
models by its use. The business commands are not in the repository. `HeapAlloc` is taken to
succeed, and the heap itself, also `HeapFree` with `HEAP_NO_SERIALIZE`, is left to Windows.
Damaged length fields, and Content-Length texts that are negative or have eight digits and
more, are outside the streams and requests that are modelled. So is what `_tcsstr` may find
beyond a BUFFER_OBJ without a zero byte; for a conforming request it changes nothing. The size
of a `BUFFER_OBJ` (one page) against the frame length is not modelled, in FrameParser
(`CopiedBytes`) as in ClientSession: the protocol document gives no maximum, and a longer
frame overruns the heap block. Nor is what a write to a freed block does to the heap.
`InitializeCriticalSection` without `DeleteCriticalSection`, and logging, change no state
that a property tells apart.
