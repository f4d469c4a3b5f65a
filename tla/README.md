# Verification of uniondb

uniondb is a C++ library (namespace `Leeloo`, `src/uniondb/lib`) for small network servers on
Windows and a web server built with it (`src/uniondb/prj/uniondb_webserver`). This directory
holds TLA+ models of its core, the TLC runs that check them, and theorems with proofs for TLAPS.
Line numbers below refer to files in `src/uniondb/lib` unless another path is given.

## The system

| Component | State | Operations | Correct when |
|---|---|---|---|
| Id manager, `IdManager` (leeloo.h:620-642, leeloo.cpp:148-175) | a queue of freed ids, a counter | `GetFreeId`, `FreeFreeId` | no id is out twice or lost; the counter does not wrap |
| Connection server, `NetServer` and `Session` (net.h, net.cpp) | an array of sessions (per-handle data: socket and address; per-I/O data: `OVERLAPPED`, buffer, operation type), id manager, completion port | the accept loop with `Accept`, `ServerThread`, `Handle`, `FreeSession`, constructor, destructor | a session has one owner at a time; its socket is its own; clients get what they sent; sessions come back |
| Web server, `WebServer` (web.h, web.cpp:342-444) | the above, and `m_dataSendTemp` of each session | `Handle` | every request is answered, whole, in order, to the client that made it |
| HTTP, `HttpProtocol`, `HttpDisposer` (web.cpp:6-340) | none | `ParseHead`, `Decode`, `Encode`, `Dispose` | one response for one request; POST data of the stated length |
| Response buffer, `Data` (leeloo.h:646-729) | buffer, `m_bufLen`, `m_dataLen`, `m_pos` | `SetBuffer`, `Append`, `Clear`, `Seek`, `Read` | what is read is what was appended, once |
| `Queue`, `LockPolicy`, `GuardLock` (leeloo.h:119-155, 579-618) | a list, a lock | `Push`, `Pop` | first in, first out, each item to one thread |
| `Thread` (leeloo.h:439-577) | `m_bStop`, `m_bStarted`, the handle | `SetTask`, `StopTask` | a started task ends before `StopTask` returns |
| Life cycle: `Global`, `AppFramework`, `MyAppFramework` (leeloo.h:196-212, framework.cpp, uniondb_webserver.cpp) | the run flag | `Start`, `Run`, `End` | the program ends, and nothing is used after it is deleted |
| `Singleton` (leeloo.h:156-194) | the pointer, a lock | `Instance`, `Deinstance` | one instance; none is used after deletion |
| `Base`, `SmartPtr` (leeloo.h:310-431) | a count in each object | copy, assign, destroy | an object is deleted once, by the last holder |
| `Db` (db.h) | a map of keys to data, a lock | `Get`, `Set`, `Del` | linearizable map |
| `Config`, `Log` (leeloo.cpp:55-146) | a map of settings; a file | `ReadConfig`, `GetConfig`, `WriteLog` | a key has the value written after it; levels are respected |
| `Info`, `KnowledgeFramework` (leeloo.h:739-923) | a request's items | `SetInfo`, `GetInfo`, `Think` | decode, dispose, encode in that order |
| Loki (`src/depend/loki`) | vendored | | not part of this project |

How they interact: the constructor of `NetServer` starts one thread, which opens the completion
port, starts the workers and then accepts (net.cpp:144-209). `Accept` gets an id, fills the
session with that id, gives the socket the session's per-handle data as completion key and posts
the first read. From then on everything is driven by completions. A worker takes one, and either
closes the socket and frees the session (an error, or no bytes transferred), or calls the virtual
`Handle`, which posts the next operation with the same session.

**What is hard.** There is no lock around sessions. They are handed over by posting an operation
and by taking its completion, so a worker may still be in `Handle` when another has the session.
Handle values are reused by the system, and sessions store them. Results of posts are mostly not
looked at. The id manager tests and increments its counter in two steps. A response takes several
sends by different workers. `WebServer::Handle` closes sockets of sessions it has just handed
over. The list of hazards in `PROJECT.json` names each of these at its line.

## Modules

| Module | Models | Notes |
|---|---|---|
| `IdPool` | abstract | ids that are in use, free, or not issued yet |
| `IdManager` | leeloo.cpp:148-175 | one action per step that touches shared state; any number of threads |
| `EchoService` | abstract | what a client of `NetServer` may rely on |
| `NetServer` | net.h, net.cpp:33-143, 199-209 | accept thread, workers, port, sockets, peers |
| `WebServer` | web.cpp:346-444, with requests told apart by what `Handle` does with them | extends `NetServer`, with another `Handle` |
| `Http` | web.cpp:6-340, leeloo.h:739-923 | the path of one request through `ParseHead` and `Think` |
| `Data` | leeloo.h:646-729 | every operation, on elements |
| `Config` | leeloo.cpp:55-103 | pure operators on a file of words |
| `Lifecycle` | framework.cpp, uniondb_webserver.cpp, net.cpp:6-32, 144-209, leeloo.h:196-212, 439-577 | main and the accept thread; extends `Config` |
| `Singleton` | leeloo.h:156-194 | one action per access to the pointer |
| `SmartPtr` | leeloo.h:310-431 | pointers, counts, and the test after the decrement |
| `KeyValueStore` | abstract | a map whose calls take effect at one moment |
| `Db` | db.h | the map of owned `Data` under its lock |
| `MC...` | | constants for TLC, one module for each of the above that is run |
| `QueueLemmas` | | what pushing and popping do to a queue without repetitions |
| `IdManager_proofs` | | theorems about `IdManager` |
| `Servers_proofs` | | theorems about `NetServer` and `WebServer`, most of whose steps are common |
| `Response_proofs` | | theorems about `Http` and `Data` |
| `Lifecycle_proofs`, `Singleton_proofs`, `SmartPtr_proofs`, `Db_proofs` | | theorems about one module each |

### IdManager

`Call` enters `GetFreeId`; `PopReturns` and `PopEmpty` are `Queue::Pop`, one step each since it
holds the lock; `ReturnInvalid` and `CheckTop` are the test of `m_topFreeId`, and `Increment` is
`LEELOO_INCREMENT`, which wraps at the width of the integer. `IdPool` is the abstract view: a caller is
given an id nobody has, or is refused only if all ids were out at some moment of its call.

The test at leeloo.cpp:160 does not protect the increment after it. `MaxHeld[n]` says how many ids may be
held when a call is made that brings n threads into `GetFreeId`, and `Fits` that there is then an id
left for each of the n. Under `Fits` threads may all pass the test, and take the ids up to the last
one between them, and the counter never wraps. The bound is exact: in the run two threads come in with up to
two of four ids held, three with up to one, and with one more in either place (`<<5, 4, 2>>` or
`<<5, 3, 3>>`) TLC finds `IncrementSafe` violated. For one thread there is no such bound: it may
find the counter used up, and is refused. The server has one thread in `GetFreeId`.

### NetServer

`apc` is the place of the accept thread, `wpc[w]` that of worker w; the locals of `Accept` and
`ServerThread` are variables of the same names. Steps that touch only private state are merged with
their neighbours; those that touch shared state (the queue, the counter, a session, a socket, the
port) are actions of their own: `FreeSession` gives the id back in one step and `UnInit` follows
in another, as in net.cpp:35-36.

The system is external and modelled from how the code uses it. `owner[h]` is the connection a
handle stands for, or none: a closed value is free for the next `accept`. `key[c]` is the session
passed to `CreateIoCompletionPort`. `io` is the set of operations posted and not yet taken by a
worker. Closing a socket makes pending operations on it fail; a closed handle is refused; a
peer sends up to `MaxChunks` chunks, shuts down in good order or resets; a post may fail at once
on a reset connection, and up to `MaxFaults` calls (`accept`, `Session::Init`'s allocation,
posts) fail for lack of resources. A completion on a connection without a key goes to no port. It
is not modelled that one `WSASend` sends only a part, which overlapped sends on stream sockets
do not do while the connection lasts.

An operation names the session whose buffer and `OVERLAPPED` it uses. `m_buf` holds a chunk: whose
it is and its number. A send transmits what the buffer holds at the moment the send completes, so
that a buffer that is overwritten too early shows up in `replies`.

### WebServer

The actions of `NetServer` are used as they are, with `WebServer::Handle` in place of its `Handle`.
A request is one chunk, and a worker chooses what `ParseHead`, `Decode` and `Dispose` (module
`Http`) make of it among `Requests`: a `"page"` of up to `MaxPieces` buffers (any file, also an absent one, since
there is always a header), a `"bad"` request with an empty response, or a `"partial"` one for which
`ParseHead` fails. Lengths are counted in buffers of `LEELOO_BUFFER_SIZE_NET`. `m_dataSendTemp`
keeps `m_dataLen` and `m_pos` apart, and both outlive a client, because
`Session::Init` does not touch them: only `Seek` sets `m_pos`, and only when there is data.

`SendFails` and `AnswerPartial` lead to a read (`PostRecv`) and then to `HangUp`, the
`closesocket` at web.cpp:385, 399 and 425. At that point the worker has handed the session over,
and `HangUp` looks at the session's `m_s` as it is then.

### Http

The path of the text of one read: `Handle` (`ParseHead`), `Decode`, one of `DisposeBad` and
`OpenFile` / `ReadFile` / `DisposePage` (`ResponseByFile`), `Encode`. A text is a sequence of the marks
the code searches for with `strstr`, each as long as one unit of Content-Length, in any order; the
functions search it each in its own way, and `PostIsWhole` is about what that comes to. An empty line is
part of the mark `"end"`: two `"crlf"` in a row have something between them.
`items` counts the `InfoItem`s that are alive; `SetInfo`, `Clear` and the destructor of `Info`
change it as in leeloo.h:739-771, where `Clear` forgets items without deleting them. The page is
the length in its head and the length of its body; the file has any length, or is absent.

### Data

One action per operation. The buffer has the two cells more that `SetBuffer` allocates
(leeloo.h:666-687), with the end mark among its contents. `appended`, `from` and `read` are history:
what was appended since the last `SetBuffer` or `Clear`, where `Seek` went, and what `Read` has
returned since.

### Config and Lifecycle

`ReadConfig` is a fold over the words of the file, as `file >> stdstrLine` gives them. `WellFormed` and
`Meant` say independently what a reader takes a file for who knows the keys by name.

`mpc` is the place of main, from `AppFramework::Start` through the constructors, the input loop,
`MyAppFramework::End`, `~NetServer` with its connection to itself, `StopTask`, to
`AppFramework::End`; `tpc` is the place of `NetServer::ThreadProg`. `config` and `log` are the
singletons, which `Instance` makes anew, empty, where they are not there. `server` is the class the
object has at the moment, `"deleted"` after its destructor. Calls in `MayFail` may fail, with what
the code does then: a failed CreateThread goes unnoticed, the others end the thread. What the
accept thread does with a connection is `NetServer`'s; here it only takes it from the backlog.

### Singleton

A step for each reading or writing of `m_pInstance`, and for the lock. A user calls `Instance` and
uses what it returns, a closer calls `Deinstance`; any number of calls. `disturbed` remembers the users
whose call or use is overlapped by a call of `Deinstance`, of which nothing is promised.

### SmartPtr

Each thread has pointers of its own and starts with one to an object all threads share. `Decrease`
and the reading of the count that decides about the delete are two steps (`Assign` or `Destroy`,
then `Test`); a count that is read in deleted memory may be anything. Only the order of an
interlocked operation is used, so that the policy for one thread is the case of one thread.

### Db

A call takes the lock, finds, deletes, erases, inserts or copies, unlocks and returns, each a
step. A `Data` is a cell of the heap, any free one when it is made; the map and the callers' `auto_ptr`s hold
cells. The mapping
to `KeyValueStore` lets `Set` and `Del` take effect when the old `Data` has been deleted or found
absent, `Get` when it copies.

## Runs

| Run | Instance | Shows |
|---|---|---|
| `id_getters` | 3 threads, 4 ids; several inside only while there is an id left for each | `IdsConserved`, `IncrementSafe`, and that the manager implements `IdPool` (`ImplementsIdPool`), also when all ids are out |
| `net_ownership` | 2 connections, 2 handle values, 2 workers, 2 usable sessions, 1 fault, fair | `SingleOwner`, `OwnSocket`, `RightOp`, `LeaksBounded`; `EventuallyClosed` and `EventuallyEchoed` as long as nothing has failed |
| `net_refinement` | 3 connections with 2 chunks each, 2 workers, 1 usable session, ids run out, resets, no fault | `TypeOK`, `QueueUsable`, `UsesIdManager` (the accept thread and the workers are a legal environment of `IdManager`) and `ImplementsEcho`: echoes in order, one after another from the same buffer |
| `web_ownership` | 2 connections, 2 handle values, 2 workers, 2 usable sessions, all kinds of requests, resets, 1 fault | `WebTypeOK`, `SingleOwner`, `RightOp` hold in spite of the stray closes, and `HungUpForCause` |
| `web_answers` | 2 connections, 1 usable session, 2 requests each, pages of 1 or 2 buffers, fair | `AnswersInOrder`, `EventuallyClosed`, `EventuallyAnswered` while nothing fails |
| `web_handles` | pages and incomplete requests | `HandleCorresponds` is violated |
| `life_quit` | 820 files of up to 3 lines, that of the repository, and none; 3 clients, backlog 2, every call but connect may fail, fair | `TypeOK`, `ServerOutlivesThread`, `ListensWhereTold`, `QuitEnds` |
| `db_store` | 2 threads, 2 keys, 2 values, 4 cells | `NoUseAfterDelete`, `OneOwner`, `LockIsReleased`, and that `Db` implements `KeyValueStore` (`ImplementsStore`) |
| `smart_threads` | 2 threads with 3 pointers each, 3 objects, one of them shared | `CountExact`, `NoDangling`, `DeletedWithLast` |
| `singleton_calls` | 2 users, 2 closers, 2 places for objects, fair | `OneInstance`, `PointerTrue`, `UsesLiveObject`, `InstanceReturns` |
| `http_requests` | POSTs with up to 5 marks after their first line, other requests with up to 3; Content-Length -1 to 3, files of up to 5 units, a buffer of 2 | `PostIsWhole`, `LengthIsRight`, `ItemsAreFreed` |
| `data_buffer` | strings of up to 2 of 2 elements, buffers of up to 4 | `HoldsAppended`, `ReadsInOrder` |

**Bounds.** Two workers are enough for a session to be taken by one while the other is still at
it, and two handles and three connections for a value to be reused while both the old and the new
connection matter; with two connections and two handles an old value is reused by the second.
`MaxSession` is small so that sessions are reused and run out, and `MaxValid` so that ids do: an id at
or past `MaxSession` is refused and dropped, and id 0 is never issued. One chunk per connection
suffices for ownership. Two are needed for the order of echoes, and for a chunk to arrive in a buffer
that still has to be echoed; two requests and two pieces for the order of answers. Failing calls
are in `net_ownership` and `web_ownership`; `net_refinement` does without, for its size, and
`ServerIsEchoService` is proved with them. A
connection is made once, which bounds the run and loses nothing, as a connection that is closed does
not come back. In `Lifecycle` three lines are enough for a comment of two words or a missing value to
shift keys against values, and for a key that comes twice; three clients fill a backlog of two while
one is being taken, so that the connection of the destructor is refused as well as queued.
In `Db` a cell is needed for each key and each thread; in `SmartPtr` three pointers allow
an assignment to a pointer, from another, while a third holds the object. `MaxHeld` of
`IdManager` is not a bound of the run but what callers have to see to (`Fits`, above): the largest
for which the manager is right, except that one thread alone has no limit. Symmetry is used where only invariants and step properties are checked, never with
liveness.

**Deadlock.** The runs of servers have `CHECK_DEADLOCK FALSE`: when every peer has done what it
does, a server that waits in `accept` and in `GetQueuedCompletionStatus` is a final state. So do
those of `Lifecycle` (the program exits, or `cin` has failed), `SmartPtr` (objects are used up) and
`Http` (a request ends). The other runs check for deadlock.

**Fairness.** In the servers, weak fairness of the accept thread and of each worker within a
completion: they are threads of a preemptive system and wait for nothing there. Each session's
completed operation is eventually taken, weakly: the port is a queue and some worker is always about
to wait. Pending operations that can complete do, session by session: TCP delivers. Peers owe
nothing. A post that fails silently does hang its session (`LeaksBounded` counts those), so the
liveness properties of `NetServer` ask for nothing once a call has failed. A reset by the peer is
always an accepted outcome: it ends what the server owes to that peer. In `Lifecycle` the two threads
run; nobody has to type or to connect. In `Singleton` each thread goes on once it is in a call, weakly,
so a lock that is taken again and again by others might be refused for ever. `InstanceReturns` asks for a
return if `Deinstance` is not called for ever, whatever calls of it overlap: once the object is there
and stays, nobody needs the lock.

**Disagreements found.** The run `web_handles` shows one: after an incomplete request or a failed
`WSASend` the web server closes the handle, and closes the same value again when the read it posted
has failed. In between the value may belong to another client (net.h:45, web.cpp:398-399, net.cpp:60).

The following were met while modelling. They have no run of their own; the properties named make
room for them.
1. The comment at web.cpp:392 says that the server goes on receiving after an incomplete request; it
   closes the connection. `HungUpForCause` counts a request that was not answered in full as a cause.
2. The answer to a request it cannot decode (web.cpp:335) is never sent, because the `Data` has
   no buffer: `DisposeBad` makes a response with `"no buffer"`, and `WebServer` sends nothing or
   reads what the position of an earlier response leaves. `AnswersInOrder` is checked for pages.
3. POST data are copied from past the head of their first part, by the Content-Length of the whole
   (web.cpp:185): `PostData` says where. `PostIsWhole` says only that as much has arrived after the head
   of the request.
4. `~NetServer` does not look at the result of `connect` (net.cpp:24). With a port that is no number the
   server listens at a port the system chose and the destructor connects to port 0: the accept
   thread is not woken and 'q' does not end the program. `QuitEnds` asks for a port that is a number.
5. Two threads that let go of a shared object at the same time may both find its count zero and
   delete it (leeloo.h:402-404, 416-418). `DeletedWithLast` excepts the shared object; in this
   repository no `SmartPtr` is shared by threads.
6. The level read from the configuration is overwritten before it is used (leeloo.cpp:117-118), so that
   config.txt:1-3 has no effect.

In `NetServer` itself nothing of the kind was found: what it promises holds in all runs, and the
stray closes of `WebServer` disturb sockets but never the ownership of sessions.

## Proofs

What is proved holds for every value of the constants under the assumptions the modules name, which
TLC evaluates in the runs: `ConstantsAssumption` (`MaxSession <= MaxValid`, ids and bounds are
numbers, `NoConn` and `NoSock` are no connection and no handle), `WebAssumption`, `DbAssumption`,
`SingletonAssumption`, `SmartPtrAssumption` (finitely many threads and pointers, at least one of each),
`LifecycleAssumption`, `HttpAssumption`, `DataAssumption`. Some theorems have a hypothesis of
their own, `Fits`, `ReadsAsMeant` or `Calm`; see there. In each case the run shows the property on its
instance and the theorem shows it for any number of threads, connections, sessions, ids, keys or
texts. The properties the runs check and the invariants that carry them:

**IdManager** (`IdManager_proofs`)
- `GettersConserve`, `GettersImplementIdPool`, for any number of threads and any `MAX_VALID`, under `Fits`.
  `Reach` counts the threads past `Pop`: the counter has a value left for each of them, or there is one
  such thread, which will be refused. It is kept because ids held, in the queue and still to come from the
  counter add up to `MAX_VALID`, so that while several are inside (`Room`) a thread that finds
  the queue empty finds the counter low enough. `Fits` asks nothing of a lone thread.
  The queue is treated by `PopDistinct` and `PushDistinct` (`QueueLemmas`).

**NetServer** (`Servers_proofs`)
- `TypeCorrect`. The type is inductive together with `IncrementSafe`, the fact that the accept thread
  increments only below `MaxValid`. It includes that the accept thread and the workers use only
  sessions of the array.
- `SessionsHaveSingleOwners`, `QueueStaysUsable`. `SingleOwner` is inductive with `IdsIssued`:
  an id in the queue, with the accept thread, with a worker or with an operation is between 1 and
  the counter, so that the next new id is nobody's. `OwnerFrame` covers the steps that hand nothing
  over.
- `HandlesStayOwn`. `OwnSocket` needs two more invariants: a handle stands for at most one
  connection and a connection that is not open yet has no key (`HandlesInv`), and the connection
  the accept thread has in hand belongs to no session until `SetUp`, and to the new one after it
  (`AcceptedInv`). Closing one session's handle leaves others attached (`AttachedApart`,
  `CloseKeepsOthers`), and that the session closed is nobody else's is `SingleOwner`.
- `OperationTypeIsRight`. `RightOp` with what the accept thread and the workers are about to
  post (`TypeTold`), again resting on `SingleOwner`.
- `ServerIsEchoService`: `NetServer` implements `EchoService` (`ImplementsEcho`). `EchoInv` says of each
  session in use whether its connection has got back all that was received (`Even`) or is owed the
  chunk in the buffer (`Owes`), by whoever has the session: an operation, by its kind and state, or
  a worker, by its place. `AcceptSeen`, `WorkerSeen`, `CompletionSeen` and `PeersSeen` map every step to
  a step of the service or to none. Nothing is assumed about failures.
- `ServerUsesIdManager`: the accept thread and the workers are threads of an `IdManager` with one
  getter (`UsesIdManager`), step by step. That an id given back is out is `SingleOwner`.
- `FewSessionsLeak`. For `LeaksBounded` the lost sessions are divided into those lost on a connection
  that was reset, at most one for each, and the others, each of which has used up a fault. An
  accept that has failed loses its session only when the thread comes to post, so that its fault
  is held in reserve until then (`LeakInv`).

**WebServer** (`Servers_proofs`)
- `WebSessionsHaveSingleOwners`, `WebOperationTypeIsRight`: the same invariants, whatever the second
  close of a socket disturbs. `HangUp` touches sockets and operations that are pending, never who
  has a session.
- `WebTypeCorrect`. That a response is made for a request, and not for a piece of an earlier response
  which is still in the buffer, needs the operation types (`ReadInv`).
- `AnswersComeInOrder`, under `Calm`: every request has a page, no call fails and no
  connection is reset, as in the run `web_answers`. `Calm` is needed: with a failed send or an
  incomplete request `HangUp` closes whatever connection the handle stands for by then
  (`web_handles`), and the answer to a request without a page is nothing or something old
  (2 under Disagreements). `AnswerInv` says of each session in use what its client has got: all, all but the request
  in the buffer (`Asked`), all up to the buffer that is being sent (`Sending`), or that buffer
  too (`HasSent`). Under `Calm` no worker hangs up (`CalmHandle`), so that `OwnSocket` holds as in `NetServer`.
- `HangsUpForCause`, with every kind of request, resets and failing calls. The stray closes make `OwnSocket`
  false, so `HangUpInv` keeps `SocketInv` only until there is a `Cause`, a closed connection with a
  request left unanswered, which stays one (`CauseStays`). Until then `ExcuseInv` says what has become of the last
  request of each session: it is in the buffer (`Arrived`), its response is being sent (`Ready`, `Given`), or it
  has none to come and the worker that will close the socket is the only one at it (`Missed`). So the first
  `HangUp` that closes anything makes its own connection a cause (`HangUpCause`), and whatever later
  closes disturb comes after it. Like the property, it does not say whose request went unanswered.

**Http and Data** (`Response_proofs`)
- `UploadsAreWhole`: a POST is decoded only when as much as its length says has come after its head. Where
  the copy begins, further on, is not its subject (3 under Disagreements). `ParseHead` and `Decode` search the first line in two ways; where the version comes after the
  path both find the same (`FindIs` says what a search finds), and `ParseHead` has said yes before
  `Decode` is called. `LengthsAreRight`: what the page has of the file is what was read of it.
  `NoItemStays`: the items alive are those the two infos own, until `Encode`.
- `BufferHoldsAppended`, `PiecesAreInOrder`. `HoldsAppended` is inductive with the type, which says
  how long the buffer really is: that the end mark still fits rests on the two cells `SetBuffer`
  allocates beyond the length. `ReadsInOrder` rests on it: a position that was sought lies inside
  the data, and what is read there is what was appended.

**Lifecycle** (`Lifecycle_proofs`)
- `ThreadEndsFirst`, `TypeCorrect`. `MainInv` says what main has made and not yet taken back, by its place:
  the thread has ended wherever main has come past `StopTask`, and the configuration is there from
  `Start` to `End`. `TypeCorrect` says more than the type: while the thread runs, `config` is there with
  `ReadConfig(file)`, neither missing nor empty (`ConfigIsFile`).
- `ListensAtItsAddress`. The address that is bound is that of `ReadConfig(file)` (`BoundInv`); that
  `ReadConfig` reads a well-formed file as it is meant is its hypothesis `ReadsAsMeant`. This is a fact
  about a fold over the words of a file, whose proof would be by induction over data. TLC
  evaluates it for all 820 files of the run (`MCAssumption` of `MCLifecycle`).

**Singleton** (`Singleton_proofs`)
- `NeverTwo`, `PointerLeadsToObject`, `UndisturbedUseIsSafe`. Pointer and object differ only while the thread
  with the lock is between making and storing, or between deleting and clearing (`ObjectInv`);
  what an undisturbed call has seen of the pointer stays, as every closer is idle (`CallInv`).

**SmartPtr** (`SmartPtr_proofs`)
- `CountsAreExact`, `PointersAreAlive`, `LastPointerDeletes`. They are inductive together only, with `OwnObject`: an
  object that was made later is pointed to by one thread alone, so that its count is zero at one
  `Test`. The shared object may be found at zero by two threads, which `DeletedWithLast` allows.

**Db** (`Db_proofs`)
- `EachDataHasOneOwner`, `UsesWhatIsThere`, `ReturnsWithoutLock`, and `IsKeyValueStore`: `Db` implements
  `KeyValueStore`. `OwnerInv` says that a `Data` belongs to one key or one call, and no two; the only
  pointer to what is gone is that in the map between `Delete` and `Erase`, under the lock (`Stale`,
  `LockInv`). `CallInv` says what `find` has found, so that the call takes effect where the mapping puts it.

**Only model-checked.**
- Liveness: `EventuallyClosed`, `EventuallyEchoed`, `EventuallyAnswered`, `QuitEnds`, `InstanceReturns`. The
  prover treats neither fairness nor `ENABLED`.
- `ReadConfig` on files, as above.
- `HandleCorresponds` does not hold.

## Plan

1. `IdManager`, `NetServer` with their abstractions, runs and ownership theorems (done).
2. `WebServer`, `Http`, `Data`, `Config`, `Lifecycle`, `Singleton`, `SmartPtr`, `Db` with runs (done).
3. Theorems for every invariant and every refinement that a run checks (done; the order of answers
   under `Calm`).
4. Still to come: what of `AnswersInOrder` survives resets and failed reads, which `Calm` excludes though
   only failed sends and incomplete requests lead to `HangUp`; the steps to which
   the liveness properties come down (which step of a session's owner must come next) as
   action properties, for which the prover needs no fairness.

## Not modelled

- Loki (`src/depend/loki`), vendored: templates for three compilers that are resolved at
  compile time. Most lines of the repository are in it, and none holds state of the program.
- The test program, which calls the library by hand; the macros for platforms, `Time` and the
  allocation wrappers; the exception filter of main that writes a dump.
- `SuspendThread`, the policies of `KnowledgeFramework` other than request and response,
  `NoCountPolicy`, `m_queueRecv`, `m_queueSend` and the link types other than `LINK_TCPRECVSEND`:
  nothing uses them.
- `Log::WriteLog`: it drops every message below the level `NOLOG`, and no state depends on it.
- Workers after the server has been deleted: nothing ends them (net.cpp:46) but the end of the
  process, and no text says what a completion that comes in between should do.
- Which `Handle` serves a request that comes while the server object is being made or
  deleted: `NetServer` and `WebServer` each model one of them throughout.
- A `CreateIoCompletionPort` that fails for an open socket, whose result net.cpp:133 does not look at (`SetUp`).
  `Seek` to a position below zero, which leeloo.h:699 lets pass and no caller asks for.
- The 32-bit cast of the per-handle pointer at net.cpp:133, which is right only in the 32-bit
  build. Text of requests, responses and log lines, but for the marks in `Http`.
- Lengths in `Data` are integers without a width: the data they count are in memory.
