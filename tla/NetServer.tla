-------------------------------- MODULE NetServer --------------------------------
(***************************************************************************)
(* LeelooNet::NetServer (net.h, net.cpp): one thread accepts connections    *)
(* and names a session for each, a pool of worker threads takes completed   *)
(* operations from an I/O completion port and, with NetServer::Handle,      *)
(* echoes what was read.                                                    *)
(*                                                                          *)
(* A session lives in a fixed array and is named by an id of the IdManager. *)
(* No lock protects it: at any time it belongs to the accept thread, to one *)
(* worker, or to the operation posted with its OVERLAPPED, and is handed    *)
(* over by posting and by completing operations.                            *)
(*                                                                          *)
(* Socket handles are small values that the system reuses once closed; the  *)
(* model tells a handle from the connection it stands for at the moment.    *)
(* The loop condition of the accept thread, start-up and shutdown are not   *)
(* part of this module.                                                     *)
(***************************************************************************)
EXTENDS Integers, Sequences, Functions, FiniteSets

CONSTANTS Conns,       \* connections, each made at most once
          Handles,     \* values a SOCKET may take
          Workers,     \* the threads that run ServerThread
          MaxSession,  \* LEELOO_MAX_SESSION_NET, the length of m_session
          MaxValid,    \* MAX_VALID of the IdManager
          MaxChunks,   \* bound: chunks of data a peer sends
          MaxFaults,   \* bound: calls of the system that fail for no reason seen here
          NoConn,      \* no connection
          NoSock       \* INVALID_SOCKET

ASSUME ConstantsAssumption ==
  /\ MaxSession \in Nat \ {0}
  /\ MaxValid \in Nat \ {0}
  /\ MaxSession <= MaxValid
  /\ MaxChunks \in Nat
  /\ MaxFaults \in Nat
  /\ NoConn \notin Conns
  /\ NoSock \notin Handles

VARIABLES
  m_topFreeId, m_freeIdQueue,         \* m_idManager
  apc, idNew, sNew, saRemote,         \* the accept thread: place, and locals of Accept
  m_bInit, m_s, m_addr,               \* the sessions, by id: whether in use, per-handle data
  m_nOperationType, m_buf,            \*   and per-I/O data
  wpc, pPerHandle, pPerIO,            \* the workers: place, and locals of ServerThread
  io,                                 \* the operations posted and not yet taken by a worker
  owner,                              \* the connection a handle stands for
  key,                                \* the session whose per-handle data a connection
                                      \*   has as its completion key, or INVALID
  net, peer, sent, received, replies, \* the connections, as TCP sees them
  faults                              \* how many calls have failed so far

idVars   == <<m_topFreeId, m_freeIdQueue>>
accVars  == <<apc, idNew, sNew, saRemote>>
sessVars == <<m_bInit, m_s, m_addr, m_nOperationType, m_buf>>
workVars == <<wpc, pPerHandle, pPerIO>>
tcpVars  == <<peer, sent, received, replies>>
vars == <<idVars, accVars, sessVars, workVars, io, owner, key, net, tcpVars, faults>>

INVALID == -1                      \* INVALID_VALID
Sessions == 0 .. MaxSession - 1    \* the indices of m_session
NoChunk == [from |-> NoConn, number |-> 0]
Chunk(c, n) == [from |-> c, number |-> n]
Chunks == [from : Conns \cup {NoConn}, number : 0 .. MaxChunks]

(* An operation: the session whose OVERLAPPED and buffer it uses, the       *)
(* connection it was posted on, and what has become of it.                  *)
Ops == [session : Sessions, conn : Conns, kind : {"recv", "send"},
        state : {"pending", "done", "zero", "failed"}]

Init ==
  /\ m_topFreeId = 0 /\ m_freeIdQueue = <<>>
  /\ apc = "accept" /\ idNew = INVALID /\ sNew = NoSock /\ saRemote = NoConn
  /\ m_bInit = [s \in Sessions |-> FALSE]
  /\ m_s = [s \in Sessions |-> NoSock]
  /\ m_addr = [s \in Sessions |-> NoConn]
  /\ m_nOperationType = [s \in Sessions |-> "NONE"]
  /\ m_buf = [s \in Sessions |-> NoChunk]
  /\ wpc = [w \in Workers |-> "wait"]
  /\ pPerHandle = [w \in Workers |-> INVALID]
  /\ pPerIO = [w \in Workers |-> INVALID]
  /\ io = {}
  /\ owner = [h \in Handles |-> NoConn]
  /\ key = [c \in Conns |-> INVALID]
  /\ net = [c \in Conns |-> "idle"]
  /\ peer = [c \in Conns |-> "up"]
  /\ sent = [c \in Conns |-> 0]
  /\ received = [c \in Conns |-> 0]
  /\ replies = [c \in Conns |-> <<>>]
  /\ faults = 0

--------------------------------------------------------------------------------
(* The system calls. *)

Open(h) == h \in Handles /\ owner[h] # NoConn

(* closesocket: the connection is closed and what is posted on it fails; a  *)
(* handle that is not open is refused, and nobody looks at the result.      *)
closesocket(h) ==
  IF Open(h)
  THEN /\ owner' = [owner EXCEPT ![h] = NoConn]
       /\ net' = [net EXCEPT ![owner[h]] = "closed"]
       /\ io' = {IF o.conn = owner[h] /\ o.state = "pending"
                 THEN [o EXCEPT !.state = "failed"] ELSE o : o \in io}
  ELSE UNCHANGED <<owner, net, io>>

(* WSARecv, WSASend with the OVERLAPPED of session s.  A call that fails at *)
(* once posts nothing and there will be no completion.  It fails on a       *)
(* handle that is not open; it may on a connection that was reset; and      *)
(* for lack of resources.  No caller in net.cpp looks at the result.  The   *)
(* completion of what is posted on a connection without a completion key    *)
(* never reaches the port.                                                  *)
Posted(h, s, kind) ==
  /\ Open(h)
  /\ io' = IF key[owner[h]] = INVALID THEN io
           ELSE io \cup {[session |-> s, conn |-> owner[h], kind |-> kind,
                          state |-> "pending"]}
  /\ UNCHANGED faults

NotPosted(h) ==
  /\ UNCHANGED io
  /\ \/ ~Open(h) /\ UNCHANGED faults
     \/ Open(h) /\ peer[owner[h]] = "reset" /\ UNCHANGED faults
     \/ faults < MaxFaults /\ faults' = faults + 1

Post(h, s, kind) == Posted(h, s, kind) \/ NotPosted(h)

--------------------------------------------------------------------------------
(* The accept thread: accept, then NetServer::Accept. *)

AcceptConn(c, h) ==
  /\ apc = "accept"
  /\ net[c] = "backlog"
  /\ ~Open(h)
  /\ net' = [net EXCEPT ![c] = "open"]
  /\ owner' = [owner EXCEPT ![h] = c]
  /\ sNew' = h
  /\ saRemote' = c
  /\ apc' = "pop"
  /\ UNCHANGED <<idVars, idNew, sessVars, workVars, io, key, tcpVars, faults>>

(* accept returns INVALID_SOCKET, and Accept is called all the same. *)
AcceptFails(c) ==
  /\ apc = "accept"
  /\ net[c] = "backlog"
  /\ faults < MaxFaults
  /\ faults' = faults + 1
  /\ net' = [net EXCEPT ![c] = "closed"]
  /\ sNew' = NoSock
  /\ saRemote' = NoConn
  /\ apc' = "pop"
  /\ UNCHANGED <<idVars, idNew, sessVars, workVars, io, owner, key, tcpVars>>

(* IdManager::GetFreeId, step by step as in module IdManager. *)
PopReturns ==
  /\ apc = "pop"
  /\ m_freeIdQueue # <<>>
  /\ idNew' = Head(m_freeIdQueue)
  /\ m_freeIdQueue' = Tail(m_freeIdQueue)
  /\ apc' = "check"
  /\ UNCHANGED <<m_topFreeId, sNew, saRemote, sessVars, workVars, io, owner, key, net,
                 tcpVars, faults>>

PopEmpty ==
  /\ apc = "pop"
  /\ m_freeIdQueue = <<>>
  /\ apc' = "top"
  /\ UNCHANGED <<idVars, idNew, sNew, saRemote, sessVars, workVars, io, owner, key, net,
                 tcpVars, faults>>

ReturnInvalid ==
  /\ apc = "top"
  /\ m_topFreeId = MaxValid
  /\ idNew' = INVALID
  /\ apc' = "check"
  /\ UNCHANGED <<idVars, sNew, saRemote, sessVars, workVars, io, owner, key, net,
                 tcpVars, faults>>

(* Mutation: the counter is not compared with MAX_VALID. *)
CheckTop_Unchecked ==
  /\ apc = "top"
  /\ apc' = "increment"
  /\ UNCHANGED <<idVars, idNew, sNew, saRemote, sessVars, workVars, io, owner, key, net,
                 tcpVars, faults>>

CheckTop ==
  /\ apc = "top"
  /\ m_topFreeId # MaxValid
  /\ apc' = "increment"
  /\ UNCHANGED <<idVars, idNew, sNew, saRemote, sessVars, workVars, io, owner, key, net,
                 tcpVars, faults>>

Increment ==
  /\ apc = "increment"
  /\ m_topFreeId' = IF m_topFreeId = MaxValid THEN -MaxValid - 1 ELSE m_topFreeId + 1
  /\ idNew' = m_topFreeId'
  /\ apc' = "check"
  /\ UNCHANGED <<m_freeIdQueue, sNew, saRemote, sessVars, workVars, io, owner, key, net,
                 tcpVars, faults>>

(* Mutation: a refused id goes back to the queue, as when Init fails. *)
Refuse_GivesBack ==
  /\ apc = "check"
  /\ idNew = INVALID \/ idNew >= MaxSession
  /\ m_freeIdQueue' = Append(m_freeIdQueue, idNew)
  /\ apc' = "close"
  /\ idNew' = INVALID
  /\ UNCHANGED <<m_topFreeId, sNew, saRemote, sessVars, workVars, io, owner, key, net,
                 tcpVars, faults>>

(* No id, or one past the array: the connection is closed. The id is        *)
(* dropped, so that it never comes back through the queue.                  *)
Refuse ==
  /\ apc = "check"
  /\ idNew = INVALID \/ idNew >= MaxSession
  /\ apc' = "close"
  /\ idNew' = INVALID
  /\ UNCHANGED <<idVars, sNew, saRemote, sessVars, workVars, io, owner, key, net,
                 tcpVars, faults>>

(* Mutation: the array is taken to be one longer than it is. *)
InitSession_OffByOne ==
  /\ apc = "check"
  /\ idNew # INVALID /\ idNew <= MaxSession
  /\ apc' = "setup"
  /\ UNCHANGED <<idVars, idNew, sNew, saRemote, sessVars, workVars, io, owner, key, net,
                 tcpVars, faults>>

InitSession ==
  /\ apc = "check"
  /\ idNew # INVALID /\ idNew < MaxSession
  /\ m_bInit' = [m_bInit EXCEPT ![idNew] = TRUE]
  /\ apc' = "setup"
  /\ UNCHANGED <<idVars, idNew, sNew, saRemote, m_s, m_addr, m_nOperationType, m_buf,
                 workVars, io, owner, key, net, tcpVars, faults>>

(* Session::Init finds no memory: the id goes back, the connection is closed. *)
InitFails ==
  /\ apc = "check"
  /\ idNew # INVALID /\ idNew < MaxSession
  /\ faults < MaxFaults
  /\ faults' = faults + 1
  /\ m_bInit' = [m_bInit EXCEPT ![idNew] = FALSE]
  /\ apc' = "giveback"
  /\ UNCHANGED <<idVars, idNew, sNew, saRemote, m_s, m_addr, m_nOperationType, m_buf,
                 workVars, io, owner, key, net, tcpVars>>

GiveBack ==
  /\ apc = "giveback"
  /\ m_freeIdQueue' = Append(m_freeIdQueue, idNew)
  /\ idNew' = INVALID
  /\ apc' = "close"
  /\ UNCHANGED <<m_topFreeId, sNew, saRemote, sessVars, workVars, io, owner, key, net,
                 tcpVars, faults>>

CloseNew ==
  /\ apc = "close"
  /\ closesocket(sNew)
  /\ sNew' = NoSock
  /\ saRemote' = NoConn
  /\ apc' = "accept"
  /\ UNCHANGED <<idVars, idNew, sessVars, workVars, key, tcpVars, faults>>

(* The session gets the connection, and the connection its completion key;  *)
(* an invalid socket has none.  The result of CreateIoCompletionPort is not *)
(* looked at (net.cpp:133); here it fails for an invalid socket only.       *)
SetUp ==
  /\ apc = "setup"
  /\ m_s' = [m_s EXCEPT ![idNew] = sNew]
  /\ m_addr' = [m_addr EXCEPT ![idNew] = saRemote]
  /\ m_nOperationType' = [m_nOperationType EXCEPT ![idNew] = "READ"]
  /\ key' = IF Open(sNew) THEN [key EXCEPT ![owner[sNew]] = idNew] ELSE key
  /\ apc' = "post"
  /\ UNCHANGED <<idVars, idNew, sNew, saRemote, m_bInit, m_buf, workVars, io, owner, net,
                 tcpVars, faults>>

PostFirst ==
  /\ apc = "post"
  /\ Post(sNew, idNew, "recv")
  /\ idNew' = INVALID
  /\ sNew' = NoSock
  /\ saRemote' = NoConn
  /\ apc' = "accept"
  /\ UNCHANGED <<idVars, sessVars, workVars, owner, key, net, tcpVars>>

GetFreeId == PopReturns \/ PopEmpty \/ ReturnInvalid \/ CheckTop \/ Increment

Accept ==
  \/ GetFreeId
  \/ Refuse \/ InitSession \/ InitFails \/ GiveBack \/ CloseNew
  \/ SetUp \/ PostFirst

--------------------------------------------------------------------------------
(* A worker: ServerThread, and NetServer::Handle. *)

(* GetQueuedCompletionStatus gives the per-handle data by the key of the    *)
(* connection, the per-I/O data by the OVERLAPPED.                          *)
Dequeue(w, o) ==
  /\ wpc[w] = "wait"
  /\ o \in io
  /\ o.state # "pending"
  /\ io' = io \ {o}
  /\ pPerHandle' = [pPerHandle EXCEPT ![w] = key[o.conn]]
  /\ pPerIO' = [pPerIO EXCEPT ![w] = o.session]
  /\ wpc' = [wpc EXCEPT ![w] =
               IF \/ o.state = "failed"
                  \/ o.state = "zero" /\ m_nOperationType[o.session] \in {"READ", "WRITE"}
               THEN "close" ELSE "handle"]
  /\ UNCHANGED <<idVars, accVars, sessVars, owner, key, net, tcpVars, faults>>

(* Mutation: the session is freed, the socket is left open. *)
CloseSocket_LeavesOpen(w) ==
  /\ wpc[w] = "close"
  /\ wpc' = [wpc EXCEPT ![w] = "free"]
  /\ UNCHANGED <<idVars, accVars, sessVars, pPerHandle, pPerIO, io, owner, key, net, tcpVars,
                 faults>>

CloseSocket(w) ==
  /\ wpc[w] = "close"
  /\ closesocket(m_s[pPerHandle[w]])
  /\ wpc' = [wpc EXCEPT ![w] = "free"]
  /\ UNCHANGED <<idVars, accVars, sessVars, pPerHandle, pPerIO, key, tcpVars, faults>>

(* Mutation: the id is not given back. *)
FreeSession_KeepsId(w) ==
  /\ wpc[w] = "free"
  /\ wpc' = [wpc EXCEPT ![w] = "uninit"]
  /\ UNCHANGED <<idVars, accVars, sessVars, pPerHandle, pPerIO, io, owner, key, net, tcpVars,
                 faults>>

(* FreeSession gives the id back first ... *)
FreeSession(w) ==
  /\ wpc[w] = "free"
  /\ m_freeIdQueue' = Append(m_freeIdQueue, pPerIO[w])
  /\ wpc' = [wpc EXCEPT ![w] = "uninit"]
  /\ UNCHANGED <<m_topFreeId, accVars, sessVars, pPerHandle, pPerIO, io, owner, key, net,
                 tcpVars, faults>>

(* ... and then marks the session, which may be in use again, as unused. *)
UnInit(w) ==
  /\ wpc[w] = "uninit"
  /\ m_bInit' = [m_bInit EXCEPT ![pPerIO[w]] = FALSE]
  /\ wpc' = [wpc EXCEPT ![w] = "wait"]
  /\ pPerHandle' = [pPerHandle EXCEPT ![w] = INVALID]
  /\ pPerIO' = [pPerIO EXCEPT ![w] = INVALID]
  /\ UNCHANGED <<idVars, accVars, m_s, m_addr, m_nOperationType, m_buf, io, owner, key, net,
                 tcpVars, faults>>

(* Mutation: the operation type stays READ. *)
HandleRead_KeepsType(w) ==
  /\ wpc[w] = "handle"
  /\ m_nOperationType[pPerIO[w]] = "READ"
  /\ wpc' = [wpc EXCEPT ![w] = "send"]
  /\ UNCHANGED <<idVars, accVars, sessVars, pPerHandle, pPerIO, io, owner, key, net, tcpVars,
                 faults>>

(* Something was read: it will be sent back. *)
HandleRead(w) ==
  /\ wpc[w] = "handle"
  /\ m_nOperationType[pPerIO[w]] = "READ"
  /\ m_nOperationType' = [m_nOperationType EXCEPT ![pPerIO[w]] = "WRITE"]
  /\ wpc' = [wpc EXCEPT ![w] = "send"]
  /\ UNCHANGED <<idVars, accVars, m_bInit, m_s, m_addr, m_buf, pPerHandle, pPerIO, io,
                 owner, key, net, tcpVars, faults>>

(* It was sent: the next read is posted. *)
HandleWrite(w) ==
  /\ wpc[w] = "handle"
  /\ m_nOperationType[pPerIO[w]] = "WRITE"
  /\ m_nOperationType' = [m_nOperationType EXCEPT ![pPerIO[w]] = "READ"]
  /\ wpc' = [wpc EXCEPT ![w] = "recv"]
  /\ UNCHANGED <<idVars, accVars, m_bInit, m_s, m_addr, m_buf, pPerHandle, pPerIO, io,
                 owner, key, net, tcpVars, faults>>

WorkerWaits(w) ==
  /\ wpc' = [wpc EXCEPT ![w] = "wait"]
  /\ pPerHandle' = [pPerHandle EXCEPT ![w] = INVALID]
  /\ pPerIO' = [pPerIO EXCEPT ![w] = INVALID]

(* Mutation: the break after the READ case is missing, so that the worker   *)
(* posts the send and goes on to post the next read.                        *)
HandlePost_FallsThrough(w) ==
  /\ wpc[w] \in {"send", "recv"}
  /\ Open(m_s[pPerHandle[w]])
  /\ io' = io \cup {[session |-> pPerIO[w], conn |-> owner[m_s[pPerHandle[w]]],
                     kind |-> k, state |-> "pending"] : k \in {wpc[w], "recv"}}
  /\ WorkerWaits(w)
  /\ UNCHANGED <<idVars, accVars, sessVars, owner, key, net, tcpVars, faults>>

(* Mutation: the socket is closed as soon as the operation is posted. *)
HandlePost_Closes(w) ==
  /\ wpc[w] \in {"send", "recv"}
  /\ Open(m_s[pPerHandle[w]])
  /\ io' = io \cup {[session |-> pPerIO[w], conn |-> owner[m_s[pPerHandle[w]]],
                     kind |-> wpc[w], state |-> "failed"]}
  /\ net' = [net EXCEPT ![owner[m_s[pPerHandle[w]]]] = "closed"]
  /\ owner' = [owner EXCEPT ![m_s[pPerHandle[w]]] = NoConn]
  /\ WorkerWaits(w)
  /\ UNCHANGED <<idVars, accVars, sessVars, key, tcpVars, faults>>

(* Mutation: the reply is not sent. *)
HandlePost_SendsNothing(w) ==
  /\ wpc[w] \in {"send", "recv"}
  /\ IF wpc[w] = "send" THEN UNCHANGED <<io, faults>>
     ELSE Post(m_s[pPerHandle[w]], pPerIO[w], wpc[w])
  /\ WorkerWaits(w)
  /\ UNCHANGED <<idVars, accVars, sessVars, owner, key, net, tcpVars>>

HandlePost(w) ==
  /\ wpc[w] \in {"send", "recv"}
  /\ Post(m_s[pPerHandle[w]], pPerIO[w], wpc[w])
  /\ WorkerWaits(w)
  /\ UNCHANGED <<idVars, accVars, sessVars, owner, key, net, tcpVars>>

Handle(w) == HandleRead(w) \/ HandleWrite(w) \/ HandlePost(w)

ServerThread(w) ==
  \/ \E o \in io : Dequeue(w, o)
  \/ CloseSocket(w) \/ FreeSession(w) \/ UnInit(w)
  \/ Handle(w)

--------------------------------------------------------------------------------
(* The peers and the network. *)

Connected(c) == net[c] \in {"backlog", "open"}

Connect(c) ==
  /\ net[c] = "idle"
  /\ net' = [net EXCEPT ![c] = "backlog"]
  /\ UNCHANGED <<idVars, accVars, sessVars, workVars, io, owner, key, tcpVars, faults>>

PeerSend(c) ==
  /\ Connected(c)
  /\ peer[c] = "up"
  /\ sent[c] < MaxChunks
  /\ sent' = [sent EXCEPT ![c] = @ + 1]
  /\ UNCHANGED <<idVars, accVars, sessVars, workVars, io, owner, key, net, peer, received,
                 replies, faults>>

PeerShut(c) ==
  /\ Connected(c)
  /\ peer[c] = "up"
  /\ peer' = [peer EXCEPT ![c] = "shut"]
  /\ UNCHANGED <<idVars, accVars, sessVars, workVars, io, owner, key, net, sent, received,
                 replies, faults>>

PeerReset(c) ==
  /\ Connected(c)
  /\ peer[c] # "reset"
  /\ peer' = [peer EXCEPT ![c] = "reset"]
  /\ UNCHANGED <<idVars, accVars, sessVars, workVars, io, owner, key, net, sent, received,
                 replies, faults>>

Complete(o, state) == io' = (io \ {o}) \cup {[o EXCEPT !.state = state]}

(* Data arrives in the buffer of the session that posted the read. *)
RecvData(o) ==
  /\ o \in io /\ o.kind = "recv" /\ o.state = "pending"
  /\ peer[o.conn] # "reset"
  /\ received[o.conn] < sent[o.conn]
  /\ received' = [received EXCEPT ![o.conn] = @ + 1]
  /\ m_buf' = [m_buf EXCEPT ![o.session] = Chunk(o.conn, received[o.conn] + 1)]
  /\ Complete(o, "done")
  /\ UNCHANGED <<idVars, accVars, m_bInit, m_s, m_addr, m_nOperationType, workVars, owner,
                 key, net, peer, sent, replies, faults>>

RecvZero(o) ==
  /\ o \in io /\ o.kind = "recv" /\ o.state = "pending"
  /\ peer[o.conn] = "shut"
  /\ received[o.conn] = sent[o.conn]
  /\ Complete(o, "zero")
  /\ UNCHANGED <<idVars, accVars, sessVars, workVars, owner, key, net, tcpVars, faults>>

(* The system sends what the buffer holds while the operation is pending. *)
SendDone(o) ==
  /\ o \in io /\ o.kind = "send" /\ o.state = "pending"
  /\ peer[o.conn] # "reset"
  /\ replies' = [replies EXCEPT ![o.conn] = Append(@, m_buf[o.session])]
  /\ Complete(o, "done")
  /\ UNCHANGED <<idVars, accVars, sessVars, workVars, owner, key, net, peer, sent, received,
                 faults>>

OpFails(o) ==
  /\ o \in io /\ o.state = "pending"
  /\ peer[o.conn] = "reset"
  /\ Complete(o, "failed")
  /\ UNCHANGED <<idVars, accVars, sessVars, workVars, owner, key, net, tcpVars, faults>>

Completion(o) == RecvData(o) \/ RecvZero(o) \/ SendDone(o) \/ OpFails(o)

Peers == \E c \in Conns : Connect(c) \/ PeerSend(c) \/ PeerShut(c) \/ PeerReset(c)

Acceptor ==
  \/ \E c \in Conns, h \in Handles : AcceptConn(c, h)
  \/ \E c \in Conns : AcceptFails(c)
  \/ Accept

Next ==
  \/ Acceptor
  \/ \E w \in Workers : ServerThread(w)
  \/ \E o \in io : Completion(o)
  \/ Peers

Spec == Init /\ [][Next]_vars

(* A thread that can run does; every completed operation is taken by some   *)
(* worker, since the port is a FIFO; TCP completes what can be completed.   *)
Fairness ==
  /\ WF_vars(Acceptor)
  /\ \A w \in Workers : WF_vars(CloseSocket(w) \/ FreeSession(w) \/ UnInit(w) \/ Handle(w))
  /\ \A s \in Sessions :
       /\ WF_vars(\E w \in Workers, o \in io : o.session = s /\ Dequeue(w, o))
       /\ WF_vars(\E o \in io : o.session = s /\ Completion(o))

FairSpec == Spec /\ Fairness

--------------------------------------------------------------------------------
TypeOK ==
  /\ m_topFreeId \in 0 .. MaxValid
  /\ m_freeIdQueue \in Seq(Sessions)
  /\ apc \in {"accept", "pop", "top", "increment", "check", "giveback", "close",
              "setup", "post"}
  /\ idNew \in INVALID .. MaxValid
  /\ apc \in {"giveback", "setup", "post"} => idNew \in Sessions
  /\ sNew \in Handles \cup {NoSock}
  /\ saRemote \in Conns \cup {NoConn}
  /\ m_bInit \in [Sessions -> BOOLEAN]
  /\ m_s \in [Sessions -> Handles \cup {NoSock}]
  /\ m_addr \in [Sessions -> Conns \cup {NoConn}]
  /\ m_nOperationType \in [Sessions -> {"NONE", "READ", "WRITE"}]
  /\ m_buf \in [Sessions -> Chunks]
  /\ wpc \in [Workers -> {"wait", "close", "free", "uninit", "handle", "send", "recv"}]
  /\ pPerHandle \in [Workers -> Sessions \cup {INVALID}]
  /\ pPerIO \in [Workers -> Sessions \cup {INVALID}]
  /\ \A w \in Workers : wpc[w] # "wait" => pPerHandle[w] \in Sessions /\ pPerIO[w] \in Sessions
  /\ io \subseteq Ops
  /\ \A o \in io : key[o.conn] \in Sessions
  /\ owner \in [Handles -> Conns \cup {NoConn}]
  /\ key \in [Conns -> Sessions \cup {INVALID}]
  /\ net \in [Conns -> {"idle", "backlog", "open", "closed"}]
  /\ peer \in [Conns -> {"up", "shut", "reset"}]
  /\ sent \in [Conns -> 0 .. MaxChunks]
  /\ received \in [Conns -> 0 .. MaxChunks]
  /\ replies \in [Conns -> Seq(Chunks)]
  /\ faults \in 0 .. MaxFaults

(* A worker has a session from the completion it took until it posts again  *)
(* or gives the id back; what UnInit does after that is not its own.        *)
Holds(w) == wpc[w] \in {"close", "free", "handle", "send", "recv"}

(* Nothing locks a session, so everything rests on this: an id is waiting   *)
(* in the queue once, or is with the accept thread, or with one worker, or  *)
(* with one posted operation, and never with two of them, whatever the      *)
(* workers, the accept thread and the completions do in between             *)
(* (net.cpp:33-37, 46-73, 108-141).                                         *)
SingleOwner ==
  /\ IsInjective(m_freeIdQueue)
  /\ idNew \notin Range(m_freeIdQueue)
  /\ \A o \in io :
       /\ o.session \notin Range(m_freeIdQueue) \cup {idNew}
       /\ \A p \in io : p.session = o.session => p = o
  /\ \A w \in Workers : Holds(w) =>
       /\ pPerIO[w] \notin Range(m_freeIdQueue) \cup {idNew}
       /\ \A o \in io : o.session # pPerIO[w]
       /\ \A v \in Workers \ {w} : Holds(v) => pPerIO[v] # pPerIO[w]

(* Every id in the queue names a session of the array: those that Accept    *)
(* refuses for being too large never get in (net.cpp:115-120), or each      *)
(* would turn a connection away again and again.                            *)
QueueUsable == Range(m_freeIdQueue) \subseteq 1 .. MaxSession - 1

(* The handle stored in a session that is in use is open and stands for the *)
(* session's own connection, whose completions come back to this session:   *)
(* no worker closes, reads or writes the socket of another client that was  *)
(* given the same handle value (net.cpp:60, 68, 88, 99, 131-133).           *)
Attached(s) ==
  /\ Open(m_s[s])
  /\ owner[m_s[s]] = m_addr[s]
  /\ key[m_addr[s]] = s

OwnSocket ==
  /\ \A o \in io : Attached(o.session) /\ o.conn = m_addr[o.session]
  /\ \A w \in Workers : Holds(w) =>
       /\ pPerHandle[w] = pPerIO[w]
       /\ wpc[w] # "free" => Attached(pPerIO[w])

(* m_nOperationType tells what is outstanding, though the completion itself *)
(* does not say and another worker may take it at once (net.cpp:85-88,      *)
(* 97-99, 135-141).                                                         *)
RightOp ==
  \A o \in io : m_nOperationType[o.session] = (IF o.kind = "recv" THEN "READ" ELSE "WRITE")

(* The sessions lost for good, held by nobody and not in the queue, are no  *)
(* more than the posts that failed: nothing else loses a session, and each  *)
(* such failure, which no caller looks at (net.cpp:88, 99, 141, 206), loses *)
(* only one.                                                                *)
Lost == {s \in 1 .. MaxSession - 1 :
           /\ s <= m_topFreeId
           /\ s \notin Range(m_freeIdQueue) \cup {idNew}
           /\ \A o \in io : o.session # s
           /\ \A w \in Workers : Holds(w) => pPerIO[w] # s}
LeaksBounded == Cardinality(Lost) <= faults + Cardinality({c \in Conns : peer[c] = "reset"})

(* The server uses its id manager as the IdManager's contract wants: only   *)
(* the accept thread gets ids, and only ids that are out are given back     *)
(* (net.cpp:35, 108, 123).                                                  *)
Ids == INSTANCE IdManager WITH
         Getters <- {"acceptor"},
         MaxHeld <- <<MaxValid + 1>>,
         out <- (1 .. m_topFreeId) \ Range(m_freeIdQueue),
         pc <- [g \in {"acceptor"} |->
                  IF apc \in {"pop", "top", "increment"} THEN apc ELSE "idle"]
UsesIdManager == Ids!Spec

(* Clients see an echo service: each gets its own chunks, once and in       *)
(* order, and is hung up on only after it has gone, with nothing left       *)
(* unsent if it left in good order (net.cpp:38-143).                        *)
Echo == INSTANCE EchoService WITH
          phase <- [c \in Conns |->
                      IF net[c] \in {"idle", "closed"} THEN net[c]
                      ELSE IF key[c] = INVALID THEN "waiting" ELSE "served"]
ImplementsEcho == Echo!Spec

(* A connection whose peer closed it in good order is closed by the server  *)
(* too, unless the peer resets it meanwhile, or a call of the system has    *)
(* failed (net.cpp:65-71).                                                  *)
EventuallyClosed ==
  \A c \in Conns : peer[c] = "shut" ~> (net[c] = "closed" \/ peer[c] = "reset" \/ faults > 0)

(* What the peer of an admitted connection sends comes back to it, unless   *)
(* the connection is reset, or a call of the system has failed              *)
(* (net.cpp:76-105).                                                        *)
EventuallyEchoed ==
  \A c \in Conns :
    net[c] = "open" /\ key[c] # INVALID /\ Len(replies[c]) < sent[c]
      ~> (Len(replies[c]) = sent[c] \/ peer[c] = "reset" \/ faults > 0)
================================================================================
