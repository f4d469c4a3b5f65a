------------------------------- MODULE Servers_proofs -------------------------------
(***************************************************************************)
(* Proofs about NetServer, and about WebServer, which is a NetServer with   *)
(* another Handle: the accept thread, the steps of ServerThread and most    *)
(* completions are common, and so are the lemmas about them.  All is proved *)
(* for every number of workers, connections, handles and sessions.          *)
(***************************************************************************)
EXTENDS WebServer, QueueLemmas, FiniteSetTheorems

WorkerPlaces == {"wait", "close", "free", "uninit", "handle", "send", "recv", "hangup"}

(* The types of what both servers have. *)
CoreType ==
  /\ m_topFreeId \in 0 .. MaxValid
  /\ m_freeIdQueue \in Seq(Sessions)
  /\ apc \in {"accept", "pop", "top", "increment", "check", "giveback", "close",
              "setup", "post"}
  /\ idNew \in INVALID .. MaxValid
  /\ apc \in {"giveback", "setup", "post"} => idNew \in Sessions
  /\ sNew \in Handles \cup {NoSock}
  /\ saRemote \in Conns \cup {NoConn}
  /\ m_bInit \in [Sessions -> BOOLEAN]
  /\ m_s \in [Sessions -> Handles \cup {NoSock}]
  /\ m_addr \in [Sessions -> Conns \cup {NoConn}]
  /\ m_nOperationType \in [Sessions -> {"NONE", "READ", "WRITE"}]
  /\ wpc \in [Workers -> WorkerPlaces]
  /\ pPerHandle \in [Workers -> Sessions \cup {INVALID}]
  /\ pPerIO \in [Workers -> Sessions \cup {INVALID}]
  /\ \A w \in Workers : wpc[w] # "wait" => pPerHandle[w] \in Sessions /\ pPerIO[w] \in Sessions
  /\ io \subseteq Ops
  /\ \A o \in io : key[o.conn] \in Sessions
  /\ owner \in [Handles -> Conns \cup {NoConn}]
  /\ key \in [Conns -> Sessions \cup {INVALID}]
  /\ net \in [Conns -> {"idle", "backlog", "open", "closed"}]
  /\ peer \in [Conns -> {"up", "shut", "reset"}]
  /\ sent \in [Conns -> 0 .. MaxChunks]
  /\ received \in [Conns -> 0 .. MaxChunks]
  /\ faults \in 0 .. MaxFaults

(* The accept thread increments only a counter below MAX_VALID. *)
IncrementSafe == apc = "increment" => m_topFreeId < MaxValid

TypeInv == CoreType /\ IncrementSafe

(* What NetServer's Handle leaves in the buffers, and the replies. *)
EchoType ==
  /\ m_buf \in [Sessions -> Chunks]
  /\ wpc \in [Workers -> {"wait", "close", "free", "uninit", "handle", "send", "recv"}]
  /\ replies \in [Conns -> Seq(Chunks)]

LEMMA TypeInit ==
  ASSUME Init
  PROVE  TypeInv
<1> USE ConstantsAssumption
<1>1. <<>> \in Seq(Sessions)
  BY EmptySeq
<1>2. CoreType
  BY <1>1 DEF Init, CoreType, INVALID, WorkerPlaces
<1> QED
  BY <1>2 DEF Init, TypeInv, IncrementSafe

(* What closesocket does to the variables it changes. *)
LEMMA ClosesocketType ==
  ASSUME CoreType, NEW h \in Handles \cup {NoSock}, closesocket(h), UNCHANGED key
  PROVE  /\ owner' \in [Handles -> Conns \cup {NoConn}]
         /\ net' \in [Conns -> {"idle", "backlog", "open", "closed"}]
         /\ io' \subseteq Ops
         /\ \A o \in io' : key[o.conn] \in Sessions
<1>1. CASE Open(h)
  <2>1. ASSUME NEW o \in io
        PROVE  /\ [o EXCEPT !.state = "failed"] \in Ops
               /\ [o EXCEPT !.state = "failed"].conn = o.conn
    BY <2>1 DEF CoreType, Ops
  <2>2. ASSUME NEW p \in io'
        PROVE  p \in Ops /\ key[p.conn] \in Sessions
    <3>1. PICK o \in io : p = IF o.conn = owner[h] /\ o.state = "pending"
                             THEN [o EXCEPT !.state = "failed"] ELSE o
      BY <1>1 DEF closesocket
    <3>2. CASE o.conn = owner[h] /\ o.state = "pending"
      BY <2>1, <3>1, <3>2 DEF CoreType
    <3>3. CASE ~(o.conn = owner[h] /\ o.state = "pending")
      BY <3>1, <3>3 DEF CoreType
    <3> QED
      BY <3>2, <3>3
  <2>3. h \in Handles /\ owner[h] \in Conns
    BY <1>1 DEF CoreType, Open
  <2>4. /\ owner' = [owner EXCEPT ![h] = NoConn]
        /\ net' = [net EXCEPT ![owner[h]] = "closed"]
    BY <1>1 DEF closesocket
  <2>5. /\ owner' \in [Handles -> Conns \cup {NoConn}]
        /\ net' \in [Conns -> {"idle", "backlog", "open", "closed"}]
    BY <2>3, <2>4 DEF CoreType
  <2> QED
    BY <2>2, <2>5 DEF CoreType
<1>2. CASE ~Open(h)
  BY <1>2 DEF CoreType, closesocket
<1> QED
  BY <1>1, <1>2

(* What posting an operation does to the variables it changes. *)
LEMMA PostType ==
  ASSUME CoreType, NEW h \in Handles \cup {NoSock}, NEW s \in Sessions,
         NEW kind \in {"recv", "send"}, Post(h, s, kind), UNCHANGED key
  PROVE  /\ io' \subseteq Ops
         /\ \A o \in io' : key[o.conn] \in Sessions
         /\ faults' \in 0 .. MaxFaults
<1> USE ConstantsAssumption
<1>1. CASE Posted(h, s, kind)
  <2>1. owner[h] \in Conns
    BY <1>1 DEF CoreType, Posted, Open
  <2>2. [session |-> s, conn |-> owner[h], kind |-> kind, state |-> "pending"] \in Ops
    BY <2>1 DEF Ops
  <2> QED
    BY <1>1, <2>1, <2>2 DEF CoreType, Posted
<1>2. CASE NotPosted(h)
  BY <1>2 DEF CoreType, NotPosted
<1> QED
  BY <1>1, <1>2 DEF Post

LEMMA CompleteType ==
  ASSUME CoreType, NEW o \in io, NEW state \in {"done", "zero", "failed"},
         Complete(o, state), UNCHANGED key
  PROVE  /\ io' \subseteq Ops
         /\ \A p \in io' : key[p.conn] \in Sessions
<1>1. /\ [o EXCEPT !.state = state] \in Ops
      /\ [o EXCEPT !.state = state].conn = o.conn
  BY DEF CoreType, Ops
<1> QED
  BY <1>1 DEF CoreType, Complete

LEMMA AcceptType ==
  ASSUME TypeInv, Acceptor
  PROVE  TypeInv'
<1> USE ConstantsAssumption DEF TypeInv, IncrementSafe, idVars, accVars, sessVars, workVars,
                                tcpVars
<1>1. ASSUME NEW c \in Conns, NEW h \in Handles, AcceptConn(c, h)
      PROVE  TypeInv'
  BY <1>1 DEF CoreType, AcceptConn
<1>2. ASSUME NEW c \in Conns, AcceptFails(c)
      PROVE  TypeInv'
  BY <1>2 DEF CoreType, AcceptFails
<1>3. CASE PopReturns
  <2>1. Head(m_freeIdQueue) \in Sessions /\ Tail(m_freeIdQueue) \in Seq(Sessions)
    BY <1>3, HeadTailProperties DEF CoreType, PopReturns
  <2>2. Head(m_freeIdQueue) \in INVALID .. MaxValid
    BY <2>1 DEF Sessions, INVALID
  <2> QED
    BY <1>3, <2>1, <2>2 DEF CoreType, PopReturns
<1>4. CASE PopEmpty
  BY <1>4 DEF CoreType, PopEmpty
<1>5. CASE ReturnInvalid
  BY <1>5 DEF CoreType, ReturnInvalid, INVALID
<1>6. CASE CheckTop
  BY <1>6 DEF CoreType, CheckTop
<1>7. CASE Increment
  BY <1>7 DEF CoreType, Increment, INVALID
<1>8. CASE Refuse
  BY <1>8 DEF CoreType, Refuse, INVALID
<1>9. CASE InitSession
  BY <1>9 DEF CoreType, InitSession, Sessions, INVALID
<1>10. CASE InitFails
  BY <1>10 DEF CoreType, InitFails, Sessions, INVALID
<1>11. CASE GiveBack
  <2>1. Append(m_freeIdQueue, idNew) \in Seq(Sessions)
    BY <1>11, AppendProperties DEF CoreType, GiveBack
  <2> QED
    BY <1>11, <2>1 DEF CoreType, GiveBack, INVALID
<1>12. CASE CloseNew
  <2>1. closesocket(sNew) /\ UNCHANGED key /\ sNew \in Handles \cup {NoSock}
    BY <1>12 DEF CoreType, CloseNew
  <2>2. /\ owner' \in [Handles -> Conns \cup {NoConn}]
        /\ net' \in [Conns -> {"idle", "backlog", "open", "closed"}]
        /\ io' \subseteq Ops
        /\ \A o \in io' : key[o.conn] \in Sessions
    BY <2>1, ClosesocketType
  <2> QED
    BY <1>12, <2>2 DEF CoreType, CloseNew
<1>13. CASE SetUp
  BY <1>13 DEF CoreType, SetUp, Open
<1>14. CASE PostFirst
  <2>1. /\ Post(sNew, idNew, "recv") /\ UNCHANGED key
        /\ sNew \in Handles \cup {NoSock} /\ idNew \in Sessions
    BY <1>14 DEF CoreType, PostFirst
  <2>2. /\ io' \subseteq Ops
        /\ \A o \in io' : key[o.conn] \in Sessions
        /\ faults' \in 0 .. MaxFaults
    BY <2>1, PostType
  <2> QED
    BY <1>14, <2>2 DEF CoreType, PostFirst, INVALID
<1> QED
  BY <1>1, <1>2, <1>3, <1>4, <1>5, <1>6, <1>7, <1>8, <1>9, <1>10, <1>11, <1>12, <1>13, <1>14
     DEF Acceptor, Accept, GetFreeId

LEMMA WorkerType ==
  ASSUME TypeInv, NEW w \in Workers, ServerThread(w)
  PROVE  TypeInv'
<1> USE ConstantsAssumption DEF TypeInv, IncrementSafe, idVars, accVars, sessVars, workVars,
                                tcpVars, WorkerPlaces
<1>1. ASSUME NEW o \in io, Dequeue(w, o)
      PROVE  TypeInv'
  <2>1. key[o.conn] \in Sessions /\ o.session \in Sessions
    BY DEF CoreType, Ops
  <2> QED
    BY <1>1, <2>1 DEF CoreType, Dequeue
<1>2. CASE CloseSocket(w)
  <2>1. /\ closesocket(m_s[pPerHandle[w]]) /\ UNCHANGED key
        /\ m_s[pPerHandle[w]] \in Handles \cup {NoSock}
    BY <1>2 DEF CoreType, CloseSocket
  <2>2. /\ owner' \in [Handles -> Conns \cup {NoConn}]
        /\ net' \in [Conns -> {"idle", "backlog", "open", "closed"}]
        /\ io' \subseteq Ops
        /\ \A o \in io' : key[o.conn] \in Sessions
    BY <2>1, ClosesocketType
  <2> QED
    BY <1>2, <2>2 DEF CoreType, CloseSocket
<1>3. CASE FreeSession(w)
  <2>1. Append(m_freeIdQueue, pPerIO[w]) \in Seq(Sessions)
    BY <1>3, AppendProperties DEF CoreType, FreeSession
  <2> QED
    BY <1>3, <2>1 DEF CoreType, FreeSession
<1>4. CASE UnInit(w)
  BY <1>4 DEF CoreType, UnInit
<1>5. CASE HandleRead(w)
  BY <1>5 DEF CoreType, HandleRead
<1>6. CASE HandleWrite(w)
  BY <1>6 DEF CoreType, HandleWrite
<1>7. CASE HandlePost(w)
  <2>1. /\ Post(m_s[pPerHandle[w]], pPerIO[w], wpc[w]) /\ UNCHANGED key
        /\ m_s[pPerHandle[w]] \in Handles \cup {NoSock}
        /\ pPerIO[w] \in Sessions
        /\ wpc[w] \in {"recv", "send"}
    BY <1>7 DEF CoreType, HandlePost
  <2>2. /\ io' \subseteq Ops
        /\ \A o \in io' : key[o.conn] \in Sessions
        /\ faults' \in 0 .. MaxFaults
    BY <2>1, PostType
  <2> QED
    BY <1>7, <2>2 DEF CoreType, HandlePost, WorkerWaits
<1> QED
  BY <1>1, <1>2, <1>3, <1>4, <1>5, <1>6, <1>7 DEF ServerThread, Handle

LEMMA CompletionType ==
  ASSUME TypeInv, NEW o \in io, Completion(o)
  PROVE  TypeInv'
<1> USE ConstantsAssumption DEF TypeInv, IncrementSafe, idVars, accVars, sessVars, workVars,
                                tcpVars
<1>0. o.conn \in Conns /\ o.session \in Sessions
  BY DEF CoreType, Ops
<1>1. CASE RecvData(o)
  <2>1. io' \subseteq Ops /\ \A p \in io' : key[p.conn] \in Sessions
    BY <1>1, CompleteType DEF RecvData
  <2>2. received[o.conn] + 1 \in 0 .. MaxChunks
    BY <1>0, <1>1 DEF CoreType, RecvData
  <2> QED
    BY <1>0, <1>1, <2>1, <2>2 DEF CoreType, RecvData
<1>2. CASE RecvZero(o)
  <2>1. io' \subseteq Ops /\ \A p \in io' : key[p.conn] \in Sessions
    BY <1>2, CompleteType DEF RecvZero
  <2> QED
    BY <1>2, <2>1 DEF CoreType, RecvZero
<1>3. CASE SendDone(o)
  <2>1. io' \subseteq Ops /\ \A p \in io' : key[p.conn] \in Sessions
    BY <1>3, CompleteType DEF SendDone
  <2> QED
    BY <1>3, <2>1 DEF CoreType, SendDone
<1>4. CASE OpFails(o)
  <2>1. io' \subseteq Ops /\ \A p \in io' : key[p.conn] \in Sessions
    BY <1>4, CompleteType DEF OpFails
  <2> QED
    BY <1>4, <2>1 DEF CoreType, OpFails
<1> QED
  BY <1>1, <1>2, <1>3, <1>4 DEF Completion

LEMMA PeersType ==
  ASSUME TypeInv, Peers
  PROVE  TypeInv'
<1> USE ConstantsAssumption DEF TypeInv, IncrementSafe, idVars, accVars, sessVars, workVars,
                                tcpVars
<1>1. PICK c \in Conns : Connect(c) \/ PeerSend(c) \/ PeerShut(c) \/ PeerReset(c)
  BY DEF Peers
<1>2. CASE Connect(c)
  BY <1>2 DEF CoreType, Connect
<1>3. CASE PeerSend(c)
  BY <1>3 DEF CoreType, PeerSend
<1>4. CASE PeerShut(c)
  BY <1>4 DEF CoreType, PeerShut
<1>5. CASE PeerReset(c)
  BY <1>5 DEF CoreType, PeerReset
<1> QED
  BY <1>1, <1>2, <1>3, <1>4, <1>5

LEMMA StutterType ==
  ASSUME TypeInv, UNCHANGED vars
  PROVE  TypeInv'
BY DEF TypeInv, IncrementSafe, CoreType, vars, idVars, accVars, sessVars, workVars, tcpVars

LEMMA CoreStep ==
  TypeInv /\ [Next]_vars => TypeInv'
BY AcceptType, WorkerType, CompletionType, PeersType, StutterType DEF Next

LEMMA EchoInit ==
  ASSUME Init
  PROVE  EchoType
<1>1. <<>> \in Seq(Chunks)
  BY EmptySeq
<1>2. NoChunk \in Chunks
  BY ConstantsAssumption DEF NoChunk, Chunks
<1> QED
  BY <1>1, <1>2 DEF Init, EchoType

LEMMA EchoStep ==
  ASSUME TypeInv, EchoType, [Next]_vars
  PROVE  EchoType'
<1> USE ConstantsAssumption DEF idVars, accVars, sessVars, workVars, tcpVars
<1>1. CASE Acceptor
  <2>1. UNCHANGED <<m_buf, wpc, replies>>
    BY <1>1 DEF Acceptor, Accept, GetFreeId, AcceptConn, AcceptFails, PopReturns, PopEmpty,
                ReturnInvalid, CheckTop, Increment, Refuse, InitSession, InitFails, GiveBack,
                CloseNew, SetUp, PostFirst
  <2> QED
    BY <2>1 DEF EchoType
<1>2. ASSUME NEW w \in Workers, ServerThread(w)
      PROVE  EchoType'
  <2>1. /\ UNCHANGED <<m_buf, replies>>
        /\ \E at \in {"wait", "close", "free", "uninit", "handle", "send", "recv"} :
             wpc' = [wpc EXCEPT ![w] = at]
    BY <1>2 DEF ServerThread, Dequeue, CloseSocket, FreeSession, UnInit, Handle, HandleRead,
                HandleWrite, HandlePost, WorkerWaits
  <2> QED
    BY <2>1 DEF EchoType
<1>3. ASSUME NEW o \in io, Completion(o)
      PROVE  EchoType'
  <2>1. o.conn \in Conns /\ o.session \in Sessions
    BY DEF TypeInv, CoreType, Ops
  <2>2. CASE RecvData(o)
    <3>1. Chunk(o.conn, received[o.conn] + 1) \in Chunks
      BY <2>1, <2>2 DEF TypeInv, CoreType, RecvData, Chunk, Chunks
    <3> QED
      BY <2>1, <2>2, <3>1 DEF EchoType, RecvData
  <2>3. CASE SendDone(o)
    <3>1. Append(replies[o.conn], m_buf[o.session]) \in Seq(Chunks)
      BY <2>1, AppendProperties DEF EchoType
    <3> QED
      BY <2>1, <2>3, <3>1 DEF EchoType, SendDone
  <2>4. CASE RecvZero(o) \/ OpFails(o)
    BY <2>4 DEF EchoType, RecvZero, OpFails
  <2> QED
    BY <1>3, <2>2, <2>3, <2>4 DEF Completion
<1>4. CASE Peers
  BY <1>4 DEF EchoType, Peers, Connect, PeerSend, PeerShut, PeerReset
<1>5. CASE UNCHANGED vars
  BY <1>5 DEF EchoType, vars
<1> QED
  BY <1>1, <1>2, <1>3, <1>4, <1>5 DEF Next

(* Every variable of the server keeps its type, whatever the numbers of     *)
(* connections, handles, workers and sessions; in particular the accept     *)
(* thread never sets up a session outside m_session (net.cpp:109-128).      *)
THEOREM TypeCorrect == Spec => []TypeOK
<1>1. Init => TypeInv /\ EchoType
  BY TypeInit, EchoInit
<1>2. TypeInv /\ EchoType /\ [Next]_vars => TypeInv' /\ EchoType'
  BY CoreStep, EchoStep
<1>3. TypeInv /\ EchoType => TypeOK
  BY DEF TypeInv, CoreType, EchoType, TypeOK
<1> QED
  BY <1>1, <1>2, <1>3, PTL DEF Spec

--------------------------------------------------------------------------------
(***************************************************************************)
(* Ownership of the sessions.  SingleOwner is not inductive alone: that a   *)
(* new id is nobody's needs all ids in use to be among those issued.        *)
(***************************************************************************)
IdsIssued ==
  /\ Range(m_freeIdQueue) \subseteq 1 .. m_topFreeId
  /\ idNew # INVALID => idNew \in 1 .. m_topFreeId
  /\ \A o \in io : o.session \in 1 .. m_topFreeId
  /\ \A w \in Workers : Holds(w) => pPerIO[w] \in 1 .. m_topFreeId

OwnerInv == SingleOwner /\ IdsIssued

LEMMA OwnerInit ==
  ASSUME Init
  PROVE  OwnerInv
<1>1. Range(m_freeIdQueue) = {} /\ IsInjective(m_freeIdQueue)
  BY DEF Init, Range, IsInjective
<1>2. \A w \in Workers : ~Holds(w)
  BY DEF Init, Holds
<1> QED
  BY <1>1, <1>2 DEF Init, OwnerInv, SingleOwner, IdsIssued

(* A step that only lets go of sessions, or changes what is known of an     *)
(* operation, leaves each session with one owner.                           *)
LEMMA OwnerFrame ==
  ASSUME CoreType, OwnerInv, UNCHANGED idVars,
         idNew' \in {idNew, INVALID},
         \A w \in Workers : Holds(w)' => Holds(w) /\ pPerIO'[w] = pPerIO[w],
         \A p \in io' : \E o \in io : p.session = o.session,
         \A p, q \in io' : p.session = q.session => p = q
  PROVE  OwnerInv'
<1>1. /\ INVALID \notin Range(m_freeIdQueue)
      /\ INVALID \notin Sessions
  BY RangeOfSeq, ConstantsAssumption DEF CoreType, Sessions, INVALID
<1>2. /\ m_freeIdQueue' = m_freeIdQueue
      /\ m_topFreeId' = m_topFreeId
  BY DEF idVars
<1>3. IdsIssued'
  BY <1>2 DEF OwnerInv, IdsIssued
<1>4. idNew' \notin Range(m_freeIdQueue)
  BY <1>1 DEF OwnerInv, SingleOwner
<1>5. ASSUME NEW p \in io'
      PROVE  p.session \notin Range(m_freeIdQueue) \cup {idNew'}
  <2>1. PICK o \in io : p.session = o.session
    OBVIOUS
  <2>2. o.session \in Sessions
    BY DEF CoreType, Ops
  <2> QED
    BY <1>1, <2>1, <2>2 DEF OwnerInv, SingleOwner
<1>6. ASSUME NEW w \in Workers, Holds(w)'
      PROVE  /\ pPerIO'[w] \notin Range(m_freeIdQueue) \cup {idNew'}
             /\ \A p \in io' : p.session # pPerIO'[w]
             /\ \A v \in Workers \ {w} : Holds(v)' => pPerIO'[v] # pPerIO'[w]
  <2>1. Holds(w) /\ pPerIO'[w] = pPerIO[w]
    BY <1>6
  <2>2. pPerIO[w] \in Sessions
    BY <2>1 DEF CoreType, Holds
  <2>3. pPerIO'[w] \notin Range(m_freeIdQueue) \cup {idNew'}
    BY <1>1, <2>1, <2>2 DEF OwnerInv, SingleOwner
  <2>4. \A p \in io' : p.session # pPerIO'[w]
    BY <2>1 DEF OwnerInv, SingleOwner
  <2>5. \A v \in Workers \ {w} : Holds(v)' => pPerIO'[v] # pPerIO'[w]
    BY <2>1 DEF OwnerInv, SingleOwner
  <2> QED
    BY <2>3, <2>4, <2>5
<1>7. SingleOwner'
  BY <1>2, <1>4, <1>5, <1>6 DEF OwnerInv, SingleOwner
<1> QED
  BY <1>3, <1>7 DEF OwnerInv

(* The operations keep their sessions when one completes or fails. *)
LEMMA ClosesocketSessions ==
  ASSUME CoreType, OwnerInv, NEW h, closesocket(h)
  PROVE  /\ \A p \in io' : \E o \in io : p.session = o.session /\ p.conn = o.conn /\ p.kind = o.kind
         /\ \A p, q \in io' : p.session = q.session => p = q
<1> DEFINE mark(o) == IF o.conn = owner[h] /\ o.state = "pending"
                      THEN [o EXCEPT !.state = "failed"] ELSE o
<1>1. CASE Open(h)
  <2>1. \A p \in io' : \E o \in io : p = mark(o)
    BY <1>1 DEF closesocket
  <2>2. \A o \in io : /\ mark(o).session = o.session
                      /\ mark(o).conn = o.conn
                      /\ mark(o).kind = o.kind
    BY DEF CoreType, Ops
  <2>3. \A p \in io' : \E o \in io : p.session = o.session /\ p.conn = o.conn /\ p.kind = o.kind
    BY <2>1, <2>2
  <2>4. ASSUME NEW p \in io', NEW q \in io', p.session = q.session
        PROVE  p = q
    <3>1. PICK o1 \in io : p = mark(o1)
      BY <2>1
    <3>2. PICK o2 \in io : q = mark(o2)
      BY <2>1
    <3>3. o1.session = o2.session
      BY <2>2, <2>4, <3>1, <3>2
    <3>4. o1 = o2
      BY <3>3 DEF OwnerInv, SingleOwner
    <3> QED
      BY <3>1, <3>2, <3>4
  <2> QED
    BY <2>3, <2>4
<1>2. CASE ~Open(h)
  BY <1>2 DEF closesocket, OwnerInv, SingleOwner
<1> QED
  BY <1>1, <1>2

LEMMA CompleteSessions ==
  ASSUME CoreType, OwnerInv, NEW o \in io, NEW state, Complete(o, state)
  PROVE  /\ \A p \in io' : \E q \in io : p.session = q.session /\ p.conn = q.conn /\ p.kind = q.kind
         /\ \A p, q \in io' : p.session = q.session => p = q
<1>1. /\ [o EXCEPT !.state = state].session = o.session
      /\ [o EXCEPT !.state = state].conn = o.conn
      /\ [o EXCEPT !.state = state].kind = o.kind
  BY DEF CoreType, Ops
<1>2. io' = (io \ {o}) \cup {[o EXCEPT !.state = state]}
  BY DEF Complete
<1>3. \A p, q \in io : p.session = q.session => p = q
  BY DEF OwnerInv, SingleOwner
<1>4. ASSUME NEW p \in io'
      PROVE  \E q \in io : p.session = q.session /\ p.conn = q.conn /\ p.kind = q.kind
  <2>1. CASE p \in io
    BY <2>1
  <2>2. CASE p = [o EXCEPT !.state = state]
    BY <1>1, <2>2
  <2> QED
    BY <1>2, <2>1, <2>2
<1>5. ASSUME NEW p \in io', NEW q \in io', p.session = q.session
      PROVE  p = q
  <2>1. CASE p \in io \ {o} /\ q \in io \ {o}
    BY <1>3, <1>5, <2>1
  <2>2. CASE p = [o EXCEPT !.state = state] /\ q = [o EXCEPT !.state = state]
    BY <2>2
  <2>3. CASE p = [o EXCEPT !.state = state] /\ q \in io \ {o}
    BY <1>1, <1>3, <1>5, <2>3
  <2>4. CASE q = [o EXCEPT !.state = state] /\ p \in io \ {o}
    BY <1>1, <1>3, <1>5, <2>4
  <2> QED
    BY <1>2, <2>1, <2>2, <2>3, <2>4
<1> QED
  BY <1>4, <1>5

(* Posting puts at most one operation on the session, and no other. *)
LEMMA PostSessions ==
  ASSUME NEW h, NEW s, NEW kind, Post(h, s, kind)
  PROVE  \/ io' = io
         \/ /\ Open(h)
            /\ io' = io \cup {[session |-> s, conn |-> owner[h], kind |-> kind,
                               state |-> "pending"]}
BY DEF Post, Posted, NotPosted

LEMMA AcceptOwner ==
  ASSUME TypeInv, OwnerInv, Acceptor
  PROVE  OwnerInv'
<1> USE DEF TypeInv, idVars, accVars, sessVars, workVars, tcpVars
<1>0. /\ \A p, q \in io : p.session = q.session => p = q
      /\ INVALID \notin Sessions
      /\ m_topFreeId \in Nat
  BY DEF OwnerInv, SingleOwner, Sessions, INVALID, CoreType
<1>1. ASSUME NEW c \in Conns, NEW h \in Handles, AcceptConn(c, h)
      PROVE  OwnerInv'
  BY <1>0, <1>1, OwnerFrame DEF AcceptConn, Holds
<1>2. ASSUME NEW c \in Conns, AcceptFails(c)
      PROVE  OwnerInv'
  BY <1>0, <1>2, OwnerFrame DEF AcceptFails, Holds
<1>3. CASE PopReturns
  <2>1. /\ Head(m_freeIdQueue) \in Range(m_freeIdQueue)
        /\ IsInjective(Tail(m_freeIdQueue))
        /\ Range(Tail(m_freeIdQueue)) = Range(m_freeIdQueue) \ {Head(m_freeIdQueue)}
    BY <1>3, PopDistinct DEF CoreType, OwnerInv, SingleOwner, PopReturns
  <2>2. SingleOwner'
    BY <1>3, <2>1 DEF PopReturns, OwnerInv, SingleOwner, Holds
  <2>3. IdsIssued'
    BY <1>3, <2>1 DEF PopReturns, OwnerInv, IdsIssued, Holds
  <2> QED
    BY <2>2, <2>3 DEF OwnerInv
<1>4. CASE PopEmpty \/ CheckTop \/ ReturnInvalid \/ Refuse
  BY <1>0, <1>4, OwnerFrame DEF PopEmpty, CheckTop, ReturnInvalid, Refuse, Holds
<1>5. CASE Increment
  <2>1. /\ m_topFreeId' = m_topFreeId + 1
        /\ idNew' = m_topFreeId + 1
    BY <1>5 DEF CoreType, IncrementSafe, Increment
  <2>2. m_topFreeId + 1 \notin 1 .. m_topFreeId
    BY <1>0
  <2>3. SingleOwner'
    BY <1>5, <2>1, <2>2 DEF Increment, OwnerInv, SingleOwner, IdsIssued, Holds
  <2>4. 1 .. m_topFreeId \subseteq 1 .. (m_topFreeId + 1)
    BY <1>0
  <2>5. IdsIssued'
    BY <1>0, <1>5, <2>1, <2>4 DEF Increment, OwnerInv, IdsIssued, Holds
  <2> QED
    BY <2>3, <2>5 DEF OwnerInv
<1>6. CASE InitSession \/ InitFails
  BY <1>0, <1>6, OwnerFrame DEF InitSession, InitFails, Holds
<1>7. CASE GiveBack
  <2>1. /\ idNew \in Sessions
        /\ idNew # INVALID
        /\ idNew \notin Range(m_freeIdQueue)
    BY <1>0, <1>7 DEF CoreType, OwnerInv, SingleOwner, GiveBack
  <2>2. /\ IsInjective(Append(m_freeIdQueue, idNew))
        /\ Range(Append(m_freeIdQueue, idNew)) = Range(m_freeIdQueue) \cup {idNew}
    BY <2>1, PushDistinct DEF CoreType, OwnerInv, SingleOwner
  <2>3. /\ \A o \in io : o.session \in Sessions
        /\ \A w \in Workers : Holds(w) => pPerIO[w] \in Sessions
        /\ Range(m_freeIdQueue) \subseteq Sessions
    BY RangeOfSeq DEF CoreType, Ops, Holds
  <2>4. SingleOwner'
    BY <1>0, <1>7, <2>1, <2>2, <2>3 DEF GiveBack, OwnerInv, SingleOwner, Holds
  <2>5. IdsIssued'
    BY <1>7, <2>1, <2>2 DEF GiveBack, OwnerInv, IdsIssued, Holds
  <2> QED
    BY <2>4, <2>5 DEF OwnerInv
<1>8. CASE CloseNew
  <2>1. /\ \A p \in io' : \E o \in io : p.session = o.session
        /\ \A p, q \in io' : p.session = q.session => p = q
    BY <1>8, ClosesocketSessions DEF CloseNew
  <2> QED
    BY <1>8, <2>1, OwnerFrame DEF CloseNew, Holds
<1>9. CASE SetUp
  BY <1>0, <1>9, OwnerFrame DEF SetUp, Holds
<1>10. CASE PostFirst
  <2>1. /\ idNew \in Sessions
        /\ idNew # INVALID
    BY <1>0, <1>10 DEF CoreType, PostFirst
  <2>2. CASE io' = io
    BY <1>0, <1>10, <2>2, OwnerFrame DEF PostFirst, Holds
  <2>3. CASE \E o : io' = io \cup {o} /\ o.session = idNew
    <3>1. PICK o : io' = io \cup {o} /\ o.session = idNew
      BY <2>3
    <3>2. /\ \A p \in io : p.session \in Sessions
          /\ \A w \in Workers : Holds(w) => pPerIO[w] \in Sessions
          /\ Range(m_freeIdQueue) \subseteq Sessions
      BY RangeOfSeq DEF CoreType, Ops, Holds
    <3>3. SingleOwner'
      BY <1>0, <1>10, <2>1, <3>1, <3>2 DEF PostFirst, OwnerInv, SingleOwner, Holds
    <3>4. IdsIssued'
      BY <1>10, <2>1, <3>1 DEF PostFirst, OwnerInv, IdsIssued, Holds
    <3> QED
      BY <3>3, <3>4 DEF OwnerInv
  <2>4. \/ io' = io
        \/ io' = io \cup {[session |-> idNew, conn |-> owner[sNew], kind |-> "recv",
                            state |-> "pending"]}
    BY <1>10, PostSessions DEF PostFirst
  <2> QED
    BY <2>2, <2>3, <2>4
<1> QED
  BY <1>1, <1>2, <1>3, <1>4, <1>5, <1>6, <1>7, <1>8, <1>9, <1>10 DEF Acceptor, Accept, GetFreeId

(* A worker that posts an operation hands its session over to it. *)
LEMMA PostOwner ==
  ASSUME TypeInv, OwnerInv, NEW w \in Workers, Holds(w), ~Holds(w)',
         NEW h, NEW kind, Post(h, pPerIO[w], kind),
         UNCHANGED <<m_topFreeId, m_freeIdQueue, idNew>>,
         \A v \in Workers \ {w} : (Holds(v)' <=> Holds(v)) /\ pPerIO'[v] = pPerIO[v]
  PROVE  OwnerInv'
<1>1. pPerIO[w] \in Sessions /\ \A p, q \in io : p.session = q.session => p = q
  BY DEF TypeInv, CoreType, Holds, OwnerInv, SingleOwner
<1>2. CASE io' = io
  BY <1>1, <1>2, OwnerFrame DEF TypeInv, idVars
<1>3. CASE \E o : io' = io \cup {o} /\ o.session = pPerIO[w]
  <2>1. PICK o : io' = io \cup {o} /\ o.session = pPerIO[w]
    BY <1>3
  <2>2. SingleOwner'
    BY <1>1, <2>1 DEF OwnerInv, SingleOwner
  <2>3. IdsIssued'
    BY <1>1, <2>1 DEF OwnerInv, IdsIssued
  <2> QED
    BY <2>2, <2>3 DEF OwnerInv
<1> DEFINE new == [session |-> pPerIO[w], conn |-> owner[h], kind |-> kind, state |-> "pending"]
<1>4. io' = io \/ io' = io \cup {new}
  BY PostSessions
<1>5. new.session = pPerIO[w]
  OBVIOUS
<1> HIDE DEF new
<1> QED
  BY <1>2, <1>3, <1>4, <1>5

LEMMA WorkerOwner ==
  ASSUME TypeInv, OwnerInv, NEW w \in Workers, ServerThread(w)
  PROVE  OwnerInv'
<1> USE DEF TypeInv, idVars, accVars, sessVars, workVars, tcpVars
<1>0. \A p, q \in io : p.session = q.session => p = q
  BY DEF OwnerInv, SingleOwner
<1>1. ASSUME NEW o \in io, Dequeue(w, o)
      PROVE  OwnerInv'
  <2>1. /\ pPerIO' = [pPerIO EXCEPT ![w] = o.session]
        /\ pPerIO \in [Workers -> Sessions \cup {INVALID}]
        /\ wpc \in [Workers -> WorkerPlaces]
        /\ wpc[w] = "wait"
        /\ io' = io \ {o}
        /\ UNCHANGED <<m_topFreeId, m_freeIdQueue, idNew>>
    BY <1>1 DEF Dequeue, CoreType
  <2>2. \A v \in Workers \ {w} : wpc'[v] = wpc[v] /\ pPerIO'[v] = pPerIO[v]
    BY <1>1 DEF Dequeue, CoreType
  <2>3. pPerIO'[w] = o.session
    BY <2>1
  <2>4. \A v \in Workers \ {w} : Holds(v)' <=> Holds(v)
    BY <2>2 DEF Holds
  <2>5. \A p \in io' : p.session # o.session
    BY <1>0, <2>1
  <2>6. SingleOwner'
    BY <2>1, <2>2, <2>3, <2>4, <2>5 DEF OwnerInv, SingleOwner
  <2>7. IdsIssued'
    BY <2>1, <2>2, <2>3, <2>4 DEF OwnerInv, IdsIssued
  <2> QED
    BY <2>6, <2>7 DEF OwnerInv
<1>2. CASE CloseSocket(w)
  <2>1. /\ \A p \in io' : \E o \in io : p.session = o.session
        /\ \A p, q \in io' : p.session = q.session => p = q
    BY <1>2, ClosesocketSessions DEF CloseSocket
  <2>2. \A v \in Workers : Holds(v)' => Holds(v)
    BY <1>2 DEF CloseSocket, Holds, CoreType
  <2> QED
    BY <1>2, <2>1, <2>2, OwnerFrame DEF CloseSocket
<1>3. CASE FreeSession(w)
  <2>1. /\ Holds(w)
        /\ pPerIO[w] \in Sessions
        /\ pPerIO[w] \notin Range(m_freeIdQueue)
        /\ pPerIO[w] # idNew
    BY <1>3 DEF FreeSession, CoreType, Holds, OwnerInv, SingleOwner
  <2>2. /\ IsInjective(Append(m_freeIdQueue, pPerIO[w]))
        /\ Range(Append(m_freeIdQueue, pPerIO[w])) = Range(m_freeIdQueue) \cup {pPerIO[w]}
    BY <2>1, PushDistinct DEF CoreType, OwnerInv, SingleOwner
  <2>3. /\ ~Holds(w)'
        /\ \A v \in Workers \ {w} : Holds(v)' <=> Holds(v)
    BY <1>3 DEF FreeSession, CoreType, Holds
  <2>4. SingleOwner'
    BY <1>3, <2>1, <2>2, <2>3 DEF FreeSession, OwnerInv, SingleOwner
  <2>5. IdsIssued'
    BY <1>3, <2>1, <2>2, <2>3 DEF FreeSession, OwnerInv, IdsIssued
  <2> QED
    BY <2>4, <2>5 DEF OwnerInv
<1>4. CASE UnInit(w)
  <2>1. \A v \in Workers : Holds(v)' => Holds(v) /\ pPerIO'[v] = pPerIO[v]
    BY <1>4 DEF UnInit, Holds, CoreType
  <2> QED
    BY <1>0, <1>4, <2>1, OwnerFrame DEF UnInit
<1>5. CASE HandleRead(w) \/ HandleWrite(w)
  <2>1. \A v \in Workers : Holds(v)' => Holds(v) /\ pPerIO'[v] = pPerIO[v]
    BY <1>5 DEF HandleRead, HandleWrite, Holds, CoreType
  <2> QED
    BY <1>0, <1>5, <2>1, OwnerFrame DEF HandleRead, HandleWrite
<1>6. CASE HandlePost(w)
  <2>1. /\ Holds(w)
        /\ Post(m_s[pPerHandle[w]], pPerIO[w], wpc[w])
        /\ UNCHANGED <<m_topFreeId, m_freeIdQueue, idNew>>
    BY <1>6 DEF HandlePost, CoreType, Holds
  <2>2. /\ ~Holds(w)'
        /\ \A v \in Workers \ {w} : (Holds(v)' <=> Holds(v)) /\ pPerIO'[v] = pPerIO[v]
    BY <1>6 DEF HandlePost, WorkerWaits, CoreType, Holds
  <2> QED
    BY <2>1, <2>2, PostOwner
<1> QED
  BY <1>1, <1>2, <1>3, <1>4, <1>5, <1>6 DEF ServerThread, Handle

LEMMA EnvironmentOwner ==
  ASSUME TypeInv, OwnerInv,
         (\E o \in io : Completion(o)) \/ Peers \/ UNCHANGED vars
  PROVE  OwnerInv'
<1> USE DEF TypeInv, idVars, accVars, sessVars, workVars, tcpVars
<1>0. \A p, q \in io : p.session = q.session => p = q
  BY DEF OwnerInv, SingleOwner
<1>1. ASSUME NEW o \in io, Completion(o)
      PROVE  OwnerInv'
  <2>1. /\ \A p \in io' : \E q \in io : p.session = q.session
        /\ \A p, q \in io' : p.session = q.session => p = q
    BY <1>1, CompleteSessions DEF Completion, RecvData, RecvZero, SendDone, OpFails
  <2>2. UNCHANGED <<idVars, idNew, wpc, pPerIO>>
    BY <1>1 DEF Completion, RecvData, RecvZero, SendDone, OpFails
  <2> QED
    BY <2>1, <2>2, OwnerFrame DEF Holds
<1>2. CASE Peers
  <2>1. UNCHANGED <<idVars, idNew, wpc, pPerIO, io>>
    BY <1>2 DEF Peers, Connect, PeerSend, PeerShut, PeerReset
  <2> QED
    BY <1>0, <2>1, OwnerFrame DEF Holds
<1>3. CASE UNCHANGED vars
  BY <1>0, <1>3, OwnerFrame DEF Holds, vars
<1> QED
  BY <1>1, <1>2, <1>3

LEMMA OwnerStep ==
  TypeInv /\ OwnerInv /\ [Next]_vars => TypeInv' /\ OwnerInv'
<1>1. TypeInv /\ OwnerInv /\ [Next]_vars => OwnerInv'
  BY AcceptOwner, WorkerOwner, EnvironmentOwner DEF Next
<1> QED
  BY <1>1, CoreStep

(* A session is never in two hands, for every number of workers,            *)
(* connections, handles and sessions and whatever system calls fail: no     *)
(* lock is needed around Accept, ServerThread and Handle                    *)
(* (net.cpp:33-143).                                                        *)
THEOREM SessionsHaveSingleOwners == Spec => []SingleOwner
<1>1. Init => TypeInv /\ OwnerInv
  BY TypeInit, OwnerInit
<1>2. TypeInv /\ OwnerInv => SingleOwner
  BY DEF OwnerInv
<1> QED
  BY <1>1, <1>2, OwnerStep, PTL DEF Spec

(* Every id that waits in the queue names a session of the array, so that   *)
(* Accept never refuses an id it popped (net.cpp:115-123).                  *)
THEOREM QueueStaysUsable == Spec => []QueueUsable
<1>1. Init => TypeInv /\ OwnerInv
  BY TypeInit, OwnerInit
<1>2. TypeInv /\ OwnerInv => QueueUsable
  <2> SUFFICES ASSUME TypeInv, OwnerInv
               PROVE  QueueUsable
    OBVIOUS
  <2>1. Range(m_freeIdQueue) \subseteq Sessions
    BY RangeOfSeq DEF TypeInv, CoreType
  <2>2. Range(m_freeIdQueue) \subseteq 1 .. m_topFreeId
    BY DEF OwnerInv, IdsIssued
  <2> QED
    BY <2>1, <2>2, ConstantsAssumption DEF TypeInv, CoreType, QueueUsable, Sessions
<1> QED
  BY <1>1, <1>2, OwnerStep, PTL DEF Spec

--------------------------------------------------------------------------------

(***************************************************************************)
(* OwnSocket is not inductive alone.  A handle stands for one connection    *)
(* and a connection has one handle; the connection the accept thread has    *)
(* in hand belongs to no session until SetUp, and to the new one after it.  *)
(***************************************************************************)
HandlesInv ==
  /\ \A h \in Handles : owner[h] # NoConn => net[owner[h]] = "open"
  /\ \A h, g \in Handles : owner[h] # NoConn /\ owner[h] = owner[g] => h = g
  /\ \A c \in Conns : net[c] \in {"idle", "backlog"} => key[c] = INVALID

AcceptedInv ==
  /\ apc = "accept" => sNew = NoSock
  /\ sNew # NoSock =>
       /\ saRemote \in Conns
       /\ owner[sNew] = saRemote
       /\ apc # "post" => key[saRemote] = INVALID
       /\ apc = "post" => m_s[idNew] = sNew /\ m_addr[idNew] = saRemote /\ key[saRemote] = idNew

SocketInv == HandlesInv /\ AcceptedInv /\ OwnSocket

LEMMA SocketInit ==
  ASSUME Init
  PROVE  SocketInv
BY DEF Init, SocketInv, HandlesInv, AcceptedInv, OwnSocket, Holds, INVALID

(* Two sessions in use have two handles, and neither is the accept thread's.*)
LEMMA AttachedApart ==
  ASSUME CoreType, NEW s \in Sessions, NEW t \in Sessions, s # t, Attached(s), Attached(t)
  PROVE  m_s[s] # m_s[t] /\ m_addr[s] # m_addr[t]
BY DEF Attached, CoreType

(* Closing the socket of a session leaves the others attached. *)
LEMMA CloseKeepsOthers ==
  ASSUME CoreType, NEW h \in Handles, Open(h), closesocket(h), UNCHANGED <<m_s, m_addr, key>>,
         NEW t \in Sessions, Attached(t), m_s[t] # h
  PROVE  Attached(t)'
BY DEF Attached, closesocket, CoreType, Open

(* Closing keeps the handles apart. *)
LEMMA CloseKeepsHandles ==
  ASSUME CoreType, HandlesInv, NEW h \in Handles, Open(h), closesocket(h), UNCHANGED key
  PROVE  HandlesInv'
<1>1. /\ owner' = [owner EXCEPT ![h] = NoConn]
      /\ net' = [net EXCEPT ![owner[h]] = "closed"]
      /\ owner[h] # NoConn /\ owner[h] \in Conns
  BY DEF closesocket, CoreType, Open
<1>2. ASSUME NEW g \in Handles, owner'[g] # NoConn
      PROVE  g # h /\ owner'[g] = owner[g] /\ owner[g] # owner[h] /\ net'[owner[g]] = net[owner[g]]
  <2>1. g # h /\ owner'[g] = owner[g]
    BY <1>1, <1>2 DEF CoreType
  <2>2. owner[g] # owner[h]
    BY <1>1, <2>1 DEF HandlesInv
  <2> QED
    BY <1>1, <1>2, <2>1, <2>2 DEF CoreType
<1>3. \A g \in Handles : owner'[g] # NoConn => net'[owner'[g]] = "open"
  BY <1>2 DEF HandlesInv
<1>4. \A g, k \in Handles : owner'[g] # NoConn /\ owner'[g] = owner'[k] => g = k
  BY <1>2 DEF HandlesInv
<1>5. \A c \in Conns : net'[c] \in {"idle", "backlog"} => key[c] = INVALID
  BY <1>1 DEF HandlesInv, CoreType
<1> QED
  BY <1>3, <1>4, <1>5 DEF HandlesInv

(* A session that changes nothing of these keeps OwnSocket. *)
LEMMA SocketFrame ==
  ASSUME SocketInv, UNCHANGED <<apc, idNew, sNew, saRemote, m_s, m_addr, owner, key, net>>,
         \A p \in io' : \E o \in io : p.session = o.session /\ p.conn = o.conn,
         \A w \in Workers : Holds(w)' =>
           /\ Holds(w)
           /\ pPerIO'[w] = pPerIO[w]
           /\ pPerHandle'[w] = pPerHandle[w]
           /\ wpc'[w] = "free" <=> wpc[w] = "free"
  PROVE  SocketInv'
<1>1. HandlesInv' /\ AcceptedInv'
  BY DEF SocketInv, HandlesInv, AcceptedInv
<1>2. \A s : Attached(s)' <=> Attached(s)
  BY DEF Attached, Open
<1>3. OwnSocket'
  BY <1>2 DEF SocketInv, OwnSocket
<1> QED
  BY <1>1, <1>3 DEF SocketInv

LEMMA AcceptSocket ==
  ASSUME TypeInv, OwnerInv, SocketInv, Acceptor
  PROVE  SocketInv'
<1> USE DEF TypeInv, idVars, accVars, sessVars, workVars, tcpVars
<1>0. /\ \A o \in io : o.session \in Sessions /\ o.conn \in Conns /\ Attached(o.session)
      /\ \A w \in Workers : Holds(w) => pPerIO[w] \in Sessions
  BY DEF CoreType, Ops, Holds, SocketInv, OwnSocket
<1>1. ASSUME NEW c \in Conns, NEW h \in Handles, AcceptConn(c, h)
      PROVE  SocketInv'
  <2>1. /\ owner' = [owner EXCEPT ![h] = c]
        /\ net' = [net EXCEPT ![c] = "open"]
        /\ owner[h] = NoConn
        /\ net[c] = "backlog"
        /\ key[c] = INVALID
        /\ sNew' = h /\ saRemote' = c /\ apc' = "pop"
        /\ UNCHANGED <<idNew, io, key, m_s, m_addr, wpc, pPerIO, pPerHandle>>
    BY <1>1 DEF AcceptConn, Open, SocketInv, HandlesInv
  <2>2. \A g \in Handles : owner[g] # c
    BY <2>1, ConstantsAssumption DEF SocketInv, HandlesInv
  <2>3. HandlesInv'
    BY <2>1, <2>2 DEF SocketInv, HandlesInv, CoreType
  <2>4. AcceptedInv'
    BY <2>1 DEF AcceptedInv, CoreType
  <2>5. \A s \in Sessions : Attached(s) => Attached(s)'
    BY <2>1 DEF Attached, Open, CoreType
  <2>6. OwnSocket'
    BY <1>0, <2>1, <2>5 DEF SocketInv, OwnSocket, Holds
  <2> QED
    BY <2>3, <2>4, <2>6 DEF SocketInv
<1>2. ASSUME NEW c \in Conns, AcceptFails(c)
      PROVE  SocketInv'
  <2>1. /\ net' = [net EXCEPT ![c] = "closed"]
        /\ net[c] = "backlog"
        /\ sNew' = NoSock /\ apc' = "pop"
        /\ UNCHANGED <<idNew, io, key, owner, m_s, m_addr, wpc, pPerIO, pPerHandle>>
    BY <1>2 DEF AcceptFails
  <2>2. \A g \in Handles : owner[g] # c
    BY <2>1, ConstantsAssumption DEF SocketInv, HandlesInv
  <2>3. HandlesInv'
    BY <2>1, <2>2 DEF SocketInv, HandlesInv, CoreType
  <2>4. AcceptedInv'
    BY <2>1 DEF AcceptedInv
  <2>5. OwnSocket'
    BY <2>1 DEF SocketInv, OwnSocket, Holds, Attached, Open
  <2> QED
    BY <2>3, <2>4, <2>5 DEF SocketInv
<1>3. CASE GetFreeId \/ Refuse \/ InitSession \/ InitFails \/ GiveBack
  <2>1. /\ apc \notin {"accept", "post"} /\ apc' \notin {"accept", "post"}
        /\ UNCHANGED <<io, key, owner, net, sNew, saRemote, m_s, m_addr, wpc, pPerIO, pPerHandle>>
    BY <1>3 DEF GetFreeId, PopReturns, PopEmpty, ReturnInvalid, CheckTop, Increment, Refuse,
                InitSession, InitFails, GiveBack
  <2>2. HandlesInv' /\ AcceptedInv'
    BY <2>1 DEF SocketInv, HandlesInv, AcceptedInv
  <2>3. OwnSocket'
    BY <2>1 DEF SocketInv, OwnSocket, Holds, Attached, Open
  <2> QED
    BY <2>2, <2>3 DEF SocketInv
<1>4. CASE CloseNew
  <2>1. /\ apc = "close" /\ apc' = "accept" /\ sNew' = NoSock
        /\ closesocket(sNew)
        /\ UNCHANGED <<key, m_s, m_addr, wpc, pPerIO, pPerHandle>>
    BY <1>4 DEF CloseNew
  <2>2. CASE Open(sNew)
    <3>1. /\ sNew \in Handles
          /\ owner[sNew] = saRemote /\ key[saRemote] = INVALID
      BY <2>1, <2>2, ConstantsAssumption DEF Open, SocketInv, AcceptedInv
    <3>2. HandlesInv'
      BY <2>1, <2>2, <3>1, CloseKeepsHandles DEF SocketInv
    <3>3. \A s \in Sessions : Attached(s) => m_s[s] # sNew
      BY <3>1 DEF Attached, Sessions, INVALID
    <3>4. \A s \in Sessions : Attached(s) => Attached(s)'
      BY <2>1, <2>2, <3>1, <3>3, CloseKeepsOthers
    <3>5. \A p \in io' : \E o \in io : p.session = o.session /\ p.conn = o.conn
      BY <2>1, ClosesocketSessions
    <3>6. OwnSocket'
      BY <1>0, <2>1, <3>4, <3>5 DEF SocketInv, OwnSocket, Holds
    <3> QED
      BY <2>1, <3>2, <3>6 DEF SocketInv, AcceptedInv
  <2>3. CASE ~Open(sNew)
    BY <2>1, <2>3 DEF closesocket, SocketInv, HandlesInv, AcceptedInv, OwnSocket, Holds,
                      Attached, Open
  <2> QED
    BY <2>2, <2>3
<1>5. CASE SetUp
  <2>1. /\ apc = "setup" /\ apc' = "post" /\ idNew \in Sessions
        /\ m_s' = [m_s EXCEPT ![idNew] = sNew]
        /\ m_addr' = [m_addr EXCEPT ![idNew] = saRemote]
        /\ UNCHANGED <<idNew, sNew, saRemote, io, owner, net, wpc, pPerIO, pPerHandle>>
    BY <1>5 DEF SetUp, CoreType
  <2>2. \A o \in io : o.session # idNew
    BY DEF OwnerInv, SingleOwner
  <2>3. \A w \in Workers : Holds(w) => pPerIO[w] # idNew
    BY DEF OwnerInv, SingleOwner
  <2>4. CASE Open(sNew)
    <3>1. /\ sNew \in Handles
          /\ saRemote \in Conns
          /\ owner[sNew] = saRemote /\ key[saRemote] = INVALID
          /\ key' = [key EXCEPT ![saRemote] = idNew]
      BY <1>5, <2>1, <2>4, ConstantsAssumption DEF Open, SocketInv, AcceptedInv, SetUp
    <3>2. \A s \in Sessions \ {idNew} : Attached(s) => Attached(s)'
      BY <2>1, <3>1 DEF Attached, Open, Sessions, INVALID, CoreType
    <3>3. \A o \in io : o.conn = m_addr'[o.session]
      BY <1>0, <2>1, <2>2 DEF SocketInv, OwnSocket, CoreType
    <3>4. OwnSocket'
      BY <1>0, <2>1, <2>2, <2>3, <3>2, <3>3 DEF SocketInv, OwnSocket, Holds
    <3>5. net[saRemote] = "open"
      BY <2>4, <3>1 DEF SocketInv, HandlesInv, Open
    <3>6. HandlesInv'
      BY <2>1, <3>1, <3>5 DEF SocketInv, HandlesInv, CoreType
    <3>7. AcceptedInv'
      BY <2>1, <3>1 DEF SocketInv, AcceptedInv, CoreType
    <3> QED
      BY <3>4, <3>6, <3>7 DEF SocketInv
  <2>5. CASE ~Open(sNew)
    <3>1. sNew = NoSock
      BY <2>5, ConstantsAssumption DEF Open, SocketInv, AcceptedInv, CoreType
    <3>2. key' = key
      BY <1>5, <2>5 DEF SetUp
    <3>3. \A s \in Sessions \ {idNew} : Attached(s) => Attached(s)'
      BY <2>1, <3>2 DEF Attached, Open, CoreType
    <3>4. \A o \in io : o.conn = m_addr'[o.session]
      BY <1>0, <2>1, <2>2 DEF SocketInv, OwnSocket, CoreType
    <3>5. OwnSocket'
      BY <1>0, <2>1, <2>2, <2>3, <3>3, <3>4 DEF SocketInv, OwnSocket, Holds
    <3> QED
      BY <2>1, <3>1, <3>2, <3>5 DEF SocketInv, HandlesInv, AcceptedInv
  <2> QED
    BY <2>4, <2>5
<1>6. CASE PostFirst
  <2>1. /\ apc = "post" /\ apc' = "accept" /\ sNew' = NoSock
        /\ UNCHANGED <<m_s, m_addr, owner, key, net, wpc, pPerIO, pPerHandle>>
    BY <1>6 DEF PostFirst
  <2>2. \/ io' = io
        \/ /\ Open(sNew)
           /\ io' = io \cup {[session |-> idNew, conn |-> owner[sNew], kind |-> "recv",
                              state |-> "pending"]}
    BY <1>6, PostSessions DEF PostFirst
  <2>3. Open(sNew) => Attached(idNew) /\ owner[sNew] = m_addr[idNew]
    BY <2>1, ConstantsAssumption DEF Open, Attached, SocketInv, AcceptedInv
  <2>4. \A s : Attached(s)' <=> Attached(s)
    BY <2>1 DEF Attached, Open
  <2>5. OwnSocket'
    BY <2>1, <2>2, <2>3, <2>4 DEF SocketInv, OwnSocket, Holds
  <2> QED
    BY <2>1, <2>5 DEF SocketInv, HandlesInv, AcceptedInv
<1> QED
  BY <1>1, <1>2, <1>3, <1>4, <1>5, <1>6 DEF Acceptor, Accept

LEMMA WorkerSocket ==
  ASSUME TypeInv, OwnerInv, SocketInv, NEW w \in Workers, ServerThread(w)
  PROVE  SocketInv'
<1> USE DEF TypeInv, idVars, accVars, sessVars, workVars, tcpVars
<1>0. /\ \A o \in io : o.session \in Sessions /\ o.conn \in Conns /\ Attached(o.session)
      /\ \A v \in Workers : Holds(v) => pPerIO[v] \in Sessions /\ pPerHandle[v] = pPerIO[v]
  BY DEF CoreType, Ops, Holds, SocketInv, OwnSocket
<1>1. ASSUME NEW o \in io, Dequeue(w, o)
      PROVE  SocketInv'
  <2>1. /\ io' = io \ {o}
        /\ pPerIO' = [pPerIO EXCEPT ![w] = o.session]
        /\ pPerHandle' = [pPerHandle EXCEPT ![w] = key[o.conn]]
        /\ \A v \in Workers \ {w} : wpc'[v] = wpc[v]
        /\ UNCHANGED <<apc, idNew, sNew, saRemote, m_s, m_addr, owner, key, net>>
    BY <1>1 DEF Dequeue, CoreType
  <2>2. key[o.conn] = o.session
    BY DEF SocketInv, OwnSocket, Attached
  <2>3. pPerIO'[w] = o.session /\ pPerHandle'[w] = o.session
    BY <2>1, <2>2 DEF CoreType
  <2>4. \A v \in Workers \ {w} : pPerIO'[v] = pPerIO[v] /\ pPerHandle'[v] = pPerHandle[v]
    BY <2>1 DEF CoreType
  <2>5. \A s : Attached(s)' <=> Attached(s)
    BY <2>1 DEF Attached, Open
  <2>6. \A p \in io' : Attached(p.session)' /\ p.conn = m_addr'[p.session]
    BY <2>1, <2>5 DEF SocketInv, OwnSocket
  <2>7. \A v \in Workers \ {w} : Holds(v)' =>
          /\ pPerHandle'[v] = pPerIO'[v]
          /\ wpc'[v] # "free" => Attached(pPerIO[v])'
    BY <2>1, <2>4, <2>5 DEF SocketInv, OwnSocket, Holds
  <2>8. Attached(pPerIO[w])'
    BY <1>0, <2>3, <2>5 DEF Attached
  <2>9. OwnSocket'
    BY <2>3, <2>6, <2>7, <2>8 DEF OwnSocket
  <2> QED
    BY <2>1, <2>9 DEF SocketInv, HandlesInv, AcceptedInv
<1>2. CASE CloseSocket(w)
  <2> DEFINE s == pPerIO[w]
             h == m_s[s]
  <2>1. /\ wpc[w] = "close" /\ Holds(w)
        /\ wpc' = [wpc EXCEPT ![w] = "free"]
        /\ closesocket(h)
        /\ UNCHANGED <<apc, idNew, sNew, saRemote, m_s, m_addr, key, pPerIO, pPerHandle>>
    BY <1>0, <1>2 DEF CloseSocket, Holds
  <2>2. s \in Sessions /\ Attached(s) /\ h \in Handles /\ Open(h)
    BY <1>0, <2>1 DEF SocketInv, OwnSocket, Attached, Open
  <2>3. HandlesInv'
    BY <2>1, <2>2, CloseKeepsHandles DEF SocketInv
  <2>4. \A t \in Sessions : Attached(t) /\ t # s => Attached(t)'
    BY <2>1, <2>2, AttachedApart, CloseKeepsOthers
  <2>5. idNew # s
    BY <2>1 DEF OwnerInv, SingleOwner
  <2>6. sNew # NoSock => sNew # h
    BY <2>2, <2>5 DEF SocketInv, AcceptedInv, Attached, Sessions, INVALID
  <2>7. sNew # NoSock => owner'[sNew] = owner[sNew]
    BY <2>1, <2>2, <2>6 DEF closesocket, CoreType
  <2>8. AcceptedInv'
    BY <2>1, <2>7 DEF SocketInv, AcceptedInv
  <2>9. \A p \in io' : \E o \in io : p.session = o.session /\ p.conn = o.conn
    BY <2>1, ClosesocketSessions
  <2>10. \A o \in io : o.session # s
    BY <2>1 DEF OwnerInv, SingleOwner
  <2>11. \A p \in io' : Attached(p.session)' /\ p.conn = m_addr'[p.session]
    BY <1>0, <2>1, <2>4, <2>9, <2>10 DEF SocketInv, OwnSocket
  <2>12. ASSUME NEW v \in Workers, Holds(v)'
         PROVE  /\ pPerHandle'[v] = pPerIO'[v]
                /\ wpc'[v] # "free" => Attached(pPerIO[v])'
    <3>1. CASE v = w
      BY <1>0, <2>1, <3>1 DEF CoreType
    <3>2. CASE v # w
      <4>1. wpc'[v] = wpc[v] /\ Holds(v)
        BY <2>1, <2>12, <3>2 DEF CoreType, Holds
      <4>2. pPerIO[v] # s /\ pPerIO[v] \in Sessions
        BY <1>0, <2>1, <3>2, <4>1 DEF OwnerInv, SingleOwner
      <4>3. wpc[v] # "free" => Attached(pPerIO[v])
        BY <4>1 DEF SocketInv, OwnSocket
      <4>4. wpc[v] # "free" => Attached(pPerIO[v])'
        BY <2>1, <2>4, <4>2, <4>3 DEF Attached
      <4> QED
        BY <1>0, <2>1, <4>1, <4>4
    <3> QED
      BY <3>1, <3>2
  <2>13. OwnSocket'
    BY <2>11, <2>12 DEF OwnSocket
  <2> QED
    BY <2>3, <2>8, <2>13 DEF SocketInv
<1>3. CASE FreeSession(w) \/ UnInit(w) \/ HandleRead(w) \/ HandleWrite(w)
  <2>1. /\ UNCHANGED <<apc, idNew, sNew, saRemote, m_s, m_addr, owner, key, net, io>>
        /\ \A v \in Workers : Holds(v)' =>
             /\ Holds(v)
             /\ pPerIO'[v] = pPerIO[v]
             /\ pPerHandle'[v] = pPerHandle[v]
             /\ wpc'[v] = "free" <=> wpc[v] = "free"
    BY <1>3 DEF FreeSession, UnInit, HandleRead, HandleWrite, Holds, CoreType
  <2> QED
    BY <2>1, SocketFrame
<1>4. CASE HandlePost(w)
  <2>1. /\ Holds(w) /\ wpc[w] # "free"
        /\ UNCHANGED <<apc, idNew, sNew, saRemote, m_s, m_addr, owner, key, net>>
    BY <1>4 DEF HandlePost, Holds
  <2>2. Attached(pPerIO[w]) /\ pPerHandle[w] = pPerIO[w]
    BY <2>1 DEF SocketInv, OwnSocket
  <2>3. \/ io' = io
        \/ io' = io \cup {[session |-> pPerIO[w], conn |-> owner[m_s[pPerIO[w]]],
                           kind |-> wpc[w], state |-> "pending"]}
    BY <1>4, <2>2, PostSessions DEF HandlePost
  <2>4. \A s : Attached(s)' <=> Attached(s)
    BY <2>1 DEF Attached, Open
  <2>5. \A p \in io' : Attached(p.session)' /\ p.conn = m_addr'[p.session]
    BY <2>1, <2>2, <2>3, <2>4 DEF SocketInv, OwnSocket, Attached
  <2>6. \A v \in Workers : Holds(v)' => Holds(v) /\ wpc'[v] = wpc[v]
                             /\ pPerIO'[v] = pPerIO[v] /\ pPerHandle'[v] = pPerHandle[v]
    BY <1>4 DEF HandlePost, WorkerWaits, Holds, CoreType
  <2>7. \A v \in Workers : Holds(v)' =>
          /\ pPerHandle'[v] = pPerIO'[v]
          /\ wpc'[v] # "free" => Attached(pPerIO[v])'
    BY <2>1, <2>6 DEF SocketInv, OwnSocket, Attached, Open
  <2>8. OwnSocket'
    BY <2>5, <2>7 DEF OwnSocket
  <2> QED
    BY <2>1, <2>8 DEF SocketInv, HandlesInv, AcceptedInv
<1> QED
  BY <1>1, <1>2, <1>3, <1>4 DEF ServerThread, Handle

LEMMA EnvironmentSocket ==
  ASSUME TypeInv, OwnerInv, SocketInv,
         (\E o \in io : Completion(o)) \/ Peers \/ UNCHANGED vars
  PROVE  SocketInv'
<1> USE DEF TypeInv, idVars, accVars, sessVars, workVars, tcpVars
<1>1. ASSUME NEW o \in io, Completion(o)
      PROVE  SocketInv'
  <2>1. \A p \in io' : \E q \in io : p.session = q.session /\ p.conn = q.conn
    BY <1>1, CompleteSessions DEF Completion, RecvData, RecvZero, SendDone, OpFails
  <2>2. UNCHANGED <<accVars, m_s, m_addr, owner, key, net, workVars>>
    BY <1>1 DEF Completion, RecvData, RecvZero, SendDone, OpFails
  <2> QED
    BY <2>1, <2>2, SocketFrame DEF Holds
<1>2. ASSUME NEW c \in Conns, Connect(c)
      PROVE  SocketInv'
  <2>1. /\ net[c] = "idle"
        /\ net' = [net EXCEPT ![c] = "backlog"]
        /\ UNCHANGED <<accVars, m_s, m_addr, owner, key, workVars, io>>
    BY <1>2 DEF Connect
  <2>2. \A h \in Handles : owner[h] # c
    BY <2>1, ConstantsAssumption DEF SocketInv, HandlesInv
  <2>3. HandlesInv'
    BY <2>1, <2>2 DEF SocketInv, HandlesInv, CoreType
  <2> QED
    BY <2>1, <2>3 DEF SocketInv, AcceptedInv, OwnSocket, Holds, Attached, Open
<1>3. ASSUME NEW c \in Conns, PeerSend(c) \/ PeerShut(c) \/ PeerReset(c)
      PROVE  SocketInv'
  <2>1. UNCHANGED <<accVars, m_s, m_addr, owner, key, net, workVars, io>>
    BY <1>3 DEF PeerSend, PeerShut, PeerReset
  <2> QED
    BY <2>1, SocketFrame DEF Holds
<1>4. CASE UNCHANGED vars
  BY <1>4, SocketFrame DEF vars, Holds
<1> QED
  BY <1>1, <1>2, <1>3, <1>4 DEF Peers

LEMMA SocketStep ==
  TypeInv /\ OwnerInv /\ SocketInv /\ [Next]_vars => TypeInv' /\ OwnerInv' /\ SocketInv'
<1>1. TypeInv /\ OwnerInv /\ SocketInv /\ [Next]_vars => SocketInv'
  BY AcceptSocket, WorkerSocket, EnvironmentSocket DEF Next
<1> QED
  BY <1>1, OwnerStep

(* The socket of a session that is in use is its own, however the system    *)
(* reuses the values of closed handles: what a worker of this server        *)
(* closes, reads or writes belongs to the client whose completion it took   *)
(* (net.cpp:60, 88, 99, 128-133).                                           *)
THEOREM HandlesStayOwn == Spec => []OwnSocket
<1>1. Init => TypeInv /\ OwnerInv /\ SocketInv
  BY TypeInit, OwnerInit, SocketInit
<1>2. TypeInv /\ OwnerInv /\ SocketInv => OwnSocket
  BY DEF SocketInv
<1> QED
  BY <1>1, <1>2, SocketStep, PTL DEF Spec

--------------------------------------------------------------------------------
(***************************************************************************)
(* The operation type of a session is written before the operation is       *)
(* posted and by its owner only.                                            *)
(***************************************************************************)
TypeTold ==
  /\ RightOp
  /\ apc = "post" => m_nOperationType[idNew] = "READ"
  /\ \A w \in Workers :
       /\ wpc[w] = "send" => m_nOperationType[pPerIO[w]] = "WRITE"
       /\ wpc[w] = "recv" => m_nOperationType[pPerIO[w]] = "READ"

LEMMA ToldFrame ==
  ASSUME TypeTold, UNCHANGED m_nOperationType,
         apc' = "post" => apc = "post" /\ idNew' = idNew,
         \A w \in Workers : wpc'[w] \in {"send", "recv"} =>
           wpc'[w] = wpc[w] /\ pPerIO'[w] = pPerIO[w],
         \A p \in io' : \E o \in io : p.session = o.session /\ p.kind = o.kind
  PROVE  TypeTold'
<1>1. RightOp'
  BY DEF TypeTold, RightOp
<1> QED
  BY <1>1 DEF TypeTold

LEMMA AcceptTold ==
  ASSUME TypeInv, OwnerInv, TypeTold, Acceptor
  PROVE  TypeTold'
<1> USE DEF TypeInv, idVars, accVars, sessVars, workVars, tcpVars
<1>1. CASE \/ \E c \in Conns, h \in Handles : AcceptConn(c, h)
           \/ \E c \in Conns : AcceptFails(c)
           \/ GetFreeId \/ Refuse \/ InitSession \/ InitFails \/ GiveBack
  <2>1. apc' # "post" /\ UNCHANGED <<m_nOperationType, io, wpc, pPerIO>>
    BY <1>1 DEF AcceptConn, AcceptFails, GetFreeId, PopReturns, PopEmpty, ReturnInvalid,
                CheckTop, Increment, Refuse, InitSession, InitFails, GiveBack
  <2> QED
    BY <2>1, ToldFrame
<1>2. CASE CloseNew
  <2>1. apc' # "post" /\ UNCHANGED <<m_nOperationType, wpc, pPerIO>>
    BY <1>2 DEF CloseNew
  <2>2. \A p \in io' : \E o \in io : p.session = o.session /\ p.kind = o.kind
    BY <1>2, ClosesocketSessions DEF CloseNew
  <2> QED
    BY <2>1, <2>2, ToldFrame
<1>3. CASE SetUp
  <2>1. /\ idNew \in Sessions /\ idNew' = idNew
        /\ m_nOperationType' = [m_nOperationType EXCEPT ![idNew] = "READ"]
        /\ m_nOperationType \in [Sessions -> {"NONE", "READ", "WRITE"}]
        /\ UNCHANGED <<io, wpc, pPerIO>>
    BY <1>3 DEF SetUp, CoreType
  <2>2. \A o \in io : o.session \in Sessions /\ o.session # idNew
    BY DEF OwnerInv, SingleOwner, CoreType, Ops
  <2>3. \A w \in Workers : wpc[w] \in {"send", "recv"} =>
          pPerIO[w] \in Sessions /\ pPerIO[w] # idNew
    BY DEF OwnerInv, SingleOwner, CoreType, Holds
  <2>4. RightOp'
    BY <2>1, <2>2 DEF TypeTold, RightOp
  <2> QED
    BY <2>1, <2>3, <2>4 DEF TypeTold
<1>4. CASE PostFirst
  <2>1. /\ apc = "post" /\ apc' # "post"
        /\ UNCHANGED <<m_nOperationType, wpc, pPerIO>>
    BY <1>4 DEF PostFirst
  <2>2. \/ io' = io
        \/ io' = io \cup {[session |-> idNew, conn |-> owner[sNew], kind |-> "recv",
                           state |-> "pending"]}
    BY <1>4, PostSessions DEF PostFirst
  <2>3. RightOp'
    BY <2>1, <2>2 DEF TypeTold, RightOp
  <2> QED
    BY <2>1, <2>3 DEF TypeTold
<1> QED
  BY <1>1, <1>2, <1>3, <1>4 DEF Acceptor, Accept

(* A worker writes the type of its own session only. *)
LEMMA ChosenTold ==
  ASSUME TypeInv, OwnerInv, TypeTold, NEW w \in Workers, Holds(w),
         \/ /\ m_nOperationType' = [m_nOperationType EXCEPT ![pPerIO[w]] = "WRITE"]
            /\ wpc' = [wpc EXCEPT ![w] = "send"]
         \/ /\ m_nOperationType' = [m_nOperationType EXCEPT ![pPerIO[w]] = "READ"]
            /\ wpc' = [wpc EXCEPT ![w] = "recv"],
         UNCHANGED <<apc, idNew, pPerIO, io>>
  PROVE  TypeTold'
<1>0. /\ pPerIO[w] \in Sessions
      /\ m_nOperationType \in [Sessions -> {"NONE", "READ", "WRITE"}]
      /\ wpc \in [Workers -> WorkerPlaces]
  BY DEF TypeInv, CoreType, Holds
<1>1. /\ \A v \in Workers \ {w} : wpc'[v] = wpc[v]
      /\ \A s \in Sessions \ {pPerIO[w]} : m_nOperationType'[s] = m_nOperationType[s]
      /\ \/ wpc'[w] = "send" /\ m_nOperationType'[pPerIO[w]] = "WRITE"
         \/ wpc'[w] = "recv" /\ m_nOperationType'[pPerIO[w]] = "READ"
  BY <1>0
<1>2. \A o \in io : o.session \in Sessions /\ o.session # pPerIO[w]
  BY DEF OwnerInv, SingleOwner, TypeInv, CoreType, Ops
<1>3. \A v \in Workers \ {w} : wpc[v] \in {"send", "recv"} =>
        pPerIO[v] \in Sessions /\ pPerIO[v] # pPerIO[w]
  BY DEF OwnerInv, SingleOwner, TypeInv, CoreType, Holds
<1>4. apc = "post" => idNew \in Sessions /\ idNew # pPerIO[w]
  BY DEF OwnerInv, SingleOwner, TypeInv, CoreType
<1>5. RightOp'
  BY <1>0, <1>1, <1>2 DEF TypeTold, RightOp
<1>6. apc' = "post" => m_nOperationType'[idNew'] = "READ"
  BY <1>0, <1>1, <1>4 DEF TypeTold
<1>7. \A v \in Workers :
        /\ wpc'[v] = "send" => m_nOperationType'[pPerIO'[v]] = "WRITE"
        /\ wpc'[v] = "recv" => m_nOperationType'[pPerIO'[v]] = "READ"
  BY <1>0, <1>1, <1>3 DEF TypeTold
<1> QED
  BY <1>5, <1>6, <1>7 DEF TypeTold

(* What a worker posts is what the type says. *)
LEMMA PostTold ==
  ASSUME TypeTold, NEW w \in Workers, wpc[w] \in {"send", "recv"},
         NEW h, Post(h, pPerIO[w], wpc[w]),
         wpc'[w] \notin {"send", "recv"},
         \A v \in Workers \ {w} : wpc'[v] = wpc[v] /\ pPerIO'[v] = pPerIO[v],
         UNCHANGED <<m_nOperationType, apc, idNew>>
  PROVE  TypeTold'
<1>1. \/ io' = io
      \/ io' = io \cup {[session |-> pPerIO[w], conn |-> owner[h], kind |-> wpc[w],
                         state |-> "pending"]}
  BY PostSessions
<1>2. m_nOperationType[pPerIO[w]] = (IF wpc[w] = "recv" THEN "READ" ELSE "WRITE")
  BY DEF TypeTold
<1>3. RightOp'
  BY <1>1, <1>2 DEF TypeTold, RightOp
<1> QED
  BY <1>3 DEF TypeTold

LEMMA WorkerTold ==
  ASSUME TypeInv, OwnerInv, TypeTold, NEW w \in Workers, ServerThread(w)
  PROVE  TypeTold'
<1> USE DEF TypeInv, idVars, accVars, sessVars, workVars, tcpVars
<1>1. CASE \/ \E o \in io : Dequeue(w, o)
           \/ FreeSession(w) \/ UnInit(w)
  <2>1. /\ UNCHANGED <<m_nOperationType, apc, idNew>>
        /\ io' \subseteq io
        /\ \A v \in Workers : wpc'[v] \in {"send", "recv"} =>
             wpc'[v] = wpc[v] /\ pPerIO'[v] = pPerIO[v]
    BY <1>1 DEF Dequeue, FreeSession, UnInit, CoreType
  <2> QED
    BY <2>1, ToldFrame
<1>2. CASE CloseSocket(w)
  <2>1. /\ UNCHANGED <<m_nOperationType, apc, idNew, pPerIO>>
        /\ \A v \in Workers : wpc'[v] \in {"send", "recv"} => wpc'[v] = wpc[v]
    BY <1>2 DEF CloseSocket, CoreType
  <2>2. \A p \in io' : \E o \in io : p.session = o.session /\ p.kind = o.kind
    BY <1>2, ClosesocketSessions DEF CloseSocket
  <2> QED
    BY <2>1, <2>2, ToldFrame
<1>3. CASE HandleRead(w) \/ HandleWrite(w)
  BY <1>3, ChosenTold DEF HandleRead, HandleWrite, Holds
<1>4. CASE HandlePost(w)
  BY <1>4, PostTold DEF HandlePost, WorkerWaits, CoreType
<1> QED
  BY <1>1, <1>2, <1>3, <1>4 DEF ServerThread, Handle

LEMMA EnvironmentTold ==
  ASSUME TypeInv, OwnerInv, TypeTold,
         (\E o \in io : Completion(o)) \/ Peers \/ UNCHANGED vars
  PROVE  TypeTold'
<1> USE DEF TypeInv, idVars, accVars, sessVars, workVars, tcpVars
<1>1. ASSUME NEW o \in io, Completion(o)
      PROVE  TypeTold'
  <2>1. \A p \in io' : \E q \in io : p.session = q.session /\ p.kind = q.kind
    BY <1>1, CompleteSessions DEF Completion, RecvData, RecvZero, SendDone, OpFails
  <2>2. UNCHANGED <<m_nOperationType, accVars, workVars>>
    BY <1>1 DEF Completion, RecvData, RecvZero, SendDone, OpFails
  <2> QED
    BY <2>1, <2>2, ToldFrame
<1>2. CASE Peers
  <2>1. UNCHANGED <<m_nOperationType, accVars, workVars, io>>
    BY <1>2 DEF Peers, Connect, PeerSend, PeerShut, PeerReset
  <2> QED
    BY <2>1, ToldFrame
<1>3. CASE UNCHANGED vars
  BY <1>3, ToldFrame DEF vars
<1> QED
  BY <1>1, <1>2, <1>3

(* The operation type of a session always tells which operation is          *)
(* outstanding with its OVERLAPPED: no other worker that takes the          *)
(* completion at once, and no later session with the same id, finds the     *)
(* type of another operation (net.cpp:85-88, 97-99, 135-141).               *)
THEOREM OperationTypeIsRight == Spec => []RightOp
<1>1. Init => TypeInv /\ OwnerInv /\ TypeTold
  <2>1. Init => TypeTold
    BY DEF Init, TypeTold, RightOp
  <2> QED
    BY <2>1, TypeInit, OwnerInit
<1>2. TypeInv /\ OwnerInv /\ TypeTold /\ [Next]_vars => TypeInv' /\ OwnerInv' /\ TypeTold'
  <2>1. TypeInv /\ OwnerInv /\ TypeTold /\ [Next]_vars => TypeTold'
    BY AcceptTold, WorkerTold, EnvironmentTold DEF Next
  <2> QED
    BY <2>1, OwnerStep
<1>3. TypeInv /\ OwnerInv /\ TypeTold => RightOp
  BY DEF TypeTold
<1> QED
  BY <1>1, <1>2, <1>3, PTL DEF Spec

--------------------------------------------------------------------------------
(***************************************************************************)
(* What the server has received and sent back, session by session.  The     *)
(* session in use for a connection is even with it, or owes it the chunk    *)
(* in its buffer: who has the session, a worker or an operation, says       *)
(* which.  A worker is on its way to close only when the peer has gone.     *)
(***************************************************************************)
Even(s) == received[m_addr[s]] = Len(replies[m_addr[s]])
Owes(s) ==
  /\ received[m_addr[s]] = Len(replies[m_addr[s]]) + 1
  /\ m_buf[s] = Chunk(m_addr[s], received[m_addr[s]])
Gone(s) ==
  \/ peer[m_addr[s]] = "reset"
  \/ peer[m_addr[s]] = "shut" /\ Len(replies[m_addr[s]]) = sent[m_addr[s]]

OpShows(o) ==
  /\ o.state = "pending" => IF o.kind = "recv" THEN Even(o.session) ELSE Owes(o.session)
  /\ o.state = "done" => IF o.kind = "recv" THEN Owes(o.session) ELSE Even(o.session)
  /\ o.state \in {"zero", "failed"} => Gone(o.session)

WorkerShows(w) ==
  /\ wpc[w] = "handle" =>
       IF m_nOperationType[pPerIO[w]] = "READ" THEN Owes(pPerIO[w]) ELSE Even(pPerIO[w])
  /\ wpc[w] = "send" => Owes(pPerIO[w])
  /\ wpc[w] = "recv" => Even(pPerIO[w])
  /\ wpc[w] = "close" => Gone(pPerIO[w])

EchoInv ==
  /\ \A o \in io : OpShows(o)
  /\ \A w \in Workers : WorkerShows(w)
  /\ apc = "post" /\ sNew # NoSock => Even(idNew)
  /\ \A c \in Conns : key[c] = INVALID => received[c] = 0 /\ replies[c] = <<>>
  /\ \A c \in Conns : received[c] <= sent[c]

ServerInv == TypeInv /\ EchoType /\ OwnerInv /\ SocketInv /\ TypeTold

LEMMA ServerInvInit == Init => ServerInv
BY TypeInit, EchoInit, OwnerInit, SocketInit DEF ServerInv, Init, TypeTold, RightOp

LEMMA ServerInvKept == ServerInv /\ [Next]_vars => ServerInv'
<1>1. ServerInv /\ [Next]_vars => TypeTold'
  BY AcceptTold, WorkerTold, EnvironmentTold DEF Next, ServerInv
<1> QED
  BY <1>1, SocketStep, EchoStep DEF ServerInv

(* Sessions in use, each with a connection that is its own. *)
InUse(s) ==
  \/ \E o \in io : o.session = s
  \/ \E w \in Workers : wpc[w] \in {"close", "handle", "send", "recv"} /\ pPerIO[w] = s
  \/ apc = "post" /\ sNew # NoSock /\ idNew = s

LEMMA InUseAttached ==
  ASSUME TypeInv, SocketInv, NEW s, InUse(s)
  PROVE  /\ s \in Sessions /\ s # INVALID
         /\ m_addr[s] \in Conns /\ key[m_addr[s]] = s
         /\ m_s[s] \in Handles /\ owner[m_s[s]] = m_addr[s] /\ net[m_addr[s]] = "open"
<1> USE ConstantsAssumption
<1>1. CASE \E o \in io : o.session = s
  BY <1>1 DEF TypeInv, CoreType, SocketInv, OwnSocket, HandlesInv, Attached, Open, Ops,
              Sessions, INVALID
<1>2. CASE \E w \in Workers : wpc[w] \in {"close", "handle", "send", "recv"} /\ pPerIO[w] = s
  <2>1. PICK w \in Workers : wpc[w] \in {"close", "handle", "send", "recv"} /\ pPerIO[w] = s
    BY <1>2
  <2>2. Attached(s) /\ s \in Sessions
    BY <2>1 DEF TypeInv, CoreType, SocketInv, OwnSocket, Holds
  <2> QED
    BY <2>2 DEF TypeInv, CoreType, SocketInv, HandlesInv, Attached, Open, Sessions, INVALID
<1>3. CASE apc = "post" /\ sNew # NoSock /\ idNew = s
  BY <1>3 DEF TypeInv, CoreType, SocketInv, AcceptedInv, HandlesInv, Sessions, INVALID
<1> QED
  BY <1>1, <1>2, <1>3 DEF InUse

LEMMA InUseIs ==
  ASSUME ServerInv, NEW s, InUse(s)
  PROVE  /\ s \in Sessions /\ s # INVALID
         /\ m_addr[s] \in Conns /\ key[m_addr[s]] = s
         /\ m_s[s] \in Handles /\ owner[m_s[s]] = m_addr[s] /\ net[m_addr[s]] = "open"
BY InUseAttached DEF ServerInv

LEMMA OpConn ==
  ASSUME ServerInv, NEW o \in io
  PROVE  InUse(o.session) /\ o.conn = m_addr[o.session]
BY DEF InUse, ServerInv, SocketInv, OwnSocket

(* A step that takes a session from one owner to another, or none at all,   *)
(* and tells the truth about it, keeps the rest.                            *)
LEMMA EchoFrame ==
  ASSUME ServerInv, EchoInv,
         UNCHANGED <<m_addr, m_buf, key, peer, sent, received, replies>>,
         \A p \in io' : p \in io \/ OpShows(p),
         \A w \in Workers :
           \/ wpc'[w] \notin {"close", "handle", "send", "recv"}
           \/ WorkerShows(w)'
           \/ wpc'[w] = wpc[w] /\ pPerIO'[w] = pPerIO[w]
              /\ m_nOperationType'[pPerIO[w]] = m_nOperationType[pPerIO[w]],
         apc' = "post" /\ sNew' # NoSock => apc = "post" /\ sNew # NoSock /\ idNew' = idNew
  PROVE  EchoInv'
<1>1. \A s : (Even(s)' <=> Even(s)) /\ (Owes(s)' <=> Owes(s)) /\ (Gone(s)' <=> Gone(s))
  BY DEF Even, Owes, Gone
<1>2. \A p \in io' : OpShows(p)'
  BY <1>1 DEF OpShows, EchoInv
<1>3. \A w \in Workers : WorkerShows(w)'
  BY <1>1 DEF WorkerShows, EchoInv
<1> QED
  BY <1>1, <1>2, <1>3 DEF EchoInv

LEMMA AcceptEcho ==
  ASSUME ServerInv, EchoInv, Acceptor
  PROVE  EchoInv'
<1> USE DEF idVars, accVars, sessVars, workVars, tcpVars
<1>1. CASE \/ \E c \in Conns, h \in Handles : AcceptConn(c, h)
           \/ \E c \in Conns : AcceptFails(c)
           \/ GetFreeId \/ Refuse \/ InitSession \/ InitFails \/ GiveBack
  <2>1. /\ UNCHANGED <<m_addr, m_buf, m_nOperationType, key, peer, sent, received, replies, io, wpc,
                       pPerIO>>
        /\ apc' # "post"
    BY <1>1 DEF AcceptConn, AcceptFails, GetFreeId, PopReturns, PopEmpty, ReturnInvalid,
                CheckTop, Increment, Refuse, InitSession, InitFails, GiveBack
  <2> QED
    BY <2>1, EchoFrame
<1>2. CASE CloseNew
  <2>1. io' = io
    <3>1. CASE Open(sNew)
      <4>1. sNew # NoSock /\ owner[sNew] = saRemote /\ key[saRemote] = INVALID
        BY <1>2, <3>1, ConstantsAssumption
           DEF CloseNew, Open, ServerInv, SocketInv, AcceptedInv
      <4>2. \A o \in io : o.conn # owner[sNew]
        BY <4>1, OpConn, InUseIs
      <4> QED
        BY <1>2, <3>1, <4>2 DEF CloseNew, closesocket
    <3> QED
      BY <1>2, <3>1 DEF CloseNew, closesocket
  <2>2. /\ UNCHANGED <<m_addr, m_buf, m_nOperationType, key, peer, sent, received, replies, wpc,
                       pPerIO>>
        /\ apc' # "post"
    BY <1>2 DEF CloseNew
  <2> QED
    BY <2>1, <2>2, EchoFrame
<1>3. CASE SetUp
  <2>1. /\ idNew \in Sessions /\ m_addr' = [m_addr EXCEPT ![idNew] = saRemote]
        /\ m_nOperationType' = [m_nOperationType EXCEPT ![idNew] = "READ"]
        /\ UNCHANGED <<idNew, sNew, m_buf, peer, sent, received, replies, io, wpc, pPerIO>>
        /\ m_addr \in [Sessions -> Conns \cup {NoConn}]
        /\ m_nOperationType \in [Sessions -> {"NONE", "READ", "WRITE"}]
    BY <1>3 DEF SetUp, ServerInv, TypeInv, CoreType
  <2>2. \A o \in io : o.session \in Sessions /\ o.session # idNew
    BY DEF ServerInv, OwnerInv, SingleOwner, TypeInv, CoreType, Ops
  <2>3. \A w \in Workers : wpc[w] \in {"close", "handle", "send", "recv"} =>
          pPerIO[w] \in Sessions /\ pPerIO[w] # idNew
    BY DEF ServerInv, OwnerInv, SingleOwner, TypeInv, CoreType, Holds
  <2>4. \A s \in Sessions \ {idNew} :
          (Even(s)' <=> Even(s)) /\ (Owes(s)' <=> Owes(s)) /\ (Gone(s)' <=> Gone(s))
    BY <2>1 DEF Even, Owes, Gone
  <2>5. \A o \in io' : OpShows(o)'
    BY <2>1, <2>2, <2>4 DEF OpShows, EchoInv
  <2>6. \A w \in Workers : WorkerShows(w)'
    BY <2>1, <2>3, <2>4 DEF WorkerShows, EchoInv
  <2>7. sNew # NoSock => saRemote \in Conns /\ key[saRemote] = INVALID /\ m_addr'[idNew] = saRemote
    BY <1>3, <2>1 DEF SetUp, ServerInv, SocketInv, AcceptedInv
  <2>8. sNew' # NoSock => Even(idNew)'
    BY <2>1, <2>7 DEF Even, EchoInv
  <2>9. \A c \in Conns : key'[c] = INVALID => key[c] = INVALID
    BY <1>3, <2>1, ConstantsAssumption DEF SetUp, ServerInv, TypeInv, CoreType, Sessions, INVALID
  <2> QED
    BY <2>1, <2>5, <2>6, <2>8, <2>9 DEF EchoInv
<1>4. CASE PostFirst
  <2> DEFINE new == [session |-> idNew, conn |-> owner[sNew], kind |-> "recv", state |-> "pending"]
  <2>1. /\ UNCHANGED <<m_addr, m_buf, m_nOperationType, key, peer, sent, received, replies, wpc,
                       pPerIO>>
        /\ apc = "post" /\ apc' # "post"
    BY <1>4 DEF PostFirst
  <2>2. io' = io \/ (sNew # NoSock /\ io' = io \cup {new})
    BY <1>4, PostSessions, ConstantsAssumption DEF PostFirst, Open
  <2>3. sNew # NoSock => OpShows(new)
    BY <2>1 DEF OpShows, EchoInv
  <2> QED
    BY <2>1, <2>2, <2>3, EchoFrame
<1> QED
  BY <1>1, <1>2, <1>3, <1>4 DEF Acceptor, Accept

LEMMA WorkerEcho ==
  ASSUME ServerInv, EchoInv, NEW w \in Workers, ServerThread(w)
  PROVE  EchoInv'
<1> USE DEF idVars, accVars, sessVars, workVars, tcpVars
<1>1. wpc \in [Workers -> WorkerPlaces] /\ pPerIO \in [Workers -> Sessions \cup {INVALID}]
  BY DEF ServerInv, TypeInv, CoreType
<1>2. ASSUME NEW o \in io, Dequeue(w, o)
      PROVE  EchoInv'
  <2>1. /\ UNCHANGED <<m_addr, m_buf, m_nOperationType, key, peer, sent, received, replies, apc,
                       sNew, idNew>>
        /\ io' = io \ {o} /\ pPerIO'[w] = o.session
        /\ \A v \in Workers \ {w} : wpc'[v] = wpc[v] /\ pPerIO'[v] = pPerIO[v]
        /\ wpc'[w] = IF \/ o.state = "failed"
                        \/ o.state = "zero" /\ m_nOperationType[o.session] \in {"READ", "WRITE"}
                     THEN "close" ELSE "handle"
        /\ o.state # "pending"
    BY <1>1, <1>2 DEF Dequeue
  <2>2. /\ m_nOperationType[o.session] = IF o.kind = "recv" THEN "READ" ELSE "WRITE"
        /\ o.kind \in {"recv", "send"} /\ o.state \in {"pending", "done", "zero", "failed"}
    BY DEF ServerInv, TypeTold, RightOp, TypeInv, CoreType, Ops
  <2>3. OpShows(o)
    BY DEF EchoInv
  <2>4. (Even(o.session)' <=> Even(o.session)) /\ (Owes(o.session)' <=> Owes(o.session))
        /\ (Gone(o.session)' <=> Gone(o.session))
    BY <2>1 DEF Even, Owes, Gone
  <2>5. WorkerShows(w)'
    BY <2>1, <2>2, <2>3, <2>4 DEF WorkerShows, OpShows
  <2> QED
    BY <2>1, <2>5, EchoFrame
<1>3. CASE CloseSocket(w)
  <2> DEFINE s == pPerIO[w]
  <2>1. wpc[w] = "close" /\ InUse(s) /\ Holds(w)
    BY <1>3 DEF CloseSocket, InUse, Holds
  <2>2. /\ pPerHandle[w] = s /\ closesocket(m_s[s])
    BY <1>3, <2>1 DEF CloseSocket, ServerInv, SocketInv, OwnSocket
  <2>3. owner[m_s[s]] = m_addr[s] /\ key[m_addr[s]] = s
    BY <2>1, InUseIs
  <2>4. \A o \in io : o.conn # owner[m_s[s]]
    <3>1. \A o \in io : o.session # s /\ key[o.conn] = o.session
      BY <2>1, OpConn, InUseIs DEF ServerInv, OwnerInv, SingleOwner
    <3> QED
      BY <2>3, <3>1
  <2>5. io' = io
    BY <2>2, <2>4 DEF closesocket
  <2>6. /\ UNCHANGED <<m_addr, m_buf, m_nOperationType, key, peer, sent, received, replies, apc,
                       sNew, idNew, pPerIO>>
        /\ wpc'[w] = "free"
        /\ \A v \in Workers \ {w} : wpc'[v] = wpc[v]
    BY <1>1, <1>3 DEF CloseSocket
  <2> QED
    BY <2>5, <2>6, EchoFrame
<1>4. CASE FreeSession(w) \/ UnInit(w)
  <2>1. /\ UNCHANGED <<m_addr, m_buf, m_nOperationType, key, peer, sent, received, replies, apc,
                       sNew, idNew, io>>
        /\ wpc'[w] \notin {"close", "handle", "send", "recv"}
        /\ \A v \in Workers \ {w} : wpc'[v] = wpc[v] /\ pPerIO'[v] = pPerIO[v]
    BY <1>1, <1>4 DEF FreeSession, UnInit
  <2> QED
    BY <2>1, EchoFrame
<1>5. CASE HandleRead(w) \/ HandleWrite(w)
  <2> DEFINE s == pPerIO[w]
  <2>1. /\ UNCHANGED <<m_addr, m_buf, key, peer, sent, received, replies, apc, sNew, idNew, io,
                       pPerIO>>
        /\ wpc[w] = "handle" /\ s \in Sessions
        /\ \A t \in Sessions \ {s} : m_nOperationType'[t] = m_nOperationType[t]
        /\ \A v \in Workers \ {w} : wpc'[v] = wpc[v]
        /\ \/ wpc'[w] = "send" /\ m_nOperationType[s] = "READ"
           \/ wpc'[w] = "recv" /\ m_nOperationType[s] = "WRITE"
    BY <1>1, <1>5 DEF HandleRead, HandleWrite, ServerInv, TypeInv, CoreType
  <2>2. (Even(s)' <=> Even(s)) /\ (Owes(s)' <=> Owes(s))
    BY <2>1 DEF Even, Owes
  <2>3. WorkerShows(w)
    BY DEF EchoInv
  <2>4. WorkerShows(w)'
    BY <2>1, <2>2, <2>3 DEF WorkerShows
  <2>5. \A v \in Workers \ {w} : wpc[v] \in {"close", "handle", "send", "recv"} =>
          pPerIO[v] \in Sessions \ {s}
    BY <2>1 DEF ServerInv, OwnerInv, SingleOwner, TypeInv, CoreType, Holds
  <2> QED
    BY <2>1, <2>4, <2>5, EchoFrame
<1>6. CASE HandlePost(w)
  <2> DEFINE s == pPerIO[w]
             new == [session |-> s, conn |-> owner[m_s[pPerHandle[w]]], kind |-> wpc[w],
                     state |-> "pending"]
  <2>1. /\ UNCHANGED <<m_addr, m_buf, m_nOperationType, key, peer, sent, received, replies, apc,
                       sNew, idNew>>
        /\ wpc[w] \in {"send", "recv"} /\ wpc'[w] = "wait"
        /\ \A v \in Workers \ {w} : wpc'[v] = wpc[v] /\ pPerIO'[v] = pPerIO[v]
    BY <1>1, <1>6 DEF HandlePost, WorkerWaits
  <2>2. io' = io \/ io' = io \cup {new}
    BY <1>6, PostSessions DEF HandlePost
  <2>3. WorkerShows(w)
    BY DEF EchoInv
  <2>4. OpShows(new)
    BY <2>1, <2>3 DEF OpShows, WorkerShows
  <2> QED
    BY <2>1, <2>2, <2>4, EchoFrame
<1> QED
  BY <1>2, <1>3, <1>4, <1>5, <1>6 DEF ServerThread, Handle

(* What an operation tells of itself when it completes. *)
LEMMA CompletedIs ==
  ASSUME TypeInv, OwnerInv, NEW o \in io, NEW state, Complete(o, state)
  PROVE  \A p \in io' : \/ p \in io /\ p.session # o.session
                        \/ p.session = o.session /\ p.kind = o.kind /\ p.state = state
<1>1. /\ [o EXCEPT !.state = state].session = o.session
      /\ [o EXCEPT !.state = state].kind = o.kind
      /\ [o EXCEPT !.state = state].state = state
  BY DEF TypeInv, CoreType, Ops
<1>2. \A p \in io \ {o} : p.session # o.session
  BY DEF OwnerInv, SingleOwner
<1> QED
  BY <1>1, <1>2 DEF Complete

(* A completion concerns one session, and its connection no other. *)
LEMMA CompletionFrame ==
  ASSUME ServerInv, EchoInv, NEW o \in io, NEW state, Complete(o, state),
         UNCHANGED <<m_addr, m_nOperationType, key, peer, sent, accVars, workVars>>,
         \A s \in Sessions \ {o.session} : m_buf'[s] = m_buf[s],
         \A c \in Conns \ {o.conn} : received'[c] = received[c] /\ replies'[c] = replies[c],
         received'[o.conn] <= sent[o.conn],
         IF o.kind = "recv" THEN state = "done" => Owes(o.session)' ELSE state = "done" => Even(o.session)',
         state \in {"zero", "failed"} => Gone(o.session)',
         state # "pending"
  PROVE  EchoInv'
<1> DEFINE s == o.session
<1>1. InUse(s) /\ s \in Sessions /\ m_addr[s] = o.conn /\ o.conn \in Conns /\ key[o.conn] = s
  BY OpConn, InUseIs
<1>2. ASSUME NEW t, InUse(t), t # s
      PROVE  /\ Even(t)' <=> Even(t)
             /\ Owes(t)' <=> Owes(t)
             /\ Gone(t)' <=> Gone(t)
  <2>1. t \in Sessions \ {s} /\ m_addr[t] \in Conns \ {o.conn}
    BY <1>1, <1>2, InUseIs
  <2>2. /\ m_buf'[t] = m_buf[t] /\ received'[m_addr[t]] = received[m_addr[t]]
        /\ replies'[m_addr[t]] = replies[m_addr[t]] /\ UNCHANGED <<m_addr, peer, sent>>
    BY <2>1
  <2> QED
    BY <2>2 DEF Even, Owes, Gone
<1>3. ASSUME NEW p \in io'
      PROVE  OpShows(p)'
  <2>1. CASE p \in io /\ p.session # s
    BY <1>2, <2>1 DEF InUse, OpShows, EchoInv
  <2>2. CASE p.session = s /\ p.kind = o.kind /\ p.state = state
    BY <2>2 DEF OpShows
  <2> QED
    BY <2>1, <2>2, CompletedIs DEF ServerInv
<1>4. ASSUME NEW w \in Workers
      PROVE  WorkerShows(w)'
  <2>1. CASE wpc[w] \in {"close", "handle", "send", "recv"}
    <3>1. InUse(pPerIO[w]) /\ pPerIO[w] # s
      BY <2>1 DEF InUse, ServerInv, OwnerInv, SingleOwner, Holds
    <3> QED
      BY <1>2, <3>1 DEF WorkerShows, EchoInv, workVars
  <2>2. CASE wpc[w] \notin {"close", "handle", "send", "recv"}
    BY <2>2 DEF WorkerShows, workVars
  <2> QED
    BY <2>1, <2>2
<1>5. apc' = "post" /\ sNew' # NoSock => Even(idNew)'
  <2>1. apc = "post" /\ sNew # NoSock => InUse(idNew) /\ idNew # s
    BY DEF InUse, ServerInv, OwnerInv, SingleOwner
  <2> QED
    BY <1>2, <2>1 DEF EchoInv, accVars
<1>6. \A c \in Conns : key'[c] = INVALID => received'[c] = 0 /\ replies'[c] = <<>>
  BY <1>1, ConstantsAssumption DEF EchoInv, Sessions, INVALID
<1>7. \A c \in Conns : received'[c] <= sent'[c]
  BY DEF EchoInv
<1> QED
  BY <1>3, <1>4, <1>5, <1>6, <1>7 DEF EchoInv

LEMMA CompletionEcho ==
  ASSUME ServerInv, EchoInv, NEW o \in io, Completion(o)
  PROVE  EchoInv'
<1> DEFINE s == o.session
           c == o.conn
<1> USE DEF idVars, sessVars, tcpVars
<1>1. s \in Sessions /\ m_addr[s] = c /\ c \in Conns
  BY OpConn, InUseIs
<1>2. /\ m_buf \in [Sessions -> Chunks]
      /\ received \in [Conns -> 0 .. MaxChunks] /\ sent \in [Conns -> 0 .. MaxChunks]
      /\ replies \in [Conns -> Seq(Chunks)] /\ MaxChunks \in Nat
  BY ConstantsAssumption DEF ServerInv, TypeInv, CoreType, EchoType
<1>3. OpShows(o) /\ received[c] <= sent[c]
  BY <1>1 DEF EchoInv
<1>4. CASE RecvData(o)
  <2>1. /\ received' = [received EXCEPT ![c] = @ + 1] /\ received[c] < sent[c]
        /\ m_buf' = [m_buf EXCEPT ![s] = Chunk(c, received[c] + 1)]
        /\ UNCHANGED <<m_addr, m_nOperationType, key, peer, sent, replies, accVars, workVars>>
        /\ Complete(o, "done") /\ o.kind = "recv" /\ o.state = "pending"
    BY <1>4 DEF RecvData
  <2>2. Owes(s)'
    <3>1. received[c] = Len(replies[c])
      BY <1>1, <1>3, <2>1 DEF OpShows, Even
    <3> QED
      BY <1>1, <1>2, <2>1, <3>1 DEF Owes
  <2>3. received'[c] <= sent[c]
    BY <1>1, <1>2, <2>1
  <2> QED
    BY <1>1, <1>2, <2>1, <2>2, <2>3, CompletionFrame
<1>5. CASE RecvZero(o)
  <2>1. /\ UNCHANGED <<m_addr, m_nOperationType, m_buf, key, peer, sent, received, replies, accVars,
                       workVars>>
        /\ Complete(o, "zero") /\ o.kind = "recv" /\ o.state = "pending"
        /\ peer[c] = "shut" /\ received[c] = sent[c]
    BY <1>5 DEF RecvZero
  <2>2. Gone(s)'
    BY <1>1, <1>3, <2>1 DEF Gone, OpShows, Even
  <2> QED
    BY <1>3, <2>1, <2>2, CompletionFrame
<1>6. CASE SendDone(o)
  <2>1. /\ UNCHANGED <<m_addr, m_nOperationType, m_buf, key, peer, sent, received, accVars, workVars>>
        /\ replies' = [replies EXCEPT ![c] = Append(@, m_buf[s])]
        /\ Complete(o, "done") /\ o.kind = "send" /\ o.state = "pending"
    BY <1>6 DEF SendDone
  <2>2. Even(s)'
    <3>1. received[c] = Len(replies[c]) + 1
      BY <1>1, <1>3, <2>1 DEF OpShows, Owes
    <3>2. Len(replies'[c]) = Len(replies[c]) + 1
      BY <1>1, <1>2, <2>1
    <3> QED
      BY <1>1, <2>1, <3>1, <3>2 DEF Even
  <2> QED
    BY <1>1, <1>2, <1>3, <2>1, <2>2, CompletionFrame
<1>7. CASE OpFails(o)
  <2>1. /\ UNCHANGED <<m_addr, m_nOperationType, m_buf, key, peer, sent, received, replies, accVars,
                       workVars>>
        /\ Complete(o, "failed") /\ peer[c] = "reset"
    BY <1>7 DEF OpFails
  <2>2. Gone(s)'
    BY <1>1, <2>1 DEF Gone
  <2> QED
    BY <1>3, <2>1, <2>2, CompletionFrame
<1> QED
  BY <1>4, <1>5, <1>6, <1>7 DEF Completion

LEMMA PeersEcho ==
  ASSUME ServerInv, EchoInv, Peers \/ UNCHANGED vars
  PROVE  EchoInv'
<1> USE DEF tcpVars, accVars, workVars, sessVars
<1>1. /\ UNCHANGED <<m_addr, m_buf, m_nOperationType, key, received, replies, io, apc, idNew, sNew,
                     wpc, pPerIO>>
      /\ \A c \in Conns : \/ peer[c] = "up" /\ sent'[c] >= sent[c]
                          \/ peer'[c] = "reset" /\ sent'[c] = sent[c]
                          \/ peer'[c] = peer[c] /\ sent'[c] = sent[c]
  BY ConstantsAssumption DEF Peers, Connect, PeerSend, PeerShut, PeerReset, vars, ServerInv, TypeInv,
                             CoreType
<1>2. \A s : (Even(s)' <=> Even(s)) /\ (Owes(s)' <=> Owes(s))
  BY <1>1 DEF Even, Owes
<1>3. \A s : InUse(s) /\ Gone(s) => Gone(s)'
  BY <1>1, InUseIs DEF Gone
<1>4. \A o \in io : OpShows(o)'
  BY <1>1, <1>2, <1>3, OpConn DEF OpShows, EchoInv
<1>5. \A w \in Workers : WorkerShows(w)'
  BY <1>1, <1>2, <1>3 DEF WorkerShows, EchoInv, InUse
<1>6. \A c \in Conns : received[c] <= sent'[c]
  <2>1. received \in [Conns -> 0 .. MaxChunks] /\ sent \in [Conns -> 0 .. MaxChunks]
        /\ sent' \in [Conns -> 0 .. MaxChunks]
    BY PeersType, StutterType DEF ServerInv, TypeInv, CoreType
  <2> QED
    BY <1>1, <2>1, ConstantsAssumption DEF EchoInv
<1> QED
  BY <1>1, <1>2, <1>4, <1>5, <1>6 DEF EchoInv

LEMMA EchoInvStep ==
  ASSUME ServerInv, EchoInv, [Next]_vars
  PROVE  EchoInv'
BY AcceptEcho, WorkerEcho, CompletionEcho, PeersEcho DEF Next

LEMMA EchoInvInit == Init => EchoInv
<1> SUFFICES ASSUME Init
             PROVE  EchoInv
  OBVIOUS
<1> QED
  BY DEF Init, EchoInv, WorkerShows

--------------------------------------------------------------------------------
(* The service a client sees.  Most steps it does not see. *)
Phase == [c \in Conns |-> IF net[c] \in {"idle", "closed"} THEN net[c]
                          ELSE IF key[c] = INVALID THEN "waiting" ELSE "served"]

LEMMA Unseen ==
  ASSUME UNCHANGED <<net, key, peer, sent, replies>>
  PROVE  UNCHANGED Echo!vars
BY DEF Echo!vars

(* A step that changes the phase of one connection. *)
LEMMA PhaseChanges ==
  ASSUME NEW c \in Conns, NEW phase,
         \A d \in Conns \ {c} : net'[d] = net[d] /\ key'[d] = key[d],
         phase = IF net'[c] \in {"idle", "closed"} THEN net'[c]
                 ELSE IF key'[c] = INVALID THEN "waiting" ELSE "served"
  PROVE  Phase' = [Phase EXCEPT ![c] = phase]
BY DEF Phase

(* A connection that is closed by the accept thread has been waiting, and   *)
(* one that is closed by a worker has been served.                          *)
LEMMA AcceptSeen ==
  ASSUME ServerInv, EchoInv, Acceptor
  PROVE  Echo!Next \/ UNCHANGED Echo!vars
<1> USE DEF tcpVars
<1>0. net \in [Conns -> {"idle", "backlog", "open", "closed"}] /\ key \in [Conns -> Sessions \cup {INVALID}]
  BY DEF ServerInv, TypeInv, CoreType
<1>1. ASSUME NEW c \in Conns, NEW h \in Handles, AcceptConn(c, h)
      PROVE  UNCHANGED Echo!vars
  <2>1. net[c] = "backlog" /\ net' = [net EXCEPT ![c] = "open"]
        /\ UNCHANGED <<key, peer, sent, replies>>
    BY <1>1 DEF AcceptConn
  <2>2. Phase' = Phase
    BY <1>0, <2>1 DEF Phase
  <2> QED
    BY <2>1, <2>2 DEF Echo!vars, Phase
<1>2. ASSUME NEW c \in Conns, AcceptFails(c)
      PROVE  Echo!TurnAway(c)
  <2>1. net[c] = "backlog" /\ net' = [net EXCEPT ![c] = "closed"]
        /\ UNCHANGED <<key, peer, sent, replies>>
    BY <1>2 DEF AcceptFails
  <2>2. Phase[c] = "waiting"
    BY <2>1 DEF Phase, ServerInv, SocketInv, HandlesInv
  <2>3. Phase' = [Phase EXCEPT ![c] = "closed"]
    BY <1>0, <2>1, PhaseChanges
  <2> QED
    BY <2>1, <2>2, <2>3 DEF Echo!TurnAway, Phase
<1>3. ASSUME GetFreeId \/ Refuse \/ InitSession \/ InitFails \/ GiveBack \/ PostFirst
      PROVE  UNCHANGED Echo!vars
  <2>1. UNCHANGED <<net, key, peer, sent, replies>>
    BY <1>3 DEF GetFreeId, PopReturns, PopEmpty, ReturnInvalid, CheckTop, Increment, Refuse,
         InitSession, InitFails, GiveBack, PostFirst
  <2> QED
    BY <2>1, Unseen
<1>4. ASSUME CloseNew
      PROVE  (\E c \in Conns : Echo!TurnAway(c)) \/ UNCHANGED Echo!vars
  <2>1. CASE Open(sNew)
    <3>0. sNew # NoSock /\ saRemote \in Conns
      BY <2>1, ConstantsAssumption DEF Open, ServerInv, SocketInv, AcceptedInv
    <3> PICK c \in Conns : c = saRemote
      BY <3>0
    <3>1. owner[sNew] = c /\ key[c] = INVALID /\ net[c] = "open"
      BY <1>4, <2>1, <3>0, ConstantsAssumption
         DEF CloseNew, Open, ServerInv, SocketInv, AcceptedInv, HandlesInv
    <3>2. net' = [net EXCEPT ![c] = "closed"] /\ UNCHANGED <<key, peer, sent, replies>>
      BY <1>4, <2>1, <3>1 DEF CloseNew, closesocket
    <3>3. Phase[c] = "waiting"
      BY <3>1 DEF Phase
    <3>4. Phase' = [Phase EXCEPT ![c] = "closed"]
      BY <1>0, <3>1, <3>2, PhaseChanges
    <3>5. Echo!TurnAway(c)
      BY <3>2, <3>3, <3>4 DEF Echo!TurnAway, Phase
    <3> QED
      BY <3>1, <3>5
  <2>2. CASE ~Open(sNew)
    <3>1. UNCHANGED <<net, key, peer, sent, replies>>
      BY <1>4, <2>2 DEF CloseNew, closesocket
    <3> QED
      BY <3>1, Unseen
  <2> QED
    BY <2>1, <2>2
<1>5. ASSUME SetUp
      PROVE  (\E c \in Conns : Echo!Admit(c)) \/ UNCHANGED Echo!vars
  <2>1. CASE Open(sNew)
    <3>0. sNew # NoSock /\ saRemote \in Conns
      BY <2>1, ConstantsAssumption DEF Open, ServerInv, SocketInv, AcceptedInv
    <3> PICK c \in Conns : c = saRemote
      BY <3>0
    <3>1. owner[sNew] = c /\ key[c] = INVALID /\ net[c] = "open"
      BY <1>5, <2>1, <3>0, ConstantsAssumption
         DEF SetUp, Open, ServerInv, SocketInv, AcceptedInv, HandlesInv
    <3>2. key' = [key EXCEPT ![c] = idNew] /\ UNCHANGED <<net, peer, sent, replies>>
      BY <1>5, <2>1, <3>1 DEF SetUp
    <3>3. idNew # INVALID
      BY <1>5, ConstantsAssumption DEF SetUp, ServerInv, TypeInv, CoreType, Sessions, INVALID
    <3>4. Phase[c] = "waiting"
      BY <3>1 DEF Phase
    <3>5. Phase' = [Phase EXCEPT ![c] = "served"]
      BY <1>0, <3>1, <3>2, <3>3, PhaseChanges
    <3>6. Echo!Admit(c)
      BY <3>2, <3>4, <3>5 DEF Echo!Admit, Phase
    <3> QED
      BY <3>1, <3>6
  <2>2. CASE ~Open(sNew)
    <3>1. UNCHANGED <<net, key, peer, sent, replies>>
      BY <1>5, <2>2 DEF SetUp
    <3> QED
      BY <3>1, Unseen
  <2> QED
    BY <2>1, <2>2
<1> QED
  BY <1>1, <1>2, <1>3, <1>4, <1>5 DEF Acceptor, Accept, Echo!Next

LEMMA WorkerSeen ==
  ASSUME ServerInv, EchoInv, NEW w \in Workers, ServerThread(w)
  PROVE  Echo!Next \/ UNCHANGED Echo!vars
<1> USE DEF tcpVars
<1>1. CASE CloseSocket(w)
  <2> DEFINE s == pPerIO[w]
  <2>1. InUse(s) /\ pPerHandle[w] = s /\ wpc[w] = "close" /\ closesocket(m_s[s])
        /\ UNCHANGED <<key, peer, sent, replies>>
    BY <1>1 DEF CloseSocket, InUse, ServerInv, SocketInv, OwnSocket, Holds
  <2> PICK c \in Conns : c = m_addr[s]
    BY <2>1, InUseIs
  <2>2. /\ s # INVALID /\ c \in Conns /\ key[c] = s /\ net[c] = "open"
        /\ m_s[s] \in Handles /\ owner[m_s[s]] = c
    BY <2>1, InUseIs
  <2>3. Open(m_s[s])
    BY <2>2, ConstantsAssumption DEF Open
  <2>4. net' = [net EXCEPT ![c] = "closed"] /\ net \in [Conns -> {"idle", "backlog", "open", "closed"}]
    BY <2>1, <2>2, <2>3 DEF closesocket, ServerInv, TypeInv, CoreType
  <2>5. Phase[c] = "served"
    BY <2>2 DEF Phase
  <2>6. \/ peer[c] = "reset"
        \/ peer[c] = "shut" /\ Len(replies[c]) = sent[c]
    <3>1. WorkerShows(w)
      BY DEF EchoInv
    <3>2. Gone(pPerIO[w])
      <4> HIDE DEF s
      <4> QED
        BY <2>1, <3>1 DEF WorkerShows
    <3>3. m_addr[pPerIO[w]] = c
      OBVIOUS
    <3> QED
      BY <3>2, <3>3 DEF Gone
  <2>7. Phase' = [Phase EXCEPT ![c] = "closed"]
    BY <2>1, <2>2, <2>4, PhaseChanges
  <2>8. Echo!HangUp(c)
    BY <2>1, <2>5, <2>6, <2>7 DEF Echo!HangUp, Phase
  <2> QED
    BY <2>2, <2>8 DEF Echo!Next
<1>2. CASE ~CloseSocket(w)
  <2>1. UNCHANGED <<net, key, peer, sent, replies>>
    BY <1>2 DEF ServerThread, Dequeue, FreeSession, UnInit, Handle, HandleRead, HandleWrite, HandlePost
  <2> QED
    BY <2>1, Unseen
<1> QED
  BY <1>1, <1>2

LEMMA CompletionSeen ==
  ASSUME ServerInv, EchoInv, NEW o \in io, Completion(o)
  PROVE  Echo!Next \/ UNCHANGED Echo!vars
<1> USE DEF tcpVars
<1>1. CASE SendDone(o)
  <2> DEFINE s == o.session
             c == o.conn
  <2>1. /\ s # INVALID /\ c \in Conns /\ m_addr[s] = c /\ key[c] = s /\ net[c] = "open"
    BY OpConn, InUseIs
  <2>2. /\ replies' = [replies EXCEPT ![c] = Append(@, m_buf[s])]
        /\ peer[c] # "reset" /\ o.kind = "send" /\ o.state = "pending"
        /\ UNCHANGED <<net, key, peer, sent>>
    BY <1>1 DEF SendDone
  <2>3. /\ received[c] = Len(replies[c]) + 1 /\ m_buf[s] = Chunk(c, received[c])
        /\ received[c] <= sent[c]
    BY <2>1, <2>2 DEF EchoInv, OpShows, Owes
  <2>4. replies[c] \in Seq(Chunks) /\ received[c] \in Nat /\ sent[c] \in Nat
    BY <2>1, ConstantsAssumption DEF ServerInv, TypeInv, CoreType, EchoType
  <2>5. Len(replies[c]) < sent[c]
    BY <2>3, <2>4
  <2>6. Phase[c] = "served" /\ Phase' = Phase
    BY <2>1, <2>2 DEF Phase
  <2>7. m_buf[s] = Echo!Chunk(c, Len(replies[c]) + 1)
    BY <2>3 DEF Chunk, Echo!Chunk
  <2>8. Echo!Reply(c)
    BY <2>2, <2>5, <2>6, <2>7 DEF Echo!Reply, Phase
  <2> QED
    BY <2>1, <2>8 DEF Echo!Next
<1>2. CASE ~SendDone(o)
  <2>1. UNCHANGED <<net, key, peer, sent, replies>>
    BY <1>2 DEF Completion, RecvData, RecvZero, OpFails
  <2> QED
    BY <2>1, Unseen
<1> QED
  BY <1>1, <1>2

LEMMA PeersSeen ==
  ASSUME ServerInv, NEW c \in Conns, Connect(c) \/ PeerSend(c) \/ PeerShut(c) \/ PeerReset(c)
  PROVE  Echo!Next
<1> USE DEF tcpVars
<1>0. net \in [Conns -> {"idle", "backlog", "open", "closed"}]
  BY DEF ServerInv, TypeInv, CoreType
<1>1. CASE Connect(c)
  <2>1. /\ net[c] = "idle" /\ net' = [net EXCEPT ![c] = "backlog"] /\ key[c] = INVALID
        /\ UNCHANGED <<key, peer, sent, replies>>
    BY <1>1 DEF Connect, ServerInv, SocketInv, HandlesInv
  <2>2. Phase[c] = "idle"
    BY <2>1 DEF Phase
  <2>3. Phase' = [Phase EXCEPT ![c] = "waiting"]
    BY <1>0, <2>1, PhaseChanges
  <2>4. Echo!Connect(c)
    BY <2>1, <2>2, <2>3 DEF Echo!Connect, Phase
  <2> QED
    BY <2>4 DEF Echo!Next
<1>2. CASE PeerSend(c) \/ PeerShut(c) \/ PeerReset(c)
  <2>1. Phase[c] \in {"waiting", "served"} /\ Phase' = Phase
    BY <1>0, <1>2 DEF PeerSend, PeerShut, PeerReset, Connected, Phase
  <2>2. Echo!PeerSend(c) \/ Echo!PeerShut(c) \/ Echo!PeerReset(c)
    BY <1>2, <2>1 DEF PeerSend, PeerShut, PeerReset, Echo!PeerSend, Echo!PeerShut, Echo!PeerReset,
         Phase
  <2> QED
    BY <2>2 DEF Echo!Next
<1> QED
  BY <1>1, <1>2

(* Whatever threads, sessions and handles serve a client, and whatever      *)
(* calls fail, it sees an echo service: its own chunks, each once and in    *)
(* order, and no hanging up before it has gone and, if it closed in good    *)
(* order, has been sent everything (net.cpp:38-143).                        *)
THEOREM ServerIsEchoService == Spec => ImplementsEcho
<1>1. Init => Echo!Init
  BY DEF Init, Echo!Init
<1>2. ServerInv /\ EchoInv /\ [Next]_vars => [Echo!Next]_(Echo!vars)
  <2>1. CASE UNCHANGED vars
    <3>1. UNCHANGED <<net, key, peer, sent, replies>>
      BY <2>1 DEF vars, tcpVars
    <3> QED
      BY <3>1, Unseen
  <2> QED
    BY <2>1, AcceptSeen, WorkerSeen, CompletionSeen, PeersSeen DEF Next, Peers
<1>3. ServerInv /\ EchoInv /\ [Next]_vars => ServerInv' /\ EchoInv'
  BY ServerInvKept, EchoInvStep
<1> QED
  BY <1>1, <1>2, <1>3, ServerInvInit, EchoInvInit, PTL DEF Spec, ImplementsEcho, Echo!Spec

--------------------------------------------------------------------------------
(***************************************************************************)
(* The accept thread and the workers as the threads of an IdManager.  What  *)
(* is out is what the counter has issued and the queue does not hold.       *)
(***************************************************************************)
IdsOut == (1 .. m_topFreeId) \ Range(m_freeIdQueue)
GetterAt == [g \in {"acceptor"} |-> IF apc \in {"pop", "top", "increment"} THEN apc ELSE "idle"]

(* The manager counts with a Cardinality of its own. *)
LEMMA IdsCardinality ==
  ASSUME NEW S
  PROVE  Ids!Cardinality(S) = Cardinality(S)
BY DEF Ids!Cardinality, Cardinality

LEMMA IdsOutBounded ==
  ASSUME CoreType
  PROVE  IsFiniteSet(IdsOut) /\ Cardinality(IdsOut) \in Nat /\ Cardinality(IdsOut) < MaxValid + 1
<1>1. m_topFreeId \in Nat /\ m_topFreeId <= MaxValid /\ MaxValid \in Nat
  BY ConstantsAssumption DEF CoreType
<1>2. IsFiniteSet(1 .. m_topFreeId) /\ Cardinality(1 .. m_topFreeId) = m_topFreeId
  BY <1>1, FS_Interval
<1>3. IdsOut \in SUBSET (1 .. m_topFreeId)
  BY DEF IdsOut
<1>4. IsFiniteSet(IdsOut) /\ Cardinality(IdsOut) <= m_topFreeId
  BY <1>2, <1>3, FS_Subset
<1>5. Cardinality(IdsOut) \in Nat
  BY <1>4, FS_CardinalityType
<1> QED
  BY <1>1, <1>4, <1>5

(* Which step of the manager each step of the server is.                    *)
LEMMA IdsUnchanged ==
  ASSUME UNCHANGED idVars, GetterAt' = GetterAt
  PROVE  UNCHANGED Ids!vars
BY DEF idVars, Ids!vars, GetterAt

LEMMA GetterMoves ==
  ASSUME NEW p, apc' = p
  PROVE  GetterAt' = [GetterAt EXCEPT !["acceptor"] =
                        IF p \in {"pop", "top", "increment"} THEN p ELSE "idle"]
BY DEF GetterAt

LEMMA IdsGiven ==
  ASSUME TypeInv, OwnerInv, NEW id \in Sessions, id \in 1 .. m_topFreeId,
         id \notin Range(m_freeIdQueue), UNCHANGED m_topFreeId,
         m_freeIdQueue' = Append(m_freeIdQueue, id), GetterAt' = GetterAt
  PROVE  Ids!Next
<1>1. Range(m_freeIdQueue') = Range(m_freeIdQueue) \cup {id}
  BY PushDistinct DEF TypeInv, CoreType, OwnerInv, SingleOwner
<1>2. id \in IdsOut /\ IdsOut' = IdsOut \ {id}
  BY <1>1 DEF IdsOut
<1>3. Ids!FreeFreeId(id)
  BY <1>2 DEF Ids!FreeFreeId, GetterAt, IdsOut
<1> QED
  BY <1>2, <1>3 DEF Ids!Next, IdsOut

LEMMA AcceptIds ==
  ASSUME TypeInv, OwnerInv, Acceptor
  PROVE  Ids!Next \/ UNCHANGED Ids!vars
<1> DEFINE g == "acceptor"
<1> USE DEF idVars
<1>1. ASSUME (\E c \in Conns, h \in Handles : AcceptConn(c, h)) \/ (\E c \in Conns : AcceptFails(c))
      PROVE  Ids!Next
  <2>1. apc = "accept" /\ apc' = "pop" /\ UNCHANGED idVars
    BY <1>1 DEF AcceptConn, AcceptFails
  <2>2. Ids!Cardinality((1 .. m_topFreeId) \ Range(m_freeIdQueue)) < MaxValid + 1
    BY IdsOutBounded, IdsCardinality DEF IdsOut, TypeInv
  <2>3. GetterAt["acceptor"] = "idle" /\ GetterAt' = [GetterAt EXCEPT !["acceptor"] = "pop"]
    BY <2>1, GetterMoves DEF GetterAt
  <2>4. Ids!Cardinality(Ids!Inside) = 0
    <3>1. Ids!Inside = {}
      BY <2>1 DEF Ids!Inside
    <3> QED
      BY <3>1, IdsCardinality, FS_EmptySet
  <2>5. Ids!Call(g)
    BY <2>1, <2>2, <2>3, <2>4 DEF Ids!Call, GetterAt
  <2> QED
    BY <2>5 DEF Ids!Next, Ids!GetFreeId
<1>2. ASSUME PopReturns
      PROVE  Ids!Next
  <2>1. /\ Head(m_freeIdQueue) \in Range(m_freeIdQueue)
        /\ Range(Tail(m_freeIdQueue)) = Range(m_freeIdQueue) \ {Head(m_freeIdQueue)}
        /\ Range(m_freeIdQueue) \subseteq 1 .. m_topFreeId
    BY <1>2, PopDistinct DEF PopReturns, TypeInv, CoreType, OwnerInv, SingleOwner, IdsIssued
  <2>2. IdsOut' = IdsOut \cup {Head(m_freeIdQueue)}
    BY <1>2, <2>1 DEF PopReturns, IdsOut
  <2>3. Ids!PopReturns(g)
    BY <1>2, <2>2, GetterMoves DEF PopReturns, Ids!PopReturns, GetterAt, IdsOut
  <2> QED
    BY <2>3 DEF Ids!Next, Ids!GetFreeId
<1>3. ASSUME PopEmpty
      PROVE  Ids!Next
  <2>1. Ids!PopEmpty(g)
    BY <1>3, GetterMoves DEF PopEmpty, Ids!PopEmpty, GetterAt
  <2> QED
    BY <2>1 DEF Ids!Next, Ids!GetFreeId
<1>4. ASSUME ReturnInvalid
      PROVE  Ids!Next
  <2>1. Ids!ReturnInvalid(g)
    BY <1>4, GetterMoves DEF ReturnInvalid, Ids!ReturnInvalid, GetterAt
  <2> QED
    BY <2>1 DEF Ids!Next, Ids!GetFreeId
<1>5. ASSUME CheckTop
      PROVE  Ids!Next
  <2>1. Ids!CheckTop(g)
    BY <1>5, GetterMoves DEF CheckTop, Ids!CheckTop, GetterAt
  <2> QED
    BY <2>1 DEF Ids!Next, Ids!GetFreeId
<1>6. ASSUME Increment
      PROVE  Ids!Next
  <2>1. m_topFreeId \in Nat /\ m_topFreeId' = m_topFreeId + 1 /\ m_topFreeId # MaxValid
    BY <1>6, ConstantsAssumption DEF Increment, TypeInv, CoreType, IncrementSafe
  <2>2. m_topFreeId + 1 \notin Range(m_freeIdQueue)
    BY <2>1 DEF OwnerInv, IdsIssued
  <2>3. IdsOut' = IdsOut \cup {m_topFreeId + 1}
    BY <1>6, <2>1, <2>2 DEF Increment, IdsOut
  <2>4. Ids!Incremented(m_topFreeId) = m_topFreeId + 1
    BY <2>1 DEF Ids!Incremented
  <2>5. Ids!Increment(g)
    BY <1>6, <2>1, <2>3, <2>4, GetterMoves DEF Increment, Ids!Increment, GetterAt, IdsOut
  <2> QED
    BY <2>5 DEF Ids!Next, Ids!GetFreeId
<1>7. ASSUME GiveBack
      PROVE  Ids!Next
  <2>1. /\ idNew \in Sessions /\ idNew \in 1 .. m_topFreeId /\ idNew \notin Range(m_freeIdQueue)
        /\ UNCHANGED m_topFreeId /\ m_freeIdQueue' = Append(m_freeIdQueue, idNew)
    BY <1>7, ConstantsAssumption
       DEF GiveBack, TypeInv, CoreType, OwnerInv, SingleOwner, IdsIssued, Sessions, INVALID
  <2>2. GetterAt' = GetterAt
    BY <1>7 DEF GiveBack, GetterAt
  <2> QED
    BY <2>1, <2>2, IdsGiven
<1>8. ASSUME Refuse \/ InitSession \/ InitFails \/ CloseNew \/ SetUp \/ PostFirst
      PROVE  UNCHANGED Ids!vars
  <2>1. UNCHANGED idVars /\ GetterAt' = GetterAt
    BY <1>8 DEF Refuse, InitSession, InitFails, CloseNew, SetUp, PostFirst, GetterAt
  <2> QED
    BY <2>1, IdsUnchanged
<1> QED
  BY <1>1, <1>2, <1>3, <1>4, <1>5, <1>6, <1>7, <1>8 DEF Acceptor, Accept, GetFreeId

LEMMA OthersIds ==
  ASSUME TypeInv, OwnerInv,
         (\E w \in Workers : ServerThread(w)) \/ (\E o \in io : Completion(o)) \/ Peers \/ UNCHANGED vars
  PROVE  Ids!Next \/ UNCHANGED Ids!vars
<1>1. ASSUME NEW w \in Workers, FreeSession(w)
      PROVE  Ids!Next
  <2>1. /\ pPerIO[w] \in Sessions /\ pPerIO[w] \in 1 .. m_topFreeId
        /\ pPerIO[w] \notin Range(m_freeIdQueue)
    BY <1>1 DEF FreeSession, TypeInv, CoreType, OwnerInv, SingleOwner, IdsIssued, Holds
  <2>2. GetterAt' = GetterAt
    BY <1>1 DEF FreeSession, accVars, GetterAt
  <2> QED
    BY <1>1, <2>1, <2>2, IdsGiven DEF FreeSession
<1>2. ASSUME \/ \E w \in Workers : ServerThread(w) /\ ~FreeSession(w)
             \/ \E o \in io : Completion(o)
             \/ Peers \/ UNCHANGED vars
      PROVE  UNCHANGED Ids!vars
  <2>1. UNCHANGED <<idVars, accVars>>
    BY <1>2 DEF ServerThread, Dequeue, CloseSocket, UnInit, Handle, HandleRead, HandleWrite,
         HandlePost, Completion, RecvData, RecvZero, SendDone, OpFails, Peers, Connect, PeerSend,
         PeerShut, PeerReset, vars
  <2>2. GetterAt' = GetterAt
    BY <2>1 DEF accVars, GetterAt
  <2> QED
    BY <2>1, <2>2, IdsUnchanged
<1> QED
  BY <1>1, <1>2

(* The server is a legal user of its id manager: one thread gets ids, and   *)
(* what is given back is out, whatever of it the accept thread has dropped  *)
(* or a failed post has lost (net.cpp:35, 108, 123; leeloo.cpp:152-175).    *)
THEOREM ServerUsesIdManager == Spec => UsesIdManager
<1>1. Init => TypeInv /\ OwnerInv
  BY TypeInit, OwnerInit
<1>2. Init => Ids!Init
  <2>1. Range(<<>>) = {} /\ 1 .. 0 = {}
    BY DEF Range
  <2> QED
    BY <2>1 DEF Init, Ids!Init
<1>3. TypeInv /\ OwnerInv /\ [Next]_vars => [Ids!Next]_(Ids!vars)
  BY AcceptIds, OthersIds DEF Next
<1> QED
  BY <1>1, <1>2, <1>3, OwnerStep, PTL DEF Spec, UsesIdManager, Ids!Spec

--------------------------------------------------------------------------------
(***************************************************************************)
(* Lost sessions.  One is lost by a post that fails: on a connection that   *)
(* was reset, which has lost no other, or by a fault.  The accept thread    *)
(* also loses the session it gives an invalid socket, so that a failed      *)
(* accept has its fault in reserve until it comes back.                     *)
(***************************************************************************)
HasHolder(s) ==
  \/ s \in Range(m_freeIdQueue) \cup {idNew}
  \/ \E o \in io : o.session = s
  \/ \E w \in Workers : Holds(w) /\ pPerIO[w] = s

AfterReset(s) == m_addr[s] \in Conns /\ key[m_addr[s]] = s /\ peer[m_addr[s]] = "reset"
LostByFault == {s \in Lost : ~AfterReset(s)}
Reserve == IF sNew = NoSock /\ apc # "accept" THEN 1 ELSE 0
Resets == {c \in Conns : peer[c] = "reset"}
NoIdYet == apc \in {"accept", "pop", "top", "increment", "close"} => idNew = INVALID

LeakInv ==
  /\ NoIdYet
  /\ Cardinality(LostByFault) + Reserve <= faults
  /\ IsFiniteSet(Resets)

LEMMA LostIsFinite == IsFiniteSet(Lost) /\ IsFiniteSet(LostByFault) /\ Cardinality(LostByFault) \in Nat
<1>1. IsFiniteSet(1 .. MaxSession - 1)
  BY FS_Interval, ConstantsAssumption
<1>2. Lost \in SUBSET (1 .. MaxSession - 1) /\ LostByFault \in SUBSET Lost
  BY DEF Lost, LostByFault
<1>3. IsFiniteSet(Lost)
  BY <1>1, <1>2, FS_Subset
<1>4. IsFiniteSet(LostByFault)
  BY <1>2, <1>3, FS_Subset
<1> QED
  BY <1>3, <1>4, FS_CardinalityType

LEMMA LostIs == \A s : s \in Lost <=> s \in 1 .. MaxSession - 1 /\ s <= m_topFreeId /\ ~HasHolder(s)
BY DEF Lost, HasHolder

(* No session is lost, and none loses its excuse. *)
LEMMA NoneLost ==
  ASSUME Lost' \subseteq Lost, \A s \in Lost' : AfterReset(s) => AfterReset(s)'
  PROVE  Cardinality(LostByFault') \in 0 .. Cardinality(LostByFault)
<1>1. LostByFault' \in SUBSET LostByFault
  BY DEF LostByFault
<1>2. IsFiniteSet(LostByFault') /\ Cardinality(LostByFault') <= Cardinality(LostByFault)
  BY <1>1, LostIsFinite, FS_Subset
<1> QED
  BY <1>2, LostIsFinite, FS_CardinalityType

(* One session is lost, with or without an excuse. *)
LEMMA OneLost ==
  ASSUME NEW x, Lost' \subseteq Lost \cup {x}, \A s \in Lost : AfterReset(s) => AfterReset(s)'
  PROVE  /\ Cardinality(LostByFault') \in 0 .. Cardinality(LostByFault) + 1
         /\ AfterReset(x)' => Cardinality(LostByFault') <= Cardinality(LostByFault)
<1>1. LostByFault' \in SUBSET (LostByFault \cup {x})
  BY DEF LostByFault
<1>2. /\ IsFiniteSet(LostByFault \cup {x})
      /\ Cardinality(LostByFault \cup {x}) <= Cardinality(LostByFault) + 1
  BY LostIsFinite, FS_AddElement
<1>3. IsFiniteSet(LostByFault') /\ Cardinality(LostByFault') <= Cardinality(LostByFault \cup {x})
  BY <1>1, <1>2, FS_Subset
<1>4. Cardinality(LostByFault') \in Nat /\ Cardinality(LostByFault \cup {x}) \in Nat
  BY <1>2, <1>3, FS_CardinalityType
<1>5. ASSUME AfterReset(x)'
      PROVE  Cardinality(LostByFault') <= Cardinality(LostByFault)
  <2>1. LostByFault' \in SUBSET LostByFault
    BY <1>1, <1>5 DEF LostByFault
  <2> QED
    BY <2>1, LostIsFinite, FS_Subset
<1> QED
  BY <1>2, <1>3, <1>4, <1>5, LostIsFinite

(* Closing a socket changes whose operations are, not which sessions have one. *)
LEMMA ClosesocketKeeps ==
  ASSUME CoreType, NEW h, closesocket(h), NEW o \in io
  PROVE  \E p \in io' : p.session = o.session
<1>1. [o EXCEPT !.state = "failed"].session = o.session
  BY DEF CoreType, Ops
<1> DEFINE mark(q) == IF q.conn = owner[h] /\ q.state = "pending"
                      THEN [q EXCEPT !.state = "failed"] ELSE q
<1>2. Open(h) => mark(o) \in io'
  BY DEF closesocket
<1>3. ~Open(h) => o \in io'
  BY DEF closesocket
<1>4. mark(o).session = o.session
  BY <1>1
<1> QED
  BY <1>2, <1>3, <1>4

LEMMA AcceptLeaks ==
  ASSUME ServerInv, LeakInv, Acceptor
  PROVE  LeakInv'
<1> USE ConstantsAssumption DEF idVars, accVars, sessVars, workVars, tcpVars
<1>0. /\ m_topFreeId \in 0 .. MaxValid /\ idNew \in INVALID .. MaxValid
      /\ m_freeIdQueue \in Seq(Sessions) /\ IsInjective(m_freeIdQueue)
      /\ faults \in Nat
  BY DEF ServerInv, TypeInv, CoreType, OwnerInv, SingleOwner
<1>1. UNCHANGED peer /\ IsFiniteSet(Resets)'
  <2>1. UNCHANGED peer
    BY DEF Acceptor, AcceptConn, AcceptFails, Accept, GetFreeId, PopReturns, PopEmpty, ReturnInvalid,
           CheckTop, Increment, Refuse, InitSession, InitFails, GiveBack, CloseNew, SetUp, PostFirst
  <2> QED
    BY <2>1 DEF LeakInv, Resets
<1>2. NoIdYet'
  BY DEF Acceptor, AcceptConn, AcceptFails, Accept, GetFreeId, PopReturns, PopEmpty, ReturnInvalid,
         CheckTop, Increment, Refuse, InitSession, InitFails, GiveBack, CloseNew, SetUp, PostFirst,
         LeakInv, NoIdYet
<1>r. Reserve \in {0, 1} /\ Reserve' \in {0, 1}
  BY DEF Reserve
<1> HIDE DEF Reserve
<1>3. ASSUME Lost' \subseteq Lost, \A s \in Lost' : AfterReset(s) => AfterReset(s)',
             faults' \in Nat, Reserve' - Reserve <= faults' - faults
      PROVE  LeakInv'
  <2>1. Cardinality(LostByFault') \in 0 .. Cardinality(LostByFault)
    BY <1>3, NoneLost
  <2>3. Cardinality(LostByFault) \in Nat /\ Cardinality(LostByFault) + Reserve <= faults
    BY LostIsFinite DEF LeakInv
  <2>4. Cardinality(LostByFault') + Reserve' <= faults'
    <3>1. ASSUME NEW m \in Nat, NEW n \in 0 .. m, NEW r \in {0, 1}, NEW q \in {0, 1},
                 NEW f \in Nat, NEW g \in Nat, m + r <= f, q - r <= g - f
          PROVE  n + q <= g
      BY <3>1
    <3> QED
      BY <1>0, <1>r, <1>3, <2>1, <2>3, <3>1
  <2> QED
    BY <1>1, <1>2, <2>4 DEF LeakInv
<1>4. NoIdYet
  BY DEF LeakInv
<1>5. CASE \/ \E c \in Conns, h \in Handles : AcceptConn(c, h)
           \/ \E c \in Conns : AcceptFails(c)
           \/ PopEmpty \/ ReturnInvalid \/ CheckTop \/ InitSession \/ InitFails \/ Refuse
  <2>1. /\ UNCHANGED <<idVars, workVars, io, m_addr, key>>
        /\ faults' \in Nat /\ Reserve' - Reserve <= faults' - faults
    BY <1>0, <1>5 DEF AcceptConn, AcceptFails, PopEmpty, ReturnInvalid, CheckTop, InitSession,
                      InitFails, Refuse, Reserve
  <2>2. idNew' = idNew \/ idNew \notin 1 .. MaxSession - 1
    BY <1>0, <1>4, <1>5 DEF AcceptConn, AcceptFails, PopEmpty, ReturnInvalid, CheckTop, InitSession,
                      InitFails, Refuse, NoIdYet, INVALID
  <2>3. \A w : Holds(w)' <=> Holds(w)
    BY <2>1 DEF Holds
  <2>4. Lost' \subseteq Lost
    BY <2>1, <2>2, <2>3 DEF Lost
  <2>5. \A s : AfterReset(s) => AfterReset(s)'
    BY <1>1, <2>1 DEF AfterReset
  <2> QED
    BY <1>3, <2>1, <2>4, <2>5
<1>6. CASE PopReturns
  <2>1. /\ UNCHANGED <<m_topFreeId, workVars, io, m_addr, key, faults, sNew>>
        /\ idNew' = Head(m_freeIdQueue) /\ Range(m_freeIdQueue') = Range(m_freeIdQueue) \ {idNew'}
        /\ Reserve' = Reserve /\ idNew = INVALID
    BY <1>0, <1>4, <1>6, PopDistinct DEF PopReturns, Reserve, NoIdYet
  <2>2. \A w : Holds(w)' <=> Holds(w)
    BY <2>1 DEF Holds
  <2>3. Lost' \subseteq Lost
    BY <2>1, <2>2 DEF Lost, INVALID
  <2>4. \A s : AfterReset(s) => AfterReset(s)'
    BY <1>1, <2>1 DEF AfterReset
  <2> QED
    BY <1>0, <1>r, <1>3, <2>1, <2>3, <2>4
<1>7. CASE Increment
  <2>1. /\ UNCHANGED <<m_freeIdQueue, workVars, io, m_addr, key, faults, sNew>>
        /\ idNew' = m_topFreeId' /\ m_topFreeId' = m_topFreeId + 1
        /\ Reserve' = Reserve /\ idNew = INVALID
    BY <1>0, <1>4, <1>7 DEF Increment, Reserve, NoIdYet, ServerInv, TypeInv, IncrementSafe
  <2>2. \A w : Holds(w)' <=> Holds(w)
    BY <2>1 DEF Holds
  <2>3. Lost' \subseteq Lost
    BY <1>0, <2>1, <2>2 DEF Lost, INVALID
  <2>4. \A s : AfterReset(s) => AfterReset(s)'
    BY <1>1, <2>1 DEF AfterReset
  <2> QED
    BY <1>0, <1>r, <1>3, <2>1, <2>3, <2>4
<1>8. CASE GiveBack
  <2>1. /\ UNCHANGED <<m_topFreeId, workVars, io, m_addr, key, faults, sNew>>
        /\ idNew \in Sessions /\ Range(m_freeIdQueue') = Range(m_freeIdQueue) \cup {idNew}
        /\ Reserve' = Reserve
    BY <1>0, <1>8, PushDistinct DEF GiveBack, Reserve, ServerInv, TypeInv, CoreType, OwnerInv, SingleOwner
  <2>2. \A w : Holds(w)' <=> Holds(w)
    BY <2>1 DEF Holds
  <2>3. Lost' \subseteq Lost
    BY <2>1, <2>2 DEF Lost
  <2>4. \A s : AfterReset(s) => AfterReset(s)'
    BY <1>1, <2>1 DEF AfterReset
  <2> QED
    BY <1>0, <1>r, <1>3, <2>1, <2>3, <2>4
<1>9. CASE CloseNew
  <2>1. /\ UNCHANGED <<idVars, workVars, idNew, m_addr, key, faults>>
        /\ closesocket(sNew) /\ Reserve' = 0
    BY <1>9 DEF CloseNew, Reserve
  <2>2. \A o \in io : \E p \in io' : p.session = o.session
    BY <2>1, ClosesocketKeeps DEF ServerInv, TypeInv
  <2>3. \A w : Holds(w)' <=> Holds(w)
    BY <2>1 DEF Holds
  <2>4. Lost' \subseteq Lost
    BY <2>1, <2>2, <2>3 DEF Lost
  <2>5. \A s : AfterReset(s) => AfterReset(s)'
    BY <1>1, <2>1 DEF AfterReset
  <2> QED
    BY <1>0, <1>r, <1>3, <2>1, <2>4, <2>5
<1>10. CASE SetUp
  <2>1. /\ UNCHANGED <<idVars, workVars, io, idNew, faults>> /\ Reserve' = Reserve
        /\ m_addr' = [m_addr EXCEPT ![idNew] = saRemote] /\ m_addr \in [Sessions -> Conns \cup {NoConn}]
        /\ key' = (IF Open(sNew) THEN [key EXCEPT ![owner[sNew]] = idNew] ELSE key)
        /\ key \in [Conns -> Sessions \cup {INVALID}]
    BY <1>10 DEF SetUp, Reserve, ServerInv, TypeInv, CoreType
  <2>2. Open(sNew) => owner[sNew] = saRemote /\ key[saRemote] = INVALID
    BY <1>10 DEF SetUp, Open, ServerInv, SocketInv, AcceptedInv
  <2>3. \A w : Holds(w)' <=> Holds(w)
    BY <2>1 DEF Holds
  <2>4. Lost' \subseteq Lost
    BY <2>1, <2>3 DEF Lost
  <2>5. ASSUME NEW s \in Lost, AfterReset(s)
        PROVE  AfterReset(s)'
    <3>1. s # idNew /\ s \in Nat /\ s # INVALID
      BY DEF Lost, INVALID
    <3>2. m_addr'[s] = m_addr[s]
      BY <2>1, <2>5, <3>1 DEF AfterReset
    <3>3. key'[m_addr[s]] = key[m_addr[s]]
      BY <2>1, <2>2, <2>5, <3>1 DEF AfterReset
    <3> QED
      BY <1>1, <2>5, <3>2, <3>3 DEF AfterReset
  <2> QED
    BY <1>0, <1>r, <1>3, <2>1, <2>4, <2>5
<1>11. CASE PostFirst
  <2>1. /\ UNCHANGED <<idVars, workVars, m_addr, key, peer>> /\ Reserve' = 0
        /\ Post(sNew, idNew, "recv") /\ apc = "post" /\ sNew \in Handles \cup {NoSock}
        /\ faults' \in Nat /\ faults' >= faults
    BY <1>0, <1>1, <1>11 DEF PostFirst, Reserve, Post, Posted, NotPosted, ServerInv, TypeInv, CoreType
  <2> DEFINE new == [session |-> idNew, conn |-> owner[sNew], kind |-> "recv", state |-> "pending"]
  <2>2. new.session = idNew
    OBVIOUS
  <2>3. io' = io \/ io' = io \cup {new}
    BY <2>1, PostSessions
  <2>4. \A w : Holds(w)' <=> Holds(w)
    BY <2>1 DEF Holds
  <2>5. \A s : AfterReset(s) => AfterReset(s)'
    BY <1>1, <2>1 DEF AfterReset
  <2> HIDE DEF new
  <2>6. Lost' \subseteq Lost \cup {idNew}
    BY <2>1, <2>3, <2>4 DEF Lost
  <2>7. CASE io' = io \cup {new}
    <3>1. Lost' \subseteq Lost
      BY <2>1, <2>2, <2>3, <2>4, <2>7 DEF Lost
    <3>2. Reserve' - Reserve <= faults' - faults
      <4>1. ASSUME NEW r \in {0, 1}, NEW f \in Nat, NEW g \in Nat, g >= f
            PROVE  0 - r <= g - f
        BY <4>1
      <4>2. Reserve' = 0 /\ faults' \in Nat /\ faults' >= faults
        BY <2>1
      <4> QED
        BY <1>0, <1>r, <4>1, <4>2
    <3> QED
      BY <1>3, <2>1, <2>5, <3>1, <3>2
  <2>8. CASE NotPosted(sNew)
    <3> PICK x : x = idNew
      OBVIOUS
    <3>1. /\ Cardinality(LostByFault') \in 0 .. Cardinality(LostByFault) + 1
          /\ AfterReset(x)' => Cardinality(LostByFault') <= Cardinality(LostByFault)
      BY <2>5, <2>6, OneLost
    <3>2. Cardinality(LostByFault) \in Nat /\ Cardinality(LostByFault) + Reserve <= faults
      BY LostIsFinite DEF LeakInv
    <3>3. sNew = NoSock => Reserve = 1
      BY <2>1 DEF Reserve
    <3>4. \/ sNew = NoSock
          \/ AfterReset(x)'
          \/ faults' = faults + 1
      BY <2>1, <2>8 DEF NotPosted, Open, AfterReset, ServerInv, SocketInv, AcceptedInv
    <3>5. Cardinality(LostByFault') + Reserve' <= faults'
      BY <1>0, <1>r, <2>1, <3>1, <3>2, <3>3, <3>4
    <3> QED
      BY <1>1, <1>2, <3>5 DEF LeakInv
  <2>9. Posted(sNew, idNew, "recv") => io' = io \cup {new}
    BY <2>1 DEF Posted, Open, ServerInv, SocketInv, AcceptedInv, TypeInv, CoreType, INVALID, Sessions, new
  <2> QED
    BY <2>1, <2>7, <2>8, <2>9 DEF Post
<1> QED
  BY <1>5, <1>6, <1>7, <1>8, <1>9, <1>10, <1>11 DEF Acceptor, Accept, GetFreeId

(* A step that keeps what the sessions are, and the accept thread out.      *)
LEMMA LeaksFrame ==
  ASSUME ServerInv, LeakInv, UNCHANGED <<accVars, m_addr, key, faults, peer>>,
         Lost' \subseteq Lost
  PROVE  LeakInv'
<1>1. \A s : AfterReset(s) => AfterReset(s)'
  BY DEF AfterReset
<1>2. Cardinality(LostByFault') \in 0 .. Cardinality(LostByFault)
  BY <1>1, NoneLost
<1>3. UNCHANGED <<Reserve, Resets>> /\ NoIdYet'
  BY DEF accVars, Reserve, Resets, LeakInv, NoIdYet
<1>4. Reserve \in {0, 1} /\ faults \in Nat
  BY ConstantsAssumption DEF Reserve, ServerInv, TypeInv, CoreType
<1>5. Cardinality(LostByFault) \in Nat /\ Cardinality(LostByFault) + Reserve <= faults
  BY LostIsFinite DEF LeakInv
<1>6. Cardinality(LostByFault') + Reserve <= faults
  BY <1>2, <1>4, <1>5
<1> QED
  BY <1>3, <1>6 DEF LeakInv

LEMMA WorkerLeaks ==
  ASSUME ServerInv, LeakInv, NEW w \in Workers, ServerThread(w)
  PROVE  LeakInv'
<1> USE ConstantsAssumption DEF idVars, accVars, sessVars, workVars, tcpVars
<1>0. /\ wpc \in [Workers -> WorkerPlaces] /\ pPerIO \in [Workers -> Sessions \cup {INVALID}]
      /\ \A v \in Workers : wpc[v] # "wait" => pPerIO[v] \in Sessions
      /\ m_freeIdQueue \in Seq(Sessions) /\ IsInjective(m_freeIdQueue)
      /\ faults \in Nat
  BY DEF ServerInv, TypeInv, CoreType, OwnerInv, SingleOwner
<1>1. ASSUME NEW o \in io, Dequeue(w, o)
      PROVE  LeakInv'
  <2>1. /\ UNCHANGED <<idVars, accVars, m_addr, key, faults, peer>>
        /\ io' = io \ {o} /\ pPerIO' = [pPerIO EXCEPT ![w] = o.session]
        /\ wpc[w] = "wait" /\ wpc'[w] \in {"close", "handle"}
        /\ \A v \in Workers \ {w} : wpc'[v] = wpc[v]
    BY <1>0, <1>1 DEF Dequeue
  <2>2. Holds(w)' /\ pPerIO'[w] = o.session
    BY <1>0, <2>1 DEF Holds
  <2>3. \A v \in Workers \ {w} : (Holds(v)' <=> Holds(v)) /\ pPerIO'[v] = pPerIO[v]
    BY <1>0, <2>1 DEF Holds
  <2>4. ~Holds(w)
    BY <2>1 DEF Holds
  <2>5. Lost' \subseteq Lost
    BY <2>1, <2>2, <2>3, <2>4 DEF Lost
  <2> QED
    BY <2>1, <2>5, LeaksFrame
<1>2. CASE CloseSocket(w) \/ HandleRead(w) \/ HandleWrite(w)
  <2>1. /\ UNCHANGED <<idVars, accVars, m_addr, key, faults, peer, pPerIO>>
        /\ Holds(w)'
        /\ \A v \in Workers \ {w} : wpc'[v] = wpc[v]
    BY <1>0, <1>2 DEF CloseSocket, HandleRead, HandleWrite, Holds
  <2>2. \A o \in io : \E p \in io' : p.session = o.session
    BY <1>2, ClosesocketKeeps DEF CloseSocket, HandleRead, HandleWrite, ServerInv, TypeInv
  <2>3. \A v \in Workers : Holds(v) => Holds(v)'
    BY <2>1 DEF Holds
  <2>4. Lost' \subseteq Lost
    BY <2>1, <2>2, <2>3 DEF Lost
  <2> QED
    BY <2>1, <2>4, LeaksFrame
<1>3. CASE FreeSession(w)
  <2>1. /\ UNCHANGED <<m_topFreeId, accVars, m_addr, key, faults, peer, pPerIO, io>>
        /\ m_freeIdQueue' = Append(m_freeIdQueue, pPerIO[w])
        /\ Holds(w) /\ pPerIO[w] \in Sessions
        /\ \A v \in Workers \ {w} : wpc'[v] = wpc[v]
    BY <1>0, <1>3 DEF FreeSession, Holds
  <2>2. Range(m_freeIdQueue') = Range(m_freeIdQueue) \cup {pPerIO[w]}
    BY <1>0, <2>1, PushDistinct DEF ServerInv, OwnerInv, SingleOwner
  <2>3. \A v \in Workers \ {w} : Holds(v) => Holds(v)'
    BY <2>1 DEF Holds
  <2>4. Lost' \subseteq Lost
    BY <2>1, <2>2, <2>3 DEF Lost
  <2> QED
    BY <2>1, <2>4, LeaksFrame
<1>4. CASE UnInit(w)
  <2>1. /\ UNCHANGED <<idVars, accVars, m_addr, key, faults, peer, io>>
        /\ ~Holds(w)
        /\ \A v \in Workers \ {w} : wpc'[v] = wpc[v] /\ pPerIO'[v] = pPerIO[v]
    BY <1>0, <1>4 DEF UnInit, Holds
  <2>2. \A v \in Workers \ {w} : Holds(v) => Holds(v)'
    BY <2>1 DEF Holds
  <2>3. Lost' \subseteq Lost
    BY <2>1, <2>2 DEF Lost
  <2> QED
    BY <2>1, <2>3, LeaksFrame
<1>5. CASE HandlePost(w)
  <2> DEFINE h == m_s[pPerHandle[w]]
             kind == wpc[w]
  <2>1. /\ UNCHANGED <<idVars, accVars, m_addr, key, peer>>
        /\ Holds(w) /\ pPerIO[w] \in Sessions /\ wpc[w] # "free"
        /\ \A v \in Workers \ {w} : wpc'[v] = wpc[v] /\ pPerIO'[v] = pPerIO[v]
    BY <1>0, <1>5 DEF HandlePost, WorkerWaits, Holds
  <2>2. Post(h, pPerIO[w], kind)
    BY <1>5 DEF HandlePost
  <2>3. /\ Open(h) /\ owner[h] = m_addr[pPerIO[w]] /\ key[owner[h]] = pPerIO[w]
        /\ m_addr[pPerIO[w]] \in Conns
    BY <2>1, ConstantsAssumption
       DEF ServerInv, SocketInv, OwnSocket, Attached, Open, TypeInv, CoreType
  <2> PICK x : x = pPerIO[w]
    OBVIOUS
  <2>4. \A v \in Workers \ {w} : Holds(v) => Holds(v)'
    BY <2>1 DEF Holds
  <2>5. CASE Posted(h, pPerIO[w], kind)
    <3> DEFINE new == [session |-> x, conn |-> owner[h], kind |-> kind, state |-> "pending"]
    <3>1. io' = io \cup {new} /\ UNCHANGED faults
      BY <2>1, <2>3, <2>5 DEF Posted, Sessions, INVALID
    <3>2. new.session = x
      OBVIOUS
    <3> HIDE DEF new
    <3>3. Lost' \subseteq Lost
      BY <2>1, <2>4, <3>1, <3>2 DEF Lost
    <3> QED
      BY <2>1, <3>1, <3>3, LeaksFrame
  <2>6. CASE NotPosted(h)
    <3>1. Lost' \subseteq Lost \cup {x} /\ UNCHANGED io
      BY <2>1, <2>4, <2>6 DEF Lost, NotPosted
    <3>2. \A s : AfterReset(s) => AfterReset(s)'
      BY <2>1 DEF AfterReset
    <3>3. /\ Cardinality(LostByFault') \in 0 .. Cardinality(LostByFault) + 1
          /\ AfterReset(x)' => Cardinality(LostByFault') <= Cardinality(LostByFault)
      BY <3>1, <3>2, OneLost
    <3>4. \/ UNCHANGED faults /\ AfterReset(x)'
          \/ faults' = faults + 1
      BY <2>1, <2>3, <2>6 DEF NotPosted, AfterReset
    <3>5. UNCHANGED <<Reserve, Resets>> /\ NoIdYet'
      BY <2>1 DEF Reserve, Resets, LeakInv, NoIdYet
    <3>6. Cardinality(LostByFault) \in Nat /\ Cardinality(LostByFault) + Reserve <= faults
      BY LostIsFinite DEF LeakInv
    <3>7. Reserve \in {0, 1}
      BY DEF Reserve
    <3>8. Cardinality(LostByFault') + Reserve <= faults'
      BY <1>0, <3>3, <3>4, <3>6, <3>7
    <3> QED
      BY <3>5, <3>8 DEF LeakInv
  <2> QED
    BY <2>2, <2>5, <2>6 DEF Post
<1> QED
  BY <1>1, <1>2, <1>3, <1>4, <1>5 DEF ServerThread, Handle

LEMMA EnvironmentLeaks ==
  ASSUME ServerInv, LeakInv,
         (\E o \in io : Completion(o)) \/ Peers \/ UNCHANGED vars
  PROVE  LeakInv'
<1> USE DEF idVars, accVars, sessVars, workVars, tcpVars
<1>1. ASSUME NEW o \in io, Completion(o)
      PROVE  LeakInv'
  <2>1. /\ UNCHANGED <<idVars, accVars, workVars, m_addr, key, faults, peer>>
        /\ \E state : Complete(o, state)
    BY <1>1 DEF Completion, RecvData, RecvZero, SendDone, OpFails
  <2>2. PICK state : Complete(o, state)
    BY <2>1
  <2>3. [o EXCEPT !.state = state].session = o.session
    BY DEF ServerInv, TypeInv, CoreType, Ops
  <2>4. \A q \in io : \E p \in io' : p.session = q.session
    BY <2>2, <2>3 DEF Complete
  <2>5. \A v : Holds(v)' <=> Holds(v)
    BY <2>1 DEF Holds
  <2>6. Lost' \subseteq Lost
    BY <2>1, <2>4, <2>5 DEF Lost
  <2> QED
    BY <2>1, <2>6, LeaksFrame
<1>2. ASSUME Peers \/ UNCHANGED vars
      PROVE  LeakInv'
  <2>1. UNCHANGED <<idVars, accVars, workVars, m_addr, key, faults, io>>
    BY <1>2 DEF Peers, Connect, PeerSend, PeerShut, PeerReset, vars
  <2>2. \E c : \A d \in Conns \ {c} : peer'[d] = peer[d]
    <3>1. peer' = peer \/ \E c \in Conns : \E p : peer' = [peer EXCEPT ![c] = p]
      BY <1>2 DEF Peers, Connect, PeerSend, PeerShut, PeerReset, vars
    <3> QED
      BY <3>1 DEF ServerInv, TypeInv, CoreType
  <2>3. \A c \in Conns : peer[c] = "reset" => peer'[c] = "reset"
    BY <1>2 DEF Peers, Connect, PeerSend, PeerShut, PeerReset, vars, ServerInv, TypeInv, CoreType
  <2>4. \A v : Holds(v)' <=> Holds(v)
    BY <2>1 DEF Holds
  <2>5. Lost' = Lost
    BY <2>1, <2>4 DEF Lost
  <2>6. \A s : AfterReset(s) => AfterReset(s)'
    BY <2>1, <2>3 DEF AfterReset
  <2>7. Cardinality(LostByFault') \in 0 .. Cardinality(LostByFault)
    BY <2>5, <2>6, NoneLost
  <2>8. IsFiniteSet(Resets')
    <3>1. PICK c : \A d \in Conns \ {c} : peer'[d] = peer[d]
      BY <2>2
    <3>2. Resets' \in SUBSET (Resets \cup {c})
      BY <3>1 DEF Resets
    <3>3. IsFiniteSet(Resets \cup {c})
      BY FS_AddElement DEF LeakInv
    <3> QED
      BY <3>2, <3>3, FS_Subset
  <2>9. UNCHANGED Reserve /\ NoIdYet'
    BY <2>1 DEF Reserve, LeakInv, NoIdYet
  <2>10. Reserve \in {0, 1} /\ faults \in Nat
    BY ConstantsAssumption DEF Reserve, ServerInv, TypeInv, CoreType
  <2>11. Cardinality(LostByFault) \in Nat /\ Cardinality(LostByFault) + Reserve <= faults
    BY LostIsFinite DEF LeakInv
  <2>12. Cardinality(LostByFault') + Reserve <= faults
    BY <2>7, <2>10, <2>11
  <2> QED
    BY <2>1, <2>8, <2>9, <2>12 DEF LeakInv
<1> QED
  BY <1>1, <1>2

LEMMA LeaksInit ==
  ASSUME Init
  PROVE  LeakInv
<1>1. Lost = {}
  BY ConstantsAssumption DEF Init, Lost
<1>2. LostByFault = {} /\ Resets = {} /\ Reserve = 0
  BY <1>1 DEF LostByFault, Init, Resets, Reserve
<1> QED
  BY <1>2, FS_EmptySet DEF Init, LeakInv, NoIdYet, INVALID

(* Two sessions lost after resets had two connections. *)
LEMMA ResetsBound ==
  ASSUME LeakInv, faults \in Nat
  PROVE  LeaksBounded
<1> DEFINE L == Lost \ LostByFault
           f == [s \in L |-> m_addr[s]]
<1>1. f \in Injection(L, Resets)
  <2>1. \A s \in L : AfterReset(s)
    BY DEF LostByFault
  <2>2. f \in [L -> Resets]
    BY <2>1 DEF AfterReset, Resets
  <2>3. \A s, t \in L : f[s] = f[t] => s = t
    BY <2>1 DEF AfterReset
  <2> QED
    BY <2>2, <2>3 DEF Injection, IsInjective
<1>2. IsFiniteSet(L) /\ Cardinality(L) <= Cardinality(Resets)
  BY <1>1, FS_Injection DEF LeakInv
<1>3. Cardinality(L) = Cardinality(Lost) - Cardinality(Lost \cap LostByFault)
  BY LostIsFinite, FS_Difference
<1>4. Lost \cap LostByFault = LostByFault
  BY DEF LostByFault
<1>5. Cardinality(LostByFault) <= faults
  <2>1. Reserve \in {0, 1}
    BY DEF Reserve
  <2> QED
    BY <2>1, LostIsFinite DEF LeakInv
<1>6. Cardinality(L) \in Nat /\ Cardinality(Resets) \in Nat /\ Cardinality(Lost) \in Nat
  BY <1>2, LostIsFinite, FS_CardinalityType DEF LeakInv
<1> HIDE DEF L
<1>7. Cardinality(Lost) <= faults + Cardinality(Resets)
  BY <1>2, <1>3, <1>4, <1>5, <1>6, LostIsFinite
<1> QED
  BY <1>7 DEF LeaksBounded, Resets

(* Posts whose failure nobody looks at are the only leak of sessions, and   *)
(* each loses one: all others are in the queue or in use, however accepts   *)
(* and allocations fail and connections end (net.cpp:88, 99, 141, 206).     *)
THEOREM FewSessionsLeak == Spec => []LeaksBounded
<1>1. Init => ServerInv /\ LeakInv
  BY ServerInvInit, LeaksInit
<1>2. ServerInv /\ LeakInv /\ [Next]_vars => ServerInv' /\ LeakInv'
  BY ServerInvKept, AcceptLeaks, WorkerLeaks, EnvironmentLeaks DEF Next
<1>3. ServerInv /\ LeakInv => LeaksBounded
  BY ResetsBound, ConstantsAssumption DEF ServerInv, TypeInv, CoreType
<1> QED
  BY <1>1, <1>2, <1>3, PTL DEF Spec

--------------------------------------------------------------------------------
(***************************************************************************)
(* The web server.  Its own Handle keeps the ownership of sessions and the  *)
(* operation types, whatever its second close of a socket disturbs.         *)
(***************************************************************************)
WebInv == TypeInv /\ OwnerInv /\ TypeTold

LEMMA WebInvInit == WebInit => WebInv
  BY TypeInit, OwnerInit DEF WebInit, WebInv, Init, TypeTold, RightOp

(* What the steps of Handle do that neither post nor close.                 *)
Answers(w) ==
  AnswerPage(w) \/ AnswerBad(w) \/ AnswerPartial(w) \/ SendNext(w) \/ AllSent(w) \/ SendFails(w)

LEMMA AnswersChange ==
  ASSUME TypeInv, NEW w \in Workers, Answers(w)
  PROVE  /\ Holds(w) /\ wpc'[w] \in {"send", "recv"}
         /\ faults' \in 0 .. MaxFaults
         /\ UNCHANGED <<idVars, accVars, m_bInit, m_s, m_addr, pPerHandle, pPerIO, io, owner, key,
                        net, tcpVars>>
         /\ \/ /\ m_nOperationType' = [m_nOperationType EXCEPT ![pPerIO[w]] = "WRITE"]
               /\ wpc' = [wpc EXCEPT ![w] = "send"]
            \/ /\ m_nOperationType' = [m_nOperationType EXCEPT ![pPerIO[w]] = "READ"]
               /\ wpc' = [wpc EXCEPT ![w] = "recv"]
<1> USE ConstantsAssumption DEF TypeInv, CoreType, sessVars, Holds
<1>1. CASE AnswerPage(w)
  BY <1>1 DEF AnswerPage
<1>2. CASE AnswerBad(w)
  BY <1>2 DEF AnswerBad
<1>3. CASE AnswerPartial(w)
  BY <1>3 DEF AnswerPartial
<1>4. CASE SendNext(w)
  BY <1>4 DEF SendNext
<1>5. CASE AllSent(w)
  BY <1>5 DEF AllSent
<1>6. CASE SendFails(w)
  BY <1>6 DEF SendFails, NotPosted
<1> QED
  BY <1>1, <1>2, <1>3, <1>4, <1>5, <1>6 DEF Answers

LEMMA AnswersKeep ==
  ASSUME WebInv, NEW w \in Workers, Answers(w)
  PROVE  WebInv'
<1> USE DEF WebInv
<1>1. /\ Holds(w) /\ wpc'[w] \in {"send", "recv"}
      /\ faults' \in 0 .. MaxFaults
      /\ UNCHANGED <<idVars, accVars, m_bInit, m_s, m_addr, pPerHandle, pPerIO, io, owner, key,
                     net, tcpVars>>
      /\ \/ /\ m_nOperationType' = [m_nOperationType EXCEPT ![pPerIO[w]] = "WRITE"]
            /\ wpc' = [wpc EXCEPT ![w] = "send"]
         \/ /\ m_nOperationType' = [m_nOperationType EXCEPT ![pPerIO[w]] = "READ"]
            /\ wpc' = [wpc EXCEPT ![w] = "recv"]
  BY AnswersChange
<1>2. TypeInv'
  <2>1. /\ pPerIO[w] \in Sessions /\ wpc[w] # "wait"
        /\ m_nOperationType \in [Sessions -> {"NONE", "READ", "WRITE"}]
        /\ wpc \in [Workers -> WorkerPlaces]
        /\ "send" \in WorkerPlaces /\ "recv" \in WorkerPlaces
    BY <1>1 DEF TypeInv, CoreType, Holds, WorkerPlaces
  <2>2. /\ m_nOperationType' \in [Sessions -> {"NONE", "READ", "WRITE"}]
        /\ wpc' \in [Workers -> WorkerPlaces]
        /\ \A v \in Workers : wpc'[v] # "wait" => wpc[v] # "wait"
    BY <1>1, <2>1
  <2> QED
    BY <1>1, <2>2 DEF TypeInv, CoreType, IncrementSafe, idVars, accVars, tcpVars
<1>3. \A v \in Workers : Holds(v)' => Holds(v) /\ pPerIO'[v] = pPerIO[v]
  BY <1>1 DEF TypeInv, CoreType, Holds
<1>4. OwnerInv'
  BY <1>1, <1>3, OwnerFrame DEF TypeInv, accVars, OwnerInv, SingleOwner
<1>5. TypeTold'
  BY <1>1, ChosenTold DEF accVars
<1> QED
  BY <1>2, <1>4, <1>5

(* Posting a read before the socket is closed. *)
PostAndHangUp(w) == PostRecv(w) /\ hangup[w]

LEMMA PostAndHangUpKeeps ==
  ASSUME WebInv, NEW w \in Workers, PostAndHangUp(w)
  PROVE  WebInv'
<1> USE DEF WebInv
<1>1. /\ wpc[w] = "recv" /\ Holds(w)
      /\ Post(m_s[pPerHandle[w]], pPerIO[w], "recv")
      /\ wpc' = [wpc EXCEPT ![w] = "hangup"]
      /\ UNCHANGED <<idVars, accVars, sessVars, pPerHandle, pPerIO, owner, key, net, tcpVars>>
  BY DEF PostAndHangUp, PostRecv, Holds
<1>2. /\ io' \subseteq Ops /\ \A o \in io' : key[o.conn] \in Sessions
      /\ faults' \in 0 .. MaxFaults
  <2>1. m_s[pPerHandle[w]] \in Handles \cup {NoSock} /\ pPerIO[w] \in Sessions
    BY <1>1 DEF TypeInv, CoreType
  <2> QED
    BY <1>1, <2>1, PostType DEF TypeInv
<1>3. TypeInv'
  BY <1>1, <1>2
     DEF TypeInv, CoreType, IncrementSafe, idVars, accVars, sessVars, tcpVars, WorkerPlaces
<1>4. /\ ~Holds(w)' /\ wpc'[w] = "hangup"
      /\ \A v \in Workers \ {w} : wpc'[v] = wpc[v] /\ pPerIO'[v] = pPerIO[v]
      /\ \A v \in Workers \ {w} : Holds(v)' <=> Holds(v)
  BY <1>1 DEF TypeInv, CoreType, Holds
<1>5. OwnerInv'
  BY <1>1, <1>4, PostOwner DEF idVars, accVars
<1>6. TypeTold'
  BY <1>1, <1>4, PostTold DEF accVars, sessVars
<1> QED
  BY <1>3, <1>5, <1>6

(* The close that follows. *)
LEMMA HangUpKeeps ==
  ASSUME WebInv, NEW w \in Workers, HangUp(w)
  PROVE  WebInv'
<1> USE DEF WebInv
<1>1. /\ wpc[w] = "hangup"
      /\ closesocket(m_s[pPerHandle[w]])
      /\ wpc' = [wpc EXCEPT ![w] = "wait"]
      /\ pPerHandle' = [pPerHandle EXCEPT ![w] = INVALID]
      /\ pPerIO' = [pPerIO EXCEPT ![w] = INVALID]
      /\ UNCHANGED <<idVars, accVars, sessVars, key, tcpVars, faults>>
  BY DEF HangUp, WorkerWaits
<1>2. /\ owner' \in [Handles -> Conns \cup {NoConn}]
      /\ net' \in [Conns -> {"idle", "backlog", "open", "closed"}]
      /\ io' \subseteq Ops
      /\ \A o \in io' : key[o.conn] \in Sessions
  <2>1. m_s[pPerHandle[w]] \in Handles \cup {NoSock}
    BY <1>1 DEF TypeInv, CoreType
  <2> QED
    BY <1>1, <2>1, ClosesocketType DEF TypeInv
<1>3. TypeInv'
  BY <1>1, <1>2
     DEF TypeInv, CoreType, IncrementSafe, idVars, accVars, sessVars, tcpVars, WorkerPlaces
<1>4. /\ \A p \in io' : \E o \in io : p.session = o.session /\ p.conn = o.conn /\ p.kind = o.kind
      /\ \A p, q \in io' : p.session = q.session => p = q
  BY <1>1, ClosesocketSessions DEF TypeInv
<1>5. \A v \in Workers : Holds(v)' =>
        Holds(v) /\ wpc'[v] = wpc[v] /\ pPerIO'[v] = pPerIO[v]
  BY <1>1 DEF TypeInv, CoreType, Holds
<1>6. OwnerInv'
  BY <1>1, <1>4, <1>5, OwnerFrame DEF TypeInv, accVars
<1>7. TypeTold'
  BY <1>1, <1>4, <1>5, ToldFrame DEF accVars, sessVars, Holds
<1> QED
  BY <1>3, <1>6, <1>7

(* A send of nothing completes. *)
LEMMA EmptySendKeeps ==
  ASSUME WebInv, NEW o \in io, EmptySendDone(o)
  PROVE  WebInv'
<1> USE DEF WebInv
<1>1. /\ Complete(o, "zero")
      /\ UNCHANGED <<idVars, accVars, sessVars, workVars, owner, key, net, tcpVars, faults>>
  BY DEF EmptySendDone
<1>2. io' \subseteq Ops /\ \A p \in io' : key[p.conn] \in Sessions
  BY <1>1, CompleteType DEF TypeInv
<1>3. TypeInv'
  BY <1>1, <1>2
     DEF TypeInv, CoreType, IncrementSafe, idVars, accVars, sessVars, workVars, tcpVars
<1>4. /\ \A p \in io' : \E q \in io : p.session = q.session /\ p.conn = q.conn /\ p.kind = q.kind
      /\ \A p, q \in io' : p.session = q.session => p = q
  BY <1>1, CompleteSessions DEF TypeInv
<1>5. OwnerInv'
  BY <1>1, <1>4, OwnerFrame DEF TypeInv, accVars, workVars, Holds
<1>6. TypeTold'
  BY <1>1, <1>4, ToldFrame DEF accVars, sessVars, workVars
<1> QED
  BY <1>3, <1>5, <1>6

(* Everything else is a step of NetServer. *)
LEMMA WebStepIs ==
  ASSUME [WebNext]_allVars
  PROVE  \/ Acceptor \/ Peers \/ UNCHANGED vars
         \/ \E w \in Workers : ServerThread(w)
         \/ \E o \in io : Completion(o) \/ EmptySendDone(o)
         \/ \E w \in Workers : Answers(w) \/ PostAndHangUp(w) \/ HangUp(w)
<1>1. CASE WebAcceptor
  BY <1>1 DEF WebAcceptor
<1>2. ASSUME NEW w \in Workers, NEW o \in io, WebDequeue(w, o)
      PROVE  ServerThread(w)
  BY <1>2 DEF WebDequeue, ServerThread
<1>3. ASSUME NEW w \in Workers, WebClose(w)
      PROVE  ServerThread(w)
  BY <1>3 DEF WebClose, ServerThread
<1>4. ASSUME NEW w \in Workers, WebHandle(w)
      PROVE  ServerThread(w) \/ Answers(w) \/ PostAndHangUp(w) \/ HangUp(w)
  <2>1. CASE PostSend(w)
    <3>1. HandlePost(w)
      BY <2>1 DEF PostSend, HandlePost, Post
    <3> QED
      BY <3>1 DEF ServerThread, Handle
  <2>2. CASE PostRecv(w) /\ ~hangup[w]
    <3>1. HandlePost(w)
      BY <2>2 DEF PostRecv, HandlePost
    <3> QED
      BY <3>1 DEF ServerThread, Handle
  <2>3. CASE PostRecv(w) /\ hangup[w]
    BY <2>3 DEF PostAndHangUp
  <2> QED
    BY <1>4, <2>1, <2>2, <2>3 DEF WebHandle, Answers
<1>5. ASSUME NEW o \in io, WebCompletion(o)
      PROVE  Completion(o) \/ EmptySendDone(o)
  BY <1>5 DEF WebCompletion, Completion
<1>6. CASE WebPeers
  BY <1>6, WebAssumption DEF WebPeers, Peers
<1>7. CASE UNCHANGED allVars
  BY <1>7 DEF allVars
<1> QED
  BY <1>1, <1>2, <1>3, <1>4, <1>5, <1>6, <1>7 DEF WebNext

LEMMA WebInvKept ==
  ASSUME WebInv, [WebNext]_allVars
  PROVE  WebInv'
<1>1. CASE Acceptor
  BY <1>1, AcceptType, AcceptOwner, AcceptTold DEF WebInv
<1>2. CASE Peers \/ UNCHANGED vars
  BY <1>2, PeersType, StutterType, EnvironmentOwner, EnvironmentTold DEF WebInv
<1>3. ASSUME NEW w \in Workers, ServerThread(w)
      PROVE  WebInv'
  BY <1>3, WorkerType, WorkerOwner, WorkerTold DEF WebInv
<1>4. ASSUME NEW o \in io, Completion(o)
      PROVE  WebInv'
  BY <1>4, CompletionType, EnvironmentOwner, EnvironmentTold DEF WebInv
<1> QED
  BY <1>1, <1>2, <1>3, <1>4, WebStepIs, EmptySendKeeps, AnswersKeep, PostAndHangUpKeeps, HangUpKeeps

(* No lock is needed around the web server's Handle either: no session is   *)
(* ever in two hands, though a worker that has posted a read still uses the *)
(* session to close its socket, and whatever it then closes                 *)
(* (web.cpp:346-444, net.cpp:33-73).                                        *)
THEOREM WebSessionsHaveSingleOwners == WebSpec => []SingleOwner
<1>1. WebInv => SingleOwner
  BY DEF WebInv, OwnerInv
<1> QED
  BY <1>1, WebInvInit, WebInvKept, PTL DEF WebSpec

(* The operation type tells which operation is outstanding also on the ways *)
(* out of WebServer::Handle on which a send has failed or a request is not  *)
(* complete (web.cpp:350-442).                                              *)
THEOREM WebOperationTypeIsRight == WebSpec => []RightOp
<1>1. WebInv => RightOp
  BY DEF WebInv, TypeTold
<1> QED
  BY <1>1, WebInvInit, WebInvKept, PTL DEF WebSpec

--------------------------------------------------------------------------------
(***************************************************************************)
(* What is in the buffers of the web server.  That a response is made for a *)
(* request, and not for a piece of an earlier response which the same       *)
(* buffer still holds, needs the operation types: a worker comes to Handle  *)
(* with the type READ only by a read that has got something.                *)
(***************************************************************************)
Responses == [request : Chunks, len : 0 .. MaxPieces, pos : 0 .. MaxPieces]

WebType ==
  /\ m_buf \in [Sessions -> Chunks \cup Pieces]
  /\ m_dataSendTemp \in [Sessions -> Responses]
  /\ hangup \in [Workers -> BOOLEAN]
  /\ \A w \in Workers : hangup[w] => wpc[w] \in {"recv", "hangup"}

ReadInv ==
  /\ \A o \in io : o.kind = "recv" /\ o.state = "done" => m_buf[o.session] \in Chunks
  /\ \A w \in Workers :
       wpc[w] = "handle" /\ m_nOperationType[pPerIO[w]] = "READ" => m_buf[pPerIO[w]] \in Chunks

WebBuffers == WebType /\ ReadInv

LEMMA WebBuffersInit == WebInit => WebBuffers
<1> SUFFICES ASSUME WebInit
             PROVE  WebBuffers
  OBVIOUS
<1>1. NoChunk \in Chunks
  BY ConstantsAssumption DEF NoChunk, Chunks
<1>2. [request |-> NoChunk, len |-> 0, pos |-> 0] \in Responses
  BY <1>1, WebAssumption DEF Responses
<1> QED
  BY <1>1, <1>2 DEF WebInit, Init, WebBuffers, WebType, ReadInv

(* A step that leaves the buffers and the types of the operations alone.    *)
LEMMA ReadFrame ==
  ASSUME WebBuffers, UNCHANGED <<m_buf, m_nOperationType>>,
         \A p \in io' : p.state = "done" =>
           \E o \in io : p.session = o.session /\ p.kind = o.kind /\ o.state = "done",
         \A w \in Workers : wpc'[w] = "handle" => wpc[w] = "handle" /\ pPerIO'[w] = pPerIO[w]
  PROVE  ReadInv'
BY DEF WebBuffers, ReadInv

(* What closing does to the state of operations. *)
LEMMA ClosesocketDone ==
  ASSUME CoreType, NEW h, closesocket(h)
  PROVE  \A p \in io' : p.state = "done" => p \in io
<1>1. CASE Open(h)
  <2>1. ASSUME NEW p \in io', p.state = "done"
        PROVE  p \in io
    <3>1. PICK o \in io : p = IF o.conn = owner[h] /\ o.state = "pending"
                             THEN [o EXCEPT !.state = "failed"] ELSE o
      BY <1>1 DEF closesocket
    <3>2. [o EXCEPT !.state = "failed"].state = "failed"
      BY DEF CoreType, Ops
    <3> QED
      BY <2>1, <3>1, <3>2
  <2> QED
    BY <2>1
<1>2. CASE ~Open(h)
  BY <1>2 DEF closesocket
<1> QED
  BY <1>1, <1>2

LEMMA PostDone ==
  ASSUME NEW h, NEW s, NEW kind, Post(h, s, kind)
  PROVE  \A p \in io' : p.state = "done" => p \in io
BY PostSessions

LEMMA CompleteDone ==
  ASSUME CoreType, NEW o \in io, NEW state \in {"zero", "failed"}, Complete(o, state)
  PROVE  \A p \in io' : p.state = "done" => p \in io
<1>1. [o EXCEPT !.state = state].state = state
  BY DEF CoreType, Ops
<1> QED
  BY <1>1 DEF Complete

LEMMA AcceptBuffers ==
  ASSUME WebInv, WebBuffers, WebAcceptor
  PROVE  WebBuffers'
<1> USE DEF WebInv, WebAcceptor, TypeInv
<1>1. UNCHANGED <<m_buf, webVars, wpc, pPerIO>>
  BY DEF Acceptor, Accept, GetFreeId, AcceptConn, AcceptFails, PopReturns, PopEmpty,
         ReturnInvalid, CheckTop, Increment, Refuse, InitSession, InitFails, GiveBack,
         CloseNew, SetUp, PostFirst, sessVars, workVars
<1>2. WebType'
  BY <1>1 DEF WebBuffers, WebType, webVars
<1>3. \A p \in io' : p.state = "done" => p \in io
  <2>1. CASE CloseNew
    BY <2>1, ClosesocketDone DEF CloseNew
  <2>2. CASE PostFirst
    BY <2>2, PostDone DEF PostFirst
  <2>3. CASE ~CloseNew /\ ~PostFirst
    BY <2>3 DEF Acceptor, Accept, GetFreeId, AcceptConn, AcceptFails, PopReturns, PopEmpty,
         ReturnInvalid, CheckTop, Increment, Refuse, InitSession, InitFails, GiveBack, SetUp
  <2> QED
    BY <2>1, <2>2, <2>3
<1>4. CASE SetUp
  <2>1. /\ m_nOperationType' = [m_nOperationType EXCEPT ![idNew] = "READ"]
        /\ m_nOperationType \in [Sessions -> {"NONE", "READ", "WRITE"}]
    BY <1>4 DEF SetUp, CoreType
  <2>2. \A w \in Workers : wpc[w] = "handle" => pPerIO[w] # idNew /\ pPerIO[w] \in Sessions
    BY DEF OwnerInv, SingleOwner, Holds, CoreType
  <2>3. ReadInv'
    BY <1>1, <1>3, <2>1, <2>2 DEF WebBuffers, ReadInv
  <2> QED
    BY <1>2, <2>3 DEF WebBuffers
<1>5. CASE ~SetUp
  <2>1. UNCHANGED m_nOperationType
    BY <1>5 DEF Acceptor, Accept, GetFreeId, AcceptConn, AcceptFails, PopReturns, PopEmpty,
         ReturnInvalid, CheckTop, Increment, Refuse, InitSession, InitFails, GiveBack,
         CloseNew, PostFirst, sessVars
  <2>2. ReadInv'
    BY <1>1, <1>3, <2>1, ReadFrame
  <2> QED
    BY <1>2, <2>2 DEF WebBuffers
<1> QED
  BY <1>4, <1>5

LEMMA DequeueBuffers ==
  ASSUME WebInv, WebBuffers, NEW w \in Workers, NEW o \in io, WebDequeue(w, o)
  PROVE  WebBuffers'
<1> USE DEF WebInv, WebDequeue, TypeInv
<1>1. /\ UNCHANGED <<m_buf, m_nOperationType, webVars>>
      /\ io' = io \ {o}
      /\ wpc[w] = "wait" /\ pPerIO'[w] = o.session
      /\ \A v \in Workers \ {w} : wpc'[v] = wpc[v] /\ pPerIO'[v] = pPerIO[v]
      /\ wpc'[w] = "handle" => o.state # "failed" /\ o.state # "pending"
           /\ ~(o.state = "zero" /\ m_nOperationType[o.session] \in {"READ", "WRITE"})
  BY DEF Dequeue, CoreType, sessVars
<1>2. WebType'
  BY <1>1 DEF WebBuffers, WebType, webVars
<1>3. m_nOperationType[o.session] = IF o.kind = "recv" THEN "READ" ELSE "WRITE"
  BY DEF TypeTold, RightOp
<1>4. o.state \in {"pending", "done", "zero", "failed"} /\ o.kind \in {"recv", "send"}
  BY DEF CoreType, Ops
<1>5. wpc'[w] = "handle" /\ m_nOperationType[o.session] = "READ" => m_buf[o.session] \in Chunks
  BY <1>1, <1>3, <1>4 DEF WebBuffers, ReadInv
<1>6. ReadInv'
  BY <1>1, <1>5 DEF WebBuffers, ReadInv
<1> QED
  BY <1>2, <1>6 DEF WebBuffers

LEMMA CloseBuffers ==
  ASSUME WebInv, WebBuffers, NEW w \in Workers, WebClose(w)
  PROVE  WebBuffers'
<1> USE DEF WebInv, WebClose, TypeInv
<1>1. /\ UNCHANGED <<m_buf, m_nOperationType, webVars>>
      /\ \A v \in Workers : wpc'[v] = "handle" => wpc[v] = "handle" /\ pPerIO'[v] = pPerIO[v]
      /\ wpc[w] \notin {"recv", "hangup"} /\ \A v \in Workers \ {w} : wpc'[v] = wpc[v]
  BY DEF CloseSocket, FreeSession, UnInit, CoreType, sessVars
<1>2. WebType'
  BY <1>1 DEF WebBuffers, WebType, webVars
<1>3. \A p \in io' : p.state = "done" => p \in io
  <2>1. CASE CloseSocket(w)
    BY <2>1, ClosesocketDone DEF CloseSocket
  <2>2. CASE FreeSession(w) \/ UnInit(w)
    BY <2>2 DEF FreeSession, UnInit
  <2> QED
    BY <2>1, <2>2
<1>4. ReadInv'
  BY <1>1, <1>3, ReadFrame
<1> QED
  BY <1>2, <1>4 DEF WebBuffers

(* A response of which a buffer is read. *)
LEMMA ReadPieceTypes ==
  ASSUME WebType, NEW s \in Sessions, NEW data \in Responses, ReadPiece(s, data)
  PROVE  /\ m_buf' \in [Sessions -> Chunks \cup Pieces]
         /\ m_dataSendTemp' \in [Sessions -> Responses]
         /\ \A v \in Sessions \ {s} : m_buf'[v] = m_buf[v]
<1> DEFINE piece == Piece(data.request, data.pos + 1, data.len)
           rest  == [data EXCEPT !.pos = @ + 1]
<1>1. /\ data.request \in Chunks /\ data.len \in 0 .. MaxPieces /\ data.pos \in 0 .. MaxPieces
      /\ data.pos < data.len /\ MaxPieces \in Nat
  BY WebAssumption DEF Responses, ReadPiece
<1>2. data.pos + 1 \in 1 .. MaxPieces /\ data.len \in 1 .. MaxPieces
  BY <1>1
<1>3. piece \in Pieces
  BY <1>1, <1>2 DEF Piece, Pieces, Chunks
<1>4. rest \in Responses
  BY <1>2 DEF Responses
<1>5. m_buf' = [m_buf EXCEPT ![s] = piece] /\ m_dataSendTemp' = [m_dataSendTemp EXCEPT ![s] = rest]
  BY DEF ReadPiece
<1> HIDE DEF piece, rest
<1> QED
  BY <1>3, <1>4, <1>5 DEF WebType

LEMMA AnswersBuffers ==
  ASSUME WebInv, WebBuffers, NEW w \in Workers, Answers(w)
  PROVE  WebBuffers'
<1> DEFINE s == pPerIO[w]
<1>1. /\ s \in Sessions /\ Holds(w)
      /\ UNCHANGED <<pPerIO, io>>
      /\ wpc'[w] \in {"send", "recv"} /\ \A v \in Workers \ {w} : wpc'[v] = wpc[v]
      /\ \A v \in Sessions \ {s} : m_nOperationType'[v] = m_nOperationType[v]
      /\ wpc' \in [Workers -> WorkerPlaces]
  <2>1. "send" \in WorkerPlaces /\ "recv" \in WorkerPlaces
    BY DEF WorkerPlaces
  <2>2. s \in Sessions /\ Holds(w)
    BY AnswersChange DEF WebInv, TypeInv, CoreType, Holds
  <2>3. /\ m_nOperationType \in [Sessions -> {"NONE", "READ", "WRITE"}]
        /\ wpc \in [Workers -> WorkerPlaces]
    BY DEF WebInv, TypeInv, CoreType
  <2> QED
    BY <2>1, <2>2, <2>3, AnswersChange DEF WebInv
<1>2. /\ \A o \in io : o.session # s /\ o.session \in Sessions
      /\ \A v \in Workers \ {w} : wpc[v] = "handle" => pPerIO[v] # s /\ pPerIO[v] \in Sessions
  BY <1>1 DEF WebInv, TypeInv, CoreType, OwnerInv, SingleOwner, Holds, Ops
<1>3. /\ m_buf' \in [Sessions -> Chunks \cup Pieces]
      /\ m_dataSendTemp' \in [Sessions -> Responses]
      /\ \A v \in Sessions \ {s} : m_buf'[v] = m_buf[v]
  <2>1. CASE AnswerPage(w)
    <3>1. PICK n \in 1 .. MaxPieces : ReadPiece(s, [request |-> m_buf[s], len |-> n, pos |-> 0])
      BY <2>1 DEF AnswerPage
    <3>2. m_buf[s] \in Chunks
      BY <2>1 DEF AnswerPage, WebBuffers, ReadInv
    <3>3. [request |-> m_buf[s], len |-> n, pos |-> 0] \in Responses
      BY <3>2, WebAssumption DEF Responses
    <3> QED
      BY <1>1, <3>1, <3>3, ReadPieceTypes DEF WebBuffers
  <2>2. CASE AnswerBad(w)
    <3> DEFINE empty == [m_dataSendTemp[s] EXCEPT !.request = m_buf[s], !.len = 0]
    <3>1. m_buf[s] \in Chunks
      BY <2>2 DEF AnswerBad, WebBuffers, ReadInv
    <3>2. m_dataSendTemp[s] \in Responses /\ 0 \in 0 .. MaxPieces
      BY <1>1, WebAssumption DEF WebBuffers, WebType
    <3>3. empty \in Responses
      BY <3>1, <3>2 DEF Responses
    <3>4. UNCHANGED m_buf /\ m_dataSendTemp' = [m_dataSendTemp EXCEPT ![s] = empty]
      BY <2>2, <1>1 DEF AnswerBad, WebBuffers, WebType
    <3> HIDE DEF empty
    <3> QED
      BY <3>4, <3>3 DEF WebBuffers, WebType
  <2>3. CASE SendNext(w)
    <3>1. ReadPiece(s, m_dataSendTemp[s]) /\ m_dataSendTemp[s] \in Responses
      BY <1>1, <2>3 DEF SendNext, WebBuffers, WebType
    <3> QED
      BY <1>1, <3>1, ReadPieceTypes DEF WebBuffers
  <2>4. CASE AnswerPartial(w) \/ AllSent(w) \/ SendFails(w)
    BY <2>4 DEF AnswerPartial, AllSent, SendFails, sessVars, webVars, WebBuffers, WebType
  <2> QED
    BY <2>1, <2>2, <2>3, <2>4 DEF Answers
<1>4. /\ hangup' \in [Workers -> BOOLEAN]
      /\ \A v \in Workers \ {w} : hangup'[v] = hangup[v]
      /\ hangup'[w] => wpc'[w] = "recv"
  <2>1. CASE AnswerPartial(w) \/ SendFails(w)
    BY <2>1, <1>1 DEF AnswerPartial, SendFails, WebBuffers, WebType, WebInv, TypeInv, CoreType
  <2>2. CASE AnswerPage(w) \/ AnswerBad(w) \/ SendNext(w) \/ AllSent(w)
    <3>1. UNCHANGED hangup /\ wpc[w] = "handle"
      BY <2>2 DEF AnswerPage, AnswerBad, SendNext, AllSent, webVars
    <3>2. ~hangup[w]
      BY <3>1 DEF WebBuffers, WebType
    <3> QED
      BY <3>1, <3>2 DEF WebBuffers, WebType
  <2> QED
    BY <2>1, <2>2 DEF Answers
<1>5. WebType'
  BY <1>1, <1>3, <1>4 DEF WebBuffers, WebType
<1>6. ReadInv'
  BY <1>1, <1>2, <1>3 DEF WebBuffers, ReadInv
<1> QED
  BY <1>5, <1>6 DEF WebBuffers

LEMMA HandleBuffers ==
  ASSUME WebInv, WebBuffers, NEW w \in Workers, WebHandle(w)
  PROVE  WebBuffers'
<1>1. CASE Answers(w)
  BY <1>1, AnswersBuffers
<1>2. CASE PostSend(w) \/ PostRecv(w) \/ HangUp(w)
  <2>1. /\ UNCHANGED <<m_buf, m_nOperationType, m_dataSendTemp>>
        /\ \A v \in Workers \ {w} : wpc'[v] = wpc[v] /\ pPerIO'[v] = pPerIO[v]
        /\ wpc'[w] \in {"wait", "hangup"}
        /\ UNCHANGED hangup \/ hangup' = [hangup EXCEPT ![w] = FALSE]
        /\ hangup'[w] => wpc'[w] = "hangup"
    BY <1>2 DEF PostSend, PostRecv, HangUp, WorkerWaits, sessVars, webVars, WebInv, TypeInv,
                CoreType, WebBuffers, WebType
  <2>2. WebType'
    BY <2>1 DEF WebBuffers, WebType
  <2>3. \A p \in io' : p.state = "done" => p \in io
    <3>1. CASE HangUp(w)
      BY <3>1, ClosesocketDone DEF HangUp, WebInv, TypeInv
    <3>2. CASE PostSend(w) \/ PostRecv(w)
      BY <3>2, PostDone DEF PostSend, PostRecv, Post
    <3> QED
      BY <1>2, <3>1, <3>2
  <2>4. ReadInv'
    BY <2>1, <2>3, ReadFrame
  <2> QED
    BY <2>2, <2>4 DEF WebBuffers
<1> QED
  BY <1>1, <1>2 DEF WebHandle, Answers

LEMMA CompletionBuffers ==
  ASSUME WebInv, WebBuffers, NEW o \in io, WebCompletion(o)
  PROVE  WebBuffers'
<1>1. UNCHANGED <<webVars, wpc, pPerIO, m_nOperationType>> /\ o \in Ops
  BY DEF WebCompletion, RecvData, RecvZero, OpFails, SendDone, EmptySendDone, sessVars, workVars,
         WebInv, TypeInv, CoreType
<1>2. CASE RecvData(o)
  <2> DEFINE s == o.session
             new == Chunk(o.conn, received[o.conn] + 1)
  <2>1. new \in Chunks
    <3>1. received[o.conn] + 1 \in 0 .. MaxChunks /\ o.conn \in Conns
      BY <1>1, <1>2, ConstantsAssumption DEF RecvData, WebInv, TypeInv, CoreType, Ops
    <3> QED
      BY <3>1 DEF Chunk, Chunks
  <2>2. s \in Sessions /\ m_buf' = [m_buf EXCEPT ![s] = new] /\ Complete(o, "done")
    BY <1>1, <1>2 DEF RecvData, Ops
  <2> HIDE DEF new
  <2>3. /\ \A p \in io' : p.session \in Sessions
        /\ \A p \in io' : p \in io \/ p.session = s
    BY <1>1, <2>2 DEF Complete, WebInv, TypeInv, CoreType, Ops
  <2>4. m_buf' \in [Sessions -> Chunks \cup Pieces]
    BY <2>1, <2>2 DEF WebBuffers, WebType
  <2>5. \A v \in Sessions : m_buf'[v] = IF v = s THEN new ELSE m_buf[v]
    BY <2>2 DEF WebBuffers, WebType
  <2>6. \A w \in Workers : wpc[w] = "handle" => pPerIO[w] \in Sessions
    BY DEF WebInv, TypeInv, CoreType
  <2>7. WebType'
    BY <1>1, <2>4 DEF WebBuffers, WebType, webVars
  <2>8. ReadInv'
    BY <1>1, <2>1, <2>3, <2>5, <2>6 DEF WebBuffers, ReadInv
  <2> QED
    BY <2>7, <2>8 DEF WebBuffers
<1>3. CASE ~RecvData(o)
  <2>1. UNCHANGED m_buf
    BY <1>3 DEF WebCompletion, RecvZero, OpFails, SendDone, EmptySendDone, sessVars
  <2>2. WebType'
    BY <1>1, <2>1 DEF WebBuffers, WebType, webVars
  <2>3. \A p \in io' : p.state = "done" => p \in io \/ p.kind = "send"
    <3>1. CASE SendDone(o)
      BY <3>1, <1>1 DEF SendDone, Complete, Ops
    <3>2. CASE RecvZero(o) \/ OpFails(o) \/ EmptySendDone(o)
      BY <3>2, CompleteDone DEF RecvZero, OpFails, EmptySendDone, WebInv, TypeInv
    <3> QED
      BY <1>3, <3>1, <3>2 DEF WebCompletion
  <2>4. ReadInv'
    BY <1>1, <2>1, <2>3 DEF WebBuffers, ReadInv
  <2> QED
    BY <2>2, <2>4 DEF WebBuffers
<1> QED
  BY <1>2, <1>3

LEMMA WebBuffersKept ==
  ASSUME WebInv, WebBuffers, [WebNext]_allVars
  PROVE  WebBuffers'
<1>1. CASE WebPeers \/ UNCHANGED allVars
  <2>1. UNCHANGED <<m_buf, m_nOperationType, webVars, wpc, pPerIO>>
    BY <1>1 DEF WebPeers, Connect, PeerSend, PeerShut, PeerReset, sessVars, workVars, allVars, vars
  <2>2. WebType'
    BY <2>1 DEF WebBuffers, WebType, webVars
  <2>3. UNCHANGED io
    BY <1>1 DEF WebPeers, Connect, PeerSend, PeerShut, PeerReset, allVars, vars
  <2>4. ReadInv'
    BY <2>1, <2>3, ReadFrame
  <2> QED
    BY <2>2, <2>4 DEF WebBuffers
<1> QED
  BY <1>1, AcceptBuffers, DequeueBuffers, CloseBuffers, HandleBuffers, CompletionBuffers DEF WebNext

(* The response of a session is always one to a request, of no more buffers *)
(* than a page has and read no further than its end, and a worker that has  *)
(* a socket to close is on its way from the failed send or the incomplete   *)
(* request to that close (web.cpp:346-444).                                 *)
THEOREM WebTypeCorrect == WebSpec => []WebTypeOK
<1>1. WebInv /\ WebBuffers /\ [WebNext]_allVars => WebInv' /\ WebBuffers'
  BY WebInvKept, WebBuffersKept
<1>2. WebInv /\ WebBuffers => WebTypeOK
  BY DEF WebInv, TypeInv, CoreType, WebBuffers, WebType, WebTypeOK, WorkerPlaces, Responses
<1>3. WebInit => WebInv /\ WebBuffers
  BY WebInvInit, WebBuffersInit
<1> QED
  BY <1>1, <1>2, <1>3, PTL DEF WebSpec

--------------------------------------------------------------------------------
(***************************************************************************)
(* Answers.  Where every request has a page and no call fails, no worker    *)
(* hangs up, each session keeps its own socket as in NetServer, and what a  *)
(* client has got so far tells which buffer of which response is next: the  *)
(* owner of the session, a worker or an operation, says which.              *)
(***************************************************************************)
Calm == Requests \subseteq {"page"} /\ MayReset = {} /\ MaxFaults = 0

LastPiece(c) == replies[c][Len(replies[c])]

(* All requests that have been received have been answered in full. *)
AllAnswered(s) ==
  LET c == m_addr[s]
  IN IF replies[c] = <<>> THEN received[c] = 0
     ELSE LastPiece(c).piece = LastPiece(c).of /\ LastPiece(c).number = received[c]

(* All but the last, which is in the buffer. *)
Asked(s) ==
  LET c == m_addr[s]
  IN /\ m_buf[s] = Chunk(c, received[c])
     /\ IF replies[c] = <<>> THEN received[c] = 1
        ELSE LastPiece(c).piece = LastPiece(c).of /\ received[c] = LastPiece(c).number + 1

(* The response in m_dataSendTemp, of which a buffer has been read. *)
Answering(s) ==
  LET data == m_dataSendTemp[s]
  IN data.request = Chunk(m_addr[s], received[m_addr[s]]) /\ data.pos \in 1 .. data.len

(* That buffer is next for the client, or the last it has got. *)
Sending(s) ==
  LET c == m_addr[s]
      data == m_dataSendTemp[s]
  IN /\ Answering(s)
     /\ m_buf[s] = Piece(data.request, data.pos, data.len)
     /\ IF replies[c] = <<>> THEN received[c] = 1 /\ data.pos = 1
        ELSE Follows(LastPiece(c), m_buf[s])
HasSent(s) ==
  LET c == m_addr[s]
      data == m_dataSendTemp[s]
  IN /\ Answering(s)
     /\ replies[c] # <<>>
     /\ LastPiece(c) = Piece(data.request, data.pos, data.len)

PeerDone(s) == peer[m_addr[s]] = "shut" /\ received[m_addr[s]] = sent[m_addr[s]]

OpTells(o) ==
  /\ o.state = "pending" => IF o.kind = "recv" THEN AllAnswered(o.session) ELSE Sending(o.session)
  /\ o.state = "done" => IF o.kind = "recv" THEN Asked(o.session) ELSE HasSent(o.session)
  /\ o.state = "zero" => PeerDone(o.session)
  /\ o.state # "failed"

WorkerTells(w) ==
  /\ wpc[w] = "handle" =>
       IF m_nOperationType[pPerIO[w]] = "READ" THEN Asked(pPerIO[w]) ELSE HasSent(pPerIO[w])
  /\ wpc[w] = "send" => Sending(pPerIO[w])
  /\ wpc[w] = "recv" => AllAnswered(pPerIO[w])
  /\ wpc[w] = "close" => PeerDone(pPerIO[w])
  /\ wpc[w] # "hangup" /\ ~hangup[w]

AnswerInv ==
  /\ replies \in [Conns -> Seq(Pieces)]
  /\ \A o \in io : OpTells(o)
  /\ \A w \in Workers : WorkerTells(w)
  /\ apc = "post" /\ sNew # NoSock => AllAnswered(idNew)
  /\ \A c \in Conns : key[c] = INVALID => received[c] = 0 /\ replies[c] = <<>>
  /\ \A c \in Conns : peer[c] # "reset"
  /\ AnswersInOrder

CalmInv == WebInv /\ WebBuffers /\ SocketInv /\ AnswerInv

LEMMA CalmUse ==
  ASSUME CalmInv, NEW s, InUse(s)
  PROVE  /\ s \in Sessions /\ s # INVALID
         /\ m_addr[s] \in Conns /\ key[m_addr[s]] = s
         /\ m_s[s] \in Handles /\ owner[m_s[s]] = m_addr[s] /\ net[m_addr[s]] = "open"
BY InUseAttached DEF CalmInv, WebInv

LEMMA CalmOp ==
  ASSUME CalmInv, NEW o \in io
  PROVE  InUse(o.session) /\ o.conn = m_addr[o.session] /\ o.conn \in Conns /\ o.kind \in {"recv", "send"}
BY DEF InUse, CalmInv, SocketInv, OwnSocket, WebInv, TypeInv, CoreType, Ops

(* The socket of a worker's session is open, and nothing posted on it fails.*)
LEMMA CalmPost ==
  ASSUME Calm, CalmInv, NEW w \in Workers, wpc[w] \in {"send", "recv"}
  PROVE  /\ InUse(pPerIO[w]) /\ pPerHandle[w] = pPerIO[w]
         /\ ~NotPosted(m_s[pPerHandle[w]])
<1>1. InUse(pPerIO[w]) /\ pPerHandle[w] = pPerIO[w]
  BY DEF InUse, CalmInv, SocketInv, OwnSocket, Holds
<1>2. /\ m_s[pPerIO[w]] \in Handles /\ owner[m_s[pPerIO[w]]] \in Conns
  BY <1>1, CalmUse
<1>3. Open(m_s[pPerIO[w]]) /\ peer[owner[m_s[pPerIO[w]]]] # "reset"
  BY <1>2, ConstantsAssumption DEF Open, CalmInv, AnswerInv
<1>4. ~(faults < MaxFaults)
  BY DEF Calm, CalmInv, WebInv, TypeInv, CoreType
<1> QED
  BY <1>1, <1>3, <1>4 DEF NotPosted

(* What is left of Handle. *)
LEMMA CalmHandle ==
  ASSUME Calm, CalmInv, NEW w \in Workers, WebHandle(w)
  PROVE  \/ AnswerPage(w) \/ SendNext(w) \/ AllSent(w) \/ PostSend(w)
         \/ (PostRecv(w) /\ HandlePost(w))
<1>1. ~AnswerBad(w) /\ ~AnswerPartial(w)
  BY DEF Calm, AnswerBad, AnswerPartial
<1>2. WorkerTells(w)
  BY DEF CalmInv, AnswerInv
<1>3. ~HangUp(w)
  BY <1>2 DEF WorkerTells, HangUp
<1>4. ~SendFails(w)
  <2> SUFFICES ASSUME wpc[w] = "send"
               PROVE  ~NotPosted(m_s[pPerHandle[w]]) /\ ~(numReaded(pPerIO[w]) < 0)
    BY DEF SendFails
  <2>1. Answering(pPerIO[w])
    BY <1>2 DEF WorkerTells, Sending
  <2>2. pPerIO[w] \in Sessions /\ m_dataSendTemp[pPerIO[w]].len \in Nat
    BY CalmPost, CalmUse DEF CalmInv, WebBuffers, WebType, Responses
  <2>3. numReaded(pPerIO[w]) = 1
    BY <2>1, <2>2 DEF Answering, numReaded
  <2> QED
    BY <2>3, CalmPost
<1>5. PostRecv(w) => HandlePost(w)
  BY <1>2 DEF WorkerTells, PostRecv, HandlePost
<1> QED
  BY <1>1, <1>3, <1>4, <1>5 DEF WebHandle

(* No session has a send of nothing. *)
LEMMA CalmCompletion ==
  ASSUME CalmInv, NEW o \in io, WebCompletion(o)
  PROVE  RecvData(o) \/ RecvZero(o) \/ SendDone(o)
<1>1. ~OpFails(o)
  BY CalmOp DEF OpFails, CalmInv, AnswerInv
<1>2. ~EmptySendDone(o)
  <2> SUFFICES ASSUME o.kind = "send", o.state = "pending"
               PROVE  m_dataSendTemp[o.session].len # 0
    BY DEF EmptySendDone
  <2>1. Answering(o.session)
    BY DEF CalmInv, AnswerInv, OpTells, Sending
  <2>2. m_dataSendTemp[o.session].len \in Nat
    BY CalmOp, CalmUse DEF CalmInv, WebBuffers, WebType, Responses
  <2> QED
    BY <2>1, <2>2 DEF Answering
<1> QED
  BY <1>1, <1>2 DEF WebCompletion

(* So that sockets are handled as in NetServer. *)
LEMMA CalmSocket ==
  ASSUME Calm, CalmInv, [WebNext]_allVars
  PROVE  SocketInv'
<1> USE DEF CalmInv, WebInv
<1>1. CASE WebAcceptor
  BY <1>1, AcceptSocket DEF WebAcceptor
<1>2. ASSUME NEW w \in Workers, ServerThread(w)
      PROVE  SocketInv'
  BY <1>2, WorkerSocket
<1>3. ASSUME NEW w \in Workers, WebHandle(w)
      PROVE  SocketInv'
  <2>1. CASE AnswerPage(w) \/ SendNext(w) \/ AllSent(w)
    <3>1. /\ Holds(w) /\ wpc[w] = "handle" /\ wpc'[w] \in {"send", "recv"}
          /\ UNCHANGED <<accVars, m_s, m_addr, owner, key, net, io, pPerIO, pPerHandle>>
          /\ \A v \in Workers \ {w} : wpc'[v] = wpc[v]
      BY <2>1 DEF AnswerPage, SendNext, AllSent, Holds, TypeInv, CoreType
    <3> QED
      BY <3>1, SocketFrame DEF accVars, Holds
  <2>2. CASE PostSend(w)
    <3>1. HandlePost(w)
      BY <2>2 DEF PostSend, HandlePost, Post
    <3> QED
      BY <1>2, <3>1 DEF ServerThread, Handle
  <2> QED
    BY <1>2, <1>3, <2>1, <2>2, CalmHandle DEF ServerThread, Handle
<1>4. ASSUME NEW o \in io, WebCompletion(o)
      PROVE  SocketInv'
  BY <1>4, CalmCompletion, EnvironmentSocket DEF Completion
<1>5. CASE WebPeers \/ UNCHANGED allVars
  BY <1>5, EnvironmentSocket, WebAssumption DEF WebPeers, Peers, allVars
<1> QED
  BY <1>1, <1>2, <1>3, <1>4, <1>5 DEF WebNext, WebDequeue, WebClose, ServerThread

(* A step that takes a session from one owner to another, or none at all,   *)
(* and tells the truth about it, keeps the rest.                            *)
LEMMA AnswerFrame ==
  ASSUME CalmInv,
         UNCHANGED <<m_addr, m_buf, m_dataSendTemp, key, peer, sent, received, replies>>,
         \A p \in io' : p \in io \/ OpTells(p),
         \A w \in Workers :
           \/ WorkerTells(w)'
           \/ /\ wpc'[w] = wpc[w] /\ pPerIO'[w] = pPerIO[w] /\ hangup'[w] = hangup[w]
              /\ m_nOperationType'[pPerIO[w]] = m_nOperationType[pPerIO[w]],
         apc' = "post" /\ sNew' # NoSock => apc = "post" /\ sNew # NoSock /\ idNew' = idNew
  PROVE  AnswerInv'
<1>1. \A s : /\ AllAnswered(s)' <=> AllAnswered(s)
             /\ Asked(s)' <=> Asked(s)
             /\ Sending(s)' <=> Sending(s)
             /\ HasSent(s)' <=> HasSent(s)
             /\ PeerDone(s)' <=> PeerDone(s)
  BY DEF AllAnswered, Asked, Answering, Sending, HasSent, PeerDone, LastPiece
<1>2. \A p \in io' : OpTells(p)'
  BY <1>1 DEF OpTells, CalmInv, AnswerInv
<1>3. \A w \in Workers : WorkerTells(w)'
  BY <1>1 DEF WorkerTells, CalmInv, AnswerInv
<1>4. AnswersInOrder'
  BY DEF CalmInv, AnswerInv, AnswersInOrder
<1> QED
  BY <1>1, <1>2, <1>3, <1>4 DEF CalmInv, AnswerInv

LEMMA AcceptAnswers ==
  ASSUME CalmInv, WebAcceptor
  PROVE  AnswerInv'
<1> USE DEF WebAcceptor, webVars, idVars, accVars, sessVars, workVars, tcpVars
<1>0. /\ UNCHANGED <<m_dataSendTemp, hangup>>
      /\ TypeInv /\ CoreType /\ OwnerInv /\ SocketInv
  BY DEF CalmInv, WebInv, TypeInv
<1>1. CASE \/ \E c \in Conns, h \in Handles : AcceptConn(c, h)
           \/ \E c \in Conns : AcceptFails(c)
           \/ GetFreeId \/ Refuse \/ InitSession \/ InitFails \/ GiveBack
  <2>1. /\ UNCHANGED <<m_addr, m_buf, m_nOperationType, key, peer, sent, received, replies, io, wpc,
                       pPerIO>>
        /\ apc' # "post"
    BY <1>1 DEF AcceptConn, AcceptFails, GetFreeId, PopReturns, PopEmpty, ReturnInvalid,
                CheckTop, Increment, Refuse, InitSession, InitFails, GiveBack
  <2> QED
    BY <1>0, <2>1, AnswerFrame
<1>2. CASE CloseNew
  <2>1. io' = io
    <3>1. CASE Open(sNew)
      <4>1. sNew # NoSock /\ owner[sNew] = saRemote /\ key[saRemote] = INVALID /\ saRemote \in Conns
        BY <1>0, <1>2, <3>1, ConstantsAssumption DEF CloseNew, Open, SocketInv, AcceptedInv
      <4>2. \A o \in io : o.conn # owner[sNew]
        BY <4>1, CalmOp, CalmUse
      <4> QED
        BY <1>2, <3>1, <4>2 DEF CloseNew, closesocket
    <3> QED
      BY <1>2, <3>1 DEF CloseNew, closesocket
  <2>2. /\ UNCHANGED <<m_addr, m_buf, m_nOperationType, key, peer, sent, received, replies, wpc,
                       pPerIO>>
        /\ apc' # "post"
    BY <1>2 DEF CloseNew
  <2> QED
    BY <1>0, <2>1, <2>2, AnswerFrame
<1>3. CASE SetUp
  <2>1. /\ idNew \in Sessions /\ m_addr' = [m_addr EXCEPT ![idNew] = saRemote]
        /\ m_nOperationType' = [m_nOperationType EXCEPT ![idNew] = "READ"]
        /\ UNCHANGED <<idNew, sNew, m_buf, peer, sent, received, replies, io, wpc, pPerIO>>
        /\ m_addr \in [Sessions -> Conns \cup {NoConn}]
        /\ m_nOperationType \in [Sessions -> {"NONE", "READ", "WRITE"}]
    BY <1>0, <1>3 DEF SetUp, CoreType
  <2>2. \A o \in io : o.session \in Sessions /\ o.session # idNew
    BY <1>0 DEF OwnerInv, SingleOwner, CoreType, Ops
  <2>3. \A w \in Workers : wpc[w] \in {"close", "handle", "send", "recv"} =>
          pPerIO[w] \in Sessions /\ pPerIO[w] # idNew
    BY <1>0 DEF OwnerInv, SingleOwner, CoreType, Holds
  <2>4. \A s \in Sessions \ {idNew} :
          /\ AllAnswered(s)' <=> AllAnswered(s)
          /\ Asked(s)' <=> Asked(s)
          /\ Sending(s)' <=> Sending(s)
          /\ HasSent(s)' <=> HasSent(s)
          /\ PeerDone(s)' <=> PeerDone(s)
    BY <1>0, <2>1 DEF AllAnswered, Asked, Answering, Sending, HasSent, PeerDone, LastPiece
  <2>5. \A o \in io' : OpTells(o)'
    BY <2>1, <2>2, <2>4 DEF OpTells, CalmInv, AnswerInv
  <2>6. \A w \in Workers : WorkerTells(w)'
    BY <1>0, <2>1, <2>3, <2>4 DEF WorkerTells, CalmInv, AnswerInv
  <2>7. sNew # NoSock => saRemote \in Conns /\ key[saRemote] = INVALID /\ m_addr'[idNew] = saRemote
    BY <1>0, <1>3, <2>1 DEF SetUp, SocketInv, AcceptedInv
  <2>8. sNew' # NoSock => AllAnswered(idNew)'
    BY <2>1, <2>7 DEF AllAnswered, CalmInv, AnswerInv
  <2>9. \A c \in Conns : key'[c] = INVALID => key[c] = INVALID
    BY <1>0, <1>3, <2>1, ConstantsAssumption DEF SetUp, CoreType, Sessions, INVALID
  <2>10. AnswersInOrder'
    BY <2>1 DEF CalmInv, AnswerInv, AnswersInOrder
  <2> QED
    BY <2>1, <2>5, <2>6, <2>8, <2>9, <2>10 DEF CalmInv, AnswerInv
<1>4. CASE PostFirst
  <2> DEFINE new == [session |-> idNew, conn |-> owner[sNew], kind |-> "recv", state |-> "pending"]
  <2>1. /\ UNCHANGED <<m_addr, m_buf, m_nOperationType, key, peer, sent, received, replies, wpc,
                       pPerIO>>
        /\ apc = "post" /\ apc' # "post"
    BY <1>4 DEF PostFirst
  <2>2. io' = io \/ (sNew # NoSock /\ io' = io \cup {new})
    BY <1>4, PostSessions, ConstantsAssumption DEF PostFirst, Open
  <2>3. sNew # NoSock => OpTells(new)
    BY <2>1 DEF OpTells, CalmInv, AnswerInv
  <2> QED
    BY <1>0, <2>1, <2>2, <2>3, AnswerFrame
<1> QED
  BY <1>1, <1>2, <1>3, <1>4 DEF Acceptor, Accept

LEMMA WorkerAnswers ==
  ASSUME CalmInv, NEW w \in Workers, (\E o \in io : WebDequeue(w, o)) \/ WebClose(w)
  PROVE  AnswerInv'
<1> USE DEF webVars, idVars, accVars, sessVars, workVars, tcpVars
<1>0. /\ UNCHANGED <<m_dataSendTemp, hangup>>
      /\ TypeInv /\ CoreType /\ OwnerInv /\ SocketInv /\ TypeTold
      /\ WorkerTells(w)
  BY DEF CalmInv, AnswerInv, WebInv, TypeInv, WebDequeue, WebClose
<1>1. wpc \in [Workers -> WorkerPlaces] /\ pPerIO \in [Workers -> Sessions \cup {INVALID}]
  BY <1>0 DEF CoreType
<1>2. ASSUME NEW o \in io, Dequeue(w, o)
      PROVE  AnswerInv'
  <2>1. /\ UNCHANGED <<m_addr, m_buf, m_nOperationType, key, peer, sent, received, replies, apc,
                       sNew, idNew>>
        /\ io' = io \ {o} /\ pPerIO'[w] = o.session
        /\ \A v \in Workers \ {w} : wpc'[v] = wpc[v] /\ pPerIO'[v] = pPerIO[v]
        /\ wpc'[w] = IF \/ o.state = "failed"
                        \/ o.state = "zero" /\ m_nOperationType[o.session] \in {"READ", "WRITE"}
                     THEN "close" ELSE "handle"
        /\ o.state # "pending"
    BY <1>1, <1>2 DEF Dequeue
  <2>2. /\ m_nOperationType[o.session] = IF o.kind = "recv" THEN "READ" ELSE "WRITE"
        /\ o.kind \in {"recv", "send"} /\ o.state \in {"pending", "done", "zero", "failed"}
    BY <1>0 DEF TypeTold, RightOp, CoreType, Ops
  <2>3. OpTells(o)
    BY DEF CalmInv, AnswerInv
  <2>4. /\ Asked(o.session)' <=> Asked(o.session)
        /\ HasSent(o.session)' <=> HasSent(o.session)
        /\ PeerDone(o.session)' <=> PeerDone(o.session)
    BY <1>0, <2>1 DEF Asked, Answering, HasSent, PeerDone, LastPiece
  <2>5. WorkerTells(w)'
    BY <1>0, <2>1, <2>2, <2>3, <2>4 DEF WorkerTells, OpTells
  <2> QED
    BY <1>0, <2>1, <2>5, AnswerFrame
<1>3. CASE CloseSocket(w)
  <2> DEFINE s == pPerIO[w]
  <2>1. wpc[w] = "close" /\ InUse(s) /\ Holds(w)
    BY <1>3 DEF CloseSocket, InUse, Holds
  <2>2. /\ pPerHandle[w] = s /\ closesocket(m_s[s])
    BY <1>0, <1>3, <2>1 DEF CloseSocket, SocketInv, OwnSocket
  <2>3. owner[m_s[s]] = m_addr[s] /\ key[m_addr[s]] = s /\ m_addr[s] \in Conns
    BY <2>1, CalmUse
  <2>4. \A o \in io : o.session # s
    BY <1>0, <2>1 DEF OwnerInv, SingleOwner
  <2>5. io' = io
    <3>1. \A o \in io : o.conn # owner[m_s[s]]
      BY <2>3, <2>4, CalmOp, CalmUse
    <3> QED
      BY <2>2, <3>1 DEF closesocket
  <2>6. /\ UNCHANGED <<m_addr, m_buf, m_nOperationType, key, peer, sent, received, replies, apc,
                       sNew, idNew, pPerIO>>
        /\ wpc'[w] = "free"
        /\ \A v \in Workers \ {w} : wpc'[v] = wpc[v]
    BY <1>1, <1>3 DEF CloseSocket
  <2>7. WorkerTells(w)'
    BY <1>0, <2>6 DEF WorkerTells
  <2> QED
    BY <1>0, <2>5, <2>6, <2>7, AnswerFrame
<1>4. CASE FreeSession(w) \/ UnInit(w)
  <2>1. /\ UNCHANGED <<m_addr, m_buf, m_nOperationType, key, peer, sent, received, replies, apc,
                       sNew, idNew, io>>
        /\ wpc'[w] \in {"uninit", "wait"}
        /\ \A v \in Workers \ {w} : wpc'[v] = wpc[v] /\ pPerIO'[v] = pPerIO[v]
    BY <1>1, <1>4 DEF FreeSession, UnInit
  <2>2. WorkerTells(w)'
    BY <1>0, <2>1 DEF WorkerTells
  <2> QED
    BY <1>0, <2>1, <2>2, AnswerFrame
<1> QED
  BY <1>2, <1>3, <1>4 DEF WebDequeue, WebClose

(* A step on one session concerns its connection and no other. *)
LEMMA AnswersMove ==
  ASSUME CalmInv, NEW s, InUse(s),
         UNCHANGED <<m_addr, key, peer, apc, sNew, idNew>>,
         \A t \in Sessions \ {s} : /\ m_buf'[t] = m_buf[t]
                                   /\ m_dataSendTemp'[t] = m_dataSendTemp[t]
                                   /\ m_nOperationType'[t] = m_nOperationType[t],
         \A c \in Conns \ {m_addr[s]} : /\ sent'[c] = sent[c]
                                        /\ received'[c] = received[c]
                                        /\ replies'[c] = replies[c],
         \A p \in io' : (p \in io /\ p.session # s) \/ OpTells(p)',
         \A w \in Workers :
           \/ WorkerTells(w)'
           \/ /\ wpc'[w] = wpc[w] /\ pPerIO'[w] = pPerIO[w] /\ hangup'[w] = hangup[w]
              /\ Holds(w) => pPerIO[w] # s,
         apc = "post" => idNew # s,
         replies' \in [Conns -> Seq(Pieces)],
         AnswersInOrder'
  PROVE  AnswerInv'
<1>1. s \in Sessions /\ m_addr[s] \in Conns /\ key[m_addr[s]] = s /\ s # INVALID
  BY CalmUse
<1>2. ASSUME NEW t, InUse(t), t # s
      PROVE  /\ AllAnswered(t)' <=> AllAnswered(t)
             /\ Asked(t)' <=> Asked(t)
             /\ Sending(t)' <=> Sending(t)
             /\ HasSent(t)' <=> HasSent(t)
             /\ PeerDone(t)' <=> PeerDone(t)
             /\ m_nOperationType'[t] = m_nOperationType[t]
  <2>1. t \in Sessions \ {s} /\ m_addr[t] \in Conns \ {m_addr[s]}
    BY <1>1, <1>2, CalmUse
  <2>2. /\ m_buf'[t] = m_buf[t] /\ m_dataSendTemp'[t] = m_dataSendTemp[t]
        /\ m_nOperationType'[t] = m_nOperationType[t]
        /\ sent'[m_addr[t]] = sent[m_addr[t]] /\ received'[m_addr[t]] = received[m_addr[t]]
        /\ replies'[m_addr[t]] = replies[m_addr[t]] /\ UNCHANGED <<m_addr, peer>>
    BY <2>1
  <2> QED
    BY <2>2 DEF AllAnswered, Asked, Answering, Sending, HasSent, PeerDone, LastPiece
<1>3. ASSUME NEW p \in io'
      PROVE  OpTells(p)'
  <2>1. CASE p \in io /\ p.session # s
    BY <1>2, <2>1, CalmOp DEF OpTells, CalmInv, AnswerInv
  <2> QED
    BY <2>1
<1>4. ASSUME NEW w \in Workers
      PROVE  WorkerTells(w)'
  <2> SUFFICES ASSUME wpc'[w] = wpc[w], pPerIO'[w] = pPerIO[w], hangup'[w] = hangup[w],
                      Holds(w) => pPerIO[w] # s
               PROVE  WorkerTells(w)'
    OBVIOUS
  <2>1. WorkerTells(w)
    BY DEF CalmInv, AnswerInv
  <2>2. CASE wpc[w] \in {"close", "handle", "send", "recv"}
    <3>1. InUse(pPerIO[w]) /\ pPerIO[w] # s
      BY <2>2 DEF InUse, Holds
    <3> QED
      BY <1>2, <2>1, <3>1 DEF WorkerTells
  <2>3. CASE wpc[w] \notin {"close", "handle", "send", "recv"}
    BY <2>1, <2>3 DEF WorkerTells
  <2> QED
    BY <2>2, <2>3
<1>5. apc' = "post" /\ sNew' # NoSock => AllAnswered(idNew)'
  <2>1. apc = "post" /\ sNew # NoSock => InUse(idNew) /\ idNew # s
    BY DEF InUse
  <2> QED
    BY <1>2, <2>1 DEF CalmInv, AnswerInv
<1>6. \A c \in Conns : key'[c] = INVALID => received'[c] = 0 /\ replies'[c] = <<>>
  BY <1>1 DEF CalmInv, AnswerInv
<1>7. \A c \in Conns : peer'[c] # "reset"
  BY DEF CalmInv, AnswerInv
<1> QED
  BY <1>3, <1>4, <1>5, <1>6, <1>7 DEF AnswerInv

LEMMA HandleAnswers ==
  ASSUME Calm, CalmInv, NEW w \in Workers, WebHandle(w)
  PROVE  AnswerInv'
<1> DEFINE s == pPerIO[w]
           c == m_addr[s]
<1> USE DEF idVars, accVars, sessVars, workVars, tcpVars, webVars
<1>0. /\ WorkerTells(w) /\ CoreType /\ OwnerInv /\ TypeTold /\ WebType /\ SocketInv
      /\ wpc \in [Workers -> WorkerPlaces] /\ pPerIO \in [Workers -> Sessions \cup {INVALID}]
      /\ m_nOperationType \in [Sessions -> {"NONE", "READ", "WRITE"}]
  BY DEF CalmInv, AnswerInv, WebInv, TypeInv, CoreType, WebBuffers
<1>1. CASE AnswerPage(w) \/ SendNext(w) \/ AllSent(w)
  <2>1. /\ UNCHANGED <<m_addr, key, peer, sent, received, replies, apc, sNew, idNew, io, pPerIO,
                       hangup>>
        /\ wpc[w] = "handle" /\ \A v \in Workers \ {w} : wpc'[v] = wpc[v]
    BY <1>0, <1>1 DEF AnswerPage, SendNext, AllSent
  <2>2. InUse(s) /\ Holds(w)
    BY <2>1 DEF InUse, Holds
  <2>3. s \in Sessions /\ c \in Conns
    BY <2>2, CalmUse
  <2>4. /\ \A o \in io : o.session # s
        /\ \A v \in Workers \ {w} : Holds(v) => pPerIO[v] # s
        /\ apc = "post" => idNew # s
    BY <1>0, <2>2 DEF OwnerInv, SingleOwner
  <2>5. \A t \in Sessions \ {s} : /\ m_buf'[t] = m_buf[t]
                                 /\ m_dataSendTemp'[t] = m_dataSendTemp[t]
                                 /\ m_nOperationType'[t] = m_nOperationType[t]
    BY <1>0, <1>1, <2>3 DEF AnswerPage, SendNext, AllSent, ReadPiece, WebType
  <2>6. WorkerTells(w)'
    <3>1. m_dataSendTemp[s] \in Responses
      BY <1>0, <2>3 DEF WebType
    <3>2. CASE AnswerPage(w)
      <4>1. Asked(s) /\ m_nOperationType[s] = "READ"
        BY <1>0, <3>2 DEF AnswerPage, WorkerTells
      <4>2. PICK n \in 1 .. MaxPieces :
              ReadPiece(s, [request |-> m_buf[s], len |-> n, pos |-> 0])
        BY <3>2 DEF AnswerPage
      <4>3. /\ m_buf'[s] = Piece(m_buf[s], 1, n)
            /\ m_dataSendTemp'[s] = [request |-> m_buf[s], len |-> n, pos |-> 1]
        BY <1>0, <2>3, <4>2 DEF ReadPiece, WebType
      <4>4. Answering(s)'
        BY <2>1, <4>1, <4>3, WebAssumption DEF Answering, Asked
      <4>5. IF replies[c] = <<>> THEN received[c] = 1 ELSE Follows(LastPiece(c), Piece(m_buf[s], 1, n))
        BY <4>1 DEF Asked, Follows, Piece, Chunk
      <4>6. Sending(s)'
        BY <2>1, <4>3, <4>4, <4>5 DEF Sending, LastPiece
      <4>7. wpc'[w] = "send" /\ hangup'[w] = hangup[w]
        BY <1>0, <3>2 DEF AnswerPage
      <4> QED
        BY <1>0, <2>1, <4>6, <4>7 DEF WorkerTells
    <3>3. CASE SendNext(w)
      <4> DEFINE d == m_dataSendTemp[s]
      <4>1. HasSent(s)
        BY <1>0, <3>3 DEF SendNext, WorkerTells
      <4>2. /\ m_buf'[s] = Piece(d.request, d.pos + 1, d.len)
            /\ m_dataSendTemp'[s] = [d EXCEPT !.pos = @ + 1]
            /\ d.pos < d.len
        BY <1>0, <2>3, <3>3 DEF SendNext, ReadPiece, WebType
      <4>3. /\ [d EXCEPT !.pos = @ + 1].pos = d.pos + 1
            /\ [d EXCEPT !.pos = @ + 1].len = d.len
            /\ [d EXCEPT !.pos = @ + 1].request = d.request
            /\ d.pos \in Nat /\ d.len \in Nat
        BY <3>1 DEF Responses
      <4>4. Answering(s)'
        BY <2>1, <4>1, <4>2, <4>3 DEF Answering, HasSent
      <4>5. replies[c] # <<>> /\ Follows(LastPiece(c), Piece(d.request, d.pos + 1, d.len))
        BY <4>1, <4>2, <4>3 DEF HasSent, Follows, Piece
      <4>6. Sending(s)'
        BY <2>1, <4>2, <4>3, <4>4, <4>5 DEF Sending, LastPiece
      <4>7. wpc'[w] = "send" /\ hangup'[w] = hangup[w]
        BY <1>0, <3>3 DEF SendNext
      <4> QED
        BY <1>0, <2>1, <4>6, <4>7 DEF WorkerTells
    <3>4. CASE AllSent(w)
      <4>1. HasSent(s)
        BY <1>0, <3>4 DEF AllSent, WorkerTells
      <4>2. m_dataSendTemp[s].pos = m_dataSendTemp[s].len
        BY <3>1, <3>4, <4>1 DEF AllSent, HasSent, Answering, Responses
      <4>3. AllAnswered(s)
        BY <4>1, <4>2 DEF HasSent, Answering, AllAnswered, Piece, Chunk
      <4>4. AllAnswered(s)'
        BY <2>1, <4>3 DEF AllAnswered, LastPiece
      <4>5. wpc'[w] = "recv" /\ hangup'[w] = hangup[w]
        BY <1>0, <3>4 DEF AllSent
      <4> QED
        BY <1>0, <2>1, <4>4, <4>5 DEF WorkerTells
    <3> QED
      BY <1>1, <3>2, <3>3, <3>4
  <2>7. AnswersInOrder' /\ replies' \in [Conns -> Seq(Pieces)]
    BY <2>1 DEF CalmInv, AnswerInv, AnswersInOrder
  <2>8. \A v \in Workers : \/ WorkerTells(v)'
                          \/ /\ wpc'[v] = wpc[v] /\ pPerIO'[v] = pPerIO[v] /\ hangup'[v] = hangup[v]
                             /\ Holds(v) => pPerIO[v] # s
    BY <2>1, <2>4, <2>6
  <2> HIDE DEF s
  <2> QED
    BY <2>1, <2>2, <2>4, <2>5, <2>7, <2>8, AnswersMove
<1>2. CASE PostSend(w) \/ (PostRecv(w) /\ HandlePost(w))
  <2> DEFINE new == [session |-> s, conn |-> owner[m_s[pPerHandle[w]]], kind |-> wpc[w],
                     state |-> "pending"]
  <2>1. /\ UNCHANGED <<m_addr, m_buf, m_dataSendTemp, m_nOperationType, key, peer, sent, received,
                       replies, apc, sNew, idNew, hangup>>
        /\ wpc[w] \in {"send", "recv"} /\ wpc'[w] = "wait"
        /\ \A v \in Workers \ {w} : wpc'[v] = wpc[v] /\ pPerIO'[v] = pPerIO[v]
    BY <1>0, <1>2 DEF PostSend, PostRecv, HandlePost, WorkerWaits
  <2>2. Post(m_s[pPerHandle[w]], s, wpc[w])
    BY <1>2 DEF PostSend, HandlePost, Post
  <2>3. io' = io \/ io' = io \cup {new}
    BY <2>2, PostSessions
  <2>4. OpTells(new)
    BY <1>0, <2>1 DEF OpTells, WorkerTells
  <2>5. WorkerTells(w)'
    BY <1>0, <2>1 DEF WorkerTells
  <2> QED
    BY <2>1, <2>3, <2>4, <2>5, AnswerFrame
<1> QED
  BY <1>1, <1>2, CalmHandle

LEMMA CompletionAnswers ==
  ASSUME CalmInv, NEW o \in io, WebCompletion(o)
  PROVE  AnswerInv'
<1> DEFINE s == o.session
           c == o.conn
<1> USE DEF idVars, accVars, sessVars, workVars, tcpVars, webVars
<1>1. /\ InUse(s) /\ s \in Sessions /\ m_addr[s] = c /\ c \in Conns
      /\ o.kind \in {"recv", "send"}
  BY CalmOp, CalmUse
<1>2. /\ TypeInv /\ OwnerInv /\ WebType /\ OpTells(o) /\ WebType
      /\ received \in [Conns -> 0 .. MaxChunks] /\ replies \in [Conns -> Seq(Pieces)]
      /\ MaxChunks \in Nat
  BY ConstantsAssumption DEF CalmInv, AnswerInv, WebInv, TypeInv, CoreType, WebBuffers
<1>3. /\ \A w \in Workers : Holds(w) => pPerIO[w] # s
      /\ apc = "post" => idNew # s
  BY <1>2 DEF OwnerInv, SingleOwner
<1>4. /\ UNCHANGED <<m_addr, m_nOperationType, m_dataSendTemp, key, peer, sent, apc, sNew, idNew,
                     wpc, pPerIO, hangup>>
      /\ \A t \in Sessions \ {s} : m_buf'[t] = m_buf[t]
      /\ \A d \in Conns \ {c} : received'[d] = received[d] /\ replies'[d] = replies[d]
  <2>1. UNCHANGED <<m_addr, m_nOperationType, m_dataSendTemp, key, peer, sent, apc, sNew, idNew,
                    wpc, pPerIO, hangup>>
    BY CalmCompletion DEF WebCompletion, RecvData, RecvZero, SendDone
  <2>2. \A t \in Sessions \ {s} : m_buf'[t] = m_buf[t]
    BY <1>1, <1>2, CalmCompletion DEF RecvData, RecvZero, SendDone, WebType
  <2>3. \A d \in Conns \ {c} : received'[d] = received[d] /\ replies'[d] = replies[d]
    BY <1>1, <1>2, CalmCompletion DEF RecvData, RecvZero, SendDone
  <2> QED
    BY <2>1, <2>2, <2>3
<1>5. SUFFICES /\ \A p \in io' : (p \in io /\ p.session # s) \/ OpTells(p)'
               /\ replies' \in [Conns -> Seq(Pieces)]
               /\ AnswersInOrder'
  <2>1. \A d \in Conns \ {m_addr[s]} : sent'[d] = sent[d] /\ received'[d] = received[d]
                                      /\ replies'[d] = replies[d]
    BY <1>1, <1>4
  <2> HIDE DEF s, c
  <2> QED
    BY <1>1, <1>3, <1>4, <2>1, AnswersMove
<1>6. CASE RecvData(o)
  <2>1. /\ received' = [received EXCEPT ![c] = @ + 1] /\ UNCHANGED replies
        /\ m_buf' = [m_buf EXCEPT ![s] = Chunk(c, received[c] + 1)]
        /\ Complete(o, "done") /\ o.kind = "recv" /\ o.state = "pending"
    BY <1>6 DEF RecvData
  <2>2. AllAnswered(s)
    BY <1>2, <2>1 DEF OpTells
  <2>3. received'[c] = received[c] + 1 /\ m_buf'[s] = Chunk(c, received[c] + 1)
    BY <1>1, <1>2, <2>1 DEF WebType
  <2>4. Asked(s)'
    BY <1>1, <1>2, <1>4, <2>1, <2>2, <2>3 DEF Asked, AllAnswered, LastPiece
  <2>5. \A p \in io' : (p \in io /\ p.session # s) \/ OpTells(p)'
    BY <1>2, <2>1, <2>4, CompletedIs DEF OpTells
  <2> QED
    BY <1>2, <2>1, <2>5 DEF CalmInv, AnswerInv, AnswersInOrder
<1>7. CASE RecvZero(o)
  <2>1. /\ UNCHANGED <<received, replies>>
        /\ Complete(o, "zero") /\ peer[c] = "shut" /\ received[c] = sent[c]
    BY <1>7 DEF RecvZero
  <2>2. PeerDone(s)'
    BY <1>1, <1>4, <2>1 DEF PeerDone
  <2>3. \A p \in io' : (p \in io /\ p.session # s) \/ OpTells(p)'
    BY <1>2, <2>1, <2>2, CompletedIs DEF OpTells
  <2> QED
    BY <1>2, <2>1, <2>3 DEF CalmInv, AnswerInv, AnswersInOrder
<1>8. CASE SendDone(o)
  <2> DEFINE d == m_dataSendTemp[s]
             next == m_buf[s]
  <2>1. /\ UNCHANGED <<received, m_buf>> /\ replies' = [replies EXCEPT ![c] = Append(@, next)]
        /\ Complete(o, "done") /\ o.kind = "send" /\ o.state = "pending"
    BY <1>8 DEF SendDone
  <2>2. Sending(s)
    BY <1>2, <2>1 DEF OpTells
  <2>3. d \in Responses
    BY <1>1, <1>2 DEF WebType
  <2>4. /\ next = Piece(d.request, d.pos, d.len) /\ d.request = Chunk(c, received[c])
        /\ d.pos \in 1 .. d.len
        /\ IF replies[c] = <<>> THEN received[c] = 1 /\ d.pos = 1
           ELSE Follows(LastPiece(c), next)
    BY <1>1, <2>2 DEF Sending, Answering
  <2>5. next \in Pieces
    BY <1>1, <2>3, <2>4, WebAssumption DEF Pieces, Piece, Responses, Chunks
  <2>6. /\ next.from = c
        /\ replies[c] = <<>> => next.number = 1 /\ next.piece = 1
        /\ replies[c] # <<>> => Follows(replies[c][Len(replies[c])], next)
    BY <2>4 DEF Piece, Chunk, LastPiece
  <2> HIDE DEF next
  <2>7. replies[c] \in Seq(Pieces) /\ replies'[c] = Append(replies[c], next)
    BY <1>1, <1>2, <2>1
  <2>8. replies' \in [Conns -> Seq(Pieces)]
    BY <1>2, <2>1, <2>5, <2>7
  <2>9. AnswersInOrder'
    <3> SUFFICES ASSUME NEW e \in Conns
                 PROVE  /\ \A i \in DOMAIN replies'[e] : replies'[e][i].from = e
                        /\ Len(replies'[e]) > 0 => replies'[e][1].number = 1 /\ replies'[e][1].piece = 1
                        /\ \A i \in 2 .. Len(replies'[e]) : Follows(replies'[e][i - 1], replies'[e][i])
      BY DEF AnswersInOrder
    <3>1. /\ \A i \in DOMAIN replies[e] : replies[e][i].from = e
          /\ Len(replies[e]) > 0 => replies[e][1].number = 1 /\ replies[e][1].piece = 1
          /\ \A i \in 2 .. Len(replies[e]) : Follows(replies[e][i - 1], replies[e][i])
      BY DEF CalmInv, AnswerInv, AnswersInOrder
    <3>2. CASE e # c
      BY <1>4, <3>1, <3>2
    <3>3. CASE e = c
      <4>1. /\ Len(replies'[e]) = Len(replies[e]) + 1
            /\ replies'[e][Len(replies[e]) + 1] = next
            /\ \A i \in 1 .. Len(replies[e]) : replies'[e][i] = replies[e][i]
            /\ DOMAIN replies'[e] = 1 .. Len(replies[e]) + 1
            /\ DOMAIN replies[e] = 1 .. Len(replies[e]) /\ Len(replies[e]) \in Nat
            /\ Len(replies[e]) = 0 <=> replies[e] = <<>>
        BY <2>5, <2>7, <3>3
      <4>2. \A i \in DOMAIN replies'[e] : replies'[e][i].from = e
        BY <2>6, <3>1, <3>3, <4>1
      <4>3. Len(replies'[e]) > 0 => replies'[e][1].number = 1 /\ replies'[e][1].piece = 1
        <5>1. CASE Len(replies[e]) = 0
          BY <2>6, <3>3, <4>1, <5>1
        <5>2. CASE Len(replies[e]) > 0
          BY <3>1, <4>1, <5>2
        <5> QED
          BY <4>1, <5>1, <5>2
      <4>4. ASSUME NEW i \in 2 .. Len(replies'[e])
            PROVE  Follows(replies'[e][i - 1], replies'[e][i])
        <5>1. CASE i = Len(replies[e]) + 1
          BY <2>6, <3>3, <4>1, <5>1
        <5>2. CASE i # Len(replies[e]) + 1
          <6>1. i \in 2 .. Len(replies[e]) /\ i \in 1 .. Len(replies[e]) /\ i - 1 \in 1 .. Len(replies[e])
            BY <4>1, <5>2
          <6> QED
            BY <3>1, <4>1, <6>1
        <5> QED
          BY <5>1, <5>2
      <4> QED
        BY <4>2, <4>3, <4>4
    <3> QED
      BY <3>2, <3>3
  <2>10. HasSent(s)'
    <3>1. replies'[c] # <<>> /\ replies'[c][Len(replies'[c])] = next
      BY <2>5, <2>7
    <3>2. Answering(s)'
      BY <1>1, <1>4, <2>1, <2>2 DEF Sending, Answering
    <3> QED
      BY <1>1, <1>4, <2>4, <3>1, <3>2 DEF HasSent, LastPiece
  <2>11. \A p \in io' : (p \in io /\ p.session # s) \/ OpTells(p)'
    BY <1>2, <2>1, <2>10, CompletedIs DEF OpTells
  <2> QED
    BY <2>8, <2>9, <2>11
<1> QED
  BY <1>6, <1>7, <1>8, CalmCompletion

LEMMA PeersAnswers ==
  ASSUME Calm, CalmInv, WebPeers \/ UNCHANGED allVars
  PROVE  AnswerInv'
<1> USE DEF tcpVars, accVars, workVars, sessVars, webVars
<1>1. /\ UNCHANGED <<m_addr, m_buf, m_nOperationType, m_dataSendTemp, hangup, key, received, replies,
                     io, apc, idNew, sNew, wpc, pPerIO>>
      /\ \A c \in Conns : \/ peer[c] = "up" /\ peer'[c] \in {"up", "shut"}
                          \/ peer'[c] = peer[c] /\ sent'[c] = sent[c]
  BY DEF Calm, WebPeers, Connect, PeerSend, PeerShut, PeerReset, allVars, vars, CalmInv, WebInv,
         TypeInv, CoreType
<1>2. \A s : /\ AllAnswered(s)' <=> AllAnswered(s)
             /\ Asked(s)' <=> Asked(s)
             /\ Sending(s)' <=> Sending(s)
             /\ HasSent(s)' <=> HasSent(s)
  BY <1>1 DEF AllAnswered, Asked, Answering, Sending, HasSent, LastPiece
<1>3. \A s : InUse(s) /\ PeerDone(s) => PeerDone(s)'
  BY <1>1, CalmUse DEF PeerDone
<1>4. \A o \in io : OpTells(o)'
  BY <1>1, <1>2, <1>3, CalmOp DEF OpTells, CalmInv, AnswerInv
<1>5. \A w \in Workers : WorkerTells(w)'
  BY <1>1, <1>2, <1>3 DEF WorkerTells, CalmInv, AnswerInv, InUse
<1>6. \A c \in Conns : peer'[c] # "reset"
  BY <1>1 DEF CalmInv, AnswerInv
<1>7. AnswersInOrder'
  BY <1>1 DEF CalmInv, AnswerInv, AnswersInOrder
<1> QED
  BY <1>1, <1>2, <1>4, <1>5, <1>6, <1>7 DEF CalmInv, AnswerInv

LEMMA CalmInvKept ==
  ASSUME Calm, CalmInv, [WebNext]_allVars
  PROVE  CalmInv'
<1>1. AnswerInv'
  BY AcceptAnswers, WorkerAnswers, HandleAnswers, CompletionAnswers, PeersAnswers DEF WebNext
<1>2. WebInv' /\ WebBuffers'
  BY WebInvKept, WebBuffersKept DEF CalmInv
<1>3. SocketInv'
  BY CalmSocket
<1> QED
  BY <1>1, <1>2, <1>3 DEF CalmInv

LEMMA CalmInvInit == WebInit => CalmInv
<1> SUFFICES ASSUME WebInit
             PROVE  CalmInv
  OBVIOUS
<1>1. AnswerInv
  BY DEF WebInit, Init, AnswerInv, WorkerTells, AnswersInOrder
<1>2. SocketInv
  BY SocketInit DEF WebInit
<1> QED
  BY <1>1, <1>2, WebInvInit, WebBuffersInit DEF CalmInv

(* Where no connection is reset, no call fails and every request has a      *)
(* page, which is what web_answers checks for one instance: each client     *)
(* gets the responses to its own requests, whole and in order               *)
(* (web.cpp:356-373, 403-437).                                              *)
THEOREM AnswersComeInOrder ==
  ASSUME Calm
  PROVE  WebSpec => []AnswersInOrder
<1>1. CalmInv => AnswersInOrder
  BY DEF CalmInv, AnswerInv
<1>2. CalmInv /\ [WebNext]_allVars => CalmInv'
  BY CalmInvKept
<1> QED
  BY <1>1, <1>2, CalmInvInit, PTL DEF WebSpec

--------------------------------------------------------------------------------
(***************************************************************************)
(* Hanging up.  As long as no closed connection has a request left          *)
(* unanswered, each session keeps its own socket although the server closes *)
(* sockets after posting on them, and whoever has a session, a worker or an *)
(* operation, tells what has become of the last request of its connection.  *)
(* The close that follows a post has an unanswered request of the same      *)
(* connection behind it, and once it is done that connection is a cause.    *)
(***************************************************************************)
Cause == \E c \in Conns : HungUpOn(c) /\ Unanswered(c) # {}

(* The last request of the connection, or an earlier one, has no answer. *)
Current(s) == received[m_addr[s]] \in Unanswered(m_addr[s])
Behind(s) == \E n \in Unanswered(m_addr[s]) : n < received[m_addr[s]]
Excused(s) == PeerGone(m_addr[s]) \/ Unanswered(m_addr[s]) # {}

(* The last request is in the buffer. *)
Arrived(s) == Current(s) /\ m_buf[s] = Chunk(m_addr[s], received[m_addr[s]])

(* A buffer of the response to it is there to be sent, or was sent. *)
Ready(s) ==
  LET data == m_dataSendTemp[s]
  IN /\ Current(s)
     /\ data.len > 0 => Answering(s) /\ m_buf[s] = Piece(data.request, data.pos, data.len)
Given(s) ==
  LET data == m_dataSendTemp[s]
  IN Answering(s) /\ (data.pos < data.len => Current(s))

(* Nobody is answering it, so that it stays unanswered. *)
Quiet(s) ==
  /\ m_nOperationType[s] = "READ"
  /\ \A o \in io : o.session = s => o.state # "done"
  /\ \A w \in Workers : pPerIO[w] = s => wpc[w] # "handle"
Missed(s) == Behind(s) \/ (Current(s) /\ Quiet(s))

(* The socket of the session is open, and the session is not given back. *)
Kept(s) ==
  /\ Attached(s)
  /\ s \in 1 .. m_topFreeId
  /\ s \notin Range(m_freeIdQueue) \cup {idNew}
  /\ \A w \in Workers : wpc[w] = "free" => pPerIO[w] # s

OpExcused(o) ==
  /\ o.state = "pending" /\ o.kind = "send" => Ready(o.session)
  /\ o.state = "done" => IF o.kind = "recv" THEN Arrived(o.session) ELSE Given(o.session)
  /\ o.state \in {"zero", "failed"} => Excused(o.session)

WorkerExcused(w) ==
  /\ wpc[w] = "handle" =>
       IF m_nOperationType[pPerIO[w]] = "READ" THEN Arrived(pPerIO[w]) ELSE Given(pPerIO[w])
  /\ wpc[w] = "send" => Ready(pPerIO[w])
  /\ wpc[w] = "close" => Excused(pPerIO[w])
  /\ wpc[w] = "recv" /\ hangup[w] => Missed(pPerIO[w])
  /\ wpc[w] = "hangup" => Kept(pPerHandle[w]) /\ Missed(pPerHandle[w])

Received == \A c \in Conns : \A i \in DOMAIN replies[c] : replies[c][i].number <= received[c]

ExcuseInv ==
  /\ replies \in [Conns -> Seq(Pieces)]
  /\ Received
  /\ \A o \in io : OpExcused(o)
  /\ \A w \in Workers : WorkerExcused(w)
  /\ \A c \in Conns : HungUpOn(c) => PeerGone(c)

GoodInv == WebInv /\ WebBuffers /\ SocketInv /\ ExcuseInv

LEMMA GoodUse ==
  ASSUME GoodInv, NEW s, InUse(s)
  PROVE  /\ s \in Sessions /\ s # INVALID
         /\ m_addr[s] \in Conns /\ key[m_addr[s]] = s
         /\ m_s[s] \in Handles /\ owner[m_s[s]] = m_addr[s] /\ net[m_addr[s]] = "open"
BY InUseAttached DEF GoodInv, WebInv

LEMMA GoodOp ==
  ASSUME GoodInv, NEW o \in io
  PROVE  /\ InUse(o.session) /\ o.conn = m_addr[o.session] /\ o.session \in Sessions
         /\ o.conn \in Conns /\ key[o.conn] = o.session /\ net[o.conn] = "open"
         /\ o.kind \in {"recv", "send"} /\ o.state \in {"pending", "done", "zero", "failed"}
<1>1. InUse(o.session) /\ o.conn = m_addr[o.session]
  BY DEF InUse, GoodInv, SocketInv, OwnSocket
<1>2. o \in Ops
  BY DEF GoodInv, WebInv, TypeInv, CoreType
<1> QED
  BY <1>1, <1>2, GoodUse DEF Ops

LEMMA GoodWorker ==
  ASSUME GoodInv, NEW w \in Workers, wpc[w] \in {"close", "handle", "send", "recv"}
  PROVE  /\ InUse(pPerIO[w]) /\ Holds(w) /\ pPerHandle[w] = pPerIO[w] /\ Attached(pPerIO[w])
         /\ pPerIO[w] # idNew
         /\ \A o \in io : o.session # pPerIO[w]
         /\ \A v \in Workers \ {w} : Holds(v) => pPerIO[v] # pPerIO[w]
BY DEF InUse, Holds, GoodInv, SocketInv, OwnSocket, WebInv, OwnerInv, SingleOwner

--------------------------------------------------------------------------------
(* Nobody starts to answer an earlier request. *)
LEMMA QuietStays ==
  ASSUME NEW t, Missed(t), m_addr'[t] = m_addr[t], UNCHANGED <<received, replies>>,
         Quiet(t) => m_nOperationType'[t] = "READ",
         Quiet(t) => \A p \in io' : p.state = "done" => p \in io \/ p.session # t,
         Quiet(t) => \A w \in Workers : wpc'[w] = "handle" /\ pPerIO'[w] = t
                                          => wpc[w] = "handle" /\ pPerIO[w] = t
  PROVE  Missed(t)'
<1>1. (Behind(t)' <=> Behind(t)) /\ (Current(t)' <=> Current(t))
  BY DEF Behind, Current, Unanswered
<1>2. Quiet(t) => Quiet(t)'
  BY DEF Quiet
<1> QED
  BY <1>1, <1>2 DEF Missed

LEMMA AcceptMissed ==
  ASSUME GoodInv, NEW t \in Sessions, Missed(t), t # idNew, WebAcceptor
  PROVE  Missed(t)'
<1> USE DEF WebAcceptor, webVars, idVars, accVars, sessVars, workVars, tcpVars
<1>0. /\ CoreType
      /\ m_nOperationType \in [Sessions -> {"NONE", "READ", "WRITE"}]
      /\ m_addr \in [Sessions -> Conns \cup {NoConn}]
  BY DEF GoodInv, WebInv, TypeInv, CoreType
<1>1. UNCHANGED <<received, replies, wpc, pPerIO>>
  BY DEF Acceptor, Accept, GetFreeId, AcceptConn, AcceptFails, PopReturns, PopEmpty,
         ReturnInvalid, CheckTop, Increment, Refuse, InitSession, InitFails, GiveBack,
         CloseNew, SetUp, PostFirst
<1>2. m_addr'[t] = m_addr[t] /\ m_nOperationType'[t] = m_nOperationType[t]
  BY <1>0 DEF Acceptor, Accept, GetFreeId, AcceptConn, AcceptFails, PopReturns, PopEmpty,
         ReturnInvalid, CheckTop, Increment, Refuse, InitSession, InitFails, GiveBack,
         CloseNew, SetUp, PostFirst
<1>3. \A p \in io' : p.state = "done" => p \in io
  <2>1. CASE CloseNew
    BY <1>0, <2>1, ClosesocketDone DEF CloseNew
  <2>2. CASE PostFirst
    BY <2>2, PostDone DEF PostFirst
  <2>3. CASE ~CloseNew /\ ~PostFirst
    BY <2>3 DEF Acceptor, Accept, GetFreeId, AcceptConn, AcceptFails, PopReturns, PopEmpty,
         ReturnInvalid, CheckTop, Increment, Refuse, InitSession, InitFails, GiveBack, SetUp
  <2> QED
    BY <2>1, <2>2, <2>3
<1>4. Quiet(t) => m_nOperationType'[t] = "READ"
  BY <1>2 DEF Quiet
<1> QED
  BY <1>1, <1>2, <1>3, <1>4, QuietStays

LEMMA WorkerMissed ==
  ASSUME GoodInv, NEW t \in Sessions, Missed(t), NEW w \in Workers,
         (\E o \in io : WebDequeue(w, o)) \/ WebClose(w) \/ WebHandle(w)
  PROVE  Missed(t)'
<1> USE DEF webVars, idVars, accVars, sessVars, workVars, tcpVars
<1>0. /\ TypeInv /\ CoreType /\ OwnerInv /\ TypeTold
      /\ wpc \in [Workers -> WorkerPlaces] /\ pPerIO \in [Workers -> Sessions \cup {INVALID}]
  BY DEF GoodInv, WebInv, TypeInv, CoreType
<1>1. ASSUME NEW o \in io, WebDequeue(w, o)
      PROVE  Missed(t)'
  <2>1. /\ UNCHANGED <<m_addr, m_nOperationType, received, replies>>
        /\ io' = io \ {o} /\ pPerIO'[w] = o.session
        /\ \A v \in Workers \ {w} : wpc'[v] = wpc[v] /\ pPerIO'[v] = pPerIO[v]
        /\ wpc'[w] = IF \/ o.state = "failed"
                        \/ o.state = "zero" /\ m_nOperationType[o.session] \in {"READ", "WRITE"}
                     THEN "close" ELSE "handle"
        /\ o.state # "pending"
    BY <1>0, <1>1 DEF WebDequeue, Dequeue
  <2>2. Quiet(t) /\ o.session = t => wpc'[w] = "close"
    BY <2>1, GoodOp DEF Quiet
  <2> QED
    BY <2>1, <2>2, QuietStays DEF Quiet
<1>2. CASE WebClose(w)
  <2>1. /\ UNCHANGED <<m_addr, m_nOperationType, received, replies>>
        /\ \A v \in Workers : wpc'[v] = "handle" => wpc[v] = "handle" /\ pPerIO'[v] = pPerIO[v]
    BY <1>0, <1>2 DEF WebClose, CloseSocket, FreeSession, UnInit
  <2>2. \A p \in io' : p.state = "done" => p \in io
    BY <1>0, <1>2, ClosesocketDone DEF WebClose, CloseSocket, FreeSession, UnInit
  <2> QED
    BY <2>1, <2>2, QuietStays DEF Quiet
<1>3. CASE Answers(w)
  <2>1. /\ Holds(w) /\ wpc'[w] \in {"send", "recv"}
        /\ UNCHANGED <<m_addr, received, replies, io, pPerIO>>
        /\ \/ /\ m_nOperationType' = [m_nOperationType EXCEPT ![pPerIO[w]] = "WRITE"]
              /\ wpc' = [wpc EXCEPT ![w] = "send"]
           \/ /\ m_nOperationType' = [m_nOperationType EXCEPT ![pPerIO[w]] = "READ"]
              /\ wpc' = [wpc EXCEPT ![w] = "recv"]
    BY <1>0, <1>3, AnswersChange
  <2>2. wpc[w] \in {"handle", "send"} /\ pPerIO[w] \in Sessions
    BY <1>0, <1>3 DEF Answers, AnswerPage, AnswerBad, AnswerPartial, SendNext, AllSent, SendFails, CoreType
  <2>3. Quiet(t) => pPerIO[w] # t
    BY <1>0, <2>2 DEF Quiet, TypeTold
  <2>4. Quiet(t) => m_nOperationType'[t] = "READ"
    BY <1>0, <2>1, <2>3 DEF Quiet, CoreType
  <2>5. \A v \in Workers : wpc'[v] = "handle" => wpc[v] = "handle"
    BY <1>0, <2>1
  <2> QED
    BY <2>1, <2>4, <2>5, QuietStays
<1>4. CASE PostSend(w) \/ PostRecv(w) \/ HangUp(w)
  <2>1. /\ UNCHANGED <<m_addr, m_nOperationType, received, replies>>
        /\ \A v \in Workers : wpc'[v] = "handle" => wpc[v] = "handle" /\ pPerIO'[v] = pPerIO[v]
    BY <1>0, <1>4 DEF PostSend, PostRecv, HangUp, WorkerWaits
  <2>2. \A p \in io' : p.state = "done" => p \in io
    <3>1. CASE HangUp(w)
      BY <1>0, <3>1, ClosesocketDone DEF HangUp
    <3>2. CASE PostSend(w) \/ PostRecv(w)
      BY <3>2, PostDone DEF PostSend, PostRecv, Post
    <3> QED
      BY <1>4, <3>1, <3>2
  <2> QED
    BY <2>1, <2>2, QuietStays DEF Quiet
<1> QED
  BY <1>1, <1>2, <1>3, <1>4 DEF WebHandle, Answers

LEMMA CompletionMissed ==
  ASSUME GoodInv, NEW t \in Sessions, Attached(t), Missed(t), NEW o \in io, WebCompletion(o)
  PROVE  Missed(t)'
<1> DEFINE c == m_addr[t]
<1> USE DEF idVars, accVars, sessVars, workVars, tcpVars
<1>1. /\ UNCHANGED <<m_addr, m_nOperationType, wpc, pPerIO>>
      /\ UNCHANGED received \/ received' = [received EXCEPT ![o.conn] = @ + 1]
      /\ UNCHANGED replies \/ replies' = [replies EXCEPT ![o.conn] = Append(@, m_buf[o.session])]
  BY DEF WebCompletion, RecvData, RecvZero, OpFails, SendDone, EmptySendDone
<1>2. /\ o.session \in Sessions /\ Attached(o.session) /\ o.conn = m_addr[o.session]
      /\ CoreType /\ c \in Conns /\ received[c] \in Nat /\ MaxChunks \in Nat
  <2>1. CoreType /\ MaxChunks \in Nat
    BY ConstantsAssumption DEF GoodInv, WebInv, TypeInv
  <2>2. c \in Conns
    BY <2>1 DEF Attached, Open, CoreType
  <2> QED
    BY <2>1, <2>2, GoodOp DEF GoodInv, SocketInv, OwnSocket, CoreType
<1>3. CASE o.session # t
  <2>1. o.conn # c
    BY <1>2, <1>3, AttachedApart
  <2>2. received'[c] = received[c] /\ replies'[c] = replies[c]
    BY <1>1, <1>2, <2>1 DEF CoreType, GoodInv, ExcuseInv
  <2>3. (Behind(t)' <=> Behind(t)) /\ (Current(t)' <=> Current(t))
    BY <1>1, <2>2 DEF Behind, Current, Unanswered
  <2>4. \A p \in io' : p \in io \/ p.session # t
    <3>1. \E state \in {"done", "zero", "failed"} : Complete(o, state)
      BY DEF WebCompletion, RecvData, RecvZero, OpFails, SendDone, EmptySendDone
    <3> QED
      BY <1>3, <3>1, CompletedIs DEF GoodInv, WebInv
  <2>5. Quiet(t) => Quiet(t)'
    BY <1>1, <2>4 DEF Quiet
  <2> QED
    BY <2>3, <2>5 DEF Missed
<1>4. CASE RecvData(o) /\ o.session = t
  <2>1. received'[c] = received[c] + 1 /\ replies' = replies /\ m_addr'[t] = c
    BY <1>1, <1>2, <1>4 DEF RecvData, CoreType
  <2>2. PICK n \in Unanswered(c) : TRUE
    BY DEF Missed, Behind, Current
  <2>3. n \in 1 .. received[c]
    BY DEF Unanswered
  <2>4. n \in 1 .. received'[c] /\ n < received'[c]
    BY <1>2, <2>1, <2>3
  <2>5. n \in Unanswered(c)'
    BY <2>1, <2>2, <2>4 DEF Unanswered
  <2> QED
    BY <2>1, <2>4, <2>5 DEF Missed, Behind
<1>5. CASE SendDone(o) /\ m_dataSendTemp[o.session].len > 0 /\ o.session = t
  <2>1. /\ received' = received /\ replies'[c] = Append(replies[c], m_buf[t]) /\ m_addr'[t] = c
        /\ o.kind = "send" /\ o.state = "pending"
    BY <1>1, <1>2, <1>5 DEF SendDone, GoodInv, ExcuseInv
  <2>2. m_nOperationType[t] = "WRITE"
    BY <1>5, <2>1 DEF GoodInv, WebInv, TypeTold, RightOp
  <2>3. PICK n \in Unanswered(c) : n < received[c]
    BY <2>2 DEF Missed, Quiet, Behind
  <2>4. m_buf[t].number = received[c]
    <3>1. Ready(t)
      BY <1>5, <2>1 DEF GoodInv, ExcuseInv, OpExcused
    <3> QED
      BY <1>5, <3>1 DEF Ready, Answering, Piece, Chunk
  <2>5. replies[c] \in Seq(Pieces)
    BY <1>2 DEF GoodInv, ExcuseInv
  <2>6. ASSUME NEW i \in DOMAIN replies'[c]
        PROVE  ~(replies'[c][i].number = n /\ replies'[c][i].piece = replies'[c][i].of)
    <3>1. CASE i \in DOMAIN replies[c]
      <4>1. replies'[c][i] = replies[c][i]
        BY <2>1, <2>5, <3>1
      <4> QED
        BY <2>3, <3>1, <4>1 DEF Unanswered
    <3>2. CASE i \notin DOMAIN replies[c]
      <4>1. replies'[c][i] = m_buf[t]
        BY <2>1, <2>5, <3>2
      <4>2. n # received[c]
        BY <1>2, <2>3 DEF Unanswered
      <4> QED
        BY <2>4, <4>1, <4>2
    <3> QED
      BY <3>1, <3>2
  <2>7. n \in Unanswered(c)'
    BY <2>1, <2>3, <2>6 DEF Unanswered
  <2> QED
    BY <2>1, <2>3, <2>7 DEF Missed, Behind
<1>6. CASE RecvZero(o) \/ OpFails(o) \/ EmptySendDone(o)
  <2>1. UNCHANGED <<received, replies>>
    BY <1>6 DEF RecvZero, OpFails, EmptySendDone
  <2>2. \A p \in io' : p.state = "done" => p \in io
    BY <1>2, <1>6, CompleteDone DEF RecvZero, OpFails, EmptySendDone
  <2> QED
    BY <1>1, <2>1, <2>2, QuietStays DEF Quiet
<1> QED
  BY <1>3, <1>4, <1>5, <1>6 DEF WebCompletion

LEMMA PeersMissed ==
  ASSUME GoodInv, NEW t \in Sessions, Missed(t), WebPeers \/ UNCHANGED allVars
  PROVE  Missed(t)'
<1>1. UNCHANGED <<m_addr, m_nOperationType, received, replies, io, wpc, pPerIO>>
  BY DEF WebPeers, Connect, PeerSend, PeerShut, PeerReset, sessVars, workVars, allVars, vars, tcpVars
<1> QED
  BY <1>1, QuietStays DEF Quiet

(* A request that is missed stays so. *)
LEMMA MissedStays ==
  ASSUME GoodInv, [WebNext]_allVars, NEW t \in Sessions, Attached(t), t # idNew, Missed(t)
  PROVE  Missed(t)'
BY AcceptMissed, WorkerMissed, CompletionMissed, PeersMissed DEF WebNext

(* The session of a worker that is about to hang up stays as it is, as long *)
(* as nobody closes its socket.                                             *)
LEMMA AcceptKeeps ==
  ASSUME GoodInv, NEW t \in Sessions, Kept(t), WebAcceptor
  PROVE  Kept(t)'
<1> USE DEF WebAcceptor, webVars, idVars, accVars, sessVars, workVars, tcpVars
<1>0. /\ TypeInv /\ CoreType /\ SocketInv /\ Attached(t) /\ t # INVALID
      /\ m_freeIdQueue \in Seq(Sessions) /\ IsInjective(m_freeIdQueue)
      /\ m_topFreeId \in Nat
  BY ConstantsAssumption
     DEF GoodInv, WebInv, TypeInv, CoreType, Kept, OwnerInv, SingleOwner, Sessions, INVALID
<1>1. UNCHANGED <<wpc, pPerIO>>
  BY DEF Acceptor, Accept, GetFreeId, AcceptConn, AcceptFails, PopReturns, PopEmpty,
         ReturnInvalid, CheckTop, Increment, Refuse, InitSession, InitFails, GiveBack,
         CloseNew, SetUp, PostFirst
<1>2. /\ t \in 1 .. m_topFreeId'
      /\ t \notin Range(m_freeIdQueue') \cup {idNew'}
  <2>1. CASE PopReturns
    BY <1>0, <2>1, PopDistinct DEF PopReturns, Kept
  <2>2. CASE Increment
    <3>1. m_topFreeId' = m_topFreeId + 1 /\ idNew' = m_topFreeId + 1 /\ UNCHANGED m_freeIdQueue
      BY <1>0, <2>2 DEF Increment, TypeInv, IncrementSafe
    <3> QED
      BY <1>0, <3>1 DEF Kept
  <2>3. CASE GiveBack
    <3>1. Range(m_freeIdQueue') = Range(m_freeIdQueue) \cup {idNew}
      BY <1>0, <2>3, PushDistinct DEF GiveBack, CoreType, GoodInv, WebInv, OwnerInv, SingleOwner
    <3> QED
      BY <1>0, <2>3, <3>1 DEF GiveBack, Kept
  <2>4. CASE ~PopReturns /\ ~Increment /\ ~GiveBack
    <3>1. UNCHANGED idVars /\ idNew' \in {idNew, INVALID}
      BY <2>4 DEF Acceptor, Accept, GetFreeId, AcceptConn, AcceptFails, PopEmpty,
         ReturnInvalid, CheckTop, Refuse, InitSession, InitFails, CloseNew, SetUp, PostFirst
    <3> QED
      BY <1>0, <3>1 DEF Kept
  <2> QED
    BY <2>1, <2>2, <2>3, <2>4
<1>3. Attached(t)'
  <2>1. ASSUME NEW c \in Conns, NEW h \in Handles, AcceptConn(c, h)
        PROVE  Attached(t)'
    BY <1>0, <2>1 DEF AcceptConn, Attached, Open, CoreType
  <2>2. CASE CloseNew
    <3>1. CASE Open(sNew)
      <4>1. /\ sNew \in Handles
            /\ owner[sNew] = saRemote /\ key[saRemote] = INVALID
        BY <1>0, <2>2, <3>1, ConstantsAssumption DEF CloseNew, Open, SocketInv, AcceptedInv
      <4>2. m_s[t] # sNew
        BY <1>0, <4>1 DEF Attached
      <4> QED
        BY <1>0, <2>2, <3>1, <4>1, <4>2, CloseKeepsOthers DEF CloseNew
    <3>2. CASE ~Open(sNew)
      BY <1>0, <2>2, <3>2 DEF CloseNew, closesocket, Attached, Open
    <3> QED
      BY <3>1, <3>2
  <2>3. CASE SetUp
    <3>1. t # idNew /\ m_s'[t] = m_s[t] /\ m_addr'[t] = m_addr[t] /\ UNCHANGED owner
      BY <1>0, <2>3 DEF SetUp, Kept, CoreType
    <3>2. Open(sNew) => owner[sNew] = saRemote /\ key[saRemote] = INVALID
      BY <1>0, <2>3, ConstantsAssumption DEF SetUp, Open, SocketInv, AcceptedInv
    <3>3. key'[m_addr[t]] = key[m_addr[t]]
      BY <1>0, <2>3, <3>2 DEF SetUp, Attached, CoreType
    <3> QED
      BY <1>0, <3>1, <3>3 DEF Attached, Open
  <2>4. CASE ~SetUp /\ ~CloseNew /\ ~(\E c \in Conns, h \in Handles : AcceptConn(c, h))
    <3>1. UNCHANGED <<m_s, m_addr, owner, key>>
      BY <2>4 DEF Acceptor, Accept, GetFreeId, AcceptFails, PopReturns, PopEmpty,
         ReturnInvalid, CheckTop, Increment, Refuse, InitSession, InitFails, GiveBack, PostFirst
    <3> QED
      BY <1>0, <3>1 DEF Attached, Open
  <2> QED
    BY <2>1, <2>2, <2>3, <2>4
<1> QED
  BY <1>1, <1>2, <1>3 DEF Kept

LEMMA OthersKeep ==
  ASSUME GoodInv, NEW t \in Sessions, Kept(t), [WebNext]_allVars, ~WebAcceptor,
         \A w \in Workers : CloseSocket(w) => pPerIO[w] # t,
         \A w \in Workers : ~HangUp(w)
  PROVE  Kept(t)'
<1> USE DEF webVars, idVars, accVars, sessVars, workVars, tcpVars
<1>0. /\ TypeInv /\ CoreType /\ SocketInv /\ Attached(t) /\ OwnerInv
      /\ wpc \in [Workers -> WorkerPlaces] /\ pPerIO \in [Workers -> Sessions \cup {INVALID}]
  BY DEF GoodInv, WebInv, TypeInv, CoreType, Kept
<1>1. ASSUME NEW w \in Workers, WebClose(w)
      PROVE  Kept(t)'
  <2>1. CASE CloseSocket(w)
    <3> DEFINE s == pPerIO[w]
               h == m_s[s]
    <3>1. /\ s \in Sessions /\ Attached(s) /\ h \in Handles /\ Open(h) /\ s # t
          /\ closesocket(h) /\ wpc' = [wpc EXCEPT ![w] = "free"]
          /\ UNCHANGED <<m_s, m_addr, key, pPerIO, idNew, idVars>>
      <4>1. wpc[w] = "close"
        BY <2>1 DEF CloseSocket
      <4> QED
        BY <2>1, <4>1, GoodWorker, GoodUse DEF CloseSocket, Attached
    <3>2. Attached(t)'
      BY <1>0, <3>1, AttachedApart, CloseKeepsOthers
    <3> QED
      BY <1>0, <3>1, <3>2 DEF Kept
  <2>2. CASE FreeSession(w)
    <3>1. /\ m_freeIdQueue' = Append(m_freeIdQueue, pPerIO[w]) /\ pPerIO[w] # t
          /\ pPerIO[w] \in Sessions /\ m_freeIdQueue \in Seq(Sessions)
          /\ UNCHANGED <<m_topFreeId, idNew, m_s, m_addr, owner, key, pPerIO>>
          /\ \A v \in Workers : wpc'[v] = "free" => wpc[v] = "free"
      BY <1>0, <2>2 DEF FreeSession, Kept, CoreType
    <3>2. Range(m_freeIdQueue') = Range(m_freeIdQueue) \cup {pPerIO[w]}
      BY <1>0, <2>2, <3>1, PushDistinct DEF FreeSession, Holds, OwnerInv, SingleOwner
    <3> QED
      BY <1>0, <3>1, <3>2 DEF Kept, Attached, Open
  <2>3. CASE UnInit(w)
    BY <1>0, <2>3 DEF UnInit, Kept, Attached, Open
  <2> QED
    BY <1>1, <2>1, <2>2, <2>3 DEF WebClose
<1>2. ASSUME ~(\E w \in Workers : WebClose(w))
      PROVE  Kept(t)'
  <2>1. /\ UNCHANGED <<idVars, idNew, m_s, m_addr, owner, key>>
        /\ \A v \in Workers : wpc'[v] = "free" => wpc[v] = "free" /\ pPerIO'[v] = pPerIO[v]
    <3>1. CASE WebPeers \/ UNCHANGED allVars
      BY <3>1 DEF WebPeers, Connect, PeerSend, PeerShut, PeerReset, allVars, vars
    <3>2. ASSUME NEW o \in io, WebCompletion(o)
          PROVE  <2>1
      BY <3>2 DEF WebCompletion, RecvData, RecvZero, OpFails, SendDone, EmptySendDone
    <3>3. ASSUME NEW w \in Workers, NEW o \in io, WebDequeue(w, o)
          PROVE  <2>1
      BY <1>0, <3>3 DEF WebDequeue, Dequeue
    <3>4. ASSUME NEW w \in Workers, WebHandle(w)
          PROVE  <2>1
      BY <1>0, <3>4 DEF WebHandle, AnswerPage, AnswerBad, AnswerPartial, SendNext, AllSent,
                        PostSend, SendFails, PostRecv, WorkerWaits
    <3> QED
      BY <1>2, <3>1, <3>2, <3>3, <3>4 DEF WebNext
  <2> QED
    BY <1>0, <2>1 DEF Kept, Attached, Open
<1> QED
  BY <1>1, <1>2

--------------------------------------------------------------------------------
(* Until a worker hangs up, sockets are handled as in NetServer. *)
LEMMA GoodSocket ==
  ASSUME GoodInv, [WebNext]_allVars, \A w \in Workers : ~HangUp(w)
  PROVE  SocketInv'
<1> USE DEF GoodInv, WebInv
<1>1. CASE Acceptor \/ Peers \/ UNCHANGED vars
  BY <1>1, AcceptSocket, EnvironmentSocket
<1>2. ASSUME NEW w \in Workers, ServerThread(w)
      PROVE  SocketInv'
  BY <1>2, WorkerSocket
<1>3. ASSUME NEW o \in io, Completion(o) \/ EmptySendDone(o)
      PROVE  SocketInv'
  <2>1. CASE Completion(o)
    BY <2>1, EnvironmentSocket
  <2>2. CASE EmptySendDone(o)
    <3>1. UNCHANGED <<apc, idNew, sNew, saRemote, m_s, m_addr, owner, key, net, wpc, pPerIO, pPerHandle>>
      BY <2>2 DEF EmptySendDone, accVars, sessVars, workVars
    <3>2. \A p \in io' : \E q \in io : p.session = q.session /\ p.conn = q.conn
      BY <2>2, CompleteSessions DEF EmptySendDone, TypeInv
    <3> QED
      BY <3>1, <3>2, SocketFrame DEF Holds
  <2> QED
    BY <1>3, <2>1, <2>2
<1>4. ASSUME NEW w \in Workers, Answers(w)
      PROVE  SocketInv'
  <2>1. /\ Holds(w) /\ wpc'[w] \in {"send", "recv"}
        /\ UNCHANGED <<apc, idNew, sNew, saRemote, m_s, m_addr, owner, key, net, io, pPerIO, pPerHandle>>
    BY <1>4, AnswersChange DEF accVars
  <2>2. wpc[w] # "free"
    BY <1>4 DEF Answers, AnswerPage, AnswerBad, AnswerPartial, SendNext, AllSent, SendFails
  <2>3. \A v \in Workers \ {w} : wpc'[v] = wpc[v]
    BY <1>4, AnswersChange DEF TypeInv, CoreType
  <2> QED
    BY <2>1, <2>2, <2>3, SocketFrame DEF Holds
<1>5. ASSUME NEW w \in Workers, PostAndHangUp(w)
      PROVE  SocketInv'
  <2>1. /\ wpc[w] = "recv" /\ wpc' = [wpc EXCEPT ![w] = "hangup"]
        /\ UNCHANGED <<apc, idNew, sNew, saRemote, m_s, m_addr, owner, key, net, pPerIO, pPerHandle>>
    BY <1>5 DEF PostAndHangUp, PostRecv, accVars, sessVars
  <2>2. Attached(pPerIO[w]) /\ pPerHandle[w] = pPerIO[w]
    BY <2>1, GoodWorker
  <2>3. \/ io' = io
        \/ io' = io \cup {[session |-> pPerIO[w], conn |-> owner[m_s[pPerIO[w]]],
                           kind |-> "recv", state |-> "pending"]}
    BY <1>5, <2>2, PostSessions DEF PostAndHangUp, PostRecv
  <2>4. \A s : Attached(s)' <=> Attached(s)
    BY <2>1 DEF Attached, Open
  <2>5. \A p \in io' : Attached(p.session)' /\ p.conn = m_addr'[p.session]
    BY <2>1, <2>2, <2>3, <2>4 DEF SocketInv, OwnSocket, Attached
  <2>6. \A v \in Workers : Holds(v)' => Holds(v) /\ wpc'[v] = wpc[v]
    BY <2>1 DEF Holds, TypeInv, CoreType
  <2>7. \A v \in Workers : Holds(v)' =>
          /\ pPerHandle'[v] = pPerIO'[v]
          /\ wpc'[v] # "free" => Attached(pPerIO[v])'
    BY <2>1, <2>6 DEF SocketInv, OwnSocket, Attached, Open
  <2>8. OwnSocket'
    BY <2>5, <2>7 DEF OwnSocket
  <2> QED
    BY <2>1, <2>8 DEF SocketInv, HandlesInv, AcceptedInv
<1> QED
  BY <1>1, <1>2, <1>3, <1>4, <1>5, WebStepIs

(* A peer that has gone does not come back. *)
LEMMA GoneStays ==
  ASSUME CoreType, [WebNext]_allVars, NEW c \in Conns, PeerGone(c)
  PROVE  PeerGone(c)'
<1> USE DEF tcpVars
<1>1. ASSUME NEW d \in Conns, PeerSend(d) \/ PeerShut(d) \/ PeerReset(d)
      PROVE  PeerGone(c)'
  BY <1>1 DEF PeerSend, PeerShut, PeerReset, PeerGone, CoreType
<1>2. ASSUME NEW o \in io, RecvData(o)
      PROVE  PeerGone(c)'
  <2>1. /\ received' = [received EXCEPT ![o.conn] = @ + 1] /\ UNCHANGED <<peer, sent>>
        /\ received[o.conn] < sent[o.conn]
    BY <1>2 DEF RecvData
  <2>2. CASE o.conn = c
    <3>1. received[c] # sent[c]
      BY <2>1, <2>2, ConstantsAssumption DEF CoreType
    <3> QED
      BY <2>1, <3>1 DEF PeerGone
  <2>3. CASE o.conn # c
    BY <2>1, <2>3 DEF PeerGone, CoreType
  <2> QED
    BY <2>2, <2>3
<1>3. UNCHANGED <<peer, sent, received>> => PeerGone(c)'
  BY DEF PeerGone
<1>4. CASE Acceptor
  BY <1>3, <1>4 DEF Acceptor, Accept, GetFreeId, AcceptConn, AcceptFails, PopReturns, PopEmpty,
         ReturnInvalid, CheckTop, Increment, Refuse, InitSession, InitFails, GiveBack,
         CloseNew, SetUp, PostFirst
<1>5. ASSUME NEW w \in Workers, ServerThread(w) \/ Answers(w) \/ PostAndHangUp(w) \/ HangUp(w)
      PROVE  PeerGone(c)'
  BY <1>3, <1>5
     DEF ServerThread, Dequeue, CloseSocket, FreeSession, UnInit, Handle, HandleRead, HandleWrite,
         HandlePost, Answers, AnswerPage, AnswerBad, AnswerPartial, SendNext, AllSent, SendFails,
         PostAndHangUp, PostRecv, HangUp
<1>6. ASSUME NEW o \in io, Completion(o) \/ EmptySendDone(o), ~RecvData(o)
      PROVE  PeerGone(c)'
  BY <1>3, <1>6 DEF Completion, RecvZero, SendDone, OpFails, EmptySendDone
<1>7. CASE Peers \/ UNCHANGED vars
  BY <1>1, <1>3, <1>7 DEF Peers, Connect, vars
<1> QED
  BY <1>2, <1>4, <1>5, <1>6, <1>7, WebStepIs

(* A step that concerns one session at most, and tells the truth about it.  *)
LEMMA ExcuseMove ==
  ASSUME GoodInv, [WebNext]_allVars, NEW s,
         \A w \in Workers : ~HangUp(w),
         \A w \in Workers : CloseSocket(w) => Unanswered(m_addr[pPerIO[w]]) = {},
         \A t \in Sessions \ {s} : /\ m_addr'[t] = m_addr[t]
                                   /\ m_buf'[t] = m_buf[t]
                                   /\ m_dataSendTemp'[t] = m_dataSendTemp[t]
                                   /\ m_nOperationType'[t] = m_nOperationType[t],
         \A c \in Conns : key[c] # s => received'[c] = received[c] /\ replies'[c] = replies[c],
         \A p \in io' : (p \in io /\ p.session # s) \/ OpExcused(p)',
         \A w \in Workers :
           \/ WorkerExcused(w)'
           \/ /\ wpc'[w] = wpc[w] /\ pPerIO'[w] = pPerIO[w] /\ hangup'[w] = hangup[w]
              /\ pPerHandle'[w] = pPerHandle[w]
              /\ Holds(w) => pPerIO[w] # s,
         \A c \in Conns : HungUpOn(c)' => HungUpOn(c) \/ PeerGone(c),
         replies' \in [Conns -> Seq(Pieces)],
         Received'
  PROVE  ExcuseInv'
<1>0. CoreType
  BY DEF GoodInv, WebInv, TypeInv
<1>1. ASSUME NEW t, InUse(t), t # s
      PROVE  /\ Arrived(t)' <=> Arrived(t)
             /\ Ready(t)' <=> Ready(t)
             /\ Given(t)' <=> Given(t)
             /\ Excused(t) => Excused(t)'
             /\ m_nOperationType'[t] = m_nOperationType[t]
  <2>1. t \in Sessions \ {s} /\ m_addr[t] \in Conns /\ key[m_addr[t]] # s
    BY <1>1, GoodUse
  <2>2. /\ m_addr'[t] = m_addr[t]
        /\ m_buf'[t] = m_buf[t] /\ m_dataSendTemp'[t] = m_dataSendTemp[t]
        /\ m_nOperationType'[t] = m_nOperationType[t]
        /\ received'[m_addr[t]] = received[m_addr[t]] /\ replies'[m_addr[t]] = replies[m_addr[t]]
    BY <2>1
  <2>3. Unanswered(m_addr[t])' = Unanswered(m_addr[t])
    BY <2>2 DEF Unanswered
  <2>4. PeerGone(m_addr[t]) => PeerGone(m_addr[t])'
    BY <1>0, <2>1, <2>2, GoneStays DEF PeerGone
  <2>5. Current(t)' <=> Current(t)
    BY <2>2, <2>3 DEF Current
  <2> QED
    BY <2>2, <2>3, <2>4, <2>5 DEF Arrived, Ready, Given, Answering, Excused
<1>2. \A p \in io' : OpExcused(p)'
  BY <1>1, GoodOp DEF OpExcused, GoodInv, ExcuseInv
<1>3. ASSUME NEW w \in Workers
      PROVE  WorkerExcused(w)'
  <2> SUFFICES ASSUME wpc'[w] = wpc[w], pPerIO'[w] = pPerIO[w], hangup'[w] = hangup[w],
                      pPerHandle'[w] = pPerHandle[w], Holds(w) => pPerIO[w] # s
               PROVE  WorkerExcused(w)'
    OBVIOUS
  <2>1. WorkerExcused(w)
    BY DEF GoodInv, ExcuseInv
  <2>2. CASE wpc[w] \in {"close", "handle", "send", "recv"}
    <3>1. InUse(pPerIO[w]) /\ pPerIO[w] # s /\ Attached(pPerIO[w]) /\ pPerIO[w] # idNew
      BY <2>2, GoodWorker
    <3>2. Missed(pPerIO[w]) => Missed(pPerIO[w])'
      BY <3>1, GoodUse, MissedStays
    <3> QED
      BY <1>1, <2>1, <2>2, <3>1, <3>2 DEF WorkerExcused
  <2>3. CASE wpc[w] = "hangup"
    <3> DEFINE t == pPerHandle[w]
    <3>1. t \in Sessions /\ Kept(t) /\ Missed(t)
      BY <1>0, <2>1, <2>3 DEF WorkerExcused, CoreType
    <3>2. Missed(t)'
      BY <3>1, MissedStays DEF Kept
    <3>3. Unanswered(m_addr[t]) # {}
      BY <3>1 DEF Missed, Behind, Current
    <3>4. Kept(t)'
      BY <3>1, <3>3, AcceptKeeps, OthersKeep
    <3> QED
      BY <2>3, <3>2, <3>4 DEF WorkerExcused
  <2>4. CASE wpc[w] \notin {"close", "handle", "send", "recv", "hangup"}
    BY <2>4 DEF WorkerExcused
  <2> QED
    BY <2>2, <2>3, <2>4
<1>4. \A c \in Conns : HungUpOn(c)' => PeerGone(c)'
  BY <1>0, GoneStays DEF GoodInv, ExcuseInv
<1> QED
  BY <1>2, <1>3, <1>4 DEF ExcuseInv

(* The case of a step that changes no data at all. *)
LEMMA ExcuseFrame ==
  ASSUME GoodInv, [WebNext]_allVars,
         \A w \in Workers : ~HangUp(w),
         \A w \in Workers : CloseSocket(w) => Unanswered(m_addr[pPerIO[w]]) = {},
         UNCHANGED <<m_addr, m_buf, m_dataSendTemp, received, replies>>,
         \A p \in io' : p \in io \/ OpExcused(p)',
         \A w \in Workers :
           \/ WorkerExcused(w)'
           \/ /\ wpc'[w] = wpc[w] /\ pPerIO'[w] = pPerIO[w] /\ hangup'[w] = hangup[w]
              /\ pPerHandle'[w] = pPerHandle[w],
         UNCHANGED m_nOperationType,
         \A c \in Conns : HungUpOn(c)' => HungUpOn(c) \/ PeerGone(c)
  PROVE  ExcuseInv'
<1>1. \A p \in io' : (p \in io /\ p.session # INVALID) \/ OpExcused(p)'
  BY GoodOp, ConstantsAssumption DEF Sessions, INVALID
<1>2. \A w \in Workers : Holds(w) => pPerIO[w] # INVALID
  BY ConstantsAssumption DEF GoodInv, WebInv, TypeInv, CoreType, Holds, Sessions, INVALID
<1>3. replies' \in [Conns -> Seq(Pieces)] /\ Received'
  BY DEF GoodInv, ExcuseInv, Received
<1>4. \A w \in Workers :
           \/ WorkerExcused(w)'
           \/ /\ wpc'[w] = wpc[w] /\ pPerIO'[w] = pPerIO[w] /\ hangup'[w] = hangup[w]
              /\ pPerHandle'[w] = pPerHandle[w]
              /\ Holds(w) => pPerIO[w] # INVALID
  BY <1>2
<1> QED
  BY <1>1, <1>3, <1>4, ExcuseMove

(* Then the excuses stay what they are. *)
LEMMA ExcusesSame ==
  ASSUME CoreType, [WebNext]_allVars, NEW s, m_addr[s] \in Conns,
         UNCHANGED <<m_addr, m_buf, m_dataSendTemp, received, replies>>
  PROVE  /\ Arrived(s) => Arrived(s)'
         /\ Ready(s) => Ready(s)'
         /\ Given(s) => Given(s)'
         /\ Excused(s) => Excused(s)'
<1>1. Unanswered(m_addr[s])' = Unanswered(m_addr[s])
  BY DEF Unanswered
<1>2. PeerGone(m_addr[s]) => PeerGone(m_addr[s])'
  BY GoneStays DEF PeerGone
<1>3. Current(s)' <=> Current(s)
  BY <1>1 DEF Current
<1> QED
  BY <1>1, <1>2, <1>3 DEF Arrived, Ready, Given, Answering, Excused

LEMMA AcceptExcuses ==
  ASSUME GoodInv, WebAcceptor
  PROVE  ExcuseInv'
<1> USE DEF webVars, idVars, accVars, sessVars, workVars, tcpVars
<1>0. /\ CoreType /\ OwnerInv /\ SocketInv /\ [WebNext]_allVars /\ Acceptor
      /\ net \in [Conns -> {"idle", "backlog", "open", "closed"}]
      /\ key \in [Conns -> Sessions \cup {INVALID}]
  BY DEF GoodInv, WebInv, TypeInv, CoreType, WebNext, WebAcceptor
<1>1. UNCHANGED <<m_buf, m_dataSendTemp, hangup, received, replies, wpc, pPerIO, pPerHandle>>
  BY DEF WebAcceptor, Acceptor, Accept, GetFreeId, AcceptConn, AcceptFails, PopReturns, PopEmpty,
         ReturnInvalid, CheckTop, Increment, Refuse, InitSession, InitFails, GiveBack,
         CloseNew, SetUp, PostFirst
<1>2. /\ \A w \in Workers : ~HangUp(w)
      /\ \A w \in Workers : ~CloseSocket(w)
  <2>1. apc' # apc
    BY <1>0 DEF Acceptor, Accept, GetFreeId, AcceptConn, AcceptFails, PopReturns, PopEmpty,
         ReturnInvalid, CheckTop, Increment, Refuse, InitSession, InitFails, GiveBack,
         CloseNew, SetUp, PostFirst
  <2> QED
    BY <2>1 DEF HangUp, CloseSocket
<1>3. CASE CloseNew
  <2>1. /\ closesocket(sNew)
        /\ UNCHANGED <<m_addr, m_nOperationType, key>>
    BY <1>3 DEF CloseNew
  <2>2. Open(sNew) => /\ owner[sNew] = saRemote /\ key[saRemote] = INVALID /\ saRemote \in Conns
    BY <1>0, <1>3, ConstantsAssumption DEF CloseNew, Open, SocketInv, AcceptedInv
  <2>3. io' = io
    <3>1. Open(sNew) => \A o \in io : o.conn # owner[sNew]
      BY <2>2, GoodOp, ConstantsAssumption DEF Sessions, INVALID
    <3> QED
      BY <2>1, <3>1 DEF closesocket
  <2>4. \A c \in Conns : HungUpOn(c)' => HungUpOn(c)
    BY <1>0, <2>1, <2>2 DEF HungUpOn, closesocket
  <2> QED
    BY <1>0, <1>1, <1>2, <2>1, <2>3, <2>4, ExcuseFrame
<1>4. CASE SetUp
  <2>1. /\ idNew \in Sessions /\ m_addr' = [m_addr EXCEPT ![idNew] = saRemote]
        /\ m_nOperationType' = [m_nOperationType EXCEPT ![idNew] = "READ"]
        /\ m_addr \in [Sessions -> Conns \cup {NoConn}]
        /\ m_nOperationType \in [Sessions -> {"NONE", "READ", "WRITE"}]
        /\ UNCHANGED <<io, net>>
        /\ key' = IF Open(sNew) THEN [key EXCEPT ![owner[sNew]] = idNew] ELSE key
    BY <1>0, <1>4 DEF SetUp, CoreType
  <2>2. \A o \in io : o.session # idNew
    BY <1>0 DEF OwnerInv, SingleOwner
  <2>3. \A w \in Workers : Holds(w) => pPerIO[w] # idNew
    BY <1>0 DEF OwnerInv, SingleOwner
  <2>4. \A t \in Sessions \ {idNew} : m_addr'[t] = m_addr[t] /\ m_nOperationType'[t] = m_nOperationType[t]
    BY <2>1
  <2>5. Open(sNew) => net[owner[sNew]] = "open"
    BY <1>0 DEF Open, SocketInv, HandlesInv
  <2>6. \A c \in Conns : HungUpOn(c)' => HungUpOn(c)
    BY <1>0, <2>1, <2>5 DEF HungUpOn
  <2>7. replies' \in [Conns -> Seq(Pieces)] /\ Received'
    BY <1>1 DEF GoodInv, ExcuseInv, Received
  <2> QED
    BY <1>0, <1>1, <1>2, <2>1, <2>2, <2>3, <2>4, <2>6, <2>7, ExcuseMove
<1>5. CASE PostFirst
  <2> DEFINE new == [session |-> idNew, conn |-> owner[sNew], kind |-> "recv", state |-> "pending"]
  <2>1. UNCHANGED <<m_addr, m_nOperationType, key, net>>
    BY <1>5 DEF PostFirst
  <2>2. io' = io \/ io' = io \cup {new}
    BY <1>5, PostSessions DEF PostFirst
  <2>3. ASSUME NEW p \in io', p \notin io
        PROVE  OpExcused(p)'
    <3>1. p.state = "pending" /\ p.kind = "recv"
      BY <2>2, <2>3
    <3> QED
      BY <3>1 DEF OpExcused
  <2>4. \A c \in Conns : HungUpOn(c)' => HungUpOn(c)
    BY <2>1 DEF HungUpOn
  <2> QED
    BY <1>0, <1>1, <1>2, <2>1, <2>3, <2>4, ExcuseFrame
<1>6. CASE ~CloseNew /\ ~SetUp /\ ~PostFirst
  <2>1. /\ UNCHANGED <<m_addr, m_nOperationType, io, key>>
        /\ \A c \in Conns : net'[c] = "closed" => net[c] = "closed" \/ net[c] = "backlog"
    BY <1>0, <1>6 DEF Acceptor, Accept, GetFreeId, AcceptConn, AcceptFails, PopReturns, PopEmpty,
         ReturnInvalid, CheckTop, Increment, Refuse, InitSession, InitFails, GiveBack
  <2>2. \A c \in Conns : HungUpOn(c)' => HungUpOn(c)
    BY <1>0, <2>1 DEF HungUpOn, SocketInv, HandlesInv
  <2> QED
    BY <1>0, <1>1, <1>2, <2>1, <2>2, ExcuseFrame
<1> QED
  BY <1>3, <1>4, <1>5, <1>6

LEMMA DequeueExcuses ==
  ASSUME GoodInv, NEW w \in Workers, NEW o \in io, WebDequeue(w, o)
  PROVE  ExcuseInv'
<1> DEFINE s == o.session
<1> USE DEF webVars, idVars, accVars, sessVars, workVars, tcpVars
<1>0. /\ CoreType /\ TypeTold /\ [WebNext]_allVars
      /\ wpc \in [Workers -> WorkerPlaces]
      /\ pPerIO \in [Workers -> Sessions \cup {INVALID}]
      /\ pPerHandle \in [Workers -> Sessions \cup {INVALID}]
  BY DEF GoodInv, WebInv, TypeInv, CoreType, WebNext
<1>1. /\ UNCHANGED <<m_addr, m_buf, m_dataSendTemp, m_nOperationType, received, replies, key, net, hangup>>
      /\ io' = io \ {o} /\ pPerIO'[w] = s
      /\ \A v \in Workers \ {w} :
           wpc'[v] = wpc[v] /\ pPerIO'[v] = pPerIO[v] /\ pPerHandle'[v] = pPerHandle[v]
      /\ wpc[w] = "wait"
      /\ wpc'[w] = IF \/ o.state = "failed"
                      \/ o.state = "zero" /\ m_nOperationType[s] \in {"READ", "WRITE"}
                   THEN "close" ELSE "handle"
      /\ o.state # "pending"
  BY <1>0 DEF WebDequeue, Dequeue
<1>2. \A v \in Workers : ~HangUp(v) /\ ~CloseSocket(v)
  BY <1>0, <1>1 DEF HangUp, CloseSocket, WorkerWaits
<1>3. /\ m_addr[s] \in Conns
      /\ o.kind \in {"recv", "send"} /\ o.state \in {"pending", "done", "zero", "failed"}
      /\ m_nOperationType[s] = IF o.kind = "recv" THEN "READ" ELSE "WRITE"
  BY <1>0, GoodOp DEF TypeTold, RightOp
<1>4. /\ Arrived(s) => Arrived(s)'
      /\ Given(s) => Given(s)'
      /\ Excused(s) => Excused(s)'
  BY <1>0, <1>1, <1>3, ExcusesSame
<1>5. OpExcused(o)
  BY DEF GoodInv, ExcuseInv
<1>6. WorkerExcused(w)'
  <2>1. wpc'[w] \in {"close", "handle"}
    BY <1>1
  <2>2. wpc'[w] = "close" => Excused(s)'
    BY <1>1, <1>3, <1>4, <1>5 DEF OpExcused
  <2>3. wpc'[w] = "handle" => IF m_nOperationType[s] = "READ" THEN Arrived(s)' ELSE Given(s)'
    BY <1>1, <1>3, <1>4, <1>5 DEF OpExcused
  <2> QED
    BY <1>1, <2>1, <2>2, <2>3 DEF WorkerExcused
<1>7. \A c \in Conns : HungUpOn(c)' => HungUpOn(c)
  BY <1>1 DEF HungUpOn
<1> QED
  BY <1>0, <1>1, <1>2, <1>6, <1>7, ExcuseFrame

(* Closing a connection that is not answered makes it a cause. *)
LEMMA CloseExcuses ==
  ASSUME GoodInv, NEW w \in Workers, WebClose(w)
  PROVE  ExcuseInv' \/ Cause'
<1> USE DEF webVars, idVars, accVars, sessVars, workVars, tcpVars
<1>0. /\ CoreType /\ [WebNext]_allVars
      /\ wpc \in [Workers -> WorkerPlaces]
      /\ pPerIO \in [Workers -> Sessions \cup {INVALID}]
      /\ pPerHandle \in [Workers -> Sessions \cup {INVALID}]
      /\ net \in [Conns -> {"idle", "backlog", "open", "closed"}]
  BY DEF GoodInv, WebInv, TypeInv, CoreType, WebNext
<1>1. CASE FreeSession(w) \/ UnInit(w)
  <2>1. /\ UNCHANGED <<m_addr, m_buf, m_dataSendTemp, m_nOperationType, received, replies, key, net,
                       hangup, io>>
        /\ \A v \in Workers \ {w} :
             wpc'[v] = wpc[v] /\ pPerIO'[v] = pPerIO[v] /\ pPerHandle'[v] = pPerHandle[v]
        /\ wpc[w] \in {"free", "uninit"} /\ wpc'[w] \in {"uninit", "wait"}
    BY <1>0, <1>1 DEF WebClose, FreeSession, UnInit
  <2>2. \A v \in Workers : ~HangUp(v) /\ ~CloseSocket(v)
    BY <1>0, <2>1 DEF HangUp, CloseSocket, WorkerWaits
  <2>3. WorkerExcused(w)'
    BY <2>1 DEF WorkerExcused
  <2>4. \A c \in Conns : HungUpOn(c)' => HungUpOn(c)
    BY <2>1 DEF HungUpOn
  <2> QED
    BY <1>0, <2>1, <2>2, <2>3, <2>4, ExcuseFrame
<1>2. CASE CloseSocket(w)
  <2> DEFINE s == pPerIO[w]
             c == m_addr[s]
  <2>1. /\ UNCHANGED <<m_addr, m_buf, m_dataSendTemp, m_nOperationType, received, replies, key,
                       hangup, pPerIO, pPerHandle>>
        /\ \A v \in Workers \ {w} : wpc'[v] = wpc[v]
        /\ wpc[w] = "close" /\ wpc'[w] = "free"
    BY <1>0, <1>2 DEF WebClose, CloseSocket
  <2>2. /\ InUse(s) /\ pPerHandle[w] = s /\ \A o \in io : o.session # s
    BY <2>1, GoodWorker
  <2>3. /\ m_s[s] \in Handles /\ owner[m_s[s]] = c /\ key[c] = s /\ c \in Conns /\ s # INVALID
    BY <2>2, GoodUse
  <2>4. Open(m_s[s]) /\ closesocket(m_s[s])
    BY <1>2, <2>2, <2>3, ConstantsAssumption DEF CloseSocket, Open
  <2>5. net' = [net EXCEPT ![c] = "closed"] /\ io' = io
    <3>1. \A o \in io : o.conn # owner[m_s[s]]
      BY <2>2, <2>3, GoodOp
    <3> QED
      BY <2>3, <2>4, <3>1 DEF closesocket
  <2>6. CASE Unanswered(c) # {}
    <3>1. PICK d \in Conns : d = c
      BY <2>3
    <3>2. HungUpOn(d)'
      BY <1>0, <2>1, <2>3, <2>5, <3>1 DEF HungUpOn
    <3>3. Unanswered(d)' # {}
      BY <2>1, <2>6, <3>1 DEF Unanswered
    <3> QED
      BY <3>2, <3>3 DEF Cause
  <2>7. CASE Unanswered(c) = {}
    <3>1. PeerGone(c)
      BY <2>1, <2>7 DEF GoodInv, ExcuseInv, WorkerExcused, Excused
    <3>2. \A d \in Conns : HungUpOn(d)' => HungUpOn(d) \/ PeerGone(d)
      BY <1>0, <2>1, <2>3, <2>5, <3>1 DEF HungUpOn
    <3>3. \A v \in Workers : CloseSocket(v) => Unanswered(m_addr[pPerIO[v]]) = {}
      BY <1>0, <2>1, <2>7 DEF CloseSocket
    <3>4. \A v \in Workers : ~HangUp(v)
      BY <1>0, <2>1 DEF HangUp, WorkerWaits
    <3>5. WorkerExcused(w)'
      BY <2>1 DEF WorkerExcused
    <3> HIDE DEF c, s
    <3> QED
      BY <1>0, <2>1, <2>5, <3>2, <3>3, <3>4, <3>5, ExcuseFrame
  <2> QED
    BY <2>6, <2>7
<1> QED
  BY <1>1, <1>2 DEF WebClose

LEMMA HangUpCause ==
  ASSUME GoodInv, NEW w \in Workers, HangUp(w)
  PROVE  Cause'
<1> DEFINE t == pPerHandle[w]
<1>1. wpc[w] = "hangup" /\ UNCHANGED <<received, replies, key>>
  BY DEF HangUp, tcpVars
<1>2. Kept(t) /\ Missed(t)
  BY <1>1 DEF GoodInv, ExcuseInv, WorkerExcused
<1>3. /\ m_s[t] \in Handles /\ owner[m_s[t]] # NoConn /\ owner[m_s[t]] = m_addr[t]
      /\ key[m_addr[t]] = t /\ t # INVALID
      /\ owner \in [Handles -> Conns \cup {NoConn}]
      /\ net \in [Conns -> {"idle", "backlog", "open", "closed"}]
  BY <1>2 DEF Kept, Attached, Open, INVALID, GoodInv, WebInv, TypeInv, CoreType
<1>4. PICK d \in Conns : d = m_addr[t]
  BY <1>3
<1>5. net' = [net EXCEPT ![d] = "closed"]
  BY <1>3, <1>4 DEF HangUp, closesocket, Open
<1>6. HungUpOn(d)'
  BY <1>1, <1>3, <1>4, <1>5 DEF HungUpOn
<1>7. Unanswered(d) # {}
  BY <1>2, <1>4 DEF Missed, Behind, Current
<1>8. Unanswered(d)' # {}
  BY <1>1, <1>7 DEF Unanswered
<1> QED
  BY <1>6, <1>8 DEF Cause

LEMMA AnswersExcuses ==
  ASSUME GoodInv, NEW w \in Workers, Answers(w)
  PROVE  ExcuseInv'
<1> DEFINE s == pPerIO[w]
           c == m_addr[s]
           data == m_dataSendTemp[s]
<1> USE DEF idVars, accVars, sessVars, workVars, tcpVars, webVars
<1>0. /\ TypeInv /\ CoreType /\ TypeTold /\ WebType /\ [WebNext]_allVars
      /\ wpc \in [Workers -> WorkerPlaces]
      /\ m_nOperationType \in [Sessions -> {"NONE", "READ", "WRITE"}]
      /\ WorkerExcused(w)
  BY DEF GoodInv, WebInv, TypeInv, CoreType, WebBuffers, ExcuseInv, WebNext, WebHandle, Answers
<1>1. /\ UNCHANGED <<m_addr, received, replies, key, net, io, pPerIO, pPerHandle>>
      /\ \A v \in Workers \ {w} : wpc'[v] = wpc[v] /\ hangup'[v] = hangup[v]
      /\ wpc[w] \in {"handle", "send"} /\ wpc'[w] \in {"send", "recv"}
  <2>1. /\ UNCHANGED <<m_addr, received, replies, key, net, io, pPerIO, pPerHandle>>
        /\ \A v \in Workers \ {w} : wpc'[v] = wpc[v]
        /\ wpc'[w] \in {"send", "recv"}
    BY <1>0, AnswersChange
  <2>2. /\ \A v \in Workers \ {w} : hangup'[v] = hangup[v]
        /\ wpc[w] \in {"handle", "send"}
    BY <1>0 DEF Answers, AnswerPage, AnswerBad, AnswerPartial, SendNext, AllSent, SendFails, WebType
  <2> QED
    BY <2>1, <2>2
<1>2. /\ InUse(s) /\ Holds(w)
      /\ \A o \in io : o.session # s
      /\ \A v \in Workers \ {w} : Holds(v) => pPerIO[v] # s
  BY <1>1, GoodWorker
<1>3. s \in Sessions /\ c \in Conns /\ data \in Responses
  BY <1>0, <1>2, GoodUse DEF WebType
<1>4. \A v \in Workers : ~HangUp(v) /\ ~CloseSocket(v)
  BY <1>0, <1>1 DEF HangUp, CloseSocket, WorkerWaits
<1>5. \A t \in Sessions \ {s} : /\ m_buf'[t] = m_buf[t]
                                /\ m_dataSendTemp'[t] = m_dataSendTemp[t]
                                /\ m_nOperationType'[t] = m_nOperationType[t]
  BY <1>0, <1>3 DEF Answers, AnswerPage, AnswerBad, AnswerPartial, SendNext, AllSent, SendFails,
                    ReadPiece, WebType
<1>6. Unanswered(c)' = Unanswered(c) /\ (Current(s) => Current(s)')
  BY <1>1 DEF Unanswered, Current
<1>7. WorkerExcused(w)'
  <2>1. CASE AnswerPage(w)
    <3>1. Arrived(s) /\ wpc'[w] = "send"
      BY <1>0, <2>1 DEF AnswerPage, WorkerExcused
    <3>2. PICK n \in 1 .. MaxPieces :
            ReadPiece(s, [request |-> m_buf[s], len |-> n, pos |-> 0])
      BY <2>1 DEF AnswerPage
    <3>3. /\ m_buf'[s] = Piece(m_buf[s], 1, n)
          /\ m_dataSendTemp'[s] = [request |-> m_buf[s], len |-> n, pos |-> 1]
      BY <1>0, <1>3, <3>2 DEF ReadPiece, WebType
    <3>4. Answering(s)'
      BY <1>1, <3>1, <3>3, WebAssumption DEF Answering, Arrived
    <3>5. Ready(s)'
      BY <1>1, <1>6, <3>1, <3>3, <3>4 DEF Ready, Arrived
    <3> QED
      BY <1>1, <3>1, <3>5 DEF WorkerExcused
  <2>2. CASE AnswerBad(w)
    <3>1. Arrived(s) /\ wpc'[w] = "send" /\ m_dataSendTemp'[s].len = 0
      BY <1>0, <1>3, <2>2 DEF AnswerBad, WorkerExcused, WebType, Responses
    <3>2. Ready(s)'
      BY <1>1, <1>6, <3>1 DEF Ready, Arrived
    <3> QED
      BY <1>1, <3>1, <3>2 DEF WorkerExcused
  <2>3. CASE AnswerPartial(w)
    <3>1. Current(s) /\ m_nOperationType'[s] = "READ" /\ wpc'[w] = "recv"
      BY <1>0, <2>3 DEF AnswerPartial, WorkerExcused, Arrived
    <3>2. Quiet(s)'
      BY <1>1, <1>2, <3>1 DEF Quiet, Holds
    <3>3. Missed(s)'
      BY <1>6, <3>1, <3>2 DEF Missed
    <3> QED
      BY <1>1, <3>1, <3>3 DEF WorkerExcused
  <2>4. CASE SendNext(w)
    <3>1. Given(s) /\ wpc'[w] = "send"
      BY <1>0, <2>4 DEF SendNext, WorkerExcused
    <3>2. /\ m_buf'[s] = Piece(data.request, data.pos + 1, data.len)
          /\ m_dataSendTemp'[s] = [data EXCEPT !.pos = @ + 1]
          /\ data.pos < data.len
      BY <1>0, <1>3, <2>4 DEF SendNext, ReadPiece, WebType
    <3>3. /\ [data EXCEPT !.pos = @ + 1].pos = data.pos + 1
          /\ [data EXCEPT !.pos = @ + 1].len = data.len
          /\ [data EXCEPT !.pos = @ + 1].request = data.request
          /\ data.pos \in Nat /\ data.len \in Nat
      BY <1>3 DEF Responses
    <3>4. Answering(s)'
      BY <1>1, <3>1, <3>2, <3>3 DEF Answering, Given
    <3>5. Ready(s)'
      BY <1>1, <1>6, <3>1, <3>2, <3>3, <3>4 DEF Ready, Given
    <3> QED
      BY <1>1, <3>1, <3>5 DEF WorkerExcused
  <2>5. CASE AllSent(w)
    BY <1>0, <1>1, <2>5 DEF AllSent, WorkerExcused, WebType
  <2>6. CASE SendFails(w)
    <3>1. Current(s) /\ m_nOperationType'[s] = "READ" /\ wpc'[w] = "recv"
      BY <1>0, <1>3, <2>6 DEF SendFails, WorkerExcused, Ready
    <3>2. Quiet(s)'
      BY <1>1, <1>2, <3>1 DEF Quiet, Holds
    <3>3. Missed(s)'
      BY <1>6, <3>1, <3>2 DEF Missed
    <3> QED
      BY <1>1, <3>1, <3>3 DEF WorkerExcused
  <2> QED
    BY <2>1, <2>2, <2>3, <2>4, <2>5, <2>6 DEF Answers
<1>8. /\ \A d \in Conns : HungUpOn(d)' => HungUpOn(d)
      /\ replies' \in [Conns -> Seq(Pieces)] /\ Received'
  BY <1>1 DEF HungUpOn, GoodInv, ExcuseInv, Received
<1>9. \A v \in Workers :
        \/ WorkerExcused(v)'
        \/ /\ wpc'[v] = wpc[v] /\ pPerIO'[v] = pPerIO[v] /\ hangup'[v] = hangup[v]
           /\ pPerHandle'[v] = pPerHandle[v]
           /\ Holds(v) => pPerIO[v] # s
  BY <1>1, <1>2, <1>7
<1> HIDE DEF s, c, data
<1> QED
  BY <1>0, <1>1, <1>2, <1>4, <1>5, <1>8, <1>9, ExcuseMove

LEMMA PostExcuses ==
  ASSUME GoodInv, NEW w \in Workers, PostSend(w) \/ PostRecv(w)
  PROVE  ExcuseInv'
<1> DEFINE s == pPerIO[w]
<1> USE DEF idVars, accVars, sessVars, workVars, tcpVars, webVars
<1>0. /\ CoreType /\ [WebNext]_allVars
      /\ wpc \in [Workers -> WorkerPlaces]
      /\ pPerIO \in [Workers -> Sessions \cup {INVALID}]
      /\ pPerHandle \in [Workers -> Sessions \cup {INVALID}]
      /\ WorkerExcused(w)
  BY DEF GoodInv, WebInv, TypeInv, CoreType, ExcuseInv, WebNext, WebHandle
<1>1. /\ UNCHANGED <<m_addr, m_buf, m_dataSendTemp, m_nOperationType, received, replies, key, net,
                     hangup>>
      /\ \A v \in Workers \ {w} :
           wpc'[v] = wpc[v] /\ pPerIO'[v] = pPerIO[v] /\ pPerHandle'[v] = pPerHandle[v]
      /\ wpc[w] \in {"send", "recv"} /\ wpc'[w] \in {"wait", "hangup"}
      /\ wpc'[w] = "hangup" => wpc[w] = "recv" /\ hangup[w] /\ pPerHandle'[w] = pPerHandle[w]
  BY <1>0 DEF PostSend, PostRecv, WorkerWaits
<1>2. /\ InUse(s) /\ Holds(w) /\ pPerHandle[w] = s /\ Attached(s) /\ s # idNew
      /\ \A v \in Workers \ {w} : Holds(v) => pPerIO[v] # s
  BY <1>1, GoodWorker
<1>3. s \in Sessions /\ m_addr[s] \in Conns
  BY <1>2, GoodUse
<1>4. \A v \in Workers : ~HangUp(v) /\ ~CloseSocket(v)
  <2>1. wpc'[w] = "wait" \/ wpc'[w] = "hangup"
    BY <1>1
  <2> QED
    BY <1>0, <1>1, <2>1 DEF HangUp, CloseSocket, WorkerWaits
<1>5. ASSUME NEW p \in io', p \notin io
      PROVE  OpExcused(p)'
  <2>1. PICK kind \in {"send", "recv"} : Post(m_s[pPerHandle[w]], s, kind) /\ kind = wpc[w]
    BY DEF PostSend, PostRecv, Post
  <2>2. PICK t \in Sessions : t = s
    BY <1>3
  <2>3. p.session = t /\ p.state = "pending" /\ p.kind = wpc[w]
    BY <1>5, <2>1, <2>2, PostSessions
  <2>4. wpc[w] = "send" => Ready(t)'
    BY <1>0, <1>1, <1>3, <2>2, ExcusesSame DEF WorkerExcused
  <2> QED
    BY <2>3, <2>4 DEF OpExcused
<1>6. WorkerExcused(w)'
  <2>1. CASE wpc'[w] = "wait"
    BY <2>1 DEF WorkerExcused
  <2>2. CASE wpc'[w] = "hangup"
    <3>1. Missed(s)
      BY <1>0, <1>1, <2>2 DEF WorkerExcused
    <3>2. Kept(s)
      BY <1>1, <1>2 DEF Kept, GoodInv, WebInv, OwnerInv, SingleOwner, IdsIssued, Holds
    <3>3. PICK t \in Sessions : t = s
      BY <1>3
    <3>4. ~WebAcceptor
      BY <1>0, <1>1, <2>2 DEF WebAcceptor, Acceptor, Accept, GetFreeId, AcceptConn, AcceptFails,
         PopReturns, PopEmpty, ReturnInvalid, CheckTop, Increment, Refuse, InitSession, InitFails,
         GiveBack, CloseNew, SetUp, PostFirst
    <3>5. Kept(t)'
      BY <1>0, <1>4, <3>2, <3>3, <3>4, OthersKeep
    <3>6. Missed(t)'
      BY <1>0, <1>2, <3>1, <3>3, MissedStays
    <3> QED
      BY <1>1, <1>2, <2>2, <3>3, <3>5, <3>6 DEF WorkerExcused
  <2> QED
    BY <1>1, <2>1, <2>2
<1>7. \A d \in Conns : HungUpOn(d)' => HungUpOn(d)
  BY <1>1 DEF HungUpOn
<1> QED
  BY <1>0, <1>1, <1>4, <1>5, <1>6, <1>7, ExcuseFrame

LEMMA CompletionExcuses ==
  ASSUME GoodInv, NEW o \in io, WebCompletion(o)
  PROVE  ExcuseInv'
<1> DEFINE s == o.session
           c == o.conn
           data == m_dataSendTemp[s]
<1> USE DEF idVars, accVars, sessVars, workVars, tcpVars, webVars
<1>0. /\ TypeInv /\ CoreType /\ OwnerInv /\ WebType /\ [WebNext]_allVars /\ OpExcused(o)
      /\ received \in [Conns -> 0 .. MaxChunks] /\ replies \in [Conns -> Seq(Pieces)]
      /\ MaxChunks \in Nat /\ Received
  BY ConstantsAssumption DEF GoodInv, WebInv, TypeInv, CoreType, WebBuffers, ExcuseInv, WebNext
<1>1. /\ InUse(s) /\ s \in Sessions /\ c = m_addr[s] /\ c \in Conns /\ key[c] = s
      /\ o.kind \in {"recv", "send"}
  BY GoodOp
<1>2. data \in Responses
  BY <1>0, <1>1 DEF WebType
<1>3. /\ UNCHANGED <<m_addr, m_nOperationType, m_dataSendTemp, key, net, peer, sent,
                     wpc, pPerIO, pPerHandle, hangup>>
      /\ \A t \in Sessions \ {s} : m_buf'[t] = m_buf[t]
      /\ \A d \in Conns : key[d] # s => received'[d] = received[d] /\ replies'[d] = replies[d]
  <2>1. UNCHANGED <<m_addr, m_nOperationType, m_dataSendTemp, key, net, peer, sent,
                    wpc, pPerIO, pPerHandle, hangup>>
    BY DEF WebCompletion, RecvData, RecvZero, OpFails, SendDone, EmptySendDone
  <2>2. \A t \in Sessions \ {s} : m_buf'[t] = m_buf[t]
    BY <1>0, <1>1 DEF WebCompletion, RecvData, RecvZero, OpFails, SendDone, EmptySendDone, WebType
  <2>3. \A d \in Conns \ {c} : received'[d] = received[d] /\ replies'[d] = replies[d]
    BY <1>0, <1>1 DEF WebCompletion, RecvData, RecvZero, OpFails, SendDone, EmptySendDone
  <2> QED
    BY <1>1, <2>1, <2>2, <2>3
<1>4. \A w \in Workers : Holds(w) => pPerIO[w] # s
  BY <1>0 DEF OwnerInv, SingleOwner
<1>5. \A w \in Workers : ~HangUp(w) /\ ~CloseSocket(w)
  BY <1>0, <1>3 DEF HangUp, CloseSocket, WorkerWaits, CoreType
<1>6. \A d \in Conns : HungUpOn(d)' => HungUpOn(d)
  BY <1>3 DEF HungUpOn
<1>7. ASSUME NEW d \in Conns, NEW i \in DOMAIN replies[d]
      PROVE  replies[d][i].number \in Nat /\ replies[d][i].number <= received[d]
  <2>1. replies[d] \in Seq(Pieces)
    BY <1>0
  <2>2. replies[d][i] \in Pieces
    BY <2>1
  <2>3. replies[d][i].number \in 0 .. MaxChunks
    BY <2>2 DEF Pieces
  <2> QED
    BY <1>0, <2>3 DEF Received
<1>8. SUFFICES /\ \A p \in io' : (p \in io /\ p.session # s) \/ OpExcused(p)'
               /\ replies' \in [Conns -> Seq(Pieces)]
               /\ Received'
  <2> HIDE DEF s, c, data
  <2> QED
    BY <1>0, <1>1, <1>3, <1>4, <1>5, <1>6, ExcuseMove
<1>9. CASE RecvData(o)
  <2>1. /\ received' = [received EXCEPT ![c] = @ + 1] /\ UNCHANGED replies
        /\ m_buf' = [m_buf EXCEPT ![s] = Chunk(c, received[c] + 1)]
        /\ Complete(o, "done") /\ o.kind = "recv" /\ o.state = "pending"
    BY <1>9 DEF RecvData
  <2>2. received'[c] = received[c] + 1 /\ m_buf'[s] = Chunk(c, received'[c]) /\ received[c] \in Nat
    BY <1>0, <1>1, <2>1 DEF WebType
  <2>3. received'[c] \in Unanswered(c)'
    <3>1. \A i \in DOMAIN replies[c] : replies[c][i].number # received'[c]
      BY <1>1, <1>7, <2>2
    <3> QED
      BY <2>1, <2>2, <3>1 DEF Unanswered
  <2>4. Arrived(s)'
    BY <1>1, <1>3, <2>2, <2>3 DEF Arrived, Current
  <2>5. \A p \in io' : (p \in io /\ p.session # s) \/ OpExcused(p)'
    BY <1>0, <2>1, <2>4, CompletedIs DEF OpExcused
  <2>6. Received'
    <3> SUFFICES ASSUME NEW d \in Conns, NEW i \in DOMAIN replies[d]
                 PROVE  replies[d][i].number <= received'[d]
      BY <2>1 DEF Received
    <3>1. replies[d][i].number \in Nat /\ replies[d][i].number <= received[d] /\ received[d] \in Nat
      BY <1>0, <1>7
    <3>2. received'[d] = received[d] \/ received'[d] = received[d] + 1
      BY <1>0, <1>1, <2>1
    <3> QED
      BY <3>1, <3>2
  <2> QED
    BY <1>0, <2>1, <2>5, <2>6
<1>10. CASE RecvZero(o) \/ OpFails(o) \/ EmptySendDone(o)
  <2>1. /\ UNCHANGED <<received, replies>>
        /\ \E state \in {"zero", "failed"} : Complete(o, state)
    BY <1>10 DEF RecvZero, OpFails, EmptySendDone
  <2>2. Excused(s)'
    <3>1. CASE RecvZero(o) \/ OpFails(o)
      BY <1>1, <1>3, <2>1, <3>1 DEF RecvZero, OpFails, Excused, PeerGone
    <3>2. CASE EmptySendDone(o)
      <4>1. Current(s)
        BY <1>0, <3>2 DEF EmptySendDone, OpExcused, Ready
      <4>2. Unanswered(c)' = Unanswered(c)
        BY <2>1 DEF Unanswered
      <4> QED
        BY <1>1, <1>3, <4>1, <4>2 DEF Current, Excused
    <3> QED
      BY <1>10, <3>1, <3>2
  <2>3. \A p \in io' : (p \in io /\ p.session # s) \/ OpExcused(p)'
    BY <1>0, <2>1, <2>2, CompletedIs DEF OpExcused
  <2> QED
    BY <1>0, <2>1, <2>3 DEF Received
<1>11. CASE SendDone(o) /\ data.len > 0
  <2> DEFINE next == m_buf[s]
  <2>1. /\ UNCHANGED <<received, m_buf>> /\ replies' = [replies EXCEPT ![c] = Append(@, next)]
        /\ Complete(o, "done") /\ o.kind = "send" /\ o.state = "pending"
    BY <1>11 DEF SendDone
  <2>2. Ready(s) /\ Current(s) /\ Answering(s) /\ next = Piece(data.request, data.pos, data.len)
    BY <1>0, <1>11, <2>1 DEF OpExcused, Ready
  <2>3. next \in Pieces /\ next.number = received[c] /\ next.piece = data.pos /\ next.of = data.len
    BY <1>1, <1>2, <2>2, WebAssumption DEF Answering, Pieces, Piece, Responses, Chunks, Chunk
  <2> HIDE DEF next
  <2>4. replies[c] \in Seq(Pieces) /\ replies'[c] = Append(replies[c], next)
    BY <1>0, <1>1, <2>1
  <2>5. replies' \in [Conns -> Seq(Pieces)]
    BY <1>0, <2>1, <2>3, <2>4
  <2>6. \A i \in DOMAIN replies'[c] : replies'[c][i] = next \/ (i \in DOMAIN replies[c] /\ replies'[c][i] = replies[c][i])
    BY <2>3, <2>4
  <2>7. Received'
    <3> SUFFICES ASSUME NEW d \in Conns, NEW i \in DOMAIN replies'[d]
                 PROVE  replies'[d][i].number <= received[d]
      BY <2>1 DEF Received
    <3>1. CASE d = c
      <4>1. received[d] \in Nat
        BY <1>0
      <4>2. replies'[d][i] = next \/ (i \in DOMAIN replies[d] /\ replies'[d][i] = replies[d][i])
        BY <2>6, <3>1
      <4> QED
        BY <1>7, <2>3, <3>1, <4>1, <4>2
    <3>2. CASE d # c
      BY <1>0, <2>1, <3>2 DEF Received
    <3> QED
      BY <3>1, <3>2
  <2>8. Given(s)'
    <3>1. Answering(s)'
      BY <1>1, <1>3, <2>1, <2>2 DEF Answering
    <3>2. data.pos < data.len => received[c] \in Unanswered(c)'
      <4>1. received[c] \in Unanswered(c)
        BY <1>1, <2>2 DEF Current
      <4> QED
        BY <1>2, <2>1, <2>3, <2>6, <4>1 DEF Unanswered, Responses
    <3> QED
      BY <1>1, <1>3, <2>1, <3>1, <3>2 DEF Given, Current
  <2>9. \A p \in io' : (p \in io /\ p.session # s) \/ OpExcused(p)'
    BY <1>0, <2>1, <2>8, CompletedIs DEF OpExcused
  <2> QED
    BY <2>5, <2>7, <2>9
<1> QED
  BY <1>9, <1>10, <1>11 DEF WebCompletion

LEMMA PeersExcuses ==
  ASSUME GoodInv, WebPeers \/ UNCHANGED allVars
  PROVE  ExcuseInv'
<1> USE DEF tcpVars, accVars, workVars, sessVars, webVars
<1>0. CoreType /\ [WebNext]_allVars
  BY DEF GoodInv, WebInv, TypeInv, WebNext
<1>1. /\ UNCHANGED <<m_addr, m_buf, m_nOperationType, m_dataSendTemp, hangup, key, received, replies,
                     io, wpc, pPerIO, pPerHandle>>
      /\ \A c \in Conns : net'[c] = "closed" => net[c] = "closed"
  BY <1>0 DEF WebPeers, Connect, PeerSend, PeerShut, PeerReset, allVars, vars, CoreType
<1>2. \A w \in Workers : ~HangUp(w) /\ ~CloseSocket(w)
  BY <1>0, <1>1 DEF HangUp, CloseSocket, WorkerWaits, CoreType
<1>3. \A c \in Conns : HungUpOn(c)' => HungUpOn(c)
  BY <1>1 DEF HungUpOn
<1> QED
  BY <1>0, <1>1, <1>2, <1>3, ExcuseFrame

LEMMA ExcuseStep ==
  ASSUME GoodInv, [WebNext]_allVars
  PROVE  ExcuseInv' \/ Cause'
BY AcceptExcuses, DequeueExcuses, CloseExcuses, HangUpCause, AnswersExcuses, PostExcuses,
   CompletionExcuses, PeersExcuses DEF WebNext, WebHandle, Answers

--------------------------------------------------------------------------------
(* A cause remains one, since nothing happens on a closed connection. *)
PendingOpen == \A o \in io : o.state = "pending" => net[o.conn] = "open"

LEMMA CloseKeepsPending ==
  ASSUME CoreType, PendingOpen, HandlesInv, NEW h, closesocket(h), UNCHANGED key
  PROVE  /\ HandlesInv' /\ PendingOpen'
         /\ \A c \in Conns : net[c] = "closed" => net'[c] = "closed"
<1>1. CASE Open(h)
  <2>1. /\ owner[h] \in Conns /\ h \in Handles /\ net' = [net EXCEPT ![owner[h]] = "closed"]
        /\ net \in [Conns -> {"idle", "backlog", "open", "closed"}]
    BY <1>1 DEF closesocket, Open, CoreType
  <2>2. ASSUME NEW p \in io', p.state = "pending"
        PROVE  net'[p.conn] = "open"
    <3>1. PICK o \in io : p = IF o.conn = owner[h] /\ o.state = "pending"
                             THEN [o EXCEPT !.state = "failed"] ELSE o
      BY <1>1 DEF closesocket
    <3>2. [o EXCEPT !.state = "failed"].state = "failed" /\ o.conn \in Conns
      BY DEF CoreType, Ops
    <3> QED
      BY <2>1, <2>2, <3>1, <3>2 DEF PendingOpen
  <2>3. HandlesInv'
    BY <1>1, <2>1, CloseKeepsHandles
  <2> QED
    BY <2>1, <2>2, <2>3 DEF PendingOpen
<1>2. CASE ~Open(h)
  BY <1>2 DEF closesocket, HandlesInv, PendingOpen
<1> QED
  BY <1>1, <1>2

LEMMA PostKeepsPending ==
  ASSUME CoreType, PendingOpen, HandlesInv, NEW h, NEW s, NEW kind, Post(h, s, kind),
         UNCHANGED <<net, owner, key>>
  PROVE  HandlesInv' /\ PendingOpen'
<1>1. \A p \in io' : p \in io \/ net[p.conn] = "open"
  BY DEF Post, Posted, NotPosted, Open, HandlesInv
<1> QED
  BY <1>1 DEF HandlesInv, PendingOpen

LEMMA HandlesKept ==
  ASSUME CoreType, PendingOpen, HandlesInv, [WebNext]_allVars
  PROVE  /\ HandlesInv' /\ PendingOpen'
         /\ \A c \in Conns : net[c] = "closed" => net'[c] = "closed"
<1> DEFINE Goal == /\ HandlesInv' /\ PendingOpen'
                   /\ \A c \in Conns : net[c] = "closed" => net'[c] = "closed"
<1> USE DEF idVars, accVars, sessVars, workVars, tcpVars, webVars
<1>0. /\ net \in [Conns -> {"idle", "backlog", "open", "closed"}]
      /\ owner \in [Handles -> Conns \cup {NoConn}]
      /\ key \in [Conns -> Sessions \cup {INVALID}]
      /\ \A o \in io : o.conn \in Conns
  BY DEF CoreType, Ops
<1>1. UNCHANGED <<net, owner, key, io>> => Goal
  BY DEF HandlesInv, PendingOpen
<1>2. ASSUME NEW c \in Conns, NEW h \in Handles, AcceptConn(c, h)
      PROVE  Goal
  <2>1. /\ net[c] = "backlog" /\ net' = [net EXCEPT ![c] = "open"]
        /\ owner' = [owner EXCEPT ![h] = c] /\ UNCHANGED <<io, key>>
    BY <1>2 DEF AcceptConn
  <2>2. \A g \in Handles : owner[g] # c
    BY <2>1, ConstantsAssumption DEF HandlesInv
  <2>3. HandlesInv'
    BY <1>0, <2>1, <2>2 DEF HandlesInv
  <2> QED
    BY <1>0, <2>1, <2>3 DEF PendingOpen
<1>3. ASSUME NEW c \in Conns, AcceptFails(c) \/ Connect(c)
      PROVE  Goal
  <2>1. /\ net[c] \in {"idle", "backlog"}
        /\ net' = [net EXCEPT ![c] = "closed"] \/ (net[c] = "idle" /\ net' = [net EXCEPT ![c] = "backlog"])
        /\ UNCHANGED <<owner, io, key>>
    BY <1>3 DEF AcceptFails, Connect
  <2>2. HandlesInv'
    BY <1>0, <2>1 DEF HandlesInv
  <2>3. PendingOpen'
    BY <1>0, <2>1 DEF PendingOpen
  <2> QED
    BY <1>0, <2>1, <2>2, <2>3
<1>4. CASE SetUp
  <2>1. UNCHANGED <<net, owner, io>>
        /\ key' = IF Open(sNew) THEN [key EXCEPT ![owner[sNew]] = idNew] ELSE key
    BY <1>4 DEF SetUp
  <2>2. HandlesInv'
    BY <1>0, <2>1 DEF HandlesInv, Open
  <2> QED
    BY <2>1, <2>2 DEF PendingOpen
<1>5. CASE \/ CloseNew
           \/ \E w \in Workers : CloseSocket(w) \/ HangUp(w)
  <2>1. \E h : closesocket(h) /\ UNCHANGED key
    BY <1>5 DEF CloseNew, CloseSocket, HangUp
  <2> QED
    BY <2>1, CloseKeepsPending
<1>6. CASE \/ PostFirst
           \/ \E w \in Workers : PostSend(w) \/ PostRecv(w)
  <2>1. UNCHANGED <<net, owner, key>> /\ \E h, s, kind : Post(h, s, kind)
    BY <1>6 DEF PostFirst, PostSend, PostRecv, Post
  <2> QED
    BY <2>1, PostKeepsPending
<1>7. ASSUME NEW w \in Workers, NEW o \in io, WebDequeue(w, o)
      PROVE  Goal
  BY <1>7 DEF WebDequeue, Dequeue, HandlesInv, PendingOpen
<1>8. ASSUME NEW o \in io, WebCompletion(o)
      PROVE  Goal
  <2>1. UNCHANGED <<net, owner, key>> /\ \E state \in {"done", "zero", "failed"} : Complete(o, state)
    BY <1>8 DEF WebCompletion, RecvData, RecvZero, OpFails, SendDone, EmptySendDone
  <2>2. \A p \in io' : p.state = "pending" => p \in io
    BY <2>1 DEF Complete, CoreType, Ops
  <2> QED
    BY <2>1, <2>2 DEF HandlesInv, PendingOpen
<1>9. ASSUME NEW w \in Workers, FreeSession(w) \/ UnInit(w)
      PROVE  Goal
  BY <1>1, <1>9 DEF FreeSession, UnInit
<1>10. ASSUME NEW w \in Workers, Answers(w)
       PROVE  Goal
  BY <1>1, <1>10 DEF Answers, AnswerPage, AnswerBad, AnswerPartial, SendNext, AllSent, SendFails, NotPosted
<1>11. ASSUME GetFreeId \/ Refuse \/ InitSession \/ InitFails \/ GiveBack
       PROVE  Goal
  BY <1>1, <1>11 DEF GetFreeId, PopReturns, PopEmpty, ReturnInvalid, CheckTop, Increment, Refuse,
                     InitSession, InitFails, GiveBack
<1>12. ASSUME NEW c \in Conns, PeerSend(c) \/ PeerShut(c) \/ PeerReset(c)
       PROVE  Goal
  BY <1>1, <1>12 DEF PeerSend, PeerShut, PeerReset
<1>13. CASE UNCHANGED allVars
  BY <1>1, <1>13 DEF allVars, vars
<1>14. CASE WebAcceptor
  BY <1>2, <1>3, <1>4, <1>5, <1>6, <1>11, <1>14 DEF WebAcceptor, Acceptor, Accept
<1>15. CASE WebPeers
  BY <1>3, <1>12, <1>15, WebAssumption DEF WebPeers
<1>16. CASE \E w \in Workers : WebClose(w) \/ WebHandle(w)
  BY <1>5, <1>6, <1>9, <1>10, <1>16 DEF WebClose, WebHandle, Answers
<1> QED
  BY <1>7, <1>8, <1>13, <1>14, <1>15, <1>16 DEF WebNext

LEMMA CauseStays ==
  ASSUME CoreType, PendingOpen, HandlesInv, DOMAIN replies = Conns, [WebNext]_allVars
  PROVE  DOMAIN replies' = Conns /\ (Cause => Cause')
<1> USE DEF idVars, accVars, sessVars, workVars, tcpVars, webVars
<1>0. \/ UNCHANGED <<received, replies>>
      \/ \E o \in io : /\ o.conn \in Conns /\ net[o.conn] = "open"
                       /\ \/ UNCHANGED replies /\ received' = [received EXCEPT ![o.conn] = @ + 1]
                          \/ /\ UNCHANGED received
                             /\ replies' = [replies EXCEPT ![o.conn] = Append(@, m_buf[o.session])]
  <2>1. CASE Acceptor
    BY <2>1 DEF Acceptor, Accept, GetFreeId, AcceptConn, AcceptFails, PopReturns, PopEmpty,
       ReturnInvalid, CheckTop, Increment, Refuse, InitSession, InitFails, GiveBack,
       CloseNew, SetUp, PostFirst
  <2>2. ASSUME NEW w \in Workers, ServerThread(w) \/ Answers(w) \/ PostAndHangUp(w) \/ HangUp(w)
        PROVE  UNCHANGED <<received, replies>>
    BY <2>2
       DEF ServerThread, Dequeue, CloseSocket, FreeSession, UnInit, Handle, HandleRead, HandleWrite,
           HandlePost, Answers, AnswerPage, AnswerBad, AnswerPartial, SendNext, AllSent, SendFails,
           PostAndHangUp, PostRecv, HangUp
  <2>3. ASSUME NEW o \in io, RecvZero(o) \/ OpFails(o) \/ EmptySendDone(o)
        PROVE  UNCHANGED <<received, replies>>
    BY <2>3 DEF RecvZero, OpFails, EmptySendDone
  <2>4. ASSUME NEW o \in io, RecvData(o) \/ SendDone(o)
        PROVE  /\ o.conn \in Conns /\ net[o.conn] = "open"
               /\ \/ UNCHANGED replies /\ received' = [received EXCEPT ![o.conn] = @ + 1]
                  \/ /\ UNCHANGED received
                     /\ replies' = [replies EXCEPT ![o.conn] = Append(@, m_buf[o.session])]
    BY <2>4 DEF RecvData, SendDone, PendingOpen, CoreType, Ops
  <2>5. CASE Peers \/ UNCHANGED vars
    BY <2>5 DEF Peers, Connect, PeerSend, PeerShut, PeerReset, vars
  <2> QED
    BY <2>1, <2>2, <2>3, <2>4, <2>5, WebStepIs DEF Completion
<1> SUFFICES ASSUME Cause
             PROVE  Cause'
  BY <1>0
<1>1. PICK c \in Conns : HungUpOn(c) /\ Unanswered(c) # {}
  BY DEF Cause
<1>2. net'[c] = "closed"
  BY <1>1, HandlesKept DEF HungUpOn
<1>3. key'[c] = key[c] \/ key'[c] \in Sessions
  <2>1. CASE SetUp
    BY <2>1 DEF SetUp, CoreType
  <2>2. CASE ~SetUp
    <3>1. CASE Acceptor
      BY <2>2, <3>1 DEF Acceptor, Accept, GetFreeId, AcceptConn, AcceptFails, PopReturns, PopEmpty,
         ReturnInvalid, CheckTop, Increment, Refuse, InitSession, InitFails, GiveBack,
         CloseNew, PostFirst
    <3>2. ASSUME NEW w \in Workers, ServerThread(w) \/ Answers(w) \/ PostAndHangUp(w) \/ HangUp(w)
          PROVE  key' = key
      BY <3>2
         DEF ServerThread, Dequeue, CloseSocket, FreeSession, UnInit, Handle, HandleRead, HandleWrite,
             HandlePost, Answers, AnswerPage, AnswerBad, AnswerPartial, SendNext, AllSent, SendFails,
             PostAndHangUp, PostRecv, HangUp
    <3>3. ASSUME NEW o \in io, Completion(o) \/ EmptySendDone(o)
          PROVE  key' = key
      BY <3>3 DEF Completion, RecvData, RecvZero, SendDone, OpFails, EmptySendDone
    <3>4. CASE Peers \/ UNCHANGED vars
      BY <3>4 DEF Peers, Connect, PeerSend, PeerShut, PeerReset, vars
    <3> QED
      BY <3>1, <3>2, <3>3, <3>4, WebStepIs
  <2> QED
    BY <2>1, <2>2
<1>4. HungUpOn(c)'
  BY <1>1, <1>2, <1>3, ConstantsAssumption DEF HungUpOn, Sessions, INVALID
<1>5. received'[c] = received[c] /\ replies'[c] = replies[c]
  BY <1>0, <1>1 DEF HungUpOn, CoreType
<1>6. (Unanswered(c) # {})'
  BY <1>1, <1>5 DEF Unanswered
<1> QED
  BY <1>4, <1>6 DEF Cause

(* The inductive invariant: the handles are kept apart in any case, the     *)
(* sessions keep theirs until there is a cause.                             *)
HangUpInv ==
  /\ WebInv /\ WebBuffers
  /\ HandlesInv /\ PendingOpen /\ DOMAIN replies = Conns
  /\ Cause \/ (SocketInv /\ ExcuseInv)

LEMMA HangUpInvInit == WebInit => HangUpInv
<1> SUFFICES ASSUME WebInit
             PROVE  HangUpInv
  OBVIOUS
<1>1. SocketInv
  BY SocketInit DEF WebInit
<1>2. ExcuseInv
  BY DEF WebInit, Init, ExcuseInv, Received, WorkerExcused, HungUpOn
<1>3. PendingOpen /\ DOMAIN replies = Conns
  BY DEF WebInit, Init, PendingOpen
<1> QED
  BY <1>1, <1>2, <1>3, WebInvInit, WebBuffersInit DEF HangUpInv, SocketInv

LEMMA HangUpInvKept ==
  ASSUME HangUpInv, [WebNext]_allVars
  PROVE  HangUpInv'
<1> USE DEF HangUpInv
<1>1. WebInv' /\ WebBuffers'
  BY WebInvKept, WebBuffersKept
<1>2. CoreType
  BY DEF WebInv, TypeInv
<1>3. HandlesInv' /\ PendingOpen' /\ DOMAIN replies' = Conns /\ (Cause => Cause')
  BY <1>2, HandlesKept, CauseStays
<1>4. GoodInv => Cause' \/ (SocketInv' /\ ExcuseInv')
  BY ExcuseStep, GoodSocket, HangUpCause
<1> QED
  BY <1>1, <1>3, <1>4 DEF GoodInv

(* Whatever is asked for, whoever resets a connection, and whichever call   *)
(* fails: as long as no closed connection has a request left unanswered,    *)
(* no connection is closed before its peer has gone (net.cpp:58-71,         *)
(* web.cpp:384-385, 398-399, 424-425).                                      *)
THEOREM HangsUpForCause == WebSpec => []HungUpForCause
<1>1. HangUpInv => HungUpForCause
  BY DEF HangUpInv, ExcuseInv, Cause, HungUpForCause
<1>2. HangUpInv /\ [WebNext]_allVars => HangUpInv'
  BY HangUpInvKept
<1> QED
  BY <1>1, <1>2, HangUpInvInit, PTL DEF WebSpec
================================================================================
