-------------------------------- MODULE WebServer --------------------------------
(***************************************************************************)
(* LeelooNet::WebServer (web.h, web.cpp): the NetServer with a Handle of    *)
(* its own, that takes what was read for an HTTP request, makes a response  *)
(* in the session's m_dataSendTemp and sends it one buffer after another.   *)
(*                                                                          *)
(* Unlike NetServer::Handle it looks at the result of WSASend: when that    *)
(* fails, and when a request is incomplete, it posts a read AND closes the  *)
(* socket.  By the time it closes, the session may belong to another        *)
(* worker, and the worker that takes the failed read closes the same handle *)
(* once more.                                                               *)
(*                                                                          *)
(* A request is one chunk.  What ParseHead, Decode and Dispose make of its  *)
(* text is one of three cases: a "page" of one or more buffers, a "bad"     *)
(* request for which Dispose has no page, and a "partial" one, a POST whose *)
(* data has not all arrived.  A length is counted in buffers.               *)
(***************************************************************************)
EXTENDS NetServer

CONSTANTS Requests,  \* what requests may be: "page", "bad", "partial"
          MaxPieces, \* bound: buffers that a page takes
          MayReset   \* the connections that may be reset

ASSUME WebAssumption ==
  /\ Requests \subseteq {"page", "bad", "partial"}
  /\ MaxPieces \in Nat \ {0}
  /\ MayReset \subseteq Conns

VARIABLES
  m_dataSendTemp, \* of each session: the request it answers, m_dataLen and m_pos
  hangup          \* workers that will close the socket after posting the read

webVars == <<m_dataSendTemp, hangup>>
allVars == <<vars, webVars>>

(* The k-th of n buffers of the response to request r. *)
Piece(r, k, n) == [from |-> r.from, number |-> r.number, piece |-> k, of |-> n]
Pieces == [from : Conns \cup {NoConn}, number : 0 .. MaxChunks,
           piece : 1 .. MaxPieces, of : 1 .. MaxPieces]

WebInit ==
  /\ Init
  /\ m_dataSendTemp = [s \in Sessions |-> [request |-> NoChunk, len |-> 0, pos |-> 0]]
  /\ hangup = [w \in Workers |-> FALSE]

--------------------------------------------------------------------------------
(* WebServer::Handle *)

(* Mutation: Read succeeds with nothing left to read. *)
ReadPiece_PastEnd(s, data) ==
  /\ data.pos <= data.len
  /\ m_buf' = [m_buf EXCEPT ![s] = Piece(data.request, data.pos + 1, data.len)]
  /\ m_dataSendTemp' = [m_dataSendTemp EXCEPT ![s] = [data EXCEPT !.pos = @ + 1]]

(* Data::Read of one buffer; nothing is left to read when m_pos has reached *)
(* m_dataLen.                                                               *)
ReadPiece(s, data) ==
  /\ data.pos < data.len
  /\ m_buf' = [m_buf EXCEPT ![s] = Piece(data.request, data.pos + 1, data.len)]
  /\ m_dataSendTemp' = [m_dataSendTemp EXCEPT ![s] = [data EXCEPT !.pos = @ + 1]]

(* A page: Encode fills m_dataSendTemp, Seek goes to its start, and the     *)
(* first buffer is read from it.                                            *)
AnswerPage(w) ==
  /\ wpc[w] = "handle"
  /\ m_nOperationType[pPerIO[w]] = "READ"
  /\ "page" \in Requests
  /\ \E n \in 1 .. MaxPieces :
       ReadPiece(pPerIO[w], [request |-> m_buf[pPerIO[w]], len |-> n, pos |-> 0])
  /\ m_nOperationType' = [m_nOperationType EXCEPT ![pPerIO[w]] = "WRITE"]
  /\ wpc' = [wpc EXCEPT ![w] = "send"]
  /\ UNCHANGED <<idVars, accVars, m_bInit, m_s, m_addr, pPerHandle, pPerIO, io, owner, key,
                 net, tcpVars, faults, hangup>>

(* No page: Dispose appends its text to data without a buffer, which fails. *)
(* The response is empty, so that Seek and Read fail too, and m_pos stays   *)
(* where the last response of the session, perhaps to an earlier client,    *)
(* left it.                                                                 *)
AnswerBad(w) ==
  /\ wpc[w] = "handle"
  /\ m_nOperationType[pPerIO[w]] = "READ"
  /\ "bad" \in Requests
  /\ m_dataSendTemp' = [m_dataSendTemp EXCEPT ![pPerIO[w]].request = m_buf[pPerIO[w]],
                                              ![pPerIO[w]].len = 0]
  /\ m_nOperationType' = [m_nOperationType EXCEPT ![pPerIO[w]] = "WRITE"]
  /\ wpc' = [wpc EXCEPT ![w] = "send"]
  /\ UNCHANGED <<idVars, accVars, m_bInit, m_s, m_addr, m_buf, pPerHandle, pPerIO, io, owner,
                 key, net, tcpVars, faults, hangup>>

(* An incomplete request: a read is posted and the socket closed. *)
AnswerPartial(w) ==
  /\ wpc[w] = "handle"
  /\ m_nOperationType[pPerIO[w]] = "READ"
  /\ "partial" \in Requests
  /\ wpc' = [wpc EXCEPT ![w] = "recv"]
  /\ hangup' = [hangup EXCEPT ![w] = TRUE]
  /\ UNCHANGED <<idVars, accVars, sessVars, pPerHandle, pPerIO, io, owner, key, net, tcpVars,
                 faults, m_dataSendTemp>>

(* A buffer was sent: the next one. *)
SendNext(w) ==
  /\ wpc[w] = "handle"
  /\ m_nOperationType[pPerIO[w]] = "WRITE"
  /\ ReadPiece(pPerIO[w], m_dataSendTemp[pPerIO[w]])
  /\ wpc' = [wpc EXCEPT ![w] = "send"]
  /\ UNCHANGED <<idVars, accVars, m_bInit, m_s, m_addr, m_nOperationType, pPerHandle, pPerIO,
                 io, owner, key, net, tcpVars, faults, hangup>>

(* Mutation: the last buffer is taken to be left over (Read: <= for <). *)
AllSent_OneEarly(w) ==
  /\ wpc[w] = "handle"
  /\ m_nOperationType[pPerIO[w]] = "WRITE"
  /\ m_dataSendTemp[pPerIO[w]].pos + 1 >= m_dataSendTemp[pPerIO[w]].len
  /\ m_nOperationType' = [m_nOperationType EXCEPT ![pPerIO[w]] = "READ"]
  /\ wpc' = [wpc EXCEPT ![w] = "recv"]
  /\ UNCHANGED <<idVars, accVars, m_bInit, m_s, m_addr, m_buf, pPerHandle, pPerIO, io, owner,
                 key, net, tcpVars, faults, webVars>>

(* The last was sent: the next read is posted. *)
AllSent(w) ==
  /\ wpc[w] = "handle"
  /\ m_nOperationType[pPerIO[w]] = "WRITE"
  /\ m_dataSendTemp[pPerIO[w]].pos >= m_dataSendTemp[pPerIO[w]].len
  /\ m_nOperationType' = [m_nOperationType EXCEPT ![pPerIO[w]] = "READ"]
  /\ wpc' = [wpc EXCEPT ![w] = "recv"]
  /\ UNCHANGED <<idVars, accVars, m_bInit, m_s, m_addr, m_buf, pPerHandle, pPerIO, io, owner,
                 key, net, tcpVars, faults, webVars>>

(* numReaded as Read leaves it. That of an empty response is -m_pos, and a  *)
(* negative number is a length past any buffer to WSASend.                  *)
numReaded(s) == IF m_dataSendTemp[s].len > 0 THEN 1 ELSE -m_dataSendTemp[s].pos

(* WSASend *)
PostSend(w) ==
  /\ wpc[w] = "send"
  /\ numReaded(pPerIO[w]) >= 0
  /\ Posted(m_s[pPerHandle[w]], pPerIO[w], "send")
  /\ WorkerWaits(w)
  /\ UNCHANGED <<idVars, accVars, sessVars, owner, key, net, tcpVars, webVars>>

(* Mutation: the operation type is not set back to READ. *)
SendFails_KeepsType(w) ==
  /\ wpc[w] = "send"
  /\ \/ NotPosted(m_s[pPerHandle[w]])
     \/ numReaded(pPerIO[w]) < 0 /\ UNCHANGED <<io, faults>>
  /\ wpc' = [wpc EXCEPT ![w] = "recv"]
  /\ hangup' = [hangup EXCEPT ![w] = TRUE]
  /\ UNCHANGED <<idVars, accVars, sessVars, pPerHandle, pPerIO, owner, key, net, tcpVars,
                 m_dataSendTemp>>

(* WSASend fails at once: a read is posted and the socket closed. *)
SendFails(w) ==
  /\ wpc[w] = "send"
  /\ \/ NotPosted(m_s[pPerHandle[w]])
     \/ numReaded(pPerIO[w]) < 0 /\ UNCHANGED <<io, faults>>
  /\ m_nOperationType' = [m_nOperationType EXCEPT ![pPerIO[w]] = "READ"]
  /\ wpc' = [wpc EXCEPT ![w] = "recv"]
  /\ hangup' = [hangup EXCEPT ![w] = TRUE]
  /\ UNCHANGED <<idVars, accVars, m_bInit, m_s, m_addr, m_buf, pPerHandle, pPerIO, owner, key,
                 net, tcpVars, m_dataSendTemp>>

(* Mutation: the socket is closed after every read that is posted. *)
PostRecv_AlwaysHangsUp(w) ==
  /\ wpc[w] = "recv"
  /\ Post(m_s[pPerHandle[w]], pPerIO[w], "recv")
  /\ wpc' = [wpc EXCEPT ![w] = "hangup"]
  /\ UNCHANGED <<idVars, accVars, sessVars, pPerHandle, pPerIO, owner, key, net, tcpVars,
                 webVars>>

(* WSARecv, whose result is not looked at. *)
PostRecv(w) ==
  /\ wpc[w] = "recv"
  /\ Post(m_s[pPerHandle[w]], pPerIO[w], "recv")
  /\ IF hangup[w] THEN wpc' = [wpc EXCEPT ![w] = "hangup"] /\ UNCHANGED <<pPerHandle, pPerIO>>
     ELSE WorkerWaits(w)
  /\ UNCHANGED <<idVars, accVars, sessVars, owner, key, net, tcpVars, webVars>>

(* Mutation: the id of the session is given back as well. *)
HangUp_FreesSession(w) ==
  /\ wpc[w] = "hangup"
  /\ closesocket(m_s[pPerHandle[w]])
  /\ m_freeIdQueue' = Append(m_freeIdQueue, pPerIO[w])
  /\ hangup' = [hangup EXCEPT ![w] = FALSE]
  /\ WorkerWaits(w)
  /\ UNCHANGED <<m_topFreeId, accVars, sessVars, key, tcpVars, faults, m_dataSendTemp>>

(* The close that follows: the session is no longer this worker's, and m_s  *)
(* may be anything by now.                                                  *)
HangUp(w) ==
  /\ wpc[w] = "hangup"
  /\ closesocket(m_s[pPerHandle[w]])
  /\ hangup' = [hangup EXCEPT ![w] = FALSE]
  /\ WorkerWaits(w)
  /\ UNCHANGED <<idVars, accVars, sessVars, key, tcpVars, faults, m_dataSendTemp>>

WebHandle(w) ==
  \/ AnswerPage(w) \/ AnswerBad(w) \/ AnswerPartial(w)
  \/ SendNext(w) \/ AllSent(w)
  \/ PostSend(w) \/ SendFails(w) \/ PostRecv(w) \/ HangUp(w)

--------------------------------------------------------------------------------
(* The rest is NetServer's, but for a send of nothing, which completes with *)
(* no bytes transferred.                                                    *)

EmptySendDone(o) ==
  /\ o.kind = "send" /\ o.state = "pending"
  /\ m_dataSendTemp[o.session].len = 0
  /\ peer[o.conn] # "reset"
  /\ Complete(o, "zero")
  /\ UNCHANGED <<idVars, accVars, sessVars, workVars, owner, key, net, tcpVars, faults>>

WebCompletion(o) ==
  /\ \/ RecvData(o) \/ RecvZero(o) \/ OpFails(o)
     \/ m_dataSendTemp[o.session].len > 0 /\ SendDone(o)
     \/ EmptySendDone(o)
  /\ UNCHANGED webVars

WebPeers ==
  /\ \/ \E c \in Conns : Connect(c) \/ PeerSend(c) \/ PeerShut(c)
     \/ \E c \in MayReset : PeerReset(c)
  /\ UNCHANGED webVars

WebDequeue(w, o) == Dequeue(w, o) /\ UNCHANGED webVars
WebClose(w) == (CloseSocket(w) \/ FreeSession(w) \/ UnInit(w)) /\ UNCHANGED webVars
WebAcceptor == Acceptor /\ UNCHANGED webVars

WebNext ==
  \/ WebAcceptor
  \/ \E w \in Workers, o \in io : WebDequeue(w, o)
  \/ \E w \in Workers : WebClose(w) \/ WebHandle(w)
  \/ \E o \in io : WebCompletion(o)
  \/ WebPeers

WebSpec == WebInit /\ [][WebNext]_allVars

(* As for NetServer. *)
WebFairness ==
  /\ WF_allVars(WebAcceptor)
  /\ \A w \in Workers : WF_allVars(WebClose(w) \/ WebHandle(w))
  /\ \A s \in Sessions :
       /\ WF_allVars(\E w \in Workers, o \in io : o.session = s /\ WebDequeue(w, o))
       /\ WF_allVars(\E o \in io : o.session = s /\ WebCompletion(o))

WebFairSpec == WebSpec /\ WebFairness

--------------------------------------------------------------------------------
WebTypeOK ==
  /\ m_freeIdQueue \in Seq(Sessions)
  /\ m_buf \in [Sessions -> Chunks \cup Pieces]
  /\ wpc \in [Workers -> {"wait", "close", "free", "uninit", "handle", "send", "recv",
                          "hangup"}]
  /\ \A w \in Workers : wpc[w] # "wait" => pPerHandle[w] \in Sessions /\ pPerIO[w] \in Sessions
  /\ io \subseteq Ops
  /\ \A o \in io : key[o.conn] \in Sessions
  /\ m_dataSendTemp \in [Sessions -> [request : Chunks, len : 0 .. MaxPieces,
                                      pos : 0 .. MaxPieces]]
  /\ hangup \in [Workers -> BOOLEAN]
  /\ \A w \in Workers : hangup[w] => wpc[w] \in {"recv", "hangup"}

(* What a client gets are the responses to its own requests, in order, and  *)
(* of each all its buffers in order, though other workers may go on with    *)
(* the session, and m_dataSendTemp is used again for every request          *)
(* (web.cpp:356-373, 403-437).                                              *)
Follows(p, q) ==
  IF p.piece = p.of THEN q.number = p.number + 1 /\ q.piece = 1
  ELSE q = [p EXCEPT !.piece = @ + 1]
AnswersInOrder ==
  \A c \in Conns :
    /\ \A i \in DOMAIN replies[c] : replies[c][i].from = c
    /\ Len(replies[c]) > 0 => replies[c][1].number = 1 /\ replies[c][1].piece = 1
    /\ \A i \in 2 .. Len(replies[c]) : Follows(replies[c][i - 1], replies[c][i])

(* A worker that is about to close the handle stored in a session closes    *)
(* the connection of that session or nothing: per-handle data holds "the    *)
(* corresponding socket handle" (net.h:45; net.cpp:60, 68, web.cpp:385,     *)
(* 399, 425).                                                               *)
HandleCorresponds ==
  \A w \in Workers :
    wpc[w] \in {"close", "hangup"} /\ Open(m_s[pPerHandle[w]])
      => owner[m_s[pPerHandle[w]]] = m_addr[pPerHandle[w]]

(* An admitted connection is closed before its peer has gone only for a     *)
(* cause: some closed connection had a request that was not answered in     *)
(* full, for want of data, of a page, or of a call that succeeds            *)
(* (net.cpp:58-71; web.cpp:384-385, 398-399, 424-425).  It need not be the  *)
(* same one: the close that follows a post hits whatever the handle has     *)
(* come to stand for, but nobody is hung up on while all are answered.      *)
Unanswered(c) ==
  {n \in 1 .. received[c] :
     \A i \in DOMAIN replies[c] :
       ~(replies[c][i].number = n /\ replies[c][i].piece = replies[c][i].of)}
PeerGone(c) ==
  \/ peer[c] = "reset"
  \/ peer[c] = "shut" /\ received[c] = sent[c]
HungUpOn(c) == net[c] = "closed" /\ key[c] # INVALID
HungUpForCause ==
  (\E c \in Conns : HungUpOn(c) /\ ~PeerGone(c))
    => \E c \in Conns : HungUpOn(c) /\ Unanswered(c) # {}

(* Every request of an admitted connection is answered in full, unless the  *)
(* connection is reset (web.cpp:346-444).                                   *)
Answered(c) == Cardinality({i \in DOMAIN replies[c] : replies[c][i].piece = replies[c][i].of})
EventuallyAnswered ==
  \A c \in Conns :
    net[c] = "open" /\ key[c] # INVALID /\ Answered(c) < sent[c]
      ~> (Answered(c) = sent[c] \/ peer[c] = "reset")
================================================================================
