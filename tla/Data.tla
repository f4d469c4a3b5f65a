----------------------------------- MODULE Data -----------------------------------
(***************************************************************************)
(* Leeloo::Data (leeloo.h:646-729): a buffer that data are appended to, and *)
(* read from at a position.  Nothing resets the position but Seek, so that  *)
(* it outlives the data it was set for.                                     *)
(*                                                                          *)
(* Any calls may come in any order; there are no threads, a Data belongs to *)
(* one session or one request.  The sums of lengths stay in an Int, as the  *)
(* data are in memory.                                                      *)
(***************************************************************************)
EXTENDS Integers, Sequences

CONSTANTS T, Strings,     \* elements, and what may be appended
          NUL, Unwritten, \* the end mark, and what new memory holds
          MaxLen          \* bound: lengths of buffers, and numbers to read

ASSUME DataAssumption ==
  /\ MaxLen \in Nat
  /\ Strings \subseteq Seq(T)
  /\ NUL \notin T

VARIABLES m_pBuffer, m_bufLen, m_dataLen, m_pos,
          appended, \* what has been appended since SetBuffer or Clear
          from,     \* the last position Seek was given for these data, or -1
          read      \* what has been read since

ghosts == <<appended, from, read>>
vars == <<m_pBuffer, m_bufLen, m_dataLen, m_pos, ghosts>>

Cells == T \cup {NUL, Unwritten}

Init ==
  /\ m_pBuffer = <<>> /\ m_bufLen = 0 /\ m_dataLen = 0 /\ m_pos = 0
  /\ appended = <<>> /\ from = -1 /\ read = <<>>

Emptied == m_dataLen' = 0 /\ appended' = <<>> /\ from' = -1 /\ read' = <<>>

NewBuffer(bufLen) == [i \in 0 .. bufLen + 1 |-> Unwritten]

(* A new buffer of two elements more; for no length the call does nothing. *)
SetBuffer(bufLen) ==
  /\ bufLen > 0
  /\ m_pBuffer' = NewBuffer(bufLen) /\ m_bufLen' = bufLen
  /\ Emptied
  /\ UNCHANGED m_pos

(* Mutation: the two elements more are used. *)
Fits_PastEnd(data) == data # <<>> /\ m_dataLen + Len(data) <= m_bufLen + 2
Fits(data) == data # <<>> /\ m_dataLen + Len(data) <= m_bufLen

(* Data that are too long are refused whole; an end mark follows them. *)
AppendData(data) ==
  /\ Fits(data)
  /\ m_dataLen' = m_dataLen + Len(data)
  /\ m_pBuffer' = [i \in DOMAIN m_pBuffer |->
       IF i = m_dataLen' THEN NUL
       ELSE IF i \in m_dataLen .. m_dataLen' - 1 THEN data[i - m_dataLen + 1] ELSE m_pBuffer[i]]
  /\ appended' = appended \o data
  /\ UNCHANGED <<m_bufLen, m_pos, from, read>>

Clear ==
  /\ Emptied
  /\ UNCHANGED <<m_pBuffer, m_bufLen, m_pos>>

(* A position below zero, which leeloo.h:699 lets pass, is asked for by no  *)
(* caller.                                                                  *)
Seek(pos) ==
  /\ pos < m_dataLen
  /\ m_pos' = pos /\ from' = pos /\ read' = <<>>
  /\ UNCHANGED <<m_pBuffer, m_bufLen, m_dataLen, appended>>

(* Zero or less, with a position left over from longer data, is a failure. *)
numReaded(number) == IF m_dataLen - m_pos > number THEN number ELSE m_dataLen - m_pos

(* Mutation: the position moves by what was asked for. *)
Read_AsAsked(number) ==
  /\ number > 0 /\ numReaded(number) > 0
  /\ read' = read \o [i \in 1 .. numReaded(number) |-> m_pBuffer[m_pos + i - 1]]
  /\ m_pos' = m_pos + number
  /\ UNCHANGED <<m_pBuffer, m_bufLen, m_dataLen, appended, from>>

Read(number) ==
  /\ number > 0 /\ numReaded(number) > 0
  /\ read' = read \o [i \in 1 .. numReaded(number) |-> m_pBuffer[m_pos + i - 1]]
  /\ m_pos' = m_pos + numReaded(number)
  /\ UNCHANGED <<m_pBuffer, m_bufLen, m_dataLen, appended, from>>

Next == \/ \E n \in 1 .. MaxLen : SetBuffer(n) \/ Seek(n - 1) \/ Read(n)
        \/ \E data \in Strings : AppendData(data)
        \/ Clear

Spec == Init /\ [][Next]_vars

--------------------------------------------------------------------------------
(* The types, with a buffer of the length it is thought to have. *)
TypeOK ==
  /\ m_bufLen \in Nat /\ m_dataLen \in Nat /\ m_pos \in Nat /\ from \in Nat \cup {-1}
  /\ appended \in Seq(T) /\ read \in Seq(Cells)
  /\ m_pBuffer \in (IF m_bufLen = 0 THEN {<<>>} ELSE [0 .. m_bufLen + 1 -> Cells])

(* Whatever has been refused or replaced before, the buffer holds what has  *)
(* been appended and, as Decode counts on when it searches the text with    *)
(* strstr (web.cpp:159-178), the end mark after it, all inside the memory   *)
(* SetBuffer got (leeloo.h:666-687).                                        *)
HoldsAppended ==
  /\ Len(appended) = m_dataLen /\ m_dataLen <= m_bufLen
  /\ \A i \in 1 .. m_dataLen : m_pBuffer[i - 1] = appended[i]
  /\ m_dataLen > 0 => m_pBuffer[m_dataLen] = NUL

(* Reading in pieces gives what was appended, from where Seek was told to   *)
(* on, without gaps or repetitions, also when more is appended in between   *)
(* (leeloo.h:697-720).                                                      *)
ReadsInOrder == from >= 0 => m_pos \in from .. m_dataLen /\ read = SubSeq(appended, from + 1, m_pos)
================================================================================
