----------------------------- MODULE Response_proofs -----------------------------
(***************************************************************************)
(* Proofs about what the response to a request is made by, Http, and about  *)
(* what it is kept in, Data.  Neither knows the other's variables: two      *)
(* inductive invariants, one for each.                                      *)
(***************************************************************************)
EXTENDS Data, Http, SequenceTheorems, WellFoundedInduction, TLAPS

(***************************************************************************)
(* Data: for buffers and strings of every length it holds what was appended *)
(* and gives it back in order.  The three invariants are inductive together.*)
(***************************************************************************)
Inv == TypeOK /\ HoldsAppended /\ ReadsInOrder

(* A function on 1 .. n is a sequence of length n. *)
LEMMA FunctionIsSeq ==
  ASSUME NEW S, NEW n \in Nat, NEW f, f = [i \in 1 .. n |-> f[i]], \A i \in 1 .. n : f[i] \in S
  PROVE f \in Seq(S) /\ Len(f) = n
  <1>1. f \in [1 .. n -> S]
    OBVIOUS
  <1> QED BY <1>1

(* A piece of a sequence and the piece after it are one piece.             *)
LEMMA PiecesJoin ==
  ASSUME NEW S, NEW s \in Seq(S), NEW a \in Nat, NEW b \in Nat, NEW n \in Nat,
         a <= b, b + n <= Len(s)
  PROVE SubSeq(s, a + 1, b) \o [i \in 1 .. n |-> s[b + i]] = SubSeq(s, a + 1, b + n)
  <1> DEFINE left == SubSeq(s, a + 1, b)
             right == [i \in 1 .. n |-> s[b + i]]
             whole == SubSeq(s, a + 1, b + n)
  <1>1. /\ left \in Seq(S) /\ Len(left) = b - a
        /\ \A i \in 1 .. b - a : left[i] = s[a + i]
    OBVIOUS
  <1>2. /\ whole \in Seq(S) /\ Len(whole) = b + n - a
        /\ \A i \in 1 .. b + n - a : whole[i] = s[a + i]
    OBVIOUS
  <1>3. right \in Seq(S) /\ Len(right) = n
    <2>1. \A i \in 1 .. n : s[b + i] \in S
      OBVIOUS
    <2> QED BY <2>1
  <1>4. \A i \in 1 .. n : right[i] = s[b + i]
    OBVIOUS
  <1> HIDE DEF left, right, whole
  <1>5. /\ left \o right \in Seq(S) /\ Len(left \o right) = (b - a) + n
        /\ \A i \in 1 .. (b - a) + n :
             (left \o right)[i] = IF i <= b - a THEN left[i] ELSE right[i - (b - a)]
    <2>1. /\ left \o right \in Seq(S) /\ Len(left \o right) = Len(left) + Len(right)
          /\ \A i \in 1 .. Len(left) + Len(right) :
               (left \o right)[i] = IF i <= Len(left) THEN left[i] ELSE right[i - Len(left)]
      BY <1>1, <1>3, ConcatProperties, Zenon
    <2> QED BY <2>1, <1>1, <1>3
  <1>6. \A i \in 1 .. (b - a) + n : (left \o right)[i] = whole[i]
    <2> SUFFICES ASSUME NEW i \in 1 .. (b - a) + n
                 PROVE (left \o right)[i] = whole[i]
      OBVIOUS
    <2>1. whole[i] = s[a + i]
      BY <1>2
    <2>2. CASE i <= b - a
      BY <2>1, <2>2, <1>1, <1>5
    <2>3. CASE i > b - a
      <3>1. (left \o right)[i] = right[i - (b - a)]
        BY <2>3, <1>5
      <3>2. i - (b - a) \in 1 .. n /\ b + (i - (b - a)) = a + i
        BY <2>3
      <3> QED BY <3>1, <3>2, <2>1, <1>4
    <2>4. i <= b - a \/ i > b - a
      OBVIOUS
    <2> QED BY <2>2, <2>3, <2>4
  <1>7. left \o right = whole
    <2>1. Len(left \o right) = Len(whole) /\ Len(left \o right) = (b - a) + n
      BY <1>2, <1>5
    <2> QED BY <2>1, <1>2, <1>5, <1>6, SeqEqual
  <1> QED BY <1>7 DEF left, right, whole

LEMMA InitInv == Init => Inv
  BY DEF Init, Inv, TypeOK, HoldsAppended, ReadsInOrder

LEMMA SetBufferInv ==
  ASSUME Inv, NEW n \in 1 .. MaxLen, SetBuffer(n)
  PROVE Inv'
  <1>1. n \in Nat /\ n > 0
    BY DataAssumption
  <1> QED BY <1>1 DEF Inv, TypeOK, HoldsAppended, ReadsInOrder, SetBuffer, NewBuffer, Emptied, Cells

LEMMA AppendInv ==
  ASSUME Inv, NEW data \in Strings, AppendData(data)
  PROVE Inv'
  <1> DEFINE end == m_dataLen + Len(data)
  <1>1. /\ data \in Seq(T) /\ Len(data) \in Nat \ {0} /\ m_dataLen' = end
        /\ end <= m_bufLen /\ m_bufLen' = m_bufLen /\ m_bufLen > 0
    BY DataAssumption DEF Inv, TypeOK, AppendData, Fits
  <1>2. m_pBuffer \in [0 .. m_bufLen + 1 -> Cells] /\ m_dataLen \in Nat /\ m_bufLen \in Nat
    BY <1>1 DEF Inv, TypeOK
  <1>3. m_pBuffer' = [i \in 0 .. m_bufLen + 1 |->
          IF i = end THEN NUL
          ELSE IF i \in m_dataLen .. end - 1 THEN data[i - m_dataLen + 1] ELSE m_pBuffer[i]]
    BY <1>1, <1>2 DEF AppendData
  <1>4. \A i \in 0 .. m_bufLen + 1 : i \in m_dataLen .. end - 1 => data[i - m_dataLen + 1] \in T
    BY <1>1, <1>2
  <1>5. m_pBuffer' \in [0 .. m_bufLen + 1 -> Cells]
    BY <1>2, <1>3, <1>4 DEF Cells
  <1>6. appended' = appended \o data /\ appended \in Seq(T) /\ Len(appended) = m_dataLen
    BY DEF Inv, TypeOK, HoldsAppended, AppendData
  <1>7. /\ appended' \in Seq(T) /\ Len(appended') = end
        /\ \A i \in 1 .. end :
             appended'[i] = IF i <= m_dataLen THEN appended[i] ELSE data[i - m_dataLen]
    BY <1>1, <1>6, ConcatProperties
  <1>8. TypeOK'
    <2>1. m_pos' \in Nat /\ from' \in Nat \cup {-1} /\ read' \in Seq(Cells)
      BY DEF Inv, TypeOK, AppendData
    <2>2. m_bufLen' \in Nat /\ m_bufLen' # 0 /\ m_dataLen' \in Nat
      BY <1>1, <1>2
    <2>3. m_pBuffer' \in [0 .. m_bufLen' + 1 -> Cells]
      BY <1>1, <1>5
    <2> QED BY <2>1, <2>2, <2>3, <1>7 DEF TypeOK, Cells
  <1>9. HoldsAppended'
    <2>1. \A i \in 1 .. end : m_pBuffer'[i - 1] = appended'[i]
      <3> SUFFICES ASSUME NEW i \in 1 .. end
                   PROVE m_pBuffer'[i - 1] = appended'[i]
        OBVIOUS
      <3>1. CASE i <= m_dataLen
        <4>1. m_pBuffer'[i - 1] = m_pBuffer[i - 1]
          BY <3>1, <1>1, <1>2, <1>3
        <4>2. m_pBuffer[i - 1] = appended[i]
          BY <3>1, <1>2 DEF Inv, HoldsAppended
        <4>3. appended'[i] = appended[i]
          BY <3>1, <1>1, <1>2, <1>7
        <4> QED BY <4>1, <4>2, <4>3
      <3>2. CASE i > m_dataLen
        <4>1. m_pBuffer'[i - 1] = data[i - m_dataLen]
          BY <3>2, <1>1, <1>2, <1>3
        <4>2. appended'[i] = data[i - m_dataLen]
          BY <3>2, <1>1, <1>2, <1>7
        <4> QED BY <4>1, <4>2
      <3> QED BY <3>1, <3>2, <1>2
    <2>2. m_pBuffer'[end] = NUL
      BY <1>1, <1>2, <1>3
    <2> QED BY <2>1, <2>2, <1>1, <1>7 DEF HoldsAppended
  <1>10. ReadsInOrder'
    <2> SUFFICES ASSUME from >= 0
                 PROVE m_pos \in from .. end /\ read = SubSeq(appended', from + 1, m_pos)
      BY <1>1 DEF ReadsInOrder, AppendData
    <2>1. /\ m_pos \in from .. m_dataLen /\ read = SubSeq(appended, from + 1, m_pos)
          /\ from \in Nat
      BY DEF Inv, TypeOK, ReadsInOrder
    <2>2. SubSeq(appended', from + 1, m_pos) = SubSeq(appended, from + 1, m_pos)
      <3>1. \A i \in from + 1 .. m_pos : appended'[i] = appended[i]
        BY <2>1, <1>1, <1>2, <1>7
      <3> QED BY <3>1, <2>1, <1>6, <1>7, <1>2, <1>1
    <2> QED BY <2>1, <2>2, <1>1, <1>2
  <1> QED BY <1>8, <1>9, <1>10 DEF Inv

LEMMA SeekInv ==
  ASSUME Inv, NEW n \in 1 .. MaxLen, Seek(n - 1)
  PROVE Inv'
  <1>1. n - 1 \in Nat /\ n - 1 < m_dataLen /\ m_dataLen \in Nat
    BY DataAssumption DEF Seek, Inv, TypeOK
  <1>2. TypeOK'
    BY <1>1 DEF Inv, TypeOK, Seek
  <1>3. HoldsAppended'
    BY DEF Inv, HoldsAppended, Seek
  <1>4. read' = SubSeq(appended', from' + 1, m_pos')
    BY <1>1 DEF Inv, TypeOK, Seek
  <1> QED BY <1>1, <1>2, <1>3, <1>4 DEF Inv, ReadsInOrder, Seek

LEMMA ReadInv ==
  ASSUME Inv, NEW n \in 1 .. MaxLen, Read(n)
  PROVE Inv'
  <1> DEFINE k == numReaded(n)
             piece == [i \in 1 .. k |-> m_pBuffer[m_pos + i - 1]]
  <1>1. n \in Nat /\ m_dataLen \in Nat /\ m_pos \in Nat /\ k \in Nat \ {0} /\ m_pos + k <= m_dataLen
    BY DataAssumption DEF Read, numReaded, Inv, TypeOK
  <1>2. m_dataLen <= m_bufLen /\ m_bufLen \in Nat /\ Len(appended) = m_dataLen
    BY DEF Inv, HoldsAppended, TypeOK
  <1>3. m_bufLen > 0 /\ m_pBuffer \in [0 .. m_bufLen + 1 -> Cells]
    BY <1>1, <1>2 DEF Inv, TypeOK
  <1>4. \A i \in 1 .. k : m_pBuffer[m_pos + i - 1] \in Cells
    BY <1>1, <1>2, <1>3
  <1>5. read' = read \o piece /\ m_pos' = m_pos + k
    BY DEF Read
  <1>6. read' \in Seq(Cells)
    <2>1. piece \in Seq(Cells)
      BY <1>1, <1>4, FunctionIsSeq
    <2>2. read \in Seq(Cells)
      BY DEF Inv, TypeOK
    <2> HIDE DEF piece
    <2> QED BY <2>1, <2>2, <1>5
  <1>7. TypeOK'
    BY <1>1, <1>5, <1>6 DEF Inv, TypeOK, Read
  <1>8. HoldsAppended'
    BY DEF Inv, HoldsAppended, Read
  <1>9. ReadsInOrder'
    <2> SUFFICES ASSUME from >= 0
                 PROVE /\ m_pos' \in from .. m_dataLen
                       /\ read' = SubSeq(appended, from + 1, m_pos')
      BY DEF ReadsInOrder, Read
    <2>1. /\ m_pos \in from .. m_dataLen /\ read = SubSeq(appended, from + 1, m_pos)
          /\ from \in Nat /\ appended \in Seq(T)
      BY DEF Inv, TypeOK, ReadsInOrder
    <2>2. piece = [i \in 1 .. k |-> appended[m_pos + i]]
      <3>1. \A i \in 1 .. k : m_pBuffer[m_pos + i - 1] = appended[m_pos + i]
        <4> SUFFICES ASSUME NEW i \in 1 .. k
                     PROVE m_pBuffer[m_pos + i - 1] = appended[m_pos + i]
          OBVIOUS
        <4>1. m_pos + i \in 1 .. m_dataLen /\ (m_pos + i) - 1 = m_pos + i - 1
          BY <1>1
        <4>2. \A j \in 1 .. m_dataLen : m_pBuffer[j - 1] = appended[j]
          BY DEF Inv, HoldsAppended
        <4>3. m_pBuffer[(m_pos + i) - 1] = appended[m_pos + i]
          BY <4>1, <4>2, Zenon
        <4> QED BY <4>1, <4>3, Zenon
      <3> QED BY <3>1
    <2>3. SubSeq(appended, from + 1, m_pos) \o [i \in 1 .. k |-> appended[m_pos + i]]
            = SubSeq(appended, from + 1, m_pos + k)
      <3>1. m_pos \in Nat /\ k \in Nat /\ from <= m_pos /\ m_pos + k <= Len(appended)
        BY <2>1, <1>1, <1>2
      <3> HIDE DEF k, piece
      <3> QED BY <3>1, <2>1, PiecesJoin
    <2>4. m_pos' \in from .. m_dataLen
      BY <2>1, <1>1, <1>5
    <2>5. read' = SubSeq(appended, from + 1, m_pos) \o [i \in 1 .. k |-> appended[m_pos + i]]
      BY <2>1, <2>2, <1>5
    <2> QED BY <2>3, <2>4, <2>5, <1>5
  <1> QED BY <1>7, <1>8, <1>9 DEF Inv

LEMMA InvKept == Inv /\ [Next]_vars => Inv'
  <1> SUFFICES ASSUME Inv, [Next]_vars PROVE Inv'
    OBVIOUS
  <1>1. CASE \E n \in 1 .. MaxLen : SetBuffer(n) \/ Seek(n - 1) \/ Read(n)
    BY <1>1, SetBufferInv, SeekInv, ReadInv
  <1>2. CASE \E data \in Strings : AppendData(data)
    BY <1>2, AppendInv
  <1>3. CASE Clear
    BY <1>3 DEF Inv, TypeOK, HoldsAppended, ReadsInOrder, Clear, Emptied
  <1>4. CASE UNCHANGED vars
    BY <1>4 DEF Inv, TypeOK, HoldsAppended, ReadsInOrder, vars, ghosts
  <1> QED BY <1>1, <1>2, <1>3, <1>4 DEF Next

(* For every length, the buffer holds what was appended, inside its memory  *)
(* and with the end mark after it (Data::SetBuffer, Append, Clear,          *)
(* leeloo.h:666-697).                                                       *)
THEOREM BufferHoldsAppended == Spec => []HoldsAppended
  <1>1. Inv => HoldsAppended
    BY DEF Inv
  <1> QED BY <1>1, InitInv, InvKept, PTL DEF Spec

(* For every length, pieces that are read join to what was appended         *)
(* (Data::Seek, Read, leeloo.h:698-720).                                    *)
THEOREM PiecesAreInOrder == Spec => []ReadsInOrder
  <1>1. Inv => ReadsInOrder
    BY DEF Inv
  <1> QED BY <1>1, InitInv, InvKept, PTL DEF Spec

--------------------------------------------------------------------------------
(***************************************************************************)
(* Http: texts of any marks and any length.  When the data of a POST have   *)
(* been taken, ParseHead has said yes to a text with the same first line;   *)
(* the items there are, are those the two infos own; and what has been read *)
(* of the file is what the page has of it.                                  *)
(***************************************************************************)

(* Find gives the first place, and 0 only if there is none. *)
LEMMA FindIs ==
  ASSUME request \in Seq(Marks), NEW marks, NEW first \in Nat, NEW k, k = Find(marks, first)
  PROVE  \/ k = 0 /\ \A i \in first .. Len(request) : request[i] \notin marks
         \/ /\ k \in first .. Len(request) /\ request[k] \in marks
            /\ \A i \in first .. Len(request) : request[i] \in marks => k <= i
<1> DEFINE found == {i \in first .. Len(request) : request[i] \in marks}
<1>1. Len(request) \in Nat
  OBVIOUS
<1>2. CASE found = {}
  BY <1>2 DEF Find
<1>3. CASE found # {}
  <2>1. found \subseteq Nat
    BY <1>1
  <2>2. PICK x \in found : \A y \in found : ~(<<y, x>> \in OpToRel(<, Nat))
    <3> HIDE DEF found
    <3> QED
      BY <1>3, <2>1, WFMin, NatLessThanWellFounded
  <2>3. \A y \in found : x <= y
    <3> SUFFICES ASSUME NEW y \in found
                 PROVE  x <= y
      OBVIOUS
    <3>1. ~(y < x)
      BY <2>1, <2>2 DEF OpToRel
    <3> QED
      BY <2>1, <3>1
  <2>4. k \in found /\ \A y \in found : k <= y
    BY <1>3, <2>3 DEF Find
  <2> QED
    BY <2>4
<1> QED
  BY <1>2, <1>3

Places == {"read", "read more", "decode", "dispose", "fread", "close", "encode", "send"}

(* A POST that Decode has taken data from. *)
IsUpload ==
  /\ Method = "POST"
  /\ OnFirstLine(uri) /\ OnFirstLine(Find({"http"}, 1))

RequestInv ==
  /\ pc \in Places
  /\ request \in Requests /\ length \in Lengths
  /\ pc \notin {"read", "read more"} => ParseHead
  /\ "postdata" \in DOMAIN inTmp.map => IsUpload

ItemsInv ==
  /\ pc \in {"read", "read more", "decode"} => inTmp = NoInfo
  /\ pc \notin {"encode", "send"} => outTmp = NoInfo
  /\ inTmp.owned \in Nat /\ outTmp.owned \in Nat
  /\ items = IF pc = "send" THEN 0 ELSE inTmp.owned + outTmp.owned

PageInv ==
  /\ pc \in {"read", "read more", "decode", "dispose"} => position = 0 /\ response = <<>>
  /\ pc = "fread" =>
       /\ file \in Nat /\ position \in 0 .. file
       /\ response = [stated |-> file, body |-> position]
  /\ LengthIsRight

HttpInv == RequestInv /\ ItemsInv /\ PageInv

LEMMA HttpInvInit == HttpInit => HttpInv
BY DEF HttpInit, HttpInv, RequestInv, ItemsInv, PageInv, Places, LengthIsRight, NoInfo

(* Infos start without items, and get one at a time. *)
LEMMA NoInfoIs == NoInfo.owned = 0 /\ DOMAIN NoInfo.map = {}
BY DEF NoInfo

LEMMA FirstItem ==
  ASSUME NEW info, NEW key, NEW item
  PROVE  SetInfo(ClearInfo(info), key, item).owned = 1
<1>1. ClearInfo(info).owned = 0 /\ DOMAIN ClearInfo(info).map = {}
  BY NoInfoIs DEF ClearInfo
<1> QED
  BY <1>1 DEF SetInfo

(* The text does not change, and so nothing that is found in it. *)
LEMMA SameText ==
  ASSUME UNCHANGED <<request, length>>
  PROVE  (ParseHead' <=> ParseHead) /\ (IsUpload' <=> IsUpload)
BY DEF ParseHead, IsUpload, OnFirstLine, uri, crlf, HeadEnd, After, Method, Space, LineEnd, Find

(* The items of a decoded request, and when the data of a POST are among    *)
(* them.                                                                    *)
LEMMA DecodedIs ==
  ASSUME inTmp = NoInfo
  PROVE  /\ Decoded.owned \in Nat
         /\ "postdata" \in DOMAIN Decoded.map => IsUpload
<1>1. CASE ~(OnFirstLine(uri) /\ OnFirstLine(Find({"http"}, 1)))
  BY <1>1 DEF Decoded, ClearInfo, NoInfo
<1>2. CASE OnFirstLine(uri) /\ OnFirstLine(Find({"http"}, 1))
  <2> DEFINE withMethod == SetInfo(ClearInfo(inTmp), "method", Method)
             withUri == IF Find(Space, uri + 1) = 0 THEN withMethod
                        ELSE SetInfo(withMethod, "uri", "uri")
             withVersion == SetInfo(withUri, "httpver", "HTTP")
  <2>1. \A info, key, item : info.owned \in Nat =>
          /\ SetInfo(info, key, item).owned \in Nat
          /\ DOMAIN SetInfo(info, key, item).map \subseteq (DOMAIN info.map) \cup {key}
    BY DEF SetInfo
  <2>2. ClearInfo(inTmp).owned \in Nat /\ DOMAIN ClearInfo(inTmp).map = {}
    BY NoInfoIs DEF ClearInfo
  <2>3. withMethod.owned \in Nat /\ DOMAIN withMethod.map \subseteq {"method"}
    BY <2>1, <2>2
  <2> HIDE DEF withMethod
  <2>4. withUri.owned \in Nat /\ DOMAIN withUri.map \subseteq {"method", "uri"}
    BY <2>1, <2>3
  <2> HIDE DEF withUri
  <2>5. withVersion.owned \in Nat /\ DOMAIN withVersion.map \subseteq {"method", "uri", "httpver"}
    BY <2>1, <2>4
  <2> HIDE DEF withVersion
  <2>6. Decoded = IF Method = "POST" /\ PartEnd # 0 THEN SetInfo(withVersion, "postdata", PostData)
                  ELSE withVersion
    BY <1>2 DEF Decoded, withVersion, withUri, withMethod
  <2>7. CASE Method = "POST" /\ PartEnd # 0
    BY <1>2, <2>1, <2>5, <2>6, <2>7 DEF IsUpload
  <2>8. CASE ~(Method = "POST" /\ PartEnd # 0)
    BY <2>5, <2>6, <2>8
  <2> QED
    BY <2>7, <2>8
<1> QED
  BY <1>1, <1>2

LEMMA HttpInvKept ==
  ASSUME HttpInv, [HttpNext]_httpVars
  PROVE  HttpInv'
<1>0. \A n \in Nat : 0 + n = n /\ n + 0 = n
  OBVIOUS
<1> USE HttpAssumption DEF HttpInv, RequestInv, ItemsInv, PageInv, Places, LengthIsRight
<1>1. UNCHANGED <<request, length>>
  BY DEF HttpNext, httpVars, Handle, Think, Decode, DisposeBad, OpenFile, ReadFile, DisposePage, Encode
<1>2. (ParseHead' <=> ParseHead) /\ (IsUpload' <=> IsUpload)
  BY <1>1, SameText
<1>3. CASE Handle
  <2>1. CASE ParseHead
    BY <1>2, <1>3, <2>1 DEF Handle
  <2>2. CASE ~ParseHead
    BY <1>2, <1>3, <2>2 DEF Handle
  <2> QED
    BY <2>1, <2>2
<1>4. CASE Decode
  <2>1. /\ Decoded.owned \in Nat
        /\ "postdata" \in DOMAIN Decoded.map => IsUpload
    BY <1>4, DecodedIs DEF Decode
  <2>2. items = 0 /\ outTmp.owned = 0
    BY <1>4, NoInfoIs DEF Decode
  <2>3. inTmp' = Decoded /\ items' = Decoded.owned /\ outTmp' = outTmp
    <3>1. inTmp' = Decoded /\ items' = items + inTmp'.owned /\ outTmp' = outTmp
      BY <1>4 DEF Decode
    <3>2. items' = 0 + Decoded.owned
      BY <2>2, <3>1
    <3> QED
      BY <1>0, <2>1, <3>1, <3>2
  <2>4. RequestInv'
    BY <1>2, <1>4, <2>1, <2>3 DEF Decode
  <2>5. ItemsInv'
    BY <1>4, <2>1, <2>2, <2>3 DEF Decode
  <2>6. PageInv'
    BY <1>4 DEF Decode
  <2> QED
    BY <2>4, <2>5, <2>6
<1>5. CASE DisposeBad
  <2>1. outTmp'.owned = 1 /\ outTmp.owned = 0
    BY <1>5, NoInfoIs, FirstItem DEF DisposeBad
  <2>2. RequestInv'
    BY <1>2, <1>5 DEF DisposeBad
  <2>3. ItemsInv'
    <3>1. items = inTmp.owned /\ inTmp.owned \in Nat
      BY <1>0, <1>5, <2>1 DEF DisposeBad
    <3>2. items' = items + 1 /\ UNCHANGED inTmp /\ pc' = "encode"
      BY <1>5 DEF DisposeBad
    <3>3. items' = inTmp'.owned + outTmp'.owned
      BY <2>1, <3>1, <3>2
    <3>4. inTmp'.owned \in Nat /\ outTmp'.owned \in Nat
      BY ONLY <2>1, <3>1, <3>2
    <3> QED
      BY ONLY <3>2, <3>3, <3>4 DEF ItemsInv
  <2>4. PageInv'
    BY <1>5 DEF DisposeBad
  <2> QED
    BY <2>2, <2>3, <2>4
<1>6. ASSUME NEW n \in -1 .. MaxFile, OpenFile(n)
      PROVE  HttpInv'
  BY <1>2, <1>6 DEF OpenFile
<1>7. CASE ReadFile
  <2>1. /\ file \in Nat /\ position \in 0 .. file /\ response = [stated |-> file, body |-> position]
        /\ BUFLEN \in Nat
    BY <1>7 DEF ReadFile
  <2>2. response' = [stated |-> file, body |-> position']
    BY <1>7, <2>1 DEF ReadFile
  <2>3. position' \in 0 .. file /\ (lenReaded < BUFLEN => position' = file)
    BY <1>7, <2>1 DEF ReadFile, lenReaded
  <2> QED
    BY <1>2, <1>7, <2>2, <2>3, <2>1 DEF ReadFile
<1>8. CASE DisposePage
  <2>1. outTmp'.owned = 1 /\ outTmp.owned = 0
    BY <1>8, NoInfoIs, FirstItem DEF DisposePage
  <2> QED
    BY <1>2, <1>8, <2>1 DEF DisposePage
<1>9. CASE Encode
  BY <1>2, <1>9 DEF Encode
<1>10. CASE UNCHANGED httpVars
  BY <1>2, <1>10 DEF httpVars
<1> QED
  BY <1>3, <1>4, <1>5, <1>6, <1>7, <1>8, <1>9, <1>10 DEF HttpNext, Think

(* Whatever marks the text has, and how many: where Decode takes a request  *)
(* whose version comes after its path for a POST with data, ParseHead has   *)
(* found the same first line, and the length it states has arrived behind   *)
(* the head of the request.  Decode copies that length from behind the head *)
(* of the part, which is further on; the theorem says nothing of the text   *)
(* left there (web.cpp:24-62, 120-186).                                     *)
THEOREM UploadsAreWhole == HttpSpec => []PostIsWhole
<1>1. HttpInv => PostIsWhole
  <2> SUFFICES ASSUME HttpInv, "postdata" \in DOMAIN inTmp.map, uri < Find({"http"}, 1)
               PROVE  Len(request) - HeadEnd >= length
    BY DEF PostIsWhole
  <2>1. /\ request \in Seq(Marks) /\ request # <<>> /\ IsUpload /\ ParseHead
    <3>1. pc \notin {"read", "read more"}
      BY NoInfoIs DEF HttpInv, ItemsInv
    <3> QED
      BY <3>1, HttpAssumption DEF HttpInv, RequestInv
  <2>2. request[1] = "POST" /\ OnFirstLine(uri)
    BY <2>1 DEF IsUpload, Method
  <2>3. uri \in Nat \ {0}
    BY <2>1, <2>2, FindIs DEF OnFirstLine, uri
  <2>4. Find({"http"}, uri) = Find({"http"}, 1)
    <3> DEFINE h == Find({"http"}, 1)
               g == Find({"http"}, uri)
    <3>1. /\ h \in 1 .. Len(request) /\ request[h] \in {"http"}
          /\ \A i \in 1 .. Len(request) : request[i] \in {"http"} => h <= i
      BY <2>1, FindIs DEF IsUpload, OnFirstLine
    <3>2. \/ g = 0 /\ \A i \in uri .. Len(request) : request[i] \notin {"http"}
          \/ /\ g \in uri .. Len(request) /\ request[g] \in {"http"}
             /\ \A i \in uri .. Len(request) : request[i] \in {"http"} => g <= i
      BY <2>1, <2>3, FindIs
    <3>3. uri < h
      OBVIOUS
    <3>4. Len(request) \in Nat
      BY <2>1
    <3> HIDE DEF h, g
    <3> QED
      BY <2>3, <3>1, <3>2, <3>3, <3>4 DEF h, g
  <2>5. OnFirstLine(After({"http"}, uri))
    BY <2>1, <2>3, <2>4 DEF IsUpload, After
  <2> QED
    BY <2>1, <2>2, <2>5 DEF ParseHead
<1> QED
  BY <1>1, HttpInvInit, HttpInvKept, PTL DEF HttpSpec

(* For files and buffers of every length the Content-Length of a page is    *)
(* the length of its body (web.cpp:236-251).                                *)
THEOREM LengthsAreRight == HttpSpec => []LengthIsRight
<1>1. HttpInv => LengthIsRight
  BY DEF HttpInv, PageInv
<1> QED
  BY <1>1, HttpInvInit, HttpInvKept, PTL DEF HttpSpec

(* Whatever the request, no InfoItem outlives it: Clear, which forgets      *)
(* items, is called on empty infos only (leeloo.h:746-771, web.cpp:109,     *)
(* 263).                                                                    *)
THEOREM NoItemStays == HttpSpec => []ItemsAreFreed
<1>1. HttpInv => ItemsAreFreed
  BY DEF HttpInv, ItemsInv, ItemsAreFreed
<1> QED
  BY <1>1, HttpInvInit, HttpInvKept, PTL DEF HttpSpec
================================================================================
