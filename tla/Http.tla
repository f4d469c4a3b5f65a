----------------------------------- MODULE Http -----------------------------------
(***************************************************************************)
(* What WebServer::Handle does with the text of one read (web.cpp):         *)
(* HttpProtocol::ParseHead decides whether it is a whole request; then      *)
(* KnowledgeFramework::Think has it decoded to an Info, disposed of, which  *)
(* makes another Info with the response, and encoded (leeloo.h).            *)
(*                                                                          *)
(* A text is a sequence of the marks the code looks for, each as long as    *)
(* one unit of Content-Length.  "POST" and "GET" are methods, "uri" is ' /' *)
(* and "http" ' HTTP', both of which begin with a space, "crlf" is one end  *)
(* of a line and "end" two, "len" is Content-Length with its number, "type" *)
(* Content-Type, "x" anything else.                                         *)
(***************************************************************************)
EXTENDS Integers, Sequences, FiniteSets

CONSTANTS Requests, Lengths, \* texts, and numbers after Content-Length
          MAXLEN,            \* ZTLIB_MAXLEN_REQUEST_WEBSERVER
          BUFLEN, MaxFile    \* the buffer of ResponseByFile, and bound: lengths of files

Marks == {"POST", "GET", "uri", "http", "crlf", "end", "len", "type", "x"}

ASSUME HttpAssumption ==
  /\ Requests \subseteq Seq(Marks) \ {<<>>}
  /\ Lengths \subseteq Int /\ MAXLEN \in Nat /\ BUFLEN \in Nat \ {0} /\ MaxFile \in Nat

VARIABLES pc,              \* how far Handle has come
          request, length, \* the text and the number in it
          inTmp, outTmp,   \* the infos of Think
          items,           \* InfoItems that have been made and not deleted
          file, position,  \* length of the file of the page, -1 if none, and what was read
          response         \* the page: the length in its head and that of its body; or <<>>

httpVars == <<pc, request, length, inTmp, outTmp, items, file, position, response>>

--------------------------------------------------------------------------------
(* Searching.  Two "crlf" in a row stand for line ends with something in    *)
(* between: where nothing is between them the text has an "end" instead.    *)

Find(marks, first) ==
  LET found == {i \in first .. Len(request) : request[i] \in marks}
  IN IF found = {} THEN 0 ELSE CHOOSE i \in found : \A j \in found : i <= j

LineEnd == {"crlf", "end"}
Space == {"uri", "http"}
After(marks, i) == IF i = 0 THEN 0 ELSE Find(marks, i)

crlf == Find(LineEnd, 1)
uri == Find({"uri"}, 1)
OnFirstLine(i) == i # 0 /\ i < crlf

(* Both look for Content-Length and for the end of the head after it. *)
HeadEnd == After({"end"}, Find({"len"}, 1))

(* Mutation: the length is that of the whole request. *)
ParseHead_CountsHead ==
  /\ OnFirstLine(uri) /\ OnFirstLine(After({"http"}, uri)) /\ request[1] = "POST"
     => HeadEnd # 0 /\ Len(request) >= length

(* Everything but a POST is whole; a POST when there is as much after its   *)
(* head as it says.                                                         *)
ParseHead ==
  /\ OnFirstLine(uri) /\ OnFirstLine(After({"http"}, uri)) /\ request[1] = "POST"
     => HeadEnd # 0 /\ Len(request) - HeadEnd >= length

--------------------------------------------------------------------------------
(* Info: the items by key. *)

NoInfo == [map |-> <<>>, owned |-> 0]
GetInfo(info, key) == IF key \in DOMAIN info.map THEN info.map[key] ELSE "NULL"

(* The first item of a key stays; each that is taken is owned. *)
SetInfo(info, key, item) ==
  IF key \in DOMAIN info.map THEN info
  ELSE [map   |-> [k \in DOMAIN info.map \cup {key} |-> IF k = key THEN item ELSE info.map[k]],
        owned |-> info.owned + 1]

(* Clear forgets the items and deletes none. *)
ClearInfo(info) == NoInfo

Method == IF Find(Space, 1) = 2 THEN request[1] ELSE "x"

(* Where the data of a POST begin, past the head of its first part. *)
PartEnd == After({"end"}, After({"type"}, HeadEnd))
PostData == [from |-> PartEnd + 1, length |-> IF length > 0 /\ length < MAXLEN THEN length ELSE 0]

(* The items Decode finds; the text has to have a first line at all. *)
Decoded ==
  IF ~(OnFirstLine(uri) /\ OnFirstLine(Find({"http"}, 1))) THEN ClearInfo(inTmp)
  ELSE LET withMethod == SetInfo(ClearInfo(inTmp), "method", Method)
           withUri == IF Find(Space, uri + 1) = 0 THEN withMethod
                      ELSE SetInfo(withMethod, "uri", "uri")
           withVersion == SetInfo(withUri, "httpver", "HTTP")
       IN IF Method = "POST" /\ PartEnd # 0 THEN SetInfo(withVersion, "postdata", PostData)
          ELSE withVersion

--------------------------------------------------------------------------------
HttpInit ==
  /\ pc = "read" /\ request \in Requests /\ length \in Lengths
  /\ inTmp = NoInfo /\ outTmp = NoInfo /\ items = 0
  /\ file = -1 /\ position = 0 /\ response = <<>>

Handle ==
  /\ pc = "read"
  /\ pc' = IF ParseHead THEN "decode" ELSE "read more"
  /\ UNCHANGED <<request, length, inTmp, outTmp, items, file, position, response>>

Decode ==
  /\ pc = "decode"
  /\ inTmp' = Decoded
  /\ items' = items + inTmp'.owned
  /\ pc' = "dispose"
  /\ UNCHANGED <<request, length, outTmp, file, position, response>>

IsGet == GetInfo(inTmp, "method") = "GET" /\ GetInfo(inTmp, "uri") # "NULL"

(* Mutation: the info that came in is cleared. *)
DisposeBad_ClearsIn ==
  /\ pc = "dispose" /\ ~IsGet
  /\ inTmp' = ClearInfo(inTmp)
  /\ outTmp' = SetInfo(outTmp, "response", "no buffer")
  /\ items' = items + 1
  /\ pc' = "encode"
  /\ UNCHANGED <<request, length, file, position, response>>

(* The text for what is not a GET goes to Data that have no buffer. *)
DisposeBad ==
  /\ pc = "dispose" /\ ~IsGet
  /\ outTmp' = SetInfo(ClearInfo(outTmp), "response", "no buffer")
  /\ items' = items + 1
  /\ pc' = "encode"
  /\ UNCHANGED <<request, length, inTmp, file, position, response>>

(* ResponseByFile writes the length of the file, 0 if there is none ... *)
OpenFile(n) ==
  /\ pc = "dispose" /\ IsGet
  /\ file' = n
  /\ response' = [stated |-> IF n < 0 THEN 0 ELSE n, body |-> 0]
  /\ pc' = IF n < 0 THEN "close" ELSE "fread"
  /\ UNCHANGED <<request, length, inTmp, outTmp, items, position>>

lenReaded == IF file - position < BUFLEN THEN file - position ELSE BUFLEN

(* Mutation: what does not fill the buffer ends the loop before it is added. *)
ReadFile_DropsRest ==
  /\ pc = "fread"
  /\ position' = position + lenReaded
  /\ response' = [response EXCEPT !.body = @ + IF lenReaded < BUFLEN THEN 0 ELSE lenReaded]
  /\ pc' = IF lenReaded < BUFLEN THEN "close" ELSE "fread"
  /\ UNCHANGED <<request, length, inTmp, outTmp, items, file>>

(* ... and adds its content, a buffer at a time, until one is not filled. *)
ReadFile ==
  /\ pc = "fread"
  /\ position' = position + lenReaded
  /\ response' = [response EXCEPT !.body = @ + lenReaded]
  /\ pc' = IF lenReaded < BUFLEN THEN "close" ELSE "fread"
  /\ UNCHANGED <<request, length, inTmp, outTmp, items, file>>

DisposePage ==
  /\ pc = "close"
  /\ outTmp' = SetInfo(ClearInfo(outTmp), "response", "page")
  /\ items' = items + 1
  /\ pc' = "encode"
  /\ UNCHANGED <<request, length, inTmp, file, position, response>>

(* The response is taken from the info; then the infos go with their items. *)
Encode ==
  /\ pc = "encode"
  /\ items' = items - inTmp.owned - outTmp.owned
  /\ pc' = "send"
  /\ UNCHANGED <<request, length, inTmp, outTmp, file, position, response>>

Think == Decode \/ DisposeBad \/ (\E n \in -1 .. MaxFile : OpenFile(n)) \/ ReadFile
         \/ DisposePage \/ Encode

HttpNext == Handle \/ Think

HttpSpec == HttpInit /\ [][HttpNext]_httpVars

--------------------------------------------------------------------------------
(* ParseHead and Decode search the text each in its own way. When Decode    *)
(* takes a request for a POST with data, ParseHead has measured that as     *)
(* much as it states has arrived behind the head of the request, provided   *)
(* the version comes after the path (web.cpp:24-62, 120-186).  That is no   *)
(* claim about the copy, which starts behind the head of the part           *)
(* (web.cpp:181-185).                                                       *)
PostIsWhole ==
  "postdata" \in DOMAIN inTmp.map /\ uri < Find({"http"}, 1) => Len(request) - HeadEnd >= length

(* The Content-Length of a page is the length of its body, for files of     *)
(* every length, multiples of the buffer among them (web.cpp:236-251).      *)
LengthIsRight ==
  pc \in {"close", "encode", "send"} /\ response # <<>> => response.stated = response.body

(* No InfoItem outlives the request: SetInfo and the destructor of Info     *)
(* account for each, since Clear, which forgets them, is called on empty    *)
(* infos only (leeloo.h:746-771, web.cpp:109, 263).                         *)
ItemsAreFreed == pc = "send" => items = 0
================================================================================
