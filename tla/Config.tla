---------------------------------- MODULE Config ----------------------------------
(***************************************************************************)
(* Leeloo::Config (leeloo.h:223-234, leeloo.cpp:55-103) as a function of    *)
(* the file: ReadConfig takes its words as keys and values in turn, and     *)
(* skips those that begin with '#'; where lines end makes no difference.    *)
(*                                                                          *)
(* A file is a sequence of lines and a line one of words; "#" stands for    *)
(* any word that begins so.                                                 *)
(***************************************************************************)
EXTENDS Naturals, Sequences, SequencesExt

NoFile == <<<<"no file">>>>  \* stands for one that cannot be opened

LEELOO_LOGLEVEL_KEY_CONFIG == "/log/level"
LEELOO_NOLOG_LEVEL_LOG == "3"

(* std::map::insert: a key that is there keeps its value. *)
Insert(map, key, val) ==
  [k \in DOMAIN map \cup {key} |-> IF k \in DOMAIN map THEN map[k] ELSE val]

(* Mutation: a comment is taken for a key or value like any other word. *)
IsComment_Never(word) == FALSE
IsComment(word) == word = "#"

(* A word is a key, or the value of the key before it. *)
ReadWord(reader, word) ==
  IF IsComment(word) THEN reader
  ELSE IF reader.bKey THEN [reader EXCEPT !.bKey = FALSE, !.map = Insert(@, reader.stdstrKey, word)]
  ELSE [reader EXCEPT !.bKey = TRUE, !.stdstrKey = word]

ReadConfig(file) ==
  IF file = NoFile THEN Insert(<<>>, LEELOO_LOGLEVEL_KEY_CONFIG, LEELOO_NOLOG_LEVEL_LOG)
  ELSE FoldLeft(ReadWord, [bKey |-> FALSE, stdstrKey |-> "", map |-> <<>>], FlattenSeq(file)).map

GetConfig(map, key, val) == IF key \in DOMAIN map THEN map[key] ELSE val

--------------------------------------------------------------------------------
(* What a reader of the file takes it for, who knows the keys by name: the  *)
(* value is the word after the first place where the key is, provided that  *)
(* comments are one word on a line of their own, as in config.txt, and that *)
(* keys and values alternate, on one line or on two.                        *)
KnownKeys == {LEELOO_LOGLEVEL_KEY_CONFIG, "/net/ip", "/net/tcpport", "/net/threadnum"}

Words(file) == FlattenSeq(SelectSeq(file, LAMBDA line : line # <<"#">>))

WellFormed(file) ==
  \/ file = NoFile
  \/ /\ ~Contains(Words(file), "#") /\ Len(Words(file)) % 2 = 0
     /\ \A i \in DOMAIN Words(file) : Words(file)[i] \in KnownKeys <=> i % 2 = 1

Meant(file, key, val) ==
  IF Contains(Words(file), key)
  THEN Words(file)[SelectInSeq(Words(file), LAMBDA word : word = key) + 1]
  ELSE val
==================================================================================
