--------------------------------- MODULE MCHttp ---------------------------------
(***************************************************************************)
(* Http for TLC: a POST of the usual form with up to five marks after its   *)
(* first words, and other first words with up to three.                     *)
(***************************************************************************)
EXTENDS Http

Rest(n) == UNION {[1 .. m -> {"crlf", "len", "end", "type", "x"}] : m \in 0 .. n}
Uploads(n) == {<<"POST", "uri", "http">> \o rest : rest \in Rest(n)}
Starts == {<<"POST", "http", "uri">>, <<"POST", "uri", "uri">>, <<"GET", "uri", "http">>,
           <<"GET", "http", "uri">>, <<"GET", "x", "http">>, <<"x", "uri", "http">>}
AllRequests == Uploads(5) \cup {start \o rest : start \in Starts, rest \in Rest(3)}
SomeLengths == {-1, 0, 1, 2, 3}
================================================================================
