------------------------------- MODULE MCLifecycle -------------------------------
(***************************************************************************)
(* Lifecycle for TLC, with the configuration file of the repository and    *)
(* others of up to three lines, comments of two words, values that are       *)
(* missing or no port, and keys that come twice among them.                 *)
(***************************************************************************)
EXTENDS Lifecycle

SomeIps == {"127.0.0.1", "10.0.0.1"}
SomePorts == {"80", "8181"}
AllButConnect == {"CreateThread", "WSAStartup", "bind", "listen"}

Usual == <<<<"#">>, <<"/log/level">>, <<"0">>, <<>>, <<"/net/ip">>, <<"127.0.0.1">>, <<>>,
           <<"/net/tcpport">>, <<"80">>, <<>>, <<"/net/threadnum">>, <<"64">>, <<>>, <<>>>>
Lines == {<<>>, <<"#">>, <<"#", "net">>, <<"/net/ip">>, <<"10.0.0.1">>, <<"/net/ip", "10.0.0.1">>,
          <<"/net/tcpport", "80">>, <<"/net/tcpport", "8181">>, <<"/net/tcpport", "http">>}
SomeFiles == {NoFile, Usual} \cup UNION {[1 .. n -> Lines] : n \in 0 .. 3}

(* What ListensAtItsAddress supposes of the files, evaluated for these. *)
ASSUME MCAssumption == ReadsAsMeant
================================================================================
