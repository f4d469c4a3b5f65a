-------------------------------- MODULE Lifecycle --------------------------------
(***************************************************************************)
(* The life of the web server program: main (uniondb_webserver.cpp) reads   *)
(* the configuration, makes the server, waits for a 'q' and ends them; the  *)
(* Leeloo::Thread of the server runs NetServer::ThreadProg, which starts    *)
(* the workers, listens and accepts until it is stopped.                    *)
(*                                                                          *)
(* A thread blocked in accept sees no flag.  ~NetServer wakes it with a     *)
(* connection of its own and only then sets m_bStop, so that the program    *)
(* ends because End stops the Global before it deletes the server.          *)
(*                                                                          *)
(* What the accept thread and the workers do with connections is in         *)
(* NetServer and WebServer.                                                 *)
(***************************************************************************)
EXTENDS Config

CONSTANTS Files,      \* configuration files
          Ips, Ports, \* strings that are addresses, and numbers of ports but 0
          Backlog,    \* connections the listening socket holds, 5 in the code
          MaxClients, \* bound: connections made by clients
          MayFail     \* the calls of the system that may fail

ASSUME LifecycleAssumption ==
  /\ Backlog \in Nat \ {0} /\ MaxClients \in Nat
  /\ MayFail \subseteq {"CreateThread", "WSAStartup", "bind", "listen", "connect"}

VARIABLES
  mpc,                  \* main: the call it is in
  m_runned,             \* Global
  file,                 \* config.txt
  config, log,          \* ConfigSingleton with its map, LogSingleton: {} if not there
  server,               \* the WebServer: the class it is at the moment, or "none", "deleted"
  m_bStop, m_bStarted,  \* its Thread
  tpc,                  \* where ThreadProg is, or "none", "ended"
  si,                   \* the address it has bound
  listening, backlog,   \* the listening socket, and connections nobody accepted yet
  clients               \* connections made

serverVars == <<server, m_bStop, m_bStarted>>
mainVars == <<mpc, m_runned, file, serverVars>>
singletons == <<config, log>>
netVars == <<si, listening, backlog, clients>>
vars == <<mainVars, singletons, tpc, netVars>>

NoAddress == [ip |-> "", port |-> ""]
DefaultAddress ==  \* LEELOO_DEFAULT_IP_VAL_CONFIG_NET and ..._TCPPORT_...
  [ip |-> "127.0.0.1", port |-> "8181"]

Init ==
  /\ mpc = "start" /\ m_runned = "RUN" /\ file \in Files /\ config = {} /\ log = {}
  /\ server = "none" /\ m_bStop = FALSE /\ m_bStarted = FALSE
  /\ tpc = "none" /\ si = NoAddress
  /\ listening = FALSE /\ backlog = 0 /\ clients = 0

IsRun == m_runned = "RUN"

(* Instance makes what is not there; a Config made so has read no file. *)
Instance(singleton) == IF singleton = {} THEN {<<>>} ELSE singleton

(* The address of the server, for bind and for connect. *)
Address(map) ==
  [ip |-> GetConfig(map, "/net/ip", DefaultAddress.ip),
   port |-> GetConfig(map, "/net/tcpport", DefaultAddress.port)]

--------------------------------------------------------------------------------
(* The main thread. *)

(* AppFramework::Start; no other thread is there yet. *)
Start ==
  /\ mpc = "start"
  /\ m_runned' = "RUN" /\ config' = {ReadConfig(file)} /\ log' = {<<>>} /\ mpc' = "new"
  /\ UNCHANGED <<file, serverVars, tpc, netVars>>

(* Mutation: m_bStarted is not set. *)
SetTask_Unmarked ==
  /\ tpc' \in {"startup"} \cup {"none" : call \in MayFail \cap {"CreateThread"}}
  /\ UNCHANGED m_bStarted

(* Thread::SetTask. The result of CreateThread is not looked at. *)
SetTask ==
  /\ ~m_bStarted
  /\ m_bStarted' = TRUE
  /\ tpc' \in {"startup"} \cup {"none" : call \in MayFail \cap {"CreateThread"}}

(* The constructor of NetServer, in that of WebServer, starts the thread. *)
NewServer ==
  /\ mpc = "new"
  /\ SetTask
  /\ server' = "NetServer" /\ mpc' = "constructor"
  /\ UNCHANGED <<m_runned, file, singletons, m_bStop, netVars>>

Constructed ==
  /\ mpc = "constructor"
  /\ server' = "WebServer" /\ mpc' = "run"
  /\ UNCHANGED <<m_runned, file, m_bStop, m_bStarted, singletons, tpc, netVars>>

(* AppFramework::Run: a word is read, whatever it is, or a 'q'; at the end  *)
(* of the input cin fails for good, and the loop goes on without blocking.  *)
Input ==
  /\ mpc = "run" /\ IsRun
  /\ mpc' \in {"end", "failed"}
  /\ UNCHANGED <<m_runned, file, serverVars, singletons, tpc, netVars>>

(* Mutation: End leaves the Global running. *)
End_KeepsRunning ==
  /\ mpc = "end"
  /\ mpc' = "delete"
  /\ UNCHANGED <<m_runned, file, serverVars, singletons, tpc, netVars>>

(* Mutation: the End of the framework, with its singletons, comes first. *)
End_FrameworkFirst ==
  /\ mpc = "end"
  /\ m_runned' = "STOP" /\ log' = {} /\ config' = {} /\ mpc' = "delete"
  /\ UNCHANGED <<file, serverVars, tpc, netVars>>

(* MyAppFramework::End *)
End ==
  /\ mpc = "end"
  /\ m_runned' = "STOP" /\ mpc' = "delete"
  /\ UNCHANGED <<file, serverVars, singletons, tpc, netVars>>

(* Deinstance: past the destructor of WebServer, which does nothing, the    *)
(* object is a NetServer again.                                             *)
Delete ==
  /\ mpc = "delete"
  /\ server' = "NetServer" /\ mpc' = "connect"
  /\ UNCHANGED <<m_runned, file, m_bStop, m_bStarted, singletons, tpc, netVars>>

(* ~NetServer connects to the address of the configuration and closes the   *)
(* connection. It is refused when nobody listens there (yet), or too many   *)
(* wait.                                                                    *)
SelfConnect ==
  /\ mpc = "connect"
  /\ config' = Instance(config)
  /\ \/ \E map \in config' :
          /\ listening /\ si = Address(map) /\ backlog < Backlog
          /\ backlog' = backlog + 1
     \/ /\ \/ \A map \in config' : ~listening \/ si # Address(map) \/ backlog = Backlog
           \/ "connect" \in MayFail
        /\ UNCHANGED backlog
  /\ mpc' = "stop"
  /\ UNCHANGED <<m_runned, file, serverVars, log, tpc, si, listening, clients>>

(* Thread::StopTask sets the flag ... *)
StopTask ==
  /\ mpc = "stop"
  /\ m_bStop' = TRUE
  /\ mpc' = IF m_bStarted THEN "wait" ELSE "stopped"
  /\ UNCHANGED <<m_runned, file, server, m_bStarted, singletons, tpc, netVars>>

(* ... waits for the thread, if there is one ... *)
Join ==
  /\ mpc = "wait"
  /\ tpc \in {"none", "ended"}
  /\ mpc' = "stopped"
  /\ UNCHANGED <<m_runned, file, serverVars, singletons, tpc, netVars>>

(* ... and takes it back; then the sessions, the id manager and the thread  *)
(* object go, whose StopTask finds nothing to wait for.                     *)
Stopped ==
  /\ mpc = "stopped"
  /\ m_bStop' = FALSE /\ m_bStarted' = FALSE
  /\ server' = "deleted" /\ mpc' = "deinstance"
  /\ UNCHANGED <<m_runned, file, singletons, tpc, netVars>>

(* AppFramework::End, after which main returns and the process is gone. *)
Deinstance ==
  /\ mpc = "deinstance"
  /\ m_runned' = "STOP" /\ log' = {} /\ config' = {} /\ mpc' = "exited"
  /\ UNCHANGED <<file, serverVars, tpc, netVars>>

Main ==
  \/ Start \/ NewServer \/ Constructed
  \/ End \/ Delete \/ SelfConnect \/ StopTask \/ Join \/ Stopped \/ Deinstance

--------------------------------------------------------------------------------
(* ThreadProg. *)

Reach(place) == tpc' = place
ThreadAt(place) == mpc # "exited" /\ tpc = place

(* What fails is logged, which may make the Log, and ends the thread. *)
GivesUp ==
  /\ Reach("ended")
  /\ log' = Instance(log) /\ config' = Instance(config)

WSAStartup ==
  /\ ThreadAt("startup")
  /\ \/ Reach("workers") /\ UNCHANGED singletons
     \/ "WSAStartup" \in MayFail /\ GivesUp
  /\ UNCHANGED <<mainVars, netVars>>

(* The completion port and the workers, as many as the configuration says. *)
CreateWorkers ==
  /\ ThreadAt("workers")
  /\ config' = Instance(config)
  /\ Reach("bind")
  /\ UNCHANGED <<mainVars, log, netVars>>

(* A port that is no number is 0 for atoi, for which bind takes any that is *)
(* free; an address that is none it refuses.                                *)
Bind ==
  /\ ThreadAt("bind")
  /\ \/ \E map \in Instance(config) :
          /\ Address(map).ip \in Ips
          /\ si' = [Address(map) EXCEPT !.port = IF @ \in Ports THEN @ ELSE "any"]
          /\ Reach("listen") /\ config' = {map} /\ UNCHANGED log
     \/ /\ "bind" \in MayFail \/ \E map \in Instance(config) : Address(map).ip \notin Ips
        /\ GivesUp /\ UNCHANGED si
  /\ UNCHANGED <<mainVars, listening, backlog, clients>>

Listen ==
  /\ ThreadAt("listen")
  /\ \/ Reach("loop") /\ listening' = TRUE /\ UNCHANGED singletons
     \/ "listen" \in MayFail /\ GivesUp /\ UNCHANGED listening
  /\ UNCHANGED <<mainVars, si, backlog, clients>>

Loop ==
  /\ ThreadAt("loop")
  /\ Reach(IF ~m_bStop /\ IsRun THEN "accept" ELSE "cleanup")
  /\ UNCHANGED <<mainVars, singletons, netVars>>

(* Mutation: accept does not block. *)
AcceptReturns_AtOnce ==
  /\ ThreadAt("accept")
  /\ backlog' = backlog - 1
  /\ Reach("loop")
  /\ UNCHANGED <<mainVars, singletons, si, listening, clients>>

(* accept blocks until a connection is there, which NetServer::Accept takes. *)
AcceptReturns ==
  /\ ThreadAt("accept")
  /\ backlog > 0
  /\ backlog' = backlog - 1
  /\ Reach("loop")
  /\ UNCHANGED <<mainVars, singletons, si, listening, clients>>

(* WSACleanup closes the sockets. *)
Cleanup ==
  /\ ThreadAt("cleanup")
  /\ listening' = FALSE /\ backlog' = 0
  /\ Reach("ended")
  /\ UNCHANGED <<mainVars, singletons, si, clients>>

ThreadProg ==
  \/ WSAStartup \/ CreateWorkers \/ Bind \/ Listen
  \/ Loop \/ AcceptReturns \/ Cleanup

ClientConnects ==
  /\ mpc # "exited" /\ listening
  /\ clients < MaxClients /\ backlog < Backlog
  /\ clients' = clients + 1 /\ backlog' = backlog + 1
  /\ UNCHANGED <<mainVars, singletons, tpc, si, listening>>

Next == Main \/ Input \/ ThreadProg \/ ClientConnects

Spec == Init /\ [][Next]_vars

(* The two threads run; nobody has to type anything, nor to connect. *)
FairSpec == Spec /\ WF_vars(Main) /\ WF_vars(ThreadProg)

--------------------------------------------------------------------------------
TypeOK ==
  /\ mpc \in {"start", "new", "constructor", "run", "failed", "end", "delete", "connect",
              "stop", "wait", "stopped", "deinstance", "exited"}
  /\ m_runned \in {"RUN", "STOP"}
  /\ file \in Files /\ config \subseteq {<<>>, ReadConfig(file)} /\ log \subseteq {<<>>}
  /\ server \in {"none", "NetServer", "WebServer", "deleted"}
  /\ m_bStop \in BOOLEAN /\ m_bStarted \in BOOLEAN
  /\ tpc \in {"none", "startup", "workers", "bind", "listen", "loop", "accept",
              "cleanup", "ended"}
  /\ si = NoAddress \/ si \in [ip : Ips, port : Ports \cup {"any"}]
  /\ listening \in BOOLEAN /\ backlog \in 0 .. Backlog /\ clients \in 0 .. MaxClients

ThreadRuns == tpc \notin {"none", "ended"}

(* The server is not deleted under the accept thread, which runs a member   *)
(* function of it and reads the stop flag inside it: StopTask waits for the *)
(* thread whatever it was doing, as often as its result was not looked at   *)
(* (leeloo.h:504-526, net.cpp:24-27, 200).                                  *)
ServerOutlivesThread == ThreadRuns => server \in {"NetServer", "WebServer"}

(* The server listens where its file of keys and values says, or else at    *)
(* the default address: counting words pairs them rightly, and the          *)
(* configuration is there from before the thread starts until it has ended, *)
(* where Instance would make an empty one and the defaults be used silently *)
(* (leeloo.cpp:70-88, framework.cpp:16, 37; net.cpp:171-180).               *)
ListensWhereTold ==
  listening /\ WellFormed(file) /\ si.port # "any" =>
    si = [ip |-> Meant(file, "/net/ip", DefaultAddress.ip),
          port |-> Meant(file, "/net/tcpport", DefaultAddress.port)]

(* ReadConfig reads from a file of keys and values the address that a       *)
(* reader takes it to mean (leeloo.cpp:70-88): a fact about a function.     *)
ReadsAsMeant ==
  \A f \in Files : WellFormed(f) =>
    Address(ReadConfig(f)) = [ip |-> Meant(f, "/net/ip", DefaultAddress.ip),
                              port |-> Meant(f, "/net/tcpport", DefaultAddress.port)]

(* "input q, exit program" (framework.cpp:24): once 'q' has been typed the  *)
(* program ends, wherever the accept thread is when the server is deleted:  *)
(* not started, not listening yet, in accept, or past it; provided that the *)
(* port is a number, as connect finds no server at port 0, and that connect *)
(* does not fail otherwise (net.cpp:24).                                    *)
QuitEnds == mpc = "end" /\ Address(ReadConfig(file)).port \in Ports ~> mpc = "exited"
================================================================================
