----------------------------- MODULE Lifecycle_proofs -----------------------------
(***************************************************************************)
(* Proofs about Lifecycle, for every set of configuration files, length of  *)
(* the backlog, number of clients, and choice of calls that may fail.       *)
(***************************************************************************)
EXTENDS Lifecycle, TLAPS

BeforeThread == {"start", "new"}
Alive == {"constructor", "run", "failed", "end", "delete", "connect", "stop", "wait", "stopped"}
Gone == {"deinstance", "exited"}

(* What main has made and not yet taken back. *)
MainInv ==
  /\ mpc \in BeforeThread =>
       server = "none" /\ tpc = "none" /\ ~m_bStarted
  /\ mpc \in Alive =>
       server \in {"NetServer", "WebServer"} /\ m_bStarted
  /\ mpc \in Gone \cup {"stopped"} => ~ThreadRuns
  /\ config = IF mpc \in {"start", "exited"} THEN {} ELSE {ReadConfig(file)}

(* The address the accept thread has bound, once it has. *)
Bound(map) == [Address(map) EXCEPT !.port = IF @ \in Ports THEN @ ELSE "any"]
BoundInv ==
  /\ listening => tpc \in {"loop", "accept", "cleanup"}
  /\ tpc \in {"listen", "loop", "accept", "cleanup"} => si = Bound(ReadConfig(file))

IInv == TypeOK /\ MainInv /\ BoundInv

LEMMA InitInv == Init => IInv
<1> SUFFICES ASSUME Init
             PROVE  IInv
  OBVIOUS
<1>1. TypeOK
  <2>1. backlog \in 0 .. Backlog /\ clients \in 0 .. MaxClients
    BY LifecycleAssumption DEF Init
  <2> QED
    BY <2>1 DEF Init, TypeOK
<1>2. MainInv
  BY DEF Init, MainInv, ThreadRuns, BeforeThread, Alive, Gone
<1>3. BoundInv
  BY DEF Init, BoundInv
<1> QED
  BY <1>1, <1>2, <1>3 DEF IInv

(* Steps of main. *)
LEMMA MainKeeps ==
  ASSUME IInv, Main \/ Input
  PROVE  IInv'
<1> USE LifecycleAssumption
    DEF IInv, TypeOK, MainInv, BoundInv, ThreadRuns, BeforeThread, Alive, Gone, serverVars, netVars,
        singletons
<1>1. CASE Start
  BY <1>1 DEF Start
<1>2. CASE NewServer
  BY <1>2 DEF NewServer, SetTask
<1>3. CASE Constructed
  BY <1>3 DEF Constructed
<1>4. CASE Input
  BY <1>4 DEF Input
<1>5. CASE End
  BY <1>5 DEF End
<1>6. CASE Delete
  BY <1>6 DEF Delete
<1>7. CASE SelfConnect
  BY <1>7 DEF SelfConnect, Instance
<1>8. CASE StopTask
  BY <1>8 DEF StopTask
<1>9. CASE Join
  BY <1>9 DEF Join
<1>10. CASE Stopped
  BY <1>10 DEF Stopped
<1>11. CASE Deinstance
  BY <1>11 DEF Deinstance
<1> QED
  BY <1>1, <1>2, <1>3, <1>4, <1>5, <1>6, <1>7, <1>8, <1>9, <1>10, <1>11 DEF Main

(* Steps of the accept thread, and of clients. *)
LEMMA ThreadKeeps ==
  ASSUME IInv, ThreadProg \/ ClientConnects
  PROVE  IInv'
<1> USE LifecycleAssumption
    DEF IInv, TypeOK, MainInv, BoundInv, ThreadRuns, BeforeThread, Alive, Gone, mainVars, serverVars,
        netVars, singletons, ThreadAt, Reach, GivesUp, Instance
<1>1. CASE WSAStartup
  BY <1>1 DEF WSAStartup
<1>2. CASE CreateWorkers
  BY <1>2 DEF CreateWorkers
<1>3. CASE Bind
  <2>1. TypeOK'
    <3>1. si' = NoAddress \/ si' \in [ip : Ips, port : Ports \cup {"any"}]
      BY <1>3 DEF Bind, Address
    <3> QED
      BY <1>3, <3>1 DEF Bind
  <2>2. MainInv'
    BY <1>3 DEF Bind, Bound
  <2>3. BoundInv'
    BY <1>3 DEF Bind, Bound
  <2> QED
    BY <2>1, <2>2, <2>3
<1>4. CASE Listen
  <2>1. TypeOK'
    BY <1>4 DEF Listen
  <2>2. MainInv'
    BY <1>4 DEF Listen
  <2>3. BoundInv'
    BY <1>4 DEF Listen
  <2> QED
    BY <2>1, <2>2, <2>3
<1>5. CASE Loop
  BY <1>5 DEF Loop
<1>6. CASE AcceptReturns
  BY <1>6 DEF AcceptReturns
<1>7. CASE Cleanup
  <2>1. TypeOK'
    <3>1. backlog' \in 0 .. Backlog
      BY <1>7 DEF Cleanup
    <3> QED
      BY <1>7, <3>1 DEF Cleanup
  <2>2. MainInv'
    BY <1>7 DEF Cleanup
  <2>3. BoundInv'
    BY <1>7 DEF Cleanup
  <2> QED
    BY <2>1, <2>2, <2>3
<1>8. CASE ClientConnects
  BY <1>8 DEF ClientConnects
<1> QED
  BY <1>1, <1>2, <1>3, <1>4, <1>5, <1>6, <1>7, <1>8 DEF ThreadProg

LEMMA InvKept == IInv /\ [Next]_vars => IInv'
<1>1. ASSUME IInv, UNCHANGED vars
      PROVE  IInv'
  BY <1>1 DEF IInv, TypeOK, MainInv, BoundInv, ThreadRuns, Bound, Address, vars, mainVars, serverVars,
              netVars, singletons
<1> QED
  BY <1>1, MainKeeps, ThreadKeeps DEF Next

(* The accept thread has ended before the object it belongs to is deleted,  *)
(* whichever calls of the system failed (leeloo.h:504-526, net.cpp:12-28).  *)
THEOREM ThreadEndsFirst == Spec => []ServerOutlivesThread
<1>1. IInv => ServerOutlivesThread
  BY DEF IInv, TypeOK, MainInv, ServerOutlivesThread, ThreadRuns, BeforeThread, Alive, Gone
<1> QED
  BY <1>1, InitInv, InvKept, PTL DEF Spec

(* The thread never runs without a Config, nor with one made anew after its *)
(* deletion, which would be empty (leeloo.h:162-171).                       *)
ConfigIsFile == ThreadRuns => config = {ReadConfig(file)}

(* Every variable keeps its type; and as long as the thread runs, the       *)
(* Config is there with what was read from the file, though Instance would  *)
(* make an empty one at any time (framework.cpp:16, 37; leeloo.h:162-171).  *)
THEOREM TypeCorrect == Spec => [](TypeOK /\ ConfigIsFile)
<1>1. IInv => TypeOK /\ ConfigIsFile
  BY DEF IInv, TypeOK, MainInv, ConfigIsFile, ThreadRuns, BeforeThread, Alive, Gone
<1> QED
  BY <1>1, InitInv, InvKept, PTL DEF Spec

(* Where files are read as they are meant, the server listens nowhere but   *)
(* at the address in its file, at any time of its life (net.cpp:171-197).   *)
THEOREM ListensAtItsAddress ==
  ASSUME ReadsAsMeant
  PROVE  Spec => []ListensWhereTold
<1>1. IInv => ListensWhereTold
  <2> SUFFICES ASSUME IInv, listening, WellFormed(file), si.port # "any"
               PROVE  si = Address(ReadConfig(file))
    BY DEF ListensWhereTold, ReadsAsMeant, IInv, TypeOK
  <2> QED
    BY DEF IInv, BoundInv, Bound, Address
<1> QED
  BY <1>1, InitInv, InvKept, PTL DEF Spec
================================================================================
