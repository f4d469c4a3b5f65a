------------------------------- MODULE EchoService -------------------------------
(***************************************************************************)
(* What a client of NetServer sees, whatever threads, sessions and socket   *)
(* handles serve it: a connection is admitted or turned away, an admitted   *)
(* one gets its own chunks back, each once and in order, and the server     *)
(* hangs up on it only after the peer has gone, and after a peer that       *)
(* closed in good order has been sent everything.                           *)
(***************************************************************************)
EXTENDS Naturals, Sequences

CONSTANTS Conns,      \* the connections, each made at most once
          MaxChunks   \* bound: chunks a peer sends on a connection

VARIABLES phase,    \* "idle", "waiting", "served" or "closed"
          peer,     \* "up", "shut" (in good order) or "reset"
          sent,     \* how many chunks the peer has sent
          replies   \* the chunks it was sent back

vars == <<phase, peer, sent, replies>>

Chunk(c, n) == [from |-> c, number |-> n]

Init ==
  /\ phase = [c \in Conns |-> "idle"]
  /\ peer = [c \in Conns |-> "up"]
  /\ sent = [c \in Conns |-> 0]
  /\ replies = [c \in Conns |-> <<>>]

Connect(c) ==
  /\ phase[c] = "idle"
  /\ phase' = [phase EXCEPT ![c] = "waiting"]
  /\ UNCHANGED <<peer, sent, replies>>

PeerSend(c) ==
  /\ phase[c] \in {"waiting", "served"}
  /\ peer[c] = "up"
  /\ sent[c] < MaxChunks
  /\ sent' = [sent EXCEPT ![c] = @ + 1]
  /\ UNCHANGED <<phase, peer, replies>>

PeerShut(c) ==
  /\ phase[c] \in {"waiting", "served"}
  /\ peer[c] = "up"
  /\ peer' = [peer EXCEPT ![c] = "shut"]
  /\ UNCHANGED <<phase, sent, replies>>

PeerReset(c) ==
  /\ phase[c] \in {"waiting", "served"}
  /\ peer[c] # "reset"
  /\ peer' = [peer EXCEPT ![c] = "reset"]
  /\ UNCHANGED <<phase, sent, replies>>

Admit(c) ==
  /\ phase[c] = "waiting"
  /\ phase' = [phase EXCEPT ![c] = "served"]
  /\ UNCHANGED <<peer, sent, replies>>

TurnAway(c) ==
  /\ phase[c] = "waiting"
  /\ phase' = [phase EXCEPT ![c] = "closed"]
  /\ UNCHANGED <<peer, sent, replies>>

Reply(c) ==
  /\ phase[c] = "served"
  /\ peer[c] # "reset"
  /\ Len(replies[c]) < sent[c]
  /\ replies' = [replies EXCEPT ![c] = Append(@, Chunk(c, Len(@) + 1))]
  /\ UNCHANGED <<phase, peer, sent>>

HangUp(c) ==
  /\ phase[c] = "served"
  /\ \/ peer[c] = "reset"
     \/ peer[c] = "shut" /\ Len(replies[c]) = sent[c]
  /\ phase' = [phase EXCEPT ![c] = "closed"]
  /\ UNCHANGED <<peer, sent, replies>>

Next ==
  \E c \in Conns :
    \/ Connect(c) \/ PeerSend(c) \/ PeerShut(c) \/ PeerReset(c)
    \/ Admit(c) \/ TurnAway(c) \/ Reply(c) \/ HangUp(c)

Spec == Init /\ [][Next]_vars
================================================================================
