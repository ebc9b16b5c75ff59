---------------------------- MODULE EventManager ----------------------------
(***************************************************************************)
(* The event broadcaster (app/events/manager.py) and its WebSocket endpoint *)
(* (app/api/events_ws.py). A broadcast walks the live list of connections   *)
(* by index and awaits each send: between two sends clients come and go     *)
(* and other broadcasts remove the connections they found dead.             *)
(***************************************************************************)
EXTENDS Naturals, SequencesExt

CONSTANTS
  Clients,     \* WebSocket connections; a client that reconnects is another
  Producers,   \* tasks that broadcast: the workflow engine and the callbacks
  NoClient,
  MaxHistory,  \* EventManager._max_history
  MaxEvents    \* bound on the events that are broadcast

ASSUME NoClientAssumption == NoClient \notin Clients
ASSUME MaxHistoryAssumption == MaxHistory \in Nat \ {0}
ASSUME MaxEventsAssumption == MaxEvents \in Nat

VARIABLES
  peer,      \* the connection's life: absent, connected, closed, gone
  conns,     \* EventManager._connections
  history,   \* EventManager._history
  count,     \* events broadcast so far
  bc,        \* the broadcast that each producer is in
  received   \* what has arrived at each client

eventVars == <<peer, conns, history, count, bc, received>>

Event == [by : Producers, no : 1..MaxEvents]

(* event has no = 0 outside a broadcast; targets is auxiliary: the          *)
(* connections there were when the broadcast began.                         *)
Idle(p) ==
  [event |-> [by |-> p, no |-> 0], to |-> NoClient, next |-> 1,
   dead |-> << >>, targets |-> {}]
Busy(p) == bc[p].event.no # 0

EventInit ==
  /\ peer = [c \in Clients |-> "absent"]
  /\ conns = << >>
  /\ history = << >>
  /\ count = 0
  /\ bc = [p \in Producers |-> Idle(p)]
  /\ received = [c \in Clients |-> << >>]

-----------------------------------------------------------------------------
(* The endpoint                                                             *)

(* Mutant: a new connection is put in front.                                *)
ConnectInFront(c) ==
  /\ peer[c] = "absent"
  /\ peer' = [peer EXCEPT ![c] = "connected"]
  /\ conns' = <<c>> \o conns
  /\ UNCHANGED <<history, count, bc, received>>

Connect(c) ==
  /\ peer[c] = "absent"
  /\ peer' = [peer EXCEPT ![c] = "connected"]
  /\ conns' = Append(conns, c)
  /\ UNCHANGED <<history, count, bc, received>>

PeerCloses(c) ==
  /\ peer[c] = "connected"
  /\ peer' = [peer EXCEPT ![c] = "closed"]
  /\ UNCHANGED <<conns, history, count, bc, received>>

(* WebSocketDisconnect: list.remove, whose ValueError when a broadcast has  *)
(* removed the connection already ends the endpoint as well.                *)
Disconnect(c) ==
  /\ peer[c] = "closed"
  /\ peer' = [peer EXCEPT ![c] = "gone"]
  /\ conns' = RemoveFirst(conns, c)
  /\ UNCHANGED <<history, count, bc, received>>

(* receive_text raises anything else (a binary frame is a KeyError): the    *)
(* endpoint ends without disconnect and the server closes the connection.   *)
EndpointRaises(c) ==
  /\ peer[c] = "connected"
  /\ peer' = [peer EXCEPT ![c] = "gone"]
  /\ UNCHANGED <<conns, history, count, bc, received>>

-----------------------------------------------------------------------------
(* broadcast                                                                *)

(* Mutants: the slice that is kept is one too long, or the wrong end.       *)
NewestAndOneMore(h) ==
  IF Len(h) > MaxHistory + 1 THEN SubSeq(h, Len(h) - MaxHistory, Len(h)) ELSE h
Oldest(h) == IF Len(h) > MaxHistory THEN SubSeq(h, 1, MaxHistory) ELSE h

Newest(h) ==
  IF Len(h) > MaxHistory THEN SubSeq(h, Len(h) - MaxHistory + 1, Len(h)) ELSE h

(* Up to the first await: with no connections there is none.                *)
StartBroadcast(p) ==
  LET e == [by |-> p, no |-> count + 1]
  IN
  /\ ~Busy(p)
  /\ count < MaxEvents
  /\ count' = count + 1
  /\ history' = Newest(Append(history, e))
  /\ bc' = IF conns = << >> THEN bc
           ELSE [bc EXCEPT ![p] = [event |-> e, to |-> conns[1], next |-> 2,
                                   dead |-> << >>, targets |-> ToSet(conns)]]
  /\ UNCHANGED <<peer, conns, received>>

(* Each dead connection is removed in turn, until one is there no more and  *)
(* list.remove raises: the broadcast fails and the others stay.             *)
Removed(dead) ==
  {dead[i] : i \in {i \in DOMAIN dead : \A k \in 1..i : dead[k] \in ToSet(conns)}}

(* The list iterator holds an index: it takes what is there now.            *)
LoopGoesOn(p, dead) ==
  /\ bc[p].next <= Len(conns)
  /\ bc' = [bc EXCEPT ![p].to = conns[bc[p].next],
                      ![p].next = bc[p].next + 1,
                      ![p].dead = dead]
  /\ UNCHANGED conns

(* The list without the connections that are removed.                       *)
Without(s, gone) ==
  LET kept[n \in 0..Len(s)] ==
        IF n = 0 THEN << >>
        ELSE IF s[n] \in gone THEN kept[n - 1] ELSE Append(kept[n - 1], s[n])
  IN kept[Len(s)]

LoopEnds(p, dead) ==
  /\ bc' = [bc EXCEPT ![p] = Idle(p)]
  /\ conns' = Without(conns, Removed(dead))

Loop(p, dead) ==
  \/ LoopGoesOn(p, dead)
  \/ bc[p].next > Len(conns) /\ LoopEnds(p, dead)

Delivered(p) ==
  /\ Busy(p)
  /\ peer[bc[p].to] = "connected"
  /\ received' = [received EXCEPT ![bc[p].to] = Append(received[bc[p].to], bc[p].event)]
  /\ Loop(p, bc[p].dead)
  /\ UNCHANGED <<peer, history, count>>

(* The peer is gone and the send does not notice.                           *)
Lost(p) ==
  /\ Busy(p)
  /\ peer[bc[p].to] # "connected"
  /\ Loop(p, bc[p].dead)
  /\ UNCHANGED <<peer, history, count, received>>

(* Mutant: the try is around the loop, not in it.                           *)
SendRaisesOutOfLoop(p) ==
  /\ Busy(p)
  /\ peer[bc[p].to] # "connected"
  /\ LoopEnds(p, Append(bc[p].dead, bc[p].to))
  /\ UNCHANGED <<peer, history, count, received>>

SendRaises(p) ==
  /\ Busy(p)
  /\ peer[bc[p].to] # "connected"
  /\ Loop(p, Append(bc[p].dead, bc[p].to))
  /\ UNCHANGED <<peer, history, count, received>>

-----------------------------------------------------------------------------
Endpoint(c) ==
  Connect(c) \/ PeerCloses(c) \/ Disconnect(c) \/ EndpointRaises(c)
Broadcast(p) ==
  StartBroadcast(p) \/ Delivered(p) \/ Lost(p) \/ SendRaises(p)

EventNext ==
  \/ \E c \in Clients : Endpoint(c)
  \/ \E p \in Producers : Broadcast(p)

EventSpec == EventInit /\ [][EventNext]_eventVars

-----------------------------------------------------------------------------
(* Properties                                                               *)

(* The list, the history and the broadcasts have their types; a connection  *)
(* is listed once, and only a peer that is not connected is found dead.     *)
EventTypeOK ==
  /\ peer \in [Clients -> {"absent", "connected", "closed", "gone"}]
  /\ \A i \in DOMAIN conns : peer[conns[i]] # "absent"
  /\ \A i, k \in DOMAIN conns : conns[i] = conns[k] => i = k
  /\ Len(history) <= MaxHistory
  /\ count \in 0..MaxEvents
  /\ \A p \in Producers :
       /\ bc[p].event \in [by : {p}, no : 0..count]
       /\ bc[p].to \in IF Busy(p) THEN bc[p].targets \cup ToSet(conns) \cup
            {c \in Clients : peer[c] \in {"closed", "gone"}} ELSE {NoClient}
       /\ \A c \in ToSet(bc[p].dead) : peer[c] \in {"closed", "gone"}
  /\ \A c \in Clients : \A i \in DOMAIN received[c] : received[c][i] \in Event

(* A client gets no event of a producer twice or out of order, although     *)
(* connections come and go while the list is walked.                        *)
ProducerOrder ==
  \A c \in Clients : \A i, k \in DOMAIN received[c] :
    i < k /\ received[c][i].by = received[c][k].by
      => received[c][i].no < received[c][k].no

(* The history holds the newest events in the order in which they were      *)
(* broadcast, as many as fit, whatever the broadcasts in progress.          *)
HistoryIsNewest ==
  /\ Len(history) = IF count < MaxHistory THEN count ELSE MaxHistory
  /\ \A i \in DOMAIN history : history[i].no = count - Len(history) + i

Ends(p) == Busy(p) /\ bc'[p] = Idle(p)
Got(c, e) == e \in ToSet(received'[c])

(* A broadcast that ends has reached everyone who was there from its        *)
(* beginning, dead connections or not, if none of them was removed          *)
(* meanwhile.                                                               *)
ReachesAllUnlessRemoved ==
  [][\A p \in Producers : Ends(p) /\ bc[p].targets \subseteq ToSet(conns) =>
       \A c \in bc[p].targets : peer[c] = "connected" => Got(c, bc[p].event)
    ]_eventVars
=============================================================================
