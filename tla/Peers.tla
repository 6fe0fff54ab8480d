------------------------------- MODULE Peers --------------------------------
(***************************************************************************)
(* What a node knows of its peers: HeartbeatReader (selection/heartbeat.py)*)
(* and EjectionTracker (selection/ejection.py) fed with the same stream of *)
(* heartbeats.  The network may lose, duplicate, delay and reorder them    *)
(* (reorder not those of the Ordered peers); peers stop at any time and    *)
(* clocks agree.                                                           *)
(***************************************************************************)
EXTENDS Integers

CONSTANTS
  Versions,
  HALT_TIMEOUT, SURVIVAL_WINDOW,
  Ordered,             \* environment: peers whose older heartbeats never arrive later
  StartTime, MaxTime   \* bounds of the clock

ASSUME PeerAssumption ==
  /\ HALT_TIMEOUT \in Nat /\ SURVIVAL_WINDOW \in Nat /\ Ordered \subseteq Versions
  /\ StartTime \in Nat \ {0} /\ MaxTime \in Nat /\ StartTime <= MaxTime

VARIABLES
  now,
  sending,   \* peers that still publish
  net,       \* heartbeats that were published; they stay deliverable
  latest,    \* HeartbeatReader._latest: newest ts per version, 0 for none
  peers      \* EjectionTracker._peers
vars == <<now, sending, net, latest, peers>>

Unknown  == [state |-> "unknown", last |-> 0, suspectSince |-> 0]
NewPeer  == [Unknown EXCEPT !.state = "live"]   \* PeerState's defaults
PeerState == [state : {"unknown", "live", "presumed_halted", "suspect"},
              last : Nat, suspectSince : Nat]
Peer(v)  == IF peers[v] = Unknown THEN NewPeer ELSE peers[v]

IsAlive(v)  == latest[v] # 0 /\ now - latest[v] < HALT_TIMEOUT
Routable(v) == peers[v].state = "live"
Overdue(p)  == now - p.last > HALT_TIMEOUT
SuspectTooLong(p) == now - p.suspectSince > SURVIVAL_WINDOW

-----------------------------------------------------------------------------
Init ==
  /\ now = StartTime /\ sending = Versions /\ net = {}
  /\ latest = [v \in Versions |-> 0] /\ peers = [v \in Versions |-> Unknown]

Publish(v) ==
  /\ v \in sending
  /\ net' = net \cup {[from |-> v, ts |-> now]}
  /\ UNCHANGED <<now, sending, latest, peers>>

Stop(v) ==
  /\ v \in sending /\ sending' = sending \ {v}
  /\ UNCHANGED <<now, net, latest, peers>>

(* HeartbeatReader.ingest *)
Ingested(m) == IF m.ts > latest[m.from] THEN m.ts ELSE latest[m.from]

(* EjectionTracker.observe_heartbeat *)
\* Mutant of Revived: suspects revive as well.
Cleared(p) == "live"
Revived(p) == IF p.state = "presumed_halted" THEN "live" ELSE p.state
\* Mutant of Observed: the time of arrival is taken.
ObservedOnArrival(m) == [Peer(m.from) EXCEPT !.last = now, !.state = Revived(Peer(m.from))]
Observed(m) == [Peer(m.from) EXCEPT !.last = m.ts, !.state = Revived(Peer(m.from))]

Receive(m) ==
  /\ m \in net /\ (m.from \in Ordered => m.ts >= latest[m.from])
  /\ latest' = [latest EXCEPT ![m.from] = Ingested(m)]
  /\ peers'  = [peers EXCEPT ![m.from] = Observed(m)]
  /\ UNCHANGED <<now, sending, net>>

\* Mutant of MarkSuspect: since when is forgotten.
MarkSuspectUndated(v) ==
  /\ peers' = [peers EXCEPT ![v] =
       IF Peer(v).state = "live" THEN [Peer(v) EXCEPT !.state = "suspect"] ELSE @]
  /\ UNCHANGED <<now, sending, net, latest>>
(* The node found that a published rank_signal is not what it recomputed. *)
MarkSuspect(v) ==
  /\ peers' = [peers EXCEPT ![v] =
       IF Peer(v).state = "live"
       THEN [Peer(v) EXCEPT !.state = "suspect", !.suspectSince = now] ELSE @]
  /\ UNCHANGED <<now, sending, net, latest>>

\* Mutant of Swept: halts at HALT_TIMEOUT already.
SweptEarly(p) ==
  IF \/ p.state = "live" /\ now - p.last >= HALT_TIMEOUT
     \/ p.state = "suspect" /\ SuspectTooLong(p)
  THEN [p EXCEPT !.state = "presumed_halted"] ELSE p
Swept(p) ==
  IF \/ p.state = "live" /\ Overdue(p)
     \/ p.state = "suspect" /\ SuspectTooLong(p)
  THEN [p EXCEPT !.state = "presumed_halted"] ELSE p

Update ==
  /\ peers' = [v \in Versions |-> Swept(peers[v])]
  /\ UNCHANGED <<now, sending, net, latest>>

Tick == now < MaxTime /\ now' = now + 1 /\ UNCHANGED <<sending, net, latest, peers>>

Next ==
  \/ Tick \/ Update
  \/ \E v \in Versions : Publish(v) \/ Stop(v) \/ MarkSuspect(v)
  \/ \E m \in net : Receive(m)

Spec == Init /\ [][Next]_vars

-----------------------------------------------------------------------------
(* Every variable keeps its type, and whoever is a suspect has a time of
   suspicion: update would presume it halted at once without one. *)
TypeOK ==
  /\ now \in StartTime .. MaxTime /\ sending \subseteq Versions
  /\ net \subseteq [from : Versions, ts : StartTime .. MaxTime]
  /\ latest \in [Versions -> Nat] /\ peers \in [Versions -> PeerState]
  /\ \A v \in Versions : peers[v].state = "suspect" => peers[v].suspectSince > 0

LeftRoutable(v) == Swept(peers[v]).state = "live"   \* what a sweep would leave

(* Whenever the node sweeps, its tracker leaves routable only peers its reader
   takes for alive, however old the heartbeat was that arrived last: the two
   disagree at most in the one instant when the newest heartbeat is exactly
   HALT_TIMEOUT old (heartbeat.py:76 says < where ejection.py:88 says >). *)
RoutableSeenRecently ==
  \A v \in Versions :
    LeftRoutable(v) => IsAlive(v) \/ (latest[v] # 0 /\ now - latest[v] = HALT_TIMEOUT)

(* A peer whose heartbeat lied is routed work again only after more than
   SURVIVAL_WINDOW, whatever arrives in between. *)
SuspectServesWindow ==
  [][\A v \in Versions : ~Routable(v) /\ Routable(v)' =>
       peers[v].suspectSince = 0 \/ now - peers[v].suspectSince > SURVIVAL_WINDOW]_vars

(* "If a peer's heartbeat is missing for >HALT_TIMEOUT, the peer is marked
   presumed_halted" (ejection.py:7), and no other live peer is, when its
   heartbeats arrive in the order they were sent.  The tracker takes any
   timestamp, so an old heartbeat that arrives late moves the peer's clock back
   and the next sweep halts a peer that was heard of just now. *)
HaltedMeansSilent ==
  [][\A v \in Ordered : Routable(v) /\ peers'[v].state = "presumed_halted" =>
       now - latest[v] > HALT_TIMEOUT]_vars
=============================================================================
