---------------------------- MODULE PeersProofs -----------------------------
(***************************************************************************)
(* For any number of peers, any timeouts and any loss, duplication or      *)
(* reordering of heartbeats: work is routed only to peers heard of within  *)
(* HALT_TIMEOUT, a suspect is routable again only after SURVIVAL_WINDOW,   *)
(* and in order of sending only a silent peer is halted.                   *)
(***************************************************************************)
EXTENDS Peers, TLAPS

(* The tracker's clock may run behind the reader's, never ahead of it; it keeps
   up when heartbeats arrive in order, and has been set for a live peer. *)
TrackedBehind ==
  \A v \in Versions :
    /\ peers[v].last <= latest[v]
    /\ v \in Ordered => peers[v].last = latest[v]
    /\ peers[v].state = "live" => peers[v].last > 0

(* Whoever was suspected once and no longer is has waited out the window. *)
Served ==
  \A v \in Versions : peers[v].state # "suspect" =>
    peers[v].suspectSince = 0 \/ now - peers[v].suspectSince > SURVIVAL_WINDOW

PeerInv == TypeOK /\ TrackedBehind /\ Served

(* Peer adds an unknown version with PeerState's defaults and changes nothing
   else. *)
LEMMA PeerType ==
  ASSUME TypeOK, NEW v \in Versions
  PROVE  /\ Peer(v) \in PeerState
         /\ Peer(v).last = peers[v].last /\ Peer(v).suspectSince = peers[v].suspectSince
         /\ Peer(v).state # "suspect" <=> peers[v].state # "suspect"
         /\ peers[v] # Unknown => Peer(v) = peers[v]
  BY DEF TypeOK, Peer, NewPeer, Unknown, PeerState

(* The tracker starts without peers. *)
LEMMA InitPeerInv == Init => PeerInv
  BY PeerAssumption
  DEF Init, PeerInv, TypeOK, TrackedBehind, Served, PeerState, Unknown

(* Every step of the node, the network or the clock keeps the types. *)
LEMMA TypeStep == TypeOK /\ [Next]_vars => TypeOK'
<1> SUFFICES ASSUME TypeOK, [Next]_vars PROVE TypeOK'
  OBVIOUS
<1> USE PeerAssumption
<1>1. CASE Tick
  BY <1>1 DEF Tick, TypeOK
<1>2. CASE Update
  <2>1. peers' \in [Versions -> PeerState]
    BY <1>2 DEF Update, TypeOK, Swept, PeerState
  <2>2. \A v \in Versions : peers'[v].state = "suspect" => peers'[v].suspectSince > 0
    BY <1>2 DEF Update, TypeOK, Swept, PeerState
  <2>3. QED
    BY <1>2, <2>1, <2>2 DEF Update, TypeOK
<1>3. ASSUME NEW v \in Versions, Publish(v) PROVE TypeOK'
  BY <1>3 DEF Publish, TypeOK
<1>4. ASSUME NEW v \in Versions, Stop(v) PROVE TypeOK'
  BY <1>4 DEF Stop, TypeOK
<1>5. ASSUME NEW v \in Versions, MarkSuspect(v) PROVE TypeOK'
  <2>1. now \in Nat /\ now > 0
    BY DEF TypeOK
  <2>2. peers' \in [Versions -> PeerState]
    BY <1>5, <2>1, PeerType, ZenonT(60) DEF MarkSuspect, TypeOK, PeerState
  <2>3. \A w \in Versions : peers'[w].state = "suspect" => peers'[w].suspectSince > 0
    BY <1>5, <2>1, PeerType DEF MarkSuspect, TypeOK, PeerState
  <2>4. QED
    BY <1>5, <2>2, <2>3 DEF MarkSuspect, TypeOK
<1>6. ASSUME NEW m \in net, Receive(m) PROVE TypeOK'
  <2>1. m.from \in Versions /\ m.ts \in Nat
    BY DEF TypeOK
  <2>2. latest' \in [Versions -> Nat]
    BY <1>6, <2>1 DEF Receive, TypeOK, Ingested
  <2>3. Observed(m) \in PeerState /\ (Observed(m).state = "suspect" => Peer(m.from).state = "suspect")
        /\ Observed(m).suspectSince = peers[m.from].suspectSince
    BY <2>1, PeerType, ZenonT(60) DEF Observed, Revived, PeerState
  <2>4. peers' \in [Versions -> PeerState]
    BY <1>6, <2>1, <2>3 DEF Receive, TypeOK
  <2>5. \A w \in Versions : peers'[w].state = "suspect" => peers'[w].suspectSince > 0
    BY <1>6, <2>1, <2>3, PeerType DEF Receive, TypeOK
  <2>6. QED
    BY <1>6, <2>2, <2>4, <2>5 DEF Receive, TypeOK
<1>7. CASE UNCHANGED vars
  BY <1>7 DEF vars, TypeOK
<1>8. QED
  BY <1>1, <1>2, <1>3, <1>4, <1>5, <1>6, <1>7 DEF Next

(* What the tracker takes over the reader has seen in the same delivery. *)
LEMMA BehindStep == TypeOK /\ TrackedBehind /\ [Next]_vars => TrackedBehind'
<1> SUFFICES ASSUME TypeOK, TrackedBehind, [Next]_vars PROVE TrackedBehind'
  OBVIOUS
<1>1. CASE Update
  BY <1>1 DEF Update, TypeOK, TrackedBehind, Swept, PeerState
<1>2. ASSUME NEW v \in Versions, MarkSuspect(v) PROVE TrackedBehind'
  BY <1>2, PeerType DEF MarkSuspect, TypeOK, TrackedBehind, PeerState
<1>3. ASSUME NEW m \in net, Receive(m) PROVE TrackedBehind'
  <2>1. m.from \in Versions /\ m.ts \in Nat /\ m.ts > 0
    BY PeerAssumption DEF TypeOK
  <2>2. Observed(m).last = m.ts
    BY <2>1, PeerType DEF Observed, PeerState
  <2>3. Ingested(m) \in Nat /\ m.ts <= Ingested(m)
    BY <2>1 DEF Ingested, TypeOK
  <2>4. m.from \in Ordered => Ingested(m) = m.ts
    BY <1>3, <2>1 DEF Receive, Ingested, TypeOK
  <2>5. QED
    BY <1>3, <2>1, <2>2, <2>3, <2>4 DEF Receive, TypeOK, TrackedBehind, PeerState
<1>4. CASE UNCHANGED <<latest, peers>>
  BY <1>4 DEF TrackedBehind
<1>5. QED
  BY <1>1, <1>2, <1>3, <1>4 DEF Next, Tick, Publish, Stop, vars

(* Only a sweep ends a suspicion, and only after the window. *)
LEMMA ServedStep == TypeOK /\ Served /\ [Next]_vars => Served'
<1> SUFFICES ASSUME TypeOK, Served, [Next]_vars PROVE Served'
  OBVIOUS
<1> USE PeerAssumption
<1>0. now \in Nat
  BY DEF TypeOK
<1>1. CASE Update
  BY <1>0, <1>1 DEF Update, TypeOK, Served, Swept, SuspectTooLong, PeerState
<1>2. ASSUME NEW v \in Versions, MarkSuspect(v) PROVE Served'
  BY <1>2, PeerType DEF MarkSuspect, TypeOK, Served, PeerState
<1>3. ASSUME NEW m \in net, Receive(m) PROVE Served'
  <2>1. m.from \in Versions
    BY DEF TypeOK
  <2>2. /\ Observed(m).suspectSince = peers[m.from].suspectSince
        /\ Observed(m).state # "suspect" => peers[m.from].state # "suspect"
    BY <2>1, PeerType DEF Observed, Revived, PeerState
  <2>3. QED
    BY <1>3, <2>1, <2>2 DEF Receive, TypeOK, Served, PeerState
<1>4. CASE Tick
  BY <1>0, <1>4 DEF Tick, TypeOK, Served, PeerState
<1>5. CASE UNCHANGED <<now, peers>>
  BY <1>5 DEF Served
<1>6. QED
  BY <1>1, <1>2, <1>3, <1>4, <1>5 DEF Next, Publish, Stop, vars

(* The conjunction is inductive, TypeOK alone is not enough for either theorem. *)
LEMMA PeerInvariant == Spec => []PeerInv
<1>1. PeerInv /\ [Next]_vars => PeerInv'
  BY TypeStep, BehindStep, ServedStep DEF PeerInv
<1>2. QED
  BY InitPeerInv, <1>1, PTL DEF Spec

(* Types are kept, and every suspect has a date. *)
THEOREM PeerTypesCorrect == Spec => []TypeOK
BY PeerInvariant, PTL DEF PeerInv

(* A sweep leaves routable only peers of which the reader holds a heartbeat at
   most HALT_TIMEOUT old, whatever the network did. *)
THEOREM RoutableRecent == Spec => []RoutableSeenRecently
<1>1. PeerInv => RoutableSeenRecently
  <2> SUFFICES ASSUME PeerInv, NEW v \in Versions, LeftRoutable(v)
               PROVE  latest[v] # 0 /\ now - latest[v] <= HALT_TIMEOUT
    BY PeerAssumption DEF RoutableSeenRecently, IsAlive, PeerInv, TypeOK
  <2>1. ~(now - peers[v].last > HALT_TIMEOUT) /\ peers[v].state = "live"
    BY DEF LeftRoutable, Swept, Overdue, PeerInv, TypeOK, PeerState
  <2>2. 0 < peers[v].last /\ peers[v].last <= latest[v] /\ peers[v].last \in Nat /\ latest[v] \in Nat /\ now \in Nat
    BY <2>1, PeerAssumption DEF PeerInv, TypeOK, TrackedBehind, PeerState
  <2>3. QED
    BY <2>1, <2>2, PeerAssumption
<1>2. QED
  BY <1>1, PeerInvariant, PTL

(* A peer that was suspected becomes routable only after the window. *)
THEOREM SuspectCorrect == Spec => SuspectServesWindow
<1> DEFINE Serves == \A v \in Versions : ~Routable(v) /\ Routable(v)' =>
             peers[v].suspectSince = 0 \/ now - peers[v].suspectSince > SURVIVAL_WINDOW
<1>1. PeerInv /\ [Next]_vars => [Serves]_vars
  <2> SUFFICES ASSUME PeerInv, Next, NEW v \in Versions, ~Routable(v), Routable(v)'
               PROVE  peers[v].state # "suspect"
    BY DEF PeerInv, Served
  <2> USE DEF PeerInv, TypeOK, Routable, PeerState
  <2>1. CASE Update
    BY <2>1 DEF Update, Swept
  <2>2. ASSUME NEW w \in Versions, MarkSuspect(w) PROVE peers[v].state # "suspect"
    BY <2>2, PeerType DEF MarkSuspect
  <2>3. ASSUME NEW m \in net, Receive(m) PROVE peers[v].state # "suspect"
    <3>1. m.from \in Versions
      OBVIOUS
    <3>2. Observed(m).state = "live" => peers[m.from].state # "suspect"
      BY <3>1, PeerType DEF Observed, Revived
    <3>3. QED
      BY <2>3, <3>1, <3>2 DEF Receive
  <2>4. CASE UNCHANGED peers
    BY <2>4
  <2>5. QED
    BY <2>1, <2>2, <2>3, <2>4 DEF Next, Tick, Publish, Stop
<1>2. QED
  BY <1>1, PeerInvariant, PTL DEF Spec, SuspectServesWindow

(* Heartbeats that arrive in order never let a sweep halt a peer whose newest
   one is at most HALT_TIMEOUT old. *)
THEOREM HaltedCorrect == Spec => HaltedMeansSilent
<1> DEFINE Silent == \A v \in Ordered :
             Routable(v) /\ peers'[v].state = "presumed_halted" => now - latest[v] > HALT_TIMEOUT
<1>1. PeerInv /\ [Next]_vars => [Silent]_vars
  <2> SUFFICES ASSUME PeerInv, Next, NEW v \in Ordered, Routable(v),
                      peers'[v].state = "presumed_halted"
               PROVE  now - peers[v].last > HALT_TIMEOUT
    BY PeerAssumption DEF PeerInv, TrackedBehind
  <2> USE PeerAssumption DEF PeerInv, TypeOK, Routable, PeerState
  <2>1. CASE Update
    BY <2>1 DEF Update, Swept, Overdue
  <2>2. ASSUME NEW w \in Versions, MarkSuspect(w) PROVE FALSE
    BY <2>2, PeerType DEF MarkSuspect
  <2>3. ASSUME NEW m \in net, Receive(m) PROVE FALSE
    <3>1. m.from \in Versions
      OBVIOUS
    <3>2. Observed(m).state # "presumed_halted"
      BY <3>1, PeerType DEF Observed, Revived
    <3>3. QED
      BY <2>3, <3>1, <3>2 DEF Receive
  <2>4. CASE UNCHANGED peers
    BY <2>4
  <2>5. QED
    BY <2>1, <2>2, <2>3, <2>4 DEF Next, Tick, Publish, Stop
<1>2. QED
  BY <1>1, PeerInvariant, PTL DEF Spec, HaltedMeansSilent
=============================================================================
