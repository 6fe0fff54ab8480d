---------------------------- MODULE LineageSeat -----------------------------
(***************************************************************************)
(* What the arena promises about the active seat of a lineage, with no     *)
(* money, time or jobs in it.  A seat is founded once.  It is handed from  *)
(* its holder straight to a contender, or its holder is retired and the    *)
(* seat stays empty until a contender claims it.  Whoever is retired never *)
(* contends again, so no version holds a seat in two separate terms.       *)
(***************************************************************************)
EXTENDS Integers

CONSTANTS Lineages, Versions, LineageOf, Empty, Unfounded

VARIABLES seat,        \* who holds the seat of each lineage
          contenders,  \* registered versions waiting for a seat
          retired      \* versions that can never hold one again

seatVars == <<seat, contenders, retired>>

SeatInit ==
  /\ seat = [l \in Lineages |-> Unfounded]
  /\ contenders = {} /\ retired = {}

Found(v) ==
  /\ seat[LineageOf[v]] = Unfounded
  /\ v \notin contenders \cup retired
  /\ seat' = [seat EXCEPT ![LineageOf[v]] = v]
  /\ UNCHANGED <<contenders, retired>>

Join(v) ==
  /\ seat[LineageOf[v]] \notin {Unfounded, v}
  /\ v \notin contenders \cup retired
  /\ contenders' = contenders \cup {v}
  /\ UNCHANGED <<seat, retired>>

HandOver(v) ==
  /\ v \in contenders /\ seat[LineageOf[v]] \in Versions
  /\ retired' = retired \cup {seat[LineageOf[v]]}
  /\ contenders' = contenders \ {v}
  /\ seat' = [seat EXCEPT ![LineageOf[v]] = v]

Retire(v) ==
  /\ v \in contenders \/ seat[LineageOf[v]] = v
  /\ retired' = retired \cup {v}
  /\ contenders' = contenders \ {v}
  /\ seat' = [seat EXCEPT ![LineageOf[v]] = IF @ = v THEN Empty ELSE @]

Claim(v) ==
  /\ v \in contenders /\ seat[LineageOf[v]] = Empty
  /\ contenders' = contenders \ {v}
  /\ seat' = [seat EXCEPT ![LineageOf[v]] = v]
  /\ UNCHANGED retired

SeatNext == \E v \in Versions : Found(v) \/ Join(v) \/ HandOver(v) \/ Retire(v) \/ Claim(v)

SeatSpec == SeatInit /\ [][SeatNext]_seatVars
=============================================================================
