------------------------------- MODULE Escrow -------------------------------
(***************************************************************************)
(* What the arena promises about a reward that waits for work.  A deposit  *)
(* is taken in full from whoever offers the reward, under an id that is    *)
(* never used again; it leaves the pool once, either paid out, which gives *)
(* nothing back to anybody who offered a reward, or returned in full to    *)
(* the one it was taken from.  Nothing else touches the pool.              *)
(***************************************************************************)
EXTENDS Integers

VARIABLES deposits,   \* the deposits in the pool: [id, payer, amount]
          closed,     \* ids of deposits that left it
          pool,       \* what the pool holds
          funds       \* what the payers hold
escrowVars == <<deposits, closed, pool, funds>>

EscrowInit == deposits = {} /\ closed = {} /\ pool = 0

Lock(d) ==
  /\ d.id \notin closed /\ \A e \in deposits : e.id # d.id
  /\ d.amount \in 0 .. funds[d.payer]
  /\ deposits' = deposits \cup {d}
  /\ pool' = pool + d.amount
  /\ funds' = [funds EXCEPT ![d.payer] = @ - d.amount]
  /\ UNCHANGED closed

Release(d) ==
  /\ d \in deposits
  /\ deposits' = deposits \ {d}
  /\ closed' = closed \cup {d.id}
  /\ pool' = pool - d.amount

Pay(d)    == Release(d) /\ UNCHANGED funds
Return(d) == Release(d) /\ funds' = [funds EXCEPT ![d.payer] = @ + d.amount]

\* The payers' other business.
Elsewhere == UNCHANGED <<deposits, closed, pool>>

EscrowNext ==
  \/ Elsewhere
  \/ \E d \in deposits' : Lock(d)
  \/ \E d \in deposits : Pay(d) \/ Return(d)

EscrowSpec == EscrowInit /\ [][EscrowNext]_escrowVars
=============================================================================
