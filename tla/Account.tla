------------------------------ MODULE Account ------------------------------
(***************************************************************************)
(* What the simulation loop promises the owner of the account: it is long  *)
(* only.  Shares come by buying, are offered while they are there and not  *)
(* yet on offer, and go only out of what was offered.                      *)
(***************************************************************************)
EXTENDS Integers

CONSTANTS Symbols, Lot  \* the most shares one purchase fills

VARIABLES
  held,    \* [Symbols -> Nat], shares in the account
  offered  \* [Symbols -> Nat], those of them that are up for sale

account == <<held, offered>>

Init == held = [s \in Symbols |-> 0] /\ offered = [s \in Symbols |-> 0]

Buy(s, n) ==
  /\ held' = [held EXCEPT ![s] = @ + n]
  /\ UNCHANGED offered

Offer(s, n) ==
  /\ n <= held[s] - offered[s]
  /\ offered' = [offered EXCEPT ![s] = @ + n]
  /\ UNCHANGED held

Sell(s, n) ==
  /\ n <= offered[s]
  /\ held' = [held EXCEPT ![s] = @ - n]
  /\ offered' = [offered EXCEPT ![s] = @ - n]

\* An offer ends before all of it is sold.
Withdraw(s, n) ==
  /\ n <= offered[s]
  /\ offered' = [offered EXCEPT ![s] = @ - n]
  /\ UNCHANGED held

Next ==
  \E s \in Symbols :
    \/ \E n \in 1 .. Lot : Buy(s, n)
    \/ \E n \in 1 .. held[s] : Offer(s, n) \/ Sell(s, n)
    \/ \E n \in 1 .. offered[s] : Withdraw(s, n)

Spec == Init /\ [][Next]_account
=============================================================================
