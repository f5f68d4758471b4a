---------------------------- MODULE PaperAccount ----------------------------
(***************************************************************************)
(* What a paper account promises, with no orders, books or markets in it:  *)
(* three amounts and the moves between them.                               *)
(*                                                                         *)
(*        Reserve            Fill                Close                     *)
(*   cash -------> reserved -------> stake ---------------> cash           *)
(*    ^ <----------   |                                                    *)
(*        Release     | Lapse                                              *)
(*                                                                         *)
(* The stake is the cost of what is still held less the profit of what has *)
(* been closed, so a Close may pay out more than the position cost.  Lapse *)
(* is a fill in a market that is closed already: its lots pay nothing.     *)
(***************************************************************************)
EXTENDS Integers

CONSTANTS
    Deposit,        \* the initial cash
    Overdraft       \* may an order reserve more cash than there is?

VARIABLES cash, reserved, stake

account == <<cash, reserved, stake>>

Init == cash = Deposit /\ reserved = 0 /\ stake = 0

\* An order is created.
Reserve ==
    /\ reserved' >= reserved
    /\ cash' = cash - (reserved' - reserved)
    /\ Overdraft \/ cash' >= 0
    /\ stake' = stake

\* An order is filled, in part or completely.
Fill ==
    /\ 0 <= reserved' /\ reserved' <= reserved
    /\ stake' = stake + (reserved - reserved')
    /\ cash' = cash

Lapse ==
    /\ 0 <= reserved' /\ reserved' <= reserved
    /\ UNCHANGED <<cash, stake>>

\* An order is closed before it is filled.
Release ==
    /\ 0 <= reserved' /\ reserved' <= reserved
    /\ cash' = cash + (reserved - reserved')
    /\ stake' = stake

\* A position is closed: settled, or sold at a bid.
Close ==
    /\ stake' <= stake
    /\ cash' = cash + (stake - stake')
    /\ reserved' = reserved

Next == Reserve \/ Fill \/ Lapse \/ Release \/ Close

Spec == Init /\ [][Next]_account
=============================================================================
