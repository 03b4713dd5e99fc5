------------------------------ MODULE Purchase ------------------------------
(***************************************************************************)
(* What a checkout promises its buyer and the seller, whichever webhook,   *)
(* task or request moves it: it is sold once and then for good, only while *)
(* it is for sale, and units of the discount its checkouts hold never      *)
(* exceed max_redemptions.                                                 *)
(*                                                                         *)
(* The code does not keep the first half when several sessions work on one *)
(* checkout at a time: exclusive says whether they may, and Race is what a *)
(* checkout keeps even then.                                               *)
(***************************************************************************)
EXTENDS Naturals, FiniteSets

CONSTANTS
  Checkouts,
  Limit        \* max_redemptions of the discount all checkouts use

VARIABLES
  exclusive,   \* one session at a time works on a checkout; never changes
  stage,       \* open, confirmed, expired or sold
  sales,       \* how many times each checkout was sold
  held         \* the units of the discount that checkouts hold

vars == <<exclusive, stage, sales, held>>

Stages == {"open", "confirmed", "expired", "sold"}

Init ==
  /\ exclusive \in BOOLEAN
  /\ stage = [c \in Checkouts |-> "open"]
  /\ sales = [c \in Checkouts |-> 0]
  /\ held = {}

(* A unit is the checkout that holds it and a number.                      *)
Units(c) == {u \in held : u[1] = c}

Another(c) == held \cup {<<c, Cardinality(Units(c)) + 1>>}

(* The buyer confirms, and a unit of the discount is taken.                *)
Confirm(c) ==
  /\ stage[c] = "open"
  /\ Cardinality(held) < Limit
  /\ stage' = [stage EXCEPT ![c] = "confirmed"]
  /\ held' = Another(c)
  /\ UNCHANGED <<exclusive, sales>>

(* A charge that succeeded before there is a customer to sell to.          *)
Await(c) ==
  /\ stage[c] = "open"
  /\ stage' = [stage EXCEPT ![c] = "confirmed"]
  /\ UNCHANGED <<exclusive, sales, held>>

Reopen(c) ==
  /\ stage[c] = "confirmed"
  /\ stage' = [stage EXCEPT ![c] = "open"]
  /\ held' = held \ Units(c)
  /\ UNCHANGED <<exclusive, sales>>

Sell(c) ==
  /\ stage[c] \in {"open", "confirmed"}
  /\ stage' = [stage EXCEPT ![c] = "sold"]
  /\ sales' = [sales EXCEPT ![c] = @ + 1]
  /\ UNCHANGED <<exclusive, held>>

Expire(c) ==
  /\ stage[c] = "open"
  /\ stage' = [stage EXCEPT ![c] = "expired"]
  /\ UNCHANGED <<exclusive, sales, held>>

(* Sessions that overlap: sold stays sold, and the limit is kept.          *)
Race(c) ==
  /\ ~exclusive
  /\ \E n \in {sales[c], sales[c] + 1}, s \in Stages :
       /\ s = "sold" <=> n > 0
       /\ stage' = [stage EXCEPT ![c] = s]
       /\ sales' = [sales EXCEPT ![c] = n]
  /\ \E h \in {held, Another(c), held \ Units(c)} :
       /\ Cardinality(h) <= Limit
       /\ held' = h
  /\ UNCHANGED exclusive

Next == \E c \in Checkouts :
          Confirm(c) \/ Await(c) \/ Reopen(c) \/ Sell(c) \/ Expire(c) \/ Race(c)

Spec == Init /\ [][Next]_vars
=============================================================================
