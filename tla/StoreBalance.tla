---------------------------- MODULE StoreBalance ----------------------------
(***************************************************************************)
(* What the store promises of one customer's money, without sessions,      *)
(* callbacks, claims, sweeps and locks (docs/ORDER_ADJUSTMENTS.md,         *)
(* sections 6 and 7, and CR-3 to CR-5): what a checkout reserves of the    *)
(* balance is paid to its order or released, once; an attempt's payment is *)
(* settled once; a success that comes after the release pays what the      *)
(* balance still allows, and a cancelled order's money is credited once.   *)
(***************************************************************************)
EXTENDS Integers, FiniteSets

CONSTANTS Sessions, Orders, Total

VARIABLES
  balance,   \* what the customer may spend
  reserved,  \* Sessions -> what its checkout reserved of the balance
  fate,      \* Sessions -> what became of that
  settled,   \* sessions whose gateway payment the store has recorded
  charged,   \* Sessions -> the amount of that payment
  cash,      \* Orders -> what staff recorded as paid by other means
  kept,      \* Orders -> what the store holds for the order: received, and not given back
  credited   \* orders whose money was moved to the balance

vars == <<balance, reserved, fate, settled, charged, cash, kept, credited>>

Least(a, b) == IF a <= b THEN a ELSE b

Init ==
  /\ balance \in Nat
  /\ reserved = [s \in Sessions |-> 0]
  /\ fate = [s \in Sessions |-> "none"]
  /\ settled = {} /\ charged = [s \in Sessions |-> 0]
  /\ cash = [o \in Orders |-> 0]
  /\ kept \in [Orders -> 0..Total] /\ credited = {}

Reserve(s) ==
  /\ \E amount \in 1..Total :
       /\ balance >= amount /\ balance' = balance - amount
       /\ fate[s] = "none" /\ s \notin settled
       /\ reserved' = [reserved EXCEPT ![s] = amount]
  /\ fate' = [fate EXCEPT ![s] = "reserved"]
  /\ UNCHANGED <<settled, charged, cash, kept, credited>>

Release(s) ==
  /\ balance' = balance + reserved[s]
  /\ fate[s] = "reserved"
  /\ fate' = [fate EXCEPT ![s] = "released"]
  /\ UNCHANGED <<reserved, settled, charged, cash, kept, credited>>

\* A checkout pays a new order, and asks the gateway for what it did not reserve.
PaysNew(s, o, amount) == kept[o] = 0 /\ o \notin credited /\ amount + reserved[s] = Total

\* What the balance adds to the gateway's payment: nothing where nothing was
\* reserved, the reservation while it stands, and after its release what the
\* balance still allows, "never invented".
Share(s, o, amount, share) ==
  \/ fate[s] = "none" /\ share = 0 /\ UNCHANGED <<fate, balance>>
  \/ /\ fate[s] = "reserved" /\ PaysNew(s, o, amount) /\ share = reserved[s]
     /\ fate' = [fate EXCEPT ![s] = "paid"]
     /\ UNCHANGED balance
  \/ /\ fate[s] = "released" /\ PaysNew(s, o, amount) /\ share = Least(reserved[s], balance)
     /\ balance' = balance - share
     /\ UNCHANGED fate

Settle(s) ==
  /\ s \notin settled
  /\ settled' = settled \cup {s}
  /\ \E o \in Orders, amount, share \in 0..Total :
       /\ Share(s, o, amount, share)
       /\ charged' = [charged EXCEPT ![s] = amount]
       /\ kept' = [kept EXCEPT ![o] = @ + amount + share]
  /\ UNCHANGED <<reserved, cash, credited>>

\* An order that the balance alone pays, as far as it goes.
Place(o) ==
  /\ balance > 0 /\ balance' = balance - Least(balance, Total)
  /\ kept[o] = 0 /\ o \notin credited
  /\ kept' = [kept EXCEPT ![o] = Least(balance, Total)]
  /\ UNCHANGED <<reserved, fate, settled, charged, cash, credited>>

\* A payment by other means is at most what is due.
Pay(o) ==
  /\ \E amount \in 1..Total :
       /\ kept[o] + amount <= Total /\ kept' = [kept EXCEPT ![o] = @ + amount]
       /\ cash' = [cash EXCEPT ![o] = @ + amount]
  /\ o \notin credited
  /\ UNCHANGED <<balance, reserved, fate, settled, charged, credited>>

Credit(o) ==
  /\ kept[o] > 0 /\ balance' = balance + kept[o]
  /\ o \notin credited /\ credited' = credited \cup {o}
  /\ kept' = [kept EXCEPT ![o] = 0]
  /\ UNCHANGED <<reserved, fate, settled, charged, cash>>

Next ==
  \/ \E s \in Sessions : Reserve(s) \/ Release(s) \/ Settle(s)
  \/ \E o \in Orders : Place(o) \/ Pay(o) \/ Credit(o)

Spec == Init /\ [][Next]_vars

-----------------------------------------------------------------------------
\* A sum over S is the number of units of all its members.
Units(count, S) == UNION {{x} \X (1..count[x]) : x \in S}
SumOver(count, S) == Cardinality(Units(count, S))

\* What the store holds for the customer beyond what the gateway and the customer
\* in person brought in: no step makes money or loses any.
Held == [s \in Sessions |-> IF fate[s] = "reserved" THEN reserved[s] ELSE 0]
Worth == balance + SumOver(Held, Sessions) + SumOver(kept, Orders) - SumOver(charged, Sessions) - SumOver(cash, Orders)
Conserved == [][Worth' = Worth]_vars
=============================================================================
