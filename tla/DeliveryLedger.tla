--------------------------- MODULE DeliveryLedger ---------------------------
(***************************************************************************)
(* What the delivery code promises, without queue, rows, statements or     *)
(* retries: how acceptances of the provider, the record of a send and what *)
(* the system shows follow from one another.  A sender stands for a job.   *)
(***************************************************************************)
EXTENDS Naturals

CONSTANTS
  Senders,
  Letters,    \* what is to be delivered, once each
  Nothing     \* what a sender carries that is not engaged

VARIABLES
  carries,    \* the letter of each sender
  hand,       \* senders with an acceptance that is not on record yet
  copies,     \* how often the provider accepted the letter from each sender
  losses,     \* how often a sender forgot an acceptance
  recorded,   \* letters on record as sent
  shown       \* letters shown as sent

ledgerVars == <<carries, hand, copies, losses, recorded, shown>>

Init ==
  /\ carries = [s \in Senders |-> Nothing]
  /\ hand = {}
  /\ copies = [s \in Senders |-> 0]
  /\ losses = [s \in Senders |-> 0]
  /\ recorded = {} /\ shown = {}

\* A sender is engaged for a letter, once and for all.
Engage(s, l) ==
  /\ carries[s] = Nothing
  /\ carries' = [carries EXCEPT ![s] = l]
  /\ UNCHANGED <<hand, copies, losses, recorded, shown>>

\* The provider accepts a letter from a sender that has forgotten every
\* acceptance there was.
Accept(s) ==
  /\ carries[s] \in Letters /\ s \notin hand
  /\ copies[s] <= losses[s]
  /\ copies' = [copies EXCEPT ![s] = @ + 1]
  /\ hand' = hand \cup {s}
  /\ UNCHANGED <<carries, losses, recorded, shown>>

\* An acceptance goes on record, and is shown, if the letter is not on record.
Record(s) ==
  /\ s \in hand /\ carries[s] \notin recorded
  /\ hand' = hand \ {s}
  /\ recorded' = recorded \cup {carries[s]}
  /\ shown' = shown \cup {carries[s]}
  /\ UNCHANGED <<carries, copies, losses>>

\* An acceptance of a letter that another sender has put on record is of no use.
Discard(s) ==
  /\ s \in hand /\ carries[s] \in recorded
  /\ hand' = hand \ {s}
  /\ UNCHANGED <<carries, copies, losses, recorded, shown>>

\* Some senders forget what they have in hand.
Lose ==
  /\ hand' \in SUBSET hand
  /\ losses' = [s \in Senders |-> IF s \in hand \ hand' THEN losses[s] + 1 ELSE losses[s]]
  /\ UNCHANGED <<carries, copies, recorded, shown>>

\* Only what is on record is ever shown as sent; anything may be shown as not sent.
Show(l) ==
  /\ l \in recorded
  /\ shown' = shown \cup {l}
  /\ UNCHANGED <<carries, hand, copies, losses, recorded>>

Hide ==
  /\ shown' \in SUBSET shown
  /\ UNCHANGED <<carries, hand, copies, losses, recorded>>

Next ==
  \/ \E s \in Senders : Accept(s) \/ Record(s) \/ Discard(s) \/ \E l \in Letters : Engage(s, l)
  \/ \E l \in Letters : Show(l)
  \/ Lose \/ Hide

Spec == Init /\ [][Next]_ledgerVars
=============================================================================
