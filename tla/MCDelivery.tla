----------------------------- MODULE MCDelivery -----------------------------
(* Values of the constants of Delivery for the runs of TLC.                *)
EXTENDS DeliveryRefinement, DeliveryClaims, TLC

\* T-24h is twice as long before the start as T-2h: with a start at 2, a
\* booking at 0 plans the T-2h reminder only; with a start at 3, both.
MCLead == [k \in Kinds |-> IF k = "T24H" THEN 2 ELSE 1]

MCReminders == Events \X Kinds

\* Ids the queue assigns and calls of the endpoint are interchangeable.
MCSymmetry == Permutations(FreshJobs) \cup Permutations(Calls)
=============================================================================
