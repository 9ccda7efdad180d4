------------------------- MODULE DeliveryRefinement -------------------------
(***************************************************************************)
(* The delivery code keeps the ledger of DeliveryLedger: a job is a        *)
(* sender, a run that is about to commit has an acceptance in hand, the    *)
(* SEND keys are the record, and the rows that are SENT are what is shown. *)
(***************************************************************************)
EXTENDS DeliveryInvariants

InHand  == {j \in JobIds : pc[j] = "commit"}
RowsSent == {r \in Reminders : state[r] = "SENT"}

Ledger == INSTANCE DeliveryLedger WITH
  Senders  <- JobIds,
  Letters  <- Reminders,
  Nothing  <- None,
  carries  <- target,
  hand     <- InHand,
  copies   <- accepted,
  losses   <- lost,
  recorded <- sendKeys,
  shown    <- RowsSent

\* Whatever crashes, failed statements, concurrent jobs, replays and redeliveries
\* do, the code takes no step the ledger does not allow: a job sends again only
\* after a lost acceptance, a send goes on record once and only from an
\* acceptance, and a row is SENT only for what is on record.
LedgerKept == Ledger!Spec
=============================================================================
