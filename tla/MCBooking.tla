----------------------------- MODULE MCBooking ------------------------------
(* Values of the constants of Booking for the runs of TLC.                 *)
EXTENDS Booking, TLC

CONSTANTS q1, q2, q3, q4, k1

\* Three tries of one booking with a key, and a request without one.
MCKeyOf == [q \in {q1, q2, q3, q4} |-> IF q = q4 THEN None ELSE k1]
=============================================================================
