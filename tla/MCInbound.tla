----------------------------- MODULE MCInbound ------------------------------
(* Values of the constants of Inbound for the runs of TLC.                 *)
EXTENDS Inbound, TLC

CONSTANTS h1, h2, h3, h4, h5, m1, m2, m3, m4, ann, bob, eve, e1, e2, e3

\* m1 is delivered twice.
MCMessageOf == [h \in {h1, h2, h3, h4, h5} |->
  CASE h \in {h1, h2} -> m1 [] h = h3 -> m2 [] h = h4 -> m3 [] OTHER -> m4]

\* Ann confirms, cancels and makes small talk; Eve, whom nobody books for, says NO.
MCSender  == [m \in {m1, m2, m3, m4} |-> IF m = m4 THEN eve ELSE ann]
MCMeaning == [m \in {m1, m2, m3, m4} |->
  CASE m = m1 -> "CONFIRMED" [] m = m3 -> "unrecognized" [] OTHER -> "CANCELLED"]

\* Ann has two appointments, Bob one, the earliest of the three.
MCOwner    == [e \in {e1, e2, e3} |-> IF e = e3 THEN bob ELSE ann]
MCStartsAt == [e \in {e1, e2, e3} |-> CASE e = e1 -> 2 [] e = e2 -> 3 [] OTHER -> 1]
=============================================================================
