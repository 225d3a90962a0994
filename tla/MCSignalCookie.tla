--------------------------- MODULE MCSignalCookie ---------------------------
EXTENDS SignalCookie, TLC

CONSTANTS h1, h2, s1, s2

MCHandlers == {h1, h2}
MCSessions == {s1, s2}

(* One signal of each class: bad si_code, zero cookie, zero sequence, and  *)
(* one cookie for each epoch, reserved or not.                             *)
MCSignals ==
    {[code |-> FALSE, epoch |-> 1, seq |-> 1], [code |-> TRUE, epoch |-> 0, seq |-> 0],
     [code |-> TRUE, epoch |-> 1, seq |-> 0]}
    \cup {[code |-> TRUE, epoch |-> e, seq |-> 1] : e \in 0..2}

Symmetry == Permutations(MCHandlers) \cup Permutations(MCSessions)
=============================================================================
