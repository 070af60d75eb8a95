----------------------------- MODULE MCWebPlugin -----------------------------
(* WebPlugin under an arbitrary host, for TLC.                                *)
EXTENDS WebPlugin, TLC

\* A 10 x 10 animation of two frames, the first with no duration of its own, and
\* a 10 x 10 still.
MCImages == {[w |-> 10, h |-> 10, animated |-> TRUE, durations |-> <<0, 40>>],
             [w |-> 10, h |-> 10, animated |-> FALSE, durations |-> <<0>>]}

\* An enlarging size, and two sizes below 55% of the area that share a width.
MCRequests == {<<20, 10>>, <<5, 5>>, <<5, 10>>}

MCPages == {0, 1, 2}

\* Handles and animation decoders are interchangeable addresses.
Symmetry == Permutations(Handles) \cup Permutations(AnimPtrs)
=============================================================================
