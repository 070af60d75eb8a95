---------------------------- MODULE MCInOrderHost ----------------------------
(* InOrderHost for TLC: two images open side by side.                         *)
EXTENDS InOrderHost, TLC

\* A 10 x 10 animation of three frames, the second with no duration of its own,
\* and a 10 x 10 still.
MCImages == {[w |-> 10, h |-> 10, animated |-> TRUE, durations |-> <<70, 0, 40>>],
             [w |-> 10, h |-> 10, animated |-> FALSE, durations |-> <<0>>]}

\* Full size and one scaled size.
MCRequests == {<<0, 0>>, <<5, 5>>}

\* One page more than any image has.
MCPages == 0..3

\* Handles and animation decoders are interchangeable addresses.
Symmetry == Permutations(Handles) \cup Permutations(AnimPtrs)
=============================================================================
