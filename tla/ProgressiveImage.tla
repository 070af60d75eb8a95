------------------------- MODULE ProgressiveImage -------------------------
(* What the incremental decoder promises (decode.h:247-383): a picture that *)
(* comes into view while its file comes in, however the file is cut.        *)
EXTENDS Naturals

VARIABLES size,     \* bytes of the file
          height,   \* rows of the picture
          given,    \* bytes handed in so far
          rows,     \* rows that can be shown
          outcome   \* what the last call said

vars == <<size, height, given, rows, outcome>>

Init == /\ size \in Nat \ {0} /\ height \in Nat \ {0}
        /\ given = 0 /\ rows = 0 /\ outcome = "none"

Quiet == outcome \in {"none", "SUSPENDED", "refused"}

(* More of the file: "OK when the image is successfully decoded, SUSPENDED  *)
(* when more data is expected, error in other cases".  More data is only    *)
(* expected while there is more, and rows that were shown stay.             *)
Feed == /\ Quiet
        /\ given' \in given..size
        /\ rows' \in rows..height
        /\ outcome' \in {"SUSPENDED", "OK", "error"}
        /\ outcome' = "OK" => rows' = height
        /\ outcome' = "SUSPENDED" => given' < size
        /\ UNCHANGED <<size, height>>

(* Nothing was taken, nothing was done.                                     *)
Refuse == /\ Quiet /\ outcome' = "refused"
          /\ UNCHANGED <<size, height, given, rows>>

(* Once it has ended, the decoder says so again.                            *)
Repeat == /\ outcome \in {"OK", "error"} /\ UNCHANGED vars

Drop == /\ given' = 0 /\ rows' = 0 /\ outcome' = "none"
        /\ UNCHANGED <<size, height>>

Next == Feed \/ Refuse \/ Repeat \/ Drop

Spec == Init /\ [][Next]_vars
=============================================================================
