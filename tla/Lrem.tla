-------------------------------- MODULE Lrem --------------------------------
(***************************************************************************)
(* Removing the elements of a list that are equal to a given one, as the   *)
(* Redis command LREM does with count 0.  It is a recursive function and   *)
(* not SelectSeq, whose definition the proof system does not see.          *)
(***************************************************************************)
EXTENDS Lists

(* What is kept of the first i elements of the list.                       *)
Kept(list, e) ==
    LET kept[i \in 0 .. Len(list)] ==
            IF i = 0 THEN <<>>
            ELSE IF list[i] = e THEN kept[i - 1]
            ELSE Append(kept[i - 1], list[i])
    IN  kept

Without(list, e) == Kept(list, e)[Len(list)]
=============================================================================
