------------------------------ MODULE LineEdit ------------------------------
(***************************************************************************)
(* What a terminal line promises: characters are read in the order they    *)
(* were typed, and the line that is not finished can be edited from its    *)
(* end, by characters and by words.                                        *)
(***************************************************************************)
EXTENDS Naturals, Sequences

CONSTANTS Chars, Eol, Room

VARIABLE kept    \* the characters typed and not read

Init == kept = <<>>

Dropped(n) == SubSeq(kept, 1, Len(kept) - n)

Group(c) == CASE c = " " -> "blank" [] c = "/" -> "slash" [] OTHER -> "word"

\* The last n characters are of one kind and of the unfinished line.
Word(n) == \A i \in Len(kept) - n + 1 .. Len(kept) :
             kept[i] # Eol /\ Group(kept[i]) = Group(kept[Len(kept)])

Put(c)    == Len(kept) < Room /\ kept' = Append(kept, c)
Erase     == kept # <<>> /\ Word(1) /\ kept' = Dropped(1)
EraseWord == \E n \in 1 .. Len(kept) :
               Word(n) /\ (n = Len(kept) \/ ~Word(n + 1)) /\ kept' = Dropped(n)
Take(n)   == kept' = SubSeq(kept, n + 1, Len(kept))

Next == \/ \E c \in Chars : Put(c)
        \/ Erase \/ EraseWord
        \/ \E n \in 1 .. Len(kept) : Take(n)

Spec == Init /\ [][Next]_kept
=============================================================================
