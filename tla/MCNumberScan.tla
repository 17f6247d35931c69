---------------------------- MODULE MCNumberScan ----------------------------
(***************************************************************************)
(* Model checking of NumberScan on all texts of at most five characters    *)
(* and all edits of longer tokens.                                         *)
(***************************************************************************)
EXTENDS NumberScan

Alphabet == {"0", "1", "-", "+", ".", "e", "other"}

Tokens == { <<"-", "0", ".", "0", "1", "e", "-", "1">>, <<"1", "0", "1", "e", "+", "1">>,
            <<"-", "0", ".", "0", "e", "1">>, <<"2", ".", "1", "e", "2", "1", "0">> }

Edits(d) ==
  {RemoveAt(d, i) : i \in 1..Len(d)}
    \cup {ReplaceAt(d, i, c) : i \in 1..Len(d), c \in Alphabet}
    \cup {InsertAt(d, i, c) : i \in 1..(Len(d) + 1), c \in Alphabet}

MCInputs == UNION {Edits(d) : d \in Tokens} \cup BoundedSeq(Alphabet, 5)
=============================================================================
