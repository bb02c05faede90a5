--------------------------- MODULE MCInitReader ---------------------------
(* InitReader for TLC: short lines of all characters, and longer ones of the  *)
(* characters that matter in them.                                            *)
EXTENDS InitReader

CONSTANTS MaxAny, MaxData, MaxTable   \* bounds: characters of a line, behind "D " or "T 1"

Words(chars, n) == UNION {[1 .. k -> chars] : k \in 0 .. n}

AnyLines == Words({"D", "T", "1", "x", Blank, Quote, Backslash}, MaxAny)
DataLines == {<<"D", Blank>> \o w : w \in Words({"1", "x", Blank, Quote, Backslash}, MaxData)}
TableLines == {<<"T", Blank, "1">> \o w : w \in Words({"1", Blank, Quote}, MaxTable)}

IntTable == <<"T", Blank, "1", Blank, "1", Blank, "1">>
IntTextTable == <<"T", Blank, "1", Blank, "1", Blank, "1", Blank, "1", "1", Blank, "1">>
Unknown == <<"T", Blank, "1", Blank, "1", "1", "1", Blank, "1">>
One == <<"D", Blank, "1">>

MCFiles ==
  {<<l>> : l \in AnyLines \union TableLines \union {One, Unknown}}
    \union {<<IntTable, l>> : l \in DataLines \union AnyLines}
    \union {<<IntTextTable, l>> : l \in DataLines}
    \union {<<IntTable, One, IntTextTable, l>> : l \in {One, <<>>, One \o <<Blank, "x">>}}
    \union {<<>>}
=============================================================================
