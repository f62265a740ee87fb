----------------------------- MODULE MCConsole ------------------------------
(* An instance of Console: a screen of five rows of three cells, words of  *)
(* two digits, and texts that wrap, scroll and step back.                  *)
EXTENDS Console

CONSTANTS a

MCPriority == [t \in Threads |-> 0]

MCBootText == <<73, LF, LF, LF>>

MCStrings == {<<97, 98, LF>>, <<99, BS, 100, 101, 102>>}

MCNumbers == {0, 16, 255}

Piece(kind, arg) == [kind |-> kind, arg |-> arg]

MCFormats == {<<Piece(100, 0 - 128)>>, <<Piece(0, 120), Piece(100, 0 - 5), Piece(0, LF)>>,
              <<Piece(120, 0 - 1), Piece(99, 65)>>, <<Piece(115, <<98, 99>>), Piece(120, 31)>>}

MCEchoes == {42}

MCBegin == <<33, LF>>
MCName == <<78>>
MCPageFault == <<LF, 64>>
MCEnd == <<LF, 33, LF>>
=============================================================================
