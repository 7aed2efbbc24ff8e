----------------------------- MODULE MCProtocol -----------------------------
(***************************************************************************)
(* A small instance of Protocol for TLC.                                   *)
(***************************************************************************)
EXTENDS Protocol

CONSTANTS alice, COINBASE     \* words

MCMeetsTarget(h) == h.nonce = h.index % 2

MCPayer == <<Word(alice)>>
MCCoinbase == <<Word(COINBASE)>>
MCNodes == {MCPayer}

X == Char("x")

\* The characters that the parser looks at, alone, repeated, around one another
\* and at the end of other text; the longest of them makes the text of a block
\* end within a transaction of the next one.
MCReceivers ==
    {<<X>>, <<Open>>, <<Close>>, <<Quote>>, <<X, Backslash>>, <<Backslash, Quote>>,
     <<Close, Open>>, <<Open, Close>>, <<Quote, Open>>, <<Backslash, Close>>,
     <<CloseList, CloseList, CloseList>>, <<Close, Open, Open>>,
     <<Close, Close, Open, Open, Open>>, <<OpenList, Comma>>}
=============================================================================
