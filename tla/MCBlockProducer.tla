--------------------------- MODULE MCBlockProducer ---------------------------
(***************************************************************************)
(* Small networks for BlockProducer.                                       *)
(***************************************************************************)
EXTENDS BlockProducer

\* three nodes, connected pairwise
Triangle == {<<1, 2>>, <<3, 1>>, <<2, 3>>}

\* four nodes, connected pairwise
Square == Triangle \cup {<<4, 1>>, <<2, 4>>, <<4, 3>>}

\* 1 and 2 may dial each other at the same time; 3 knows 2 alone
DoubleDial == {<<1, 2>>, <<2, 1>>, <<3, 2>>}
=============================================================================
