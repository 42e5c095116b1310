--------------------------- MODULE MCTxBuffering ----------------------------
(* One station: what stations share, the bus and the thread kmsgbk, is      *)
(* filled as well by the frames and the indications of one.                 *)
EXTENDS TxBuffering

CONSTANT c1
OneClient == {c1}
=============================================================================
