--------------------------- MODULE MCConnectionPool ---------------------------
(****************************************************************************)
(* ConnectionPool for TLC.  The constants of the instance are model values: *)
(* two connections for four requests, so that two nested ones can stall the *)
(* pool with two more behind them.                                          *)
(****************************************************************************)
EXTENDS ConnectionPool
==============================================================================
