------------------------------ MODULE MCInputStream ------------------------------
(***************************************************************************)
(* The input stream on data of up to MCMaxSize bytes, with every buffer of  *)
(* up to MCMaxBuffer bytes: reads and skips smaller than, as long as and    *)
(* longer than the buffer, up to and beyond the end of the data.            *)
(***************************************************************************)
EXTENDS InputStream

MCMaxSize == 5
MCMaxBuffer == 3
MCMaxAsk == 4

===============================================================================
