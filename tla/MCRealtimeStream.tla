--------------------------- MODULE MCRealtimeStream ---------------------------
(***************************************************************************)
(* Instances of RealtimeStream for TLC.  The bounds are constants of the   *)
(* module itself, so the cfg files only give them values:                  *)
(*   RealtimeStream.cfg        a channel no publication overflows          *)
(*   RealtimeStreamLive.cfg    progress, without failures, over a channel  *)
(*                             of one slot and a sync in two statements    *)
(*   RealtimeStreamLag.cfg     a channel of one slot                       *)
(*   RealtimeStreamTorn.cfg    sync in two statements, as on PostgreSQL    *)
(*   RealtimeStreamStall.cfg   one failed decryption                       *)
(***************************************************************************)
EXTENDS RealtimeStream
===============================================================================
