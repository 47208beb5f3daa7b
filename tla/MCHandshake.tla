---------------------------- MODULE MCHandshake ----------------------------
(***************************************************************************)
(* Three scenes: two callers behind one address with the same initial       *)
(* sequence number, of which one blocks in connect() and has packets larger *)
(* than the listener's; that one alone, while the minute turns; and two     *)
(* rendezvous sockets of different packet sizes, one of which blocks.       *)
(***************************************************************************)
EXTENDS Handshake

MCAddr   == <<1, 1, 3, 4>>
MCISN    == <<1, 1, 2, 3>>
MCMSS    == <<1, 3, 3, 1>>
MCScenes == {{1, 2}, {2}, Pair}
Lone     == {{2}}
=============================================================================
