----------------------------- MODULE MCDaemons -----------------------------
(* Two process ids, two registered firmwares and one that is not.            *)
EXTENDS Daemons
=============================================================================
