----------------------------- MODULE MCUploads -----------------------------
(* Instances of Uploads: one connection with two channels, or two          *)
(* connections of one user with a channel each.                            *)
EXTENDS Uploads, TLC

CONSTANTS c1, c2, h1, h2, x1

OneConn  == (h1 :> c1) @@ (h2 :> c1)
SameUser == (c1 :> x1) @@ (c2 :> x1)
=============================================================================
