----------------------------- MODULE MCBootstrap -----------------------------
(* Values for the constants of Bootstrap that a .cfg cannot write.          *)
EXTENDS Bootstrap

CONSTANTS e1, e2

TwoExecutors == <<e1, e2>>
=============================================================================
