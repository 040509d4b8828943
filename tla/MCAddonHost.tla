----------------------------- MODULE MCAddonHost -----------------------------
(* TLC instances of AddonHost.                                             *)
EXTENDS AddonHost
=============================================================================
