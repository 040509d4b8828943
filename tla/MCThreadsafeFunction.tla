------------------------ MODULE MCThreadsafeFunction ------------------------
(* TLC instances of ThreadsafeFunction.                                    *)
EXTENDS ThreadsafeFunction

CONSTANTS h, p, q

MCOwners == {h, p, q}
MCHostOwners == {h}

=============================================================================
