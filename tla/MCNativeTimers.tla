--------------------------- MODULE MCNativeTimers ---------------------------
(* TLC instances of NativeTimers.                                          *)
EXTENDS NativeTimers

AllKinds == {"timeout", "interval", "immediate"}
SomeDelays == {2, 3}
=============================================================================
