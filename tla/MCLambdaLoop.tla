----------------------------- MODULE MCLambdaLoop -----------------------------
(* TLC instances of LambdaLoop.                                            *)
EXTENDS LambdaLoop

AllSources == {"timer", "native", "fd"}
NativeTimers == {"native"}
===============================================================================
