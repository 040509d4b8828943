---------------------------- MODULE MCCoroutines ----------------------------
(* An async function, a generator and an async generator.                  *)
EXTENDS Coroutines
=============================================================================
