----------------------------- MODULE MCPromises -----------------------------
(* TLC instances of Promises.                                              *)
EXTENDS Promises

CONSTANTS s1

OneSlot == {s1}
NoSlots == {}

JoinOperations == {"new", "destroy", "chain", "all", "race", "any", "allSettled",
                   "sleep", "waitFd", "refused", "deadline"}
OwnerOperations == {"new", "destroy", "chain", "adopt", "finallyAdopt", "slot"}
ReportOperations == {"new", "await", "blockingAwait", "detach", "detachSlot",
                     "destroy", "retain", "chain", "listen"}
=============================================================================
