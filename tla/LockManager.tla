----------------------------- MODULE LockManager -----------------------------
(***************************************************************************)
(* runtime/LockManager.cpp: one std::shared_mutex per table id, taken      *)
(* shared by readers and exclusive by writers.  lockS and lockX block; an  *)
(* action is enabled when the call can return.  std::shared_mutex promises *)
(* no preference between readers and writers, so neither does this module. *)
(* The guard of a worker holds at most one lock at a time.                 *)
(***************************************************************************)
EXTENDS FiniteSets

CONSTANTS
    Threads,   \* who locks
    Ids        \* what is locked

VARIABLES
    readers,   \* the threads that hold each id shared
    writers    \* the threads that hold each id exclusively

LockTypeOK == /\ readers \in [Ids -> SUBSET Threads]
              /\ writers \in [Ids -> SUBSET Threads]

LockInit == /\ readers = [i \in Ids |-> {}]
            /\ writers = [i \in Ids |-> {}]

lockS(w, i) ==
    /\ writers[i] = {}
    /\ readers' = [readers EXCEPT ![i] = @ \cup {w}]
    /\ UNCHANGED writers

unlockS(w, i) ==
    /\ w \in readers[i]
    /\ readers' = [readers EXCEPT ![i] = @ \ {w}]
    /\ UNCHANGED writers

\* Mutant: a writer waits for nobody.
lockXAtOnce(w, i) ==
    /\ writers' = [writers EXCEPT ![i] = @ \cup {w}]
    /\ UNCHANGED readers

lockX(w, i) ==
    /\ writers[i] = {} /\ readers[i] = {}
    /\ writers' = [writers EXCEPT ![i] = {w}]
    /\ UNCHANGED readers

unlockX(w, i) ==
    /\ w \in writers[i]
    /\ writers' = [writers EXCEPT ![i] = @ \ {w}]
    /\ UNCHANGED readers
=============================================================================
