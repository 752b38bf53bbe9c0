------------------------------- MODULE SetOnce -------------------------------
(***************************************************************************)
(* driver/src/set_once.rs: the lock-free cell that holds the module's key  *)
(* pair.  `init` is the atomic state word (0 empty, 1 owned by one thread, *)
(* 2 published) and `value` the storage behind it.  Each method is cut at  *)
(* its atomic operations, so that methods of other threads may run between *)
(* the compare-and-exchange, the plain memory access and the store.        *)
(*                                                                         *)
(* The actions have no guard the code does not have.  `clear` is unsafe:   *)
(* its contract (no reference is out, nobody else uses the cell meanwhile) *)
(* is an assumption of this module's Next, and an obligation of the module *)
(* that instantiates the actions (TarakoModule).                           *)
(*                                                                         *)
(* The Release store of 2 and the Acquire load in as_ref order the plain   *)
(* accesses to `value`, so interleaving single steps is faithful to the    *)
(* memory model the code relies on.                                        *)
(*                                                                         *)
(* A definition named Bug... is the next definition with one plausible     *)
(* coding error in it; no specification uses it.                           *)
(***************************************************************************)
EXTENDS Naturals

CONSTANTS Threads,   \* callers
          Values,    \* what `T` ranges over
          Uninit,    \* storage that was never written, and "no local value"
          Dropped    \* storage after drop_in_place (zeroized)

ASSUME SetOnceAssumption == /\ Uninit \notin Values
                            /\ Dropped \notin Values

VARIABLES init,      \* the state word
          value,     \* the storage
          pc,        \* where each thread is inside a method
          local      \* populate's argument, or what was borrowed

vars == <<init, value, pc, local>>

Init == /\ init = 0
        /\ value = Uninit
        /\ pc = [t \in Threads |-> "idle"]
        /\ local = [t \in Threads |-> Uninit]

-----------------------------------------------------------------------------
(* populate: claim with cmpxchg(0, 1), write, publish with store(2).       *)

BugPopulateClaim(t, v) == /\ pc[t] = "idle"
                          /\ init \in {0, 1}
                          /\ init' = 1
                          /\ pc' = [pc EXCEPT ![t] = "claimed"]
                          /\ local' = [local EXCEPT ![t] = v]
                          /\ UNCHANGED value

PopulateClaim(t, v) == /\ pc[t] = "idle"
                       /\ init = 0
                       /\ init' = 1
                       /\ pc' = [pc EXCEPT ![t] = "claimed"]
                       /\ local' = [local EXCEPT ![t] = v]
                       /\ UNCHANGED value

\* The cmpxchg fails: populate drops its argument and returns false.
PopulateBusy(t) == /\ pc[t] = "idle"
                   /\ init # 0
                   /\ UNCHANGED vars

PopulateWrite(t) == /\ pc[t] = "claimed"
                    /\ value' = local[t]
                    /\ pc' = [pc EXCEPT ![t] = "written"]
                    /\ UNCHANGED <<init, local>>

PopulatePublish(t) == /\ pc[t] = "written"
                      /\ init' = 2
                      /\ pc' = [pc EXCEPT ![t] = "idle"]
                      /\ local' = [local EXCEPT ![t] = Uninit]
                      /\ UNCHANGED value

-----------------------------------------------------------------------------
(* as_ref, and the end of the reference's lifetime.                        *)

BugAsRef(t) == /\ pc[t] = "idle"
               /\ init \in {1, 2}
               /\ pc' = [pc EXCEPT ![t] = "borrowed"]
               /\ local' = [local EXCEPT ![t] = value]
               /\ UNCHANGED <<init, value>>

AsRef(t) == /\ pc[t] = "idle"
            /\ init = 2
            /\ pc' = [pc EXCEPT ![t] = "borrowed"]
            /\ local' = [local EXCEPT ![t] = value]
            /\ UNCHANGED <<init, value>>

AsRefNone(t) == /\ pc[t] = "idle"
                /\ init # 2
                /\ UNCHANGED vars

Release(t) == /\ pc[t] = "borrowed"
              /\ pc' = [pc EXCEPT ![t] = "idle"]
              /\ local' = [local EXCEPT ![t] = Uninit]
              /\ UNCHANGED <<init, value>>

-----------------------------------------------------------------------------
(* clear: own the storage with cmpxchg(2, 1), drop the value, store(0).    *)

ClearClaim(t) == /\ pc[t] = "idle"
                 /\ init = 2
                 /\ init' = 1
                 /\ pc' = [pc EXCEPT ![t] = "clearing"]
                 /\ UNCHANGED <<value, local>>

ClearNothing(t) == /\ pc[t] = "idle"
                   /\ init # 2
                   /\ UNCHANGED vars

ClearDrop(t) == /\ pc[t] = "clearing"
                /\ value' = Dropped
                /\ pc' = [pc EXCEPT ![t] = "dropped"]
                /\ UNCHANGED <<init, local>>

BugClearFinish(t) == /\ pc[t] = "dropped"
                     /\ pc' = [pc EXCEPT ![t] = "idle"]
                     /\ UNCHANGED <<init, value, local>>

ClearFinish(t) == /\ pc[t] = "dropped"
                  /\ init' = 0
                  /\ pc' = [pc EXCEPT ![t] = "idle"]
                  /\ UNCHANGED <<value, local>>

-----------------------------------------------------------------------------
(* Drop for SetOnce, by a thread that owns the cell, and new in its place. *)

\* ... with the value dropped only if a populate is under way.
BugDrop(t) == /\ pc[t] = "idle"
              /\ value' = IF init = 1 THEN Dropped ELSE value
              /\ pc' = [pc EXCEPT ![t] = "gone"]
              /\ UNCHANGED <<init, local>>

Drop(t) == /\ pc[t] = "idle"
           /\ value' = IF init = 2 THEN Dropped ELSE value
           /\ pc' = [pc EXCEPT ![t] = "gone"]
           /\ UNCHANGED <<init, local>>

New(t) == /\ pc[t] = "gone"
          /\ init' = 0
          /\ value' = Uninit
          /\ pc' = [pc EXCEPT ![t] = "idle"]
          /\ UNCHANGED local

-----------------------------------------------------------------------------
(* The cell under arbitrary callers that keep clear's contract; `&mut      *)
(* self` gives drop the same exclusive access.                             *)

Clearing(t) == pc[t] \in {"clearing", "dropped", "gone"}

\* clear's safety contract, set_once.rs:54-56.
MayClear(t) == \A u \in Threads \ {t} : pc[u] = "idle"
MayAccess(t) == \A u \in Threads \ {t} : ~Clearing(u)

Caller(t) ==
    \/ \E v \in Values : MayAccess(t) /\ PopulateClaim(t, v)
    \/ MayAccess(t) /\ PopulateBusy(t)
    \/ PopulateWrite(t)
    \/ PopulatePublish(t)
    \/ MayAccess(t) /\ AsRef(t)
    \/ MayAccess(t) /\ AsRefNone(t)
    \/ Release(t)
    \/ MayClear(t) /\ ClearClaim(t)
    \/ MayClear(t) /\ ClearNothing(t)
    \/ ClearDrop(t)
    \/ ClearFinish(t)
    \/ MayClear(t) /\ Drop(t)
    \/ New(t)

Next == \E t \in Threads : Caller(t)

\* A thread inside populate or clear runs on: neither blocks.
Fairness == \A t \in Threads :
                WF_vars(\/ PopulateWrite(t) \/ PopulatePublish(t)
                        \/ ClearDrop(t) \/ ClearFinish(t))

Spec == Init /\ [][Next]_vars /\ Fairness

-----------------------------------------------------------------------------
(* Properties                                                              *)

Stages == {"idle", "claimed", "written", "borrowed", "clearing", "dropped",
           "gone"}

\* Every variable keeps its type; `value` may also be uninitialised or dropped.
TypeOK == /\ init \in 0..2
          /\ value \in Values \cup {Uninit, Dropped}
          /\ pc \in [Threads -> Stages]
          /\ local \in [Threads -> Values \cup {Uninit, Dropped}]

Owns(t) == pc[t] \in {"claimed", "written", "clearing", "dropped"}

\* The state word 1 is an exclusive lock on the storage: populate and clear
\* never have it together, and whoever has it finds the word still 1
\* (the SAFETY comments of populate and clear).
ExclusiveOwner ==
    /\ \A t, u \in Threads : Owns(t) /\ Owns(u) => t = u
    /\ (\E t \in Threads : Owns(t)) <=> init = 1

\* A reference from as_ref reads an initialised value, the one it was taken
\* on, for as long as it lives: it never sees a half-made populate, a later
\* populate or a clear ("values are never mutated while set").
BorrowStable ==
    \A t \in Threads : pc[t] = "borrowed" =>
        init = 2 /\ value \in Values /\ value = local[t]

\* No value is lost without being dropped (the key pair's limbs are zeroed by
\* its drop): populate writes over no value, and a cell that goes away leaves
\* none behind.
ValuesAreDropped ==
    \A t \in Threads : pc[t] \in {"claimed", "gone"} => value \notin Values

\* The cell as its users see it.
Cell == INSTANCE OnceCell WITH
          Empty <- Uninit,
          cell <- IF init = 2 /\ value # Dropped THEN value ELSE Uninit,
          held <- [t \in Threads |->
                      IF pc[t] = "borrowed" THEN value ELSE Uninit]

\* set_once.rs implements the once-cell: it goes from empty to full to empty,
\* and what is read through a reference changes only when its holder takes or
\* returns it.
ImplementsOnceCell == Cell!Spec

\* The word is never left at 1: a populate or clear in progress ends with the
\* cell published or empty again, so a later populate or as_ref can succeed.
OwnershipEnds == init = 1 ~> init # 1
==============================================================================
