---------------------------- MODULE SetOnceProofs ----------------------------
(***************************************************************************)
(* Proofs about SetOnce (driver/src/set_once.rs), for any set of threads   *)
(* and of values: the state word is a lock, references are stable, and the *)
(* cell implements OnceCell.                                               *)
(***************************************************************************)
EXTENDS SetOnce, TLAPS

\* What the owner of the word 1 finds, and what a published word means.
Owner ==
    /\ init = 2 => value \in Values \/ \E t \in Threads : pc[t] = "gone"
    /\ init = 0 => value \notin Values
    /\ \A t \in Threads :
         pc[t] \in {"claimed", "written"} => local[t] \in Values
    /\ \A t \in Threads : pc[t] = "written" => value = local[t]
    /\ \A t, u \in Threads : Owns(t) /\ Owns(u) => t = u
    /\ \A t \in Threads : Owns(t) => init = 1
    /\ init = 1 => \E t \in Threads : Owns(t)
    /\ \A t \in Threads : pc[t] = "dropped" => value \notin Values
    /\ \A t \in Threads :
         pc[t] = "gone" => \A u \in Threads \ {t} : pc[u] = "idle"

\* The inductive invariant.
IInv == TypeOK /\ Owner /\ BorrowStable /\ ValuesAreDropped

\* The initial state satisfies the inductive invariant.
LEMMA InitIInv == Init => IInv
  BY SetOnceAssumption, SMTT(20)
     DEF Init, IInv, TypeOK, Stages, Owner, Owns, BorrowStable,
         ValuesAreDropped

\* Every atomic step of every method preserves the inductive invariant, as
\* long as clear's callers keep its contract.
LEMMA CallerIInv ==
    ASSUME IInv, NEW t \in Threads, Caller(t)
    PROVE  IInv'
<1> USE SetOnceAssumption
    DEF IInv, TypeOK, Stages, Owner, Owns, BorrowStable,
        ValuesAreDropped, MayAccess, MayClear, Clearing
<1>1. ASSUME NEW v \in Values, MayAccess(t), PopulateClaim(t, v) PROVE IInv'
  BY <1>1 DEF PopulateClaim
<1>2. CASE PopulateBusy(t) \/ AsRefNone(t) \/ ClearNothing(t)
  BY <1>2 DEF PopulateBusy, AsRefNone, ClearNothing, vars
<1>3. CASE PopulateWrite(t)
  BY <1>3 DEF PopulateWrite
<1>4. CASE PopulatePublish(t)
  BY <1>4 DEF PopulatePublish
<1>5. CASE MayAccess(t) /\ AsRef(t)
  BY <1>5 DEF AsRef
<1>6. CASE Release(t)
  BY <1>6 DEF Release
<1>7. CASE MayClear(t) /\ ClearClaim(t)
  BY <1>7 DEF ClearClaim
<1>8. CASE ClearDrop(t)
  BY <1>8 DEF ClearDrop
<1>9. CASE ClearFinish(t)
  BY <1>9 DEF ClearFinish
<1>10. CASE MayClear(t) /\ Drop(t)
  BY <1>10 DEF Drop
<1>11. CASE New(t)
  BY <1>11 DEF New
<1> QED
  BY <1>1, <1>2, <1>3, <1>4, <1>5, <1>6, <1>7, <1>8, <1>9, <1>10, <1>11
  DEF Caller

\* Every step, and stuttering, preserves the inductive invariant.
LEMMA NextIInv == IInv /\ [Next]_vars => IInv'
<1> SUFFICES ASSUME IInv, [Next]_vars PROVE IInv'
  OBVIOUS
<1>1. CASE Next
  BY <1>1, CallerIInv DEF Next
<1>2. CASE UNCHANGED vars
  BY <1>2 DEF vars, IInv, TypeOK, Owner, Owns, BorrowStable, ValuesAreDropped
<1> QED BY <1>1, <1>2

\* The inductive invariant holds of every execution.
THEOREM Invariance == Spec => []IInv
  BY InitIInv, NextIInv, PTL DEF Spec

\* ExclusiveOwner: cmpxchg to 1 is a lock on the storage, for any number of
\* threads in populate and clear (set_once.rs:40-41, 59-60).
THEOREM WordIsALock == Spec => []ExclusiveOwner
<1>1. IInv => ExclusiveOwner
  BY DEF IInv, Owner, ExclusiveOwner
<1> QED BY <1>1, Invariance, PTL

\* BorrowStable: a reference from as_ref reads one initialised value for all
\* its life (set_once.rs:30-31).
THEOREM BorrowsAreStable == Spec => []BorrowStable
<1>1. IInv => BorrowStable
  BY DEF IInv
<1> QED BY <1>1, Invariance, PTL

\* ValuesAreDropped: no value leaves the cell undropped, neither under a later
\* populate nor with the cell itself (set_once.rs:60-62, 67-76).
THEOREM NoValueIsLost == Spec => []ValuesAreDropped
<1>1. IInv => ValuesAreDropped
  BY SMTT(20) DEF IInv
<1> QED BY <1>1, Invariance, PTL

-----------------------------------------------------------------------------
(* SetOnce implements OnceCell.                                            *)

\* A published populate is Set, a claimed clear is Reset, as_ref is Borrow
\* and the end of a reference's life is Return; no other step shows.
LEMMA CallerImplements ==
    ASSUME IInv, NEW t \in Threads, Caller(t)
    PROVE  [Cell!Next]_(Cell!vars)
<1> USE SetOnceAssumption DEF IInv, TypeOK, Cell!vars
<1>1. ASSUME NEW v \in Values, PopulateClaim(t, v)
      PROVE  UNCHANGED Cell!vars
  BY <1>1 DEF PopulateClaim
<1>2. CASE PopulateBusy(t) \/ AsRefNone(t) \/ ClearNothing(t)
  BY <1>2 DEF PopulateBusy, AsRefNone, ClearNothing, vars
<1>3. CASE PopulateWrite(t)
  <2>1. init = 1 /\ \A u \in Threads : pc[u] # "borrowed"
    BY <1>3 DEF PopulateWrite, Owner, Owns, BorrowStable
  <2> QED BY <1>3, <2>1 DEF PopulateWrite
<1>4. CASE PopulatePublish(t)
  <2>1. init = 1 /\ value \in Values
    BY <1>4 DEF PopulatePublish, Owner, Owns
  <2>2. Cell!Set(value)
    BY <1>4, <2>1 DEF PopulatePublish, Cell!Set
  <2> QED BY <2>1, <2>2 DEF Cell!Next
<1>5. CASE MayAccess(t) /\ AsRef(t)
  <2>1. value \in Values
    BY <1>5 DEF AsRef, Owner, MayAccess, Clearing
  <2>2. Cell!Borrow(t)
    BY <1>5, <2>1, Zenon DEF AsRef, Cell!Borrow
  <2> QED BY <2>2 DEF Cell!Next
<1>6. CASE Release(t)
  <2>1. init = 2 /\ value \in Values
    BY <1>6 DEF Release, BorrowStable
  <2>2. Cell!Return(t)
    BY <1>6, <2>1, Zenon DEF Release, Cell!Return
  <2> QED BY <2>2 DEF Cell!Next
<1>7. CASE MayClear(t) /\ ClearClaim(t)
  <2>1. value \in Values /\ \A u \in Threads : pc[u] # "borrowed"
    BY <1>7 DEF MayClear, ClearClaim, Owner
  <2>2. Cell!Reset
    BY <1>7, <2>1 DEF ClearClaim, Cell!Reset
  <2> QED BY <2>2 DEF Cell!Next
<1>8. CASE ClearDrop(t)
  <2>1. init = 1 /\ \A u \in Threads : pc[u] # "borrowed"
    BY <1>8 DEF ClearDrop, Owner, Owns, BorrowStable
  <2> QED BY <1>8, <2>1 DEF ClearDrop
<1>9. CASE ClearFinish(t)
  <2>1. init = 1 /\ \A u \in Threads : pc[u] # "borrowed"
    BY <1>9 DEF ClearFinish, Owner, Owns, BorrowStable
  <2> QED BY <1>9, <2>1 DEF ClearFinish
<1>10. CASE MayClear(t) /\ Drop(t)
  <2>1. \A u \in Threads : pc[u] = "idle"
    BY <1>10 DEF MayClear, Drop
  <2>2. CASE init = 2
    <3>1. value \in Values
      BY <2>1, <2>2 DEF Owner
    <3>2. Cell!Reset
      BY <1>10, <2>1, <2>2, <3>1 DEF Drop, Cell!Reset
    <3> QED BY <3>2 DEF Cell!Next
  <2>3. CASE init # 2
    BY <1>10, <2>1, <2>3 DEF Drop
  <2> QED BY <2>2, <2>3
<1>11. CASE New(t)
  <2>1. \A u \in Threads : pc[u] # "borrowed"
    BY <1>11 DEF New, Owner
  <2>2. value \in {Uninit, Dropped}
    BY <1>11 DEF New, ValuesAreDropped
  <2> QED BY <1>11, <2>1, <2>2 DEF New
<1> QED
  BY <1>1, <1>2, <1>3, <1>4, <1>5, <1>6, <1>7, <1>8, <1>9, <1>10, <1>11
  DEF Caller

\* ImplementsOnceCell: set_once.rs is a once-cell for any set of threads.
THEOREM CellImplementsOnceCell == Spec => ImplementsOnceCell
<1>1. Init => Cell!Init
  BY DEF Init, Cell!Init
<1>2. IInv /\ [Next]_vars => [Cell!Next]_(Cell!vars)
  <2> SUFFICES ASSUME IInv, [Next]_vars PROVE [Cell!Next]_(Cell!vars)
    OBVIOUS
  <2>1. CASE Next
    BY <2>1, CallerImplements DEF Next
  <2>2. CASE UNCHANGED vars
    BY <2>2 DEF vars, Cell!vars
  <2> QED BY <2>1, <2>2
<1> QED
  BY <1>1, <1>2, Invariance, PTL DEF Spec, ImplementsOnceCell, Cell!Spec
==============================================================================
