---------------------------- MODULE BusHandleProofs ---------------------------
(***************************************************************************)
(* Proofs about BusHandle, for every finite set of clones, on both kinds of *)
(* runtime.                                                                 *)
(***************************************************************************)
EXTENDS BusHandle, FiniteSetTheorems, TLAPS

IInv == TypeOK /\ RefsAreHolders /\ NotifiedLast

LEMMA HoldersFinite == IsFiniteSet(Holders) /\ Cardinality(Holders) \in Nat
<1>1. IsFiniteSet(Holders)
  BY BusConstants, FS_Subset DEF Holders
<1> QED
  BY <1>1, FS_CardinalityType

(* Arc::get_mut succeeds only for the one clone left.                       *)
LEMMA SoleHolder ==
  ASSUME RefsAreHolders, SoleRef, NEW b \in Holders
  PROVE  Holders = {b}
<1>1. \E h : Holders = {h}
  BY HoldersFinite, FS_Singleton DEF RefsAreHolders, SoleRef
<1> QED
  BY <1>1

LEMMA InitInv == Init => IInv
<1> SUFFICES ASSUME Init PROVE IInv
  OBVIOUS
<1>1. TypeOK /\ NotifiedLast
  BY BusConstants DEF Init, N!Init, TypeOK, N!TypeOK, NotifiedLast
<1>2. Holders = {First}
  BY BusConstants DEF Init, Holders
<1>3. RefsAreHolders
  BY <1>2, FS_Singleton DEF Init, RefsAreHolders
<1> QED
  BY <1>1, <1>3 DEF IInv

-----------------------------------------------------------------------------
LEMMA CloneInv ==
  ASSUME IInv, NEW b \in Buses, NEW c \in Buses, Clone(b, c)
  PROVE  IInv'
<1>1. c \notin Holders /\ Holders' = Holders \cup {c}
  BY DEF IInv, TypeOK, Clone, Holders
<1>2. Cardinality(Holders') = Cardinality(Holders) + 1
  BY <1>1, HoldersFinite, FS_AddElement
<1>3. RefsAreHolders'
  BY <1>2 DEF IInv, RefsAreHolders, Clone
<1>4. TypeOK'
  BY DEF IInv, TypeOK, N!TypeOK, Clone
<1>5. NotifiedLast'
  BY DEF IInv, TypeOK, NotifiedLast, Clone
<1> QED
  BY <1>3, <1>4, <1>5 DEF IInv

(* Steps that keep the set of holders, hence the count.                     *)
LEMMA SameHolders ==
  ASSUME RefsAreHolders, Holders' = Holders, UNCHANGED refs
  PROVE  RefsAreHolders'
BY DEF RefsAreHolders

LEMMA DiscardInv ==
  ASSUME IInv, NEW b \in Buses, Discard(b)
  PROVE  IInv'
<1>1. bus[b] = "live" /\ bus' = [bus EXCEPT ![b] = "dropping"]
      /\ UNCHANGED refs
      /\ (UNCHANGED future \/ N!Notified(b))
      /\ closers' \in {closers, closers \cup {b}}
  BY DEF Discard, DropBus, Drain, Close, At
<1>2. Holders' = Holders
  BY <1>1 DEF IInv, TypeOK, Holders
<1>3. TypeOK'
  BY <1>1 DEF IInv, TypeOK, N!TypeOK, N!Notified
<1>4. NotifiedLast'
  BY <1>1 DEF IInv, TypeOK, N!TypeOK, NotifiedLast, N!Notified
<1> QED
  BY <1>1, <1>2, <1>3, <1>4, SameHolders DEF IInv

(* The check that notifies finds no clone left but its own.                 *)
LEMMA DropCheckInv ==
  ASSUME IInv, NEW b \in Buses, DropCheck(b)
  PROVE  IInv'
<1>1. bus[b] = "dropping" /\ bus' = [bus EXCEPT ![b] = "releasing"]
  BY DEF DropCheck, At
<1>2. Holders' = Holders
  BY <1>1 DEF IInv, TypeOK, Holders
<1>3. TypeOK'
  BY <1>1 DEF IInv, TypeOK, N!TypeOK, DropCheck, N!NotifyWaiters
<1>4. NotifiedLast'
  <2>1. CASE SoleRef
    <3>1. Holders = {b}
      BY <1>1, <2>1, SoleHolder DEF IInv, Holders
    <3>2. \A c \in Buses : bus'[c] \notin {"live", "dropping"}
      BY <1>1, <3>1 DEF IInv, TypeOK, Holders
    <3> QED
      BY <3>2 DEF NotifiedLast
  <2>2. CASE ~SoleRef
    BY <1>1, <2>2 DEF IInv, TypeOK, NotifiedLast, DropCheck
  <2> QED
    BY <2>1, <2>2
<1>5. RefsAreHolders'
  BY <1>2, SameHolders DEF IInv, DropCheck
<1> QED
  BY <1>3, <1>4, <1>5 DEF IInv

LEMMA ReleaseInv ==
  ASSUME IInv, NEW b \in Buses, Release(b)
  PROVE  IInv'
<1>1. b \in Holders /\ Holders' = Holders \ {b}
  BY DEF IInv, TypeOK, Release, At, Holders
<1>2. Cardinality(Holders') = Cardinality(Holders) - 1
  BY <1>1, HoldersFinite, FS_RemoveElement
<1>3. Cardinality(Holders') \in Nat
  BY <1>1, HoldersFinite, FS_RemoveElement, FS_CardinalityType
<1>4. RefsAreHolders'
  BY <1>2 DEF IInv, RefsAreHolders, Release
<1>5. TypeOK'
  BY <1>3, <1>4 DEF IInv, TypeOK, N!TypeOK, RefsAreHolders, Release, At
<1>6. NotifiedLast'
  BY DEF IInv, TypeOK, NotifiedLast, Release, At
<1> QED
  BY <1>4, <1>5, <1>6 DEF IInv

LEMMA WaitInv ==
  ASSUME IInv, NEW b \in Buses, WaitReturns(b) \/ DrainReturns(b) \/ Abandon(b)
  PROVE  IInv'
<1>1. Holders' = Holders /\ UNCHANGED refs
  BY DEF IInv, TypeOK, WaitReturns, DrainReturns, Abandon, At, Holders
<1>2. TypeOK'
  BY DEF IInv, TypeOK, N!TypeOK, WaitReturns, DrainReturns, Abandon, At, N!Forget
<1>3. NotifiedLast'
  BY DEF IInv, TypeOK, N!TypeOK, NotifiedLast, WaitReturns, DrainReturns, Abandon, At,
         N!Forget, N!Ready
<1> QED
  BY <1>1, <1>2, <1>3, SameHolders DEF IInv

-----------------------------------------------------------------------------
LEMMA StepInv == IInv /\ [Next]_vars => IInv'
<1> SUFFICES ASSUME IInv, [Next]_vars PROVE IInv'
  OBVIOUS
<1>1. ASSUME NEW b \in Buses, BusStep(b) PROVE IInv'
  BY <1>1, DropCheckInv, ReleaseInv, WaitInv DEF BusStep
<1>2. ASSUME NEW b \in Buses, Discard(b) \/ Abandon(b) PROVE IInv'
  BY <1>2, DiscardInv, WaitInv
<1>3. ASSUME NEW b \in Buses, NEW c \in Buses, Clone(b, c) PROVE IInv'
  BY <1>3, CloneInv
<1>4. CASE UNCHANGED vars
  BY <1>4 DEF IInv, TypeOK, N!TypeOK, RefsAreHolders, NotifiedLast, Holders, vars
<1> QED
  BY <1>1, <1>2, <1>3, <1>4 DEF Next

LEMMA Invariant == Spec => []IInv
BY InitInv, StepInv, PTL DEF Spec

(* From the notification on, nobody is left to use the bus (bus.rs:226-229). *)
THEOREM NotifiedByLast == Spec => []NotifiedLast
<1>1. IInv => NotifiedLast
  BY DEF IInv
<1> QED
  BY <1>1, Invariant, PTL

(* Type correctness; the strong count never goes below zero.                *)
THEOREM TypeCorrect == Spec => []TypeOK
<1>1. IInv => TypeOK
  BY DEF IInv
<1> QED
  BY <1>1, Invariant, PTL

(* However many clones there are, and however their drops interleave, a     *)
(* drain returns only when every clone is past the check in its Drop        *)
(* (bus.rs:158-174, 222-231).                                               *)
THEOREM DrainIsLast == Spec => []DrainAfterLastDrop
<1>1. IInv => DrainAfterLastDrop
  BY DEF IInv, NotifiedLast, DrainAfterLastDrop
<1> QED
  BY <1>1, Invariant, PTL

-----------------------------------------------------------------------------
(* The notification is not lost *)

\* The clone that is about to release the last reference has notified.
LastHasNotified ==
  \A c \in Buses : bus[c] = "releasing" /\ refs = 1 => \A b \in Buses : future[b] # "armed"

NotifyInv == IInv /\ LastHasNotified /\ NoLostNotify

(* A clone that is made leaves two of them.                                 *)
LEMMA CloneNotify ==
  ASSUME NotifyInv, IInv', NEW b \in Buses, NEW c \in Buses, Clone(b, c)
  PROVE  NotifyInv'
<1>1. /\ bus[b] = "live" /\ bus[c] = "unborn" /\ bus' = [bus EXCEPT ![c] = "live"]
      /\ refs' = refs + 1 /\ UNCHANGED future
  BY DEF Clone
<1>2. b \in Holders /\ b \in Holders'
  BY <1>1 DEF NotifyInv, IInv, TypeOK, Holders
<1>3. refs' # 1
  <2>1. refs \in Nat /\ refs # 0
    BY <1>2, HoldersFinite, FS_EmptySet DEF NotifyInv, IInv, TypeOK, RefsAreHolders
  <2> QED
    BY <1>1, <2>1
<1> QED
  BY <1>2, <1>3 DEF NotifyInv, LastHasNotified, NoLostNotify

LEMMA DiscardNotify ==
  ASSUME NotifyInv, IInv', DropsApart', NEW b \in Buses, Discard(b)
  PROVE  NotifyInv'
<1>1. bus[b] = "live" /\ bus' = [bus EXCEPT ![b] = "dropping"]
  BY DEF Discard, DropBus, Drain, Close, At
<1>2. bus'[b] = "dropping"
  BY <1>1 DEF NotifyInv, IInv, TypeOK
<1>3. LastHasNotified'
  BY <1>2 DEF DropsApart, LastHasNotified
<1>4. NoLostNotify'
  BY <1>2 DEF NoLostNotify, Holders
<1> QED
  BY <1>3, <1>4 DEF NotifyInv

(* The check finds one reference, and notifies, or another clone is there.  *)
LEMMA DropCheckNotify ==
  ASSUME NotifyInv, IInv', DropsApart, NEW b \in Buses, DropCheck(b)
  PROVE  NotifyInv'
<1>1. bus[b] = "dropping" /\ bus' = [bus EXCEPT ![b] = "releasing"] /\ UNCHANGED refs
  BY DEF DropCheck, At
<1>2. bus'[b] = "releasing"
  BY <1>1 DEF NotifyInv, IInv, TypeOK
<1>3. LastHasNotified'
  <2>1. CASE refs = 1
    <3>1. future' = [c \in Buses |-> IF future[c] = "armed" THEN "fired" ELSE future[c]]
      BY <2>1 DEF DropCheck, SoleRef, N!NotifyWaiters
    <3> QED
      BY <3>1 DEF LastHasNotified
  <2>2. CASE refs # 1
    BY <1>1, <2>2 DEF LastHasNotified
  <2> QED
    BY <2>1, <2>2
<1>4. NoLostNotify'
  BY <1>2 DEF NoLostNotify, Holders
<1> QED
  BY <1>3, <1>4 DEF NotifyInv

(* A release that leaves no clone was the last, and has notified; one that  *)
(* leaves one clone leaves it before its own drop.                          *)
LEMMA ReleaseNotify ==
  ASSUME NotifyInv, IInv', DropsApart, NEW b \in Buses, Release(b)
  PROVE  NotifyInv'
<1>1. /\ bus[b] = "releasing" /\ UNCHANGED future /\ refs' = refs - 1
      /\ \E to \in {"waiting", "gone"} : bus' = [bus EXCEPT ![b] = to]
  BY DEF Release, At
<1>2. \A c \in Buses : bus'[c] # "releasing"
  BY <1>1 DEF DropsApart, NotifyInv, IInv, TypeOK
<1>3. LastHasNotified'
  BY <1>2 DEF LastHasNotified
<1>4. NoLostNotify'
  <2>1. CASE refs = 1
    BY <1>1, <2>1 DEF NotifyInv, LastHasNotified, NoLostNotify
  <2>2. CASE refs # 1
    <3>1. Holders # {b}
      BY <2>2, FS_Singleton DEF NotifyInv, IInv, RefsAreHolders
    <3>2. PICK c \in Holders : c # b
      BY <1>1, <3>1 DEF Holders
    <3>3. c \in Holders'
      BY <1>1, <3>2 DEF NotifyInv, IInv, TypeOK, Holders
    <3> QED
      BY <3>3 DEF NoLostNotify
  <2> QED
    BY <2>1, <2>2
<1> QED
  BY <1>3, <1>4 DEF NotifyInv

LEMMA WaitNotify ==
  ASSUME NotifyInv, IInv', NEW b \in Buses, WaitReturns(b) \/ DrainReturns(b) \/ Abandon(b)
  PROVE  NotifyInv'
<1>1. /\ bus[b] \in {"waiting", "awaiting"} /\ UNCHANGED refs
      /\ \E to \in {"awaiting", "drained", "abandoned"} : bus' = [bus EXCEPT ![b] = to]
      /\ UNCHANGED future \/ future' = [future EXCEPT ![b] = "none"]
  BY DEF WaitReturns, DrainReturns, Abandon, At, N!Forget
<1>2. /\ Holders' = Holders
      /\ \A c \in Buses : bus'[c] = "releasing" => bus[c] = "releasing"
      /\ \A c \in Buses : future'[c] = "armed" => future[c] = "armed"
  BY <1>1 DEF NotifyInv, IInv, TypeOK, N!TypeOK, Holders
<1> QED
  BY <1>1, <1>2 DEF NotifyInv, LastHasNotified, NoLostNotify

LEMMA NotifyStep ==
  ASSUME NotifyInv, DropsApart, DropsApart', [Next]_vars
  PROVE  NotifyInv'
<1>1. IInv'
  BY StepInv DEF NotifyInv
<1>2. ASSUME NEW b \in Buses, BusStep(b) PROVE NotifyInv'
  BY <1>1, <1>2, DropCheckNotify, ReleaseNotify, WaitNotify DEF BusStep
<1>3. ASSUME NEW b \in Buses, Discard(b) \/ Abandon(b) PROVE NotifyInv'
  BY <1>1, <1>3, DiscardNotify, WaitNotify
<1>4. ASSUME NEW b \in Buses, NEW c \in Buses, Clone(b, c) PROVE NotifyInv'
  BY <1>1, <1>4, CloneNotify
<1>5. CASE UNCHANGED vars
  BY <1>1, <1>5 DEF vars, NotifyInv, LastHasNotified, NoLostNotify, Holders
<1> QED
  BY <1>2, <1>3, <1>4, <1>5 DEF Next

LEMMA NotifyInit == Init => NotifyInv /\ DropsApart
<1>1. Init => LastHasNotified /\ NoLostNotify /\ DropsApart
  BY BusConstants DEF Init, N!Init, LastHasNotified, NoLostNotify, DropsApart
<1> QED
  BY <1>1, InitInv DEF NotifyInv

\* On a current-thread runtime the drops take turns.
LEMMA TurnsStep ==
  ASSUME ~Parallel, IInv, DropsApart, [Next]_vars
  PROVE  DropsApart'
<1>1. ASSUME NEW b \in Buses, Turn(b), NEW to, bus' = [bus EXCEPT ![b] = to] PROVE DropsApart'
  BY <1>1 DEF Turn, DropsApart, IInv, TypeOK
<1>2. ASSUME NEW b \in Buses, BusStep(b) \/ Discard(b) \/ Abandon(b) PROVE DropsApart'
  <2>1. Turn(b) /\ \E to : bus' = [bus EXCEPT ![b] = to]
    BY <1>2 DEF BusStep, DropCheck, Release, WaitReturns, DrainReturns, Discard, DropBus, Drain,
      Close, Abandon, At
  <2> QED
    BY <1>1, <2>1
<1>3. ASSUME NEW b \in Buses, NEW c \in Buses, Clone(b, c) PROVE DropsApart'
  BY <1>3 DEF Clone, DropsApart, IInv, TypeOK
<1>4. CASE UNCHANGED vars
  BY <1>4 DEF vars, DropsApart
<1> QED
  BY <1>2, <1>3, <1>4 DEF Next

(* The only way to lose the notification of a drain is that two drops       *)
(* overlap between the check and the release (bus.rs:226): as long as none  *)
(* do, a drain that waits for it has a clone to wait for, on any runtime.   *)
THEOREM LostOnlyByOverlap == Spec /\ []DropsApart => []NoLostNotify
<1>1. NotifyInv => NoLostNotify
  BY DEF NotifyInv
<1>2. NotifyInv /\ DropsApart /\ DropsApart' /\ [Next]_vars => NotifyInv'
  BY NotifyStep
<1>3. Init => NotifyInv
  BY NotifyInit
<1> QED
  BY <1>1, <1>2, <1>3, PTL DEF Spec

(* None overlap on a current-thread runtime: no drain is left waiting for   *)
(* clones that are gone (bus.rs:222-231).                                   *)
THEOREM NotifyNotLost ==
  ASSUME ~Parallel
  PROVE  Spec => []NoLostNotify
<1>1. IInv /\ DropsApart /\ [Next]_vars => DropsApart'
  BY TurnsStep
<1>2. Init => DropsApart
  BY NotifyInit
<1>3. Spec => []DropsApart
  BY <1>1, <1>2, Invariant, PTL DEF Spec
<1> QED
  BY <1>3, LostOnlyByOverlap, PTL
===============================================================================
